----------------------------- MODULE SessionLedger -----------------------------
(***************************************************************************)
(* What the identity API promises to those who hold, check or revoke a     *)
(* session token: tokens are issued one at a time, each under an id of its *)
(* own; a session is entered once, under the id and agent of a token that  *)
(* is already out and does not outlive it, and on a nonce that no other    *)
(* session used; an entry never leaves the book and only its revocation    *)
(* ever changes, once.                                                     *)
(* A token need not ever get its session: the commit comes after the       *)
(* response and may fail.                                                  *)
(***************************************************************************)
EXTENDS Integers

VARIABLES
  book,      \* sessions  [id, agent, delegation, nonce, issued, expires, revoked]
  issued     \* tokens    [id, agent, expires]

Init == book = {} /\ issued = {}

Issue(t) ==
  /\ \A u \in issued \cup book : u.id # t.id
  /\ issued' = issued \cup {t}
  /\ UNCHANGED book

Open(s) ==
  /\ \E t \in issued : t.id = s.id /\ t.agent = s.agent /\ t.expires <= s.expires
  /\ \A r \in book : r.id # s.id /\ r.nonce # s.nonce
  /\ ~s.revoked
  /\ book' = book \cup {s}
  /\ UNCHANGED issued

Revoke(s) ==
  /\ ~s.revoked
  /\ book' = (book \ {s}) \cup {[s EXCEPT !.revoked = TRUE]}
  /\ UNCHANGED issued

Next ==
  \/ \E t \in issued' : Issue(t)
  \/ \E s \in book' : Open(s)
  \/ \E s \in book : Revoke(s)

Spec == Init /\ [][Next]_<<book, issued>>
=============================================================================
