------------------------------ MODULE AuditTrail -------------------------------
(***************************************************************************)
(* What the audit log promises to its readers: a trail that only grows, one*)
(* entry at a time, each under an id of its own and linked to nothing or to*)
(* an entry that was there before it and is no younger.  It is a forest,   *)
(* not a chain: writers that overlap link to the same predecessor.         *)
(***************************************************************************)
EXTENDS Naturals

CONSTANT NoLink

VARIABLE trail    \* entries [id, link, time]

Init == trail = {}

LinksBack(e) == e.link = NoLink \/ \E f \in trail : f.id = e.link /\ f.time <= e.time

Extend(e) ==
  /\ \A f \in trail : f.id # e.id
  /\ LinksBack(e)
  /\ trail' = trail \cup {e}

Next == \E e \in trail' : Extend(e)

Spec == Init /\ [][Next]_trail
=============================================================================
