------------------------------ MODULE AuditLog -------------------------------
(***************************************************************************)
(* The audit log: packages/audit/writer.py and chain.py, verified by       *)
(* POST /v1/audit/verify-chain (api/audit.py).                             *)
(*                                                                         *)
(* write selects the last record hash in one await, then takes the         *)
(* timestamp and computes the new hash, then commits in a later await.     *)
(* Two writers interleave at those points.                                 *)
(*                                                                         *)
(* A row holds more than its hash covers.  The hash is taken of the payload*)
(* alone, as write has it; the payload then goes into a JSONB column, which*)
(* need not give it back as it was (1e+20 comes back as an integer), and   *)
(* who did what, with which decision, goes into columns outside the hash.  *)
(* A hash is represented by what it commits to, the sequence of payloads   *)
(* from the first event on: SHA-256 is taken to be free of collisions.     *)
(***************************************************************************)
EXTENDS Naturals, FiniteSets, SequencesExt

CONSTANTS
  Data,        \* event_type and data of an event
  ReadBack,    \* what the data column gives back of what was stored in it
  Columns,     \* agent_id, acting_user_id, session_id, trace_id, tool_id, operation,
               \* decision, reason and the column event_type of an event
  Writers,     \* calls of AuditWriter.write in flight at once
  MaxEvents,   \* bound of the exploration: events stored
  MaxTime      \* bound of the exploration on the clock

ASSUME AuditAssumption == ReadBack \in [Data -> Data]

VARIABLES
  events,      \* table audit_events
  writes,      \* each writer's call
  now          \* datetime.now(UTC), which does not run backwards

auditVars == <<events, writes, now>>

Payload == [data : Data, time : Nat]

\* previous_hash IS NULL
None == <<>>

ComputeHashOfLink(payload, previous) == previous
ComputeHash(payload, previous) == Append(previous, payload)

Event ==
  [ columns : Columns, time : Nat,    \* the column timestamp
    payload : Payload,                \* the column data
    previous : Seq(Payload), hash : Seq(Payload) ]

NewEvent(payload, columns, previous) ==
  [ columns |-> columns, time |-> payload.time,
    payload |-> [payload EXCEPT !.data = ReadBack[@]],
    previous |-> previous, hash |-> ComputeHash(payload, previous) ]

NotWriting == [kind |-> "idle"]

Write ==
  {NotWriting}
    \cup [kind : {"selected"}, data : Data, columns : Columns, previous : Seq(Payload)]
    \cup [kind : {"insert"}, event : Event]

AuditTypeOK ==
  /\ events \subseteq Event
  /\ \A e \in events : e.hash # None
  /\ writes \in [Writers -> Write]
  /\ now \in Nat

AuditInit ==
  /\ events = {}
  /\ writes = [w \in Writers |-> NotWriting]
  /\ now = 0

-----------------------------------------------------------------------------
(* AuditWriter.write *)

Latest(E) == {e \in E : \A f \in E : f.time <= e.time}

InFlight == {writes[w].event : w \in {v \in Writers : writes[v].kind = "insert"}}

LastHashesWritten ==
  IF events \cup InFlight = {} THEN {None} ELSE {e.hash : e \in Latest(events \cup InFlight)}

\* SELECT record_hash ORDER BY timestamp DESC LIMIT 1: any of those that tie.
LastHashes == IF events = {} THEN {None} ELSE {e.hash : e \in Latest(events)}

SelectLast(w, d, c) ==
  /\ writes[w] = NotWriting
  /\ \E previous \in LastHashes :
       writes' = [writes EXCEPT ![w] =
         [kind |-> "selected", data |-> d, columns |-> c, previous |-> previous]]
  /\ UNCHANGED <<events, now>>

\* The call resumes: timestamp, payload and hash, up to the await of the commit.
StampEvent(w) ==
  /\ writes[w].kind = "selected"
  /\ writes' = [writes EXCEPT ![w] =
       [kind |-> "insert",
        event |-> NewEvent([data |-> @.data, time |-> now], @.columns, @.previous)]]
  /\ UNCHANGED <<events, now>>

\* INSERT and COMMIT.  record_hash is UNIQUE: an event with the hash of a stored
\* one is an IntegrityError and changes nothing, whatever its other columns say.
InsertEvent(w) ==
  /\ writes[w].kind = "insert"
  /\ Cardinality(events) < MaxEvents
  /\ events' = IF \E e \in events : e.hash = writes[w].event.hash
                  THEN events ELSE events \cup {writes[w].event}
  /\ writes' = [writes EXCEPT ![w] = NotWriting]
  /\ UNCHANGED now

\* get_db rolls back.
FailWrite(w) ==
  /\ writes[w] # NotWriting
  /\ writes' = [writes EXCEPT ![w] = NotWriting]
  /\ UNCHANGED <<events, now>>

AuditTick ==
  /\ now < MaxTime
  /\ now' = now + 1
  /\ UNCHANGED <<events, writes>>

AuditNext ==
  \/ \E w \in Writers : \/ \E d \in Data, c \in Columns : SelectLast(w, d, c)
                        \/ StampEvent(w)
                        \/ InsertEvent(w)
                        \/ FailWrite(w)
  \/ AuditTick

AuditSpec == AuditInit /\ [][AuditNext]_auditVars

-----------------------------------------------------------------------------
(* verify_chain *)

\* The orders in which SELECT ... ORDER BY timestamp may return the events.
Listings ==
  {s \in SetToSeqs(events) : \A i \in 2..Len(s) : s[i-1].time <= s[i].time}

PreviousHashNever(s, i) == None
\* prev, when the loop reaches event i
PreviousHash(s, i) == IF i = 1 THEN None ELSE s[i-1].hash

LinkHolds(s, i) == s[i].previous = PreviousHash(s, i)

HashHolds(s, i) == s[i].hash = ComputeHash(s[i].payload, PreviousHash(s, i))

VerifyLinks(s) == \A i \in DOMAIN s : LinkHolds(s, i)
VerifyChain(s) == \A i \in DOMAIN s : LinkHolds(s, i) /\ HashHolds(s, i)

-----------------------------------------------------------------------------
(* Properties. *)

\* Every event links to nothing or to a stored event that is no younger,
\* although the link was read two awaits before the event was stored and the
\* write it was read from, or its own, may have failed.
LinksResolve ==
  \A e \in events :
    \/ e.previous = None
    \/ \E f \in events : f.hash = e.previous /\ f.time <= e.time

\* Whatever writers overlap, fail or share a timestamp, the table is an append-only
\* forest (AuditTrail): hashes identify events, and nothing is linked to an event
\* that came later.
Entry(e) == [id |-> e.hash, link |-> e.previous, time |-> e.time]
Trail == INSTANCE AuditTrail WITH trail <- {Entry(e) : e \in events}, NoLink <- None
ExtendsTrail == Trail!Spec

\* Two events were linked to the same predecessor.
Forked == \E e, f \in events : e # f /\ e.previous = f.previous

\* Two events have the same timestamp.
Tied == \E e, f \in events : e # f /\ e.time = f.time

\* The data column of an event is not what its hash was taken of.
Reencoded == \E e \in events : e.payload # Last(e.hash)

\* Overlapping writers that forked the chain, equal timestamps, and data that the
\* column does not give back as it was are the only reasons for verify_chain to
\* reject a log that nobody touched.
AlarmsExplained == ~Forked /\ ~Tied /\ ~Reencoded => \A s \in Listings : VerifyChain(s)

Payloads == [data : Data, time : 0..MaxTime]

\* Of a log that verifies, no version with another data column in one event verifies,
\* nor one with an event before the last taken out.  That is all the hash covers: of
\* the other columns see ModificationDetected, and a log without its last
\* event is a log that verifies.
HashedTamperEvident ==
  \A s \in Listings : VerifyChain(s) =>
    \A i \in DOMAIN s :
      /\ \A p \in Payloads \ {s[i].payload} : ~VerifyChain([s EXCEPT ![i].payload = p])
      /\ i < Len(s) => ~VerifyChain(RemoveAt(s, i))

\* docs/adr/ADR-006.md: later reviewers can detect modification.  Of a log that
\* verifies, no version with other columns in one event verifies: another agent,
\* tool or decision, as GET /v1/audit/events shows them.
ModificationDetected ==
  \A s \in Listings : VerifyChain(s) =>
    \A i \in DOMAIN s, c \in Columns :
      c # s[i].columns => ~VerifyChain([s EXCEPT ![i].columns = c])
=============================================================================
