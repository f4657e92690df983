-------------------------- MODULE AgentRegistryProofs --------------------------
(***************************************************************************)
(* Theorems about AgentRegistry for any number of agents, keys, blueprints *)
(* and concurrent requests.                                                *)
(***************************************************************************)
EXTENDS AgentRegistry, TLAPS

-----------------------------------------------------------------------------
(* What an UPDATE leaves in a row. *)

\* A column holds, after an UPDATE, its stored or its edited value.
LEMMA WrittenIn ==
  ASSUME NEW S, NEW stored \in S, NEW loaded, NEW edited \in S
  PROVE  Written(stored, loaded, edited) \in S
BY DEF Written

\* Merging well-formed rows gives a well-formed row.
LEMMA MergeType ==
  ASSUME NEW stored \in AgentRow, NEW loaded \in AgentRow, NEW edited \in AgentRow
  PROVE  Merge(stored, loaded, edited) \in AgentRow
BY WrittenIn DEF Merge, AgentRow

-----------------------------------------------------------------------------
(* Type correctness. *)

\* Loading and editing a row keeps every variable well formed.
LEMMA LoadType ==
  ASSUME TypeOK, NEW w \in Workers, NEW a \in Agents, NEW edited \in AgentRow,
         LoadAndEdit(w, a, edited)
  PROVE  TypeOK'
BY DEF TypeOK, LoadAndEdit, Request

\* A step of one request keeps every variable well formed.
LEMMA HandleType ==
  ASSUME TypeOK, NEW w \in Workers, Handle(w)
  PROVE  TypeOK'
<1>1. CASE \E b \in Blueprints, k \in Keys \cup {NoKey} : CreateAgent(w, b, k)
  <2>1. PICK b \in Blueprints, k \in Keys \cup {NoKey} : CreateAgent(w, b, k)
    BY <1>1
  <2>2. NewAgent(b, k) \in AgentRow
    BY DEF NewAgent, NoAgent, AgentRow, AgentStatus
  <2> QED
    BY <2>1, <2>2 DEF CreateAgent, TypeOK, Request
<1>2. CASE \E a \in Agents : ActivateAgent(w, a)
  <2>1. PICK a \in Agents : ActivateAgent(w, a)
    BY <1>2
  <2>2. [agents[a] EXCEPT !.status = "active", !.activated = TRUE] \in AgentRow
    BY DEF TypeOK, AgentRow, AgentStatus
  <2> QED
    BY <2>1, <2>2, LoadType DEF ActivateAgent
<1>3. CASE \E a \in Agents : SuspendAgent(w, a)
  <2>1. PICK a \in Agents : SuspendAgent(w, a)
    BY <1>3
  <2>2. [agents[a] EXCEPT !.status = "suspended", !.suspended = TRUE] \in AgentRow
    BY DEF TypeOK, AgentRow, AgentStatus
  <2> QED
    BY <2>1, <2>2, LoadType DEF SuspendAgent
<1>4. CASE \E a \in Agents : RevokeAgent(w, a)
  <2>1. PICK a \in Agents : RevokeAgent(w, a)
    BY <1>4
  <2>2. [agents[a] EXCEPT !.status = "revoked", !.revoked = TRUE] \in AgentRow
    BY DEF TypeOK, AgentRow, AgentStatus
  <2> QED
    BY <2>1, <2>2, LoadType DEF RevokeAgent
<1>5. CASE \E a \in Agents, k \in Keys : RotateKey(w, a, k)
  <2>1. PICK a \in Agents, k \in Keys : RotateKey(w, a, k)
    BY <1>5
  <2>2. [agents[a] EXCEPT !.key = k] \in AgentRow
    BY DEF TypeOK, AgentRow
  <2> QED
    BY <2>1, <2>2, LoadType DEF RotateKey
<1>6. CASE InsertAgent(w)
  <2>1. requests[w].row \in AgentRow
    BY <1>6 DEF InsertAgent, TypeOK, Request, Idle
  <2> QED
    BY <1>6, <2>1 DEF InsertAgent, TypeOK, Request
<1>7. CASE UpdateAgent(w)
  <2>1. /\ requests[w].agent \in Agents
        /\ requests[w].loaded \in AgentRow
        /\ requests[w].edited \in AgentRow
    BY <1>7 DEF UpdateAgent, TypeOK, Request, Idle
  <2>2. Merge(agents[requests[w].agent], requests[w].loaded, requests[w].edited) \in AgentRow
    BY <2>1, MergeType DEF TypeOK
  <2> QED
    BY <1>7, <2>1, <2>2 DEF UpdateAgent, TypeOK, Request
<1>8. CASE FailRequest(w)
  BY <1>8 DEF FailRequest, TypeOK, Request
<1> QED
  BY <1>1, <1>2, <1>3, <1>4, <1>5, <1>6, <1>7, <1>8 DEF Handle, Commit

\* Every state of the registry is well formed: no interleaving of loads, merges
\* and failures stores a row that the schema excludes.
THEOREM TypeCorrect == Spec => []TypeOK
<1>1. Init => TypeOK
  BY DEF Init, TypeOK, NoAgent, AgentRow, Request
<1>2. TypeOK /\ [Next]_vars => TypeOK'
  <2> SUFFICES ASSUME TypeOK, [Next]_vars PROVE TypeOK'
    OBVIOUS
  <2>1. CASE \E w \in Workers : Handle(w)
    BY <2>1, HandleType
  <2>2. CASE \E b \in Blueprints : BlueprintChanges(b)
    BY <2>2 DEF BlueprintChanges, TypeOK
  <2>3. CASE UNCHANGED vars
    BY <2>3 DEF vars, TypeOK
  <2> QED
    BY <2>1, <2>2, <2>3 DEF Next
<1> QED
  BY <1>1, <1>2, PTL DEF Spec

-----------------------------------------------------------------------------
(* Stamps.  StampedStatus is not inductive: the UPDATE of a request takes    *)
(* some columns from a copy of the row made earlier.  What saves it is that  *)
(* (1) the copy and its edit are themselves consistent, (2) an edit only     *)
(* adds stamps, and none without a change of status, and (3) the stamps in   *)
(* the copy are still in the stored row.                                     *)

\* (1) and (2), for an update r.
SoundEdit(r) ==
  /\ StampsOf(r.loaded)
  /\ StampsOf(r.edited)
  /\ r.edited.status # "absent"
  /\ r.loaded.status # "absent"
  /\ r.loaded.activated => r.edited.activated
  /\ r.loaded.suspended => r.edited.suspended
  /\ r.loaded.revoked   => r.edited.revoked
  /\ r.edited.status # r.loaded.status => r.edited.status # "draft"
  /\ r.edited.status = r.loaded.status =>
       /\ r.edited.activated = r.loaded.activated
       /\ r.edited.suspended = r.loaded.suspended
       /\ r.edited.revoked = r.loaded.revoked

\* (3): row has every stamp that the copy has, and is still there.
Covers(row, copy) ==
  /\ row.status # "absent"
  /\ copy.activated => row.activated
  /\ copy.suspended => row.suspended
  /\ copy.revoked   => row.revoked

StampInv ==
  /\ TypeOK
  /\ StampedStatus
  /\ \A w \in Workers :
       /\ requests[w].kind = "insert" => requests[w].row.status = "draft" /\ StampsOf(requests[w].row)
       /\ requests[w].kind = "update" =>
            /\ SoundEdit(requests[w])
            /\ Covers(agents[requests[w].agent], requests[w].loaded)

\* The merge of a sound edit is consistent, and covers what the row covered.
LEMMA MergeStamps ==
  ASSUME NEW stored \in AgentRow, NEW r,
         r.loaded \in AgentRow, r.edited \in AgentRow,
         StampsOf(stored), SoundEdit(r), Covers(stored, r.loaded)
  PROVE  /\ StampsOf(Merge(stored, r.loaded, r.edited))
         /\ Covers(Merge(stored, r.loaded, r.edited), stored)
<1> DEFINE m == Merge(stored, r.loaded, r.edited)
<1>1. /\ m.status = Written(stored.status, r.loaded.status, r.edited.status)
      /\ m.activated = Written(stored.activated, r.loaded.activated, r.edited.activated)
      /\ m.suspended = Written(stored.suspended, r.loaded.suspended, r.edited.suspended)
      /\ m.revoked = Written(stored.revoked, r.loaded.revoked, r.edited.revoked)
  BY DEF Merge
<1>2. /\ stored.activated \in BOOLEAN /\ stored.suspended \in BOOLEAN /\ stored.revoked \in BOOLEAN
      /\ r.loaded.activated \in BOOLEAN /\ r.loaded.suspended \in BOOLEAN
      /\ r.loaded.revoked \in BOOLEAN
      /\ r.edited.activated \in BOOLEAN /\ r.edited.suspended \in BOOLEAN
      /\ r.edited.revoked \in BOOLEAN
  BY DEF AgentRow
<1>3. /\ m.activated = (stored.activated \/ r.edited.activated)
      /\ m.suspended = (stored.suspended \/ r.edited.suspended)
      /\ m.revoked = (stored.revoked \/ r.edited.revoked)
  BY <1>1, <1>2 DEF Written, Covers, SoundEdit
<1>4. CASE r.edited.status = r.loaded.status
  <2>1. m.status = stored.status
    BY <1>1, <1>4 DEF Written
  <2>2. /\ m.activated = stored.activated
        /\ m.suspended = stored.suspended
        /\ m.revoked = stored.revoked
    BY <1>2, <1>3, <1>4 DEF SoundEdit, Covers
  <2> QED
    BY <2>1, <2>2 DEF StampsOf, Covers
<1>5. CASE r.edited.status # r.loaded.status
  <2>1. m.status = r.edited.status
    BY <1>1, <1>5 DEF Written
  <2> QED
    BY <2>1, <1>2, <1>3, <1>5 DEF StampsOf, Covers, SoundEdit
<1> QED
  BY <1>4, <1>5

\* Covering is transitive.
LEMMA CoversTrans ==
  ASSUME NEW x, NEW y, NEW z, Covers(x, y), Covers(y, z)
  PROVE  Covers(x, z)
BY DEF Covers

\* A load whose edit is sound keeps the invariant.
LEMMA LoadStamps ==
  ASSUME StampInv, NEW w \in Workers, NEW a \in Agents, NEW edited \in AgentRow,
         LoadAndEdit(w, a, edited),
         Exists(a) => SoundEdit([kind |-> "update", agent |-> a,
                                 loaded |-> agents[a], edited |-> edited])
  PROVE  StampInv'
<1> DEFINE r == [kind |-> "update", agent |-> a, loaded |-> agents[a], edited |-> edited]
<1>1. TypeOK'
  BY LoadType DEF StampInv
<1>2. /\ requests' = [requests EXCEPT ![w] = r]
      /\ agents' = agents
      /\ agents[a].status # "absent"
  BY DEF LoadAndEdit, Exists
<1>3. StampedStatus'
  BY <1>2 DEF StampInv, StampedStatus
<1>4. SoundEdit(r) /\ Covers(agents[a], agents[a])
  BY <1>2 DEF Exists, Covers
<1>5. requests'[w] = r /\ \A v \in Workers : v # w => requests'[v] = requests[v]
  BY <1>2 DEF StampInv, TypeOK
<1>6. \A v \in Workers :
        /\ requests'[v].kind = "insert" =>
             requests'[v].row.status = "draft" /\ StampsOf(requests'[v].row)
        /\ requests'[v].kind = "update" =>
             SoundEdit(requests'[v]) /\ Covers(agents'[requests'[v].agent], requests'[v].loaded)
  <2> TAKE v \in Workers
  <2>1. CASE v = w
    BY <2>1, <1>2, <1>4, <1>5
  <2>2. CASE v # w
    BY <2>2, <1>2, <1>5 DEF StampInv
  <2> QED
    BY <2>1, <2>2
<1> QED
  BY <1>1, <1>3, <1>6 DEF StampInv

\* Row a keeps its stamps.
KeepsStamps(a) ==
  /\ agents[a].activated => agents'[a].activated
  /\ agents[a].suspended => agents'[a].suspended
  /\ agents[a].revoked   => agents'[a].revoked

\* A handler's load: the row is as before, the edit is sound.
LEMMA LoadsStamps ==
  ASSUME StampInv, NEW w \in Workers, NEW a \in Agents,
         \/ ActivateAgent(w, a) \/ SuspendAgent(w, a) \/ RevokeAgent(w, a)
         \/ \E k \in Keys : RotateKey(w, a, k)
  PROVE  StampInv' /\ agents' = agents
<1>1. /\ agents[a] \in AgentRow
      /\ StampsOf(agents[a])
  BY DEF StampInv, StampedStatus, TypeOK
<1>2. CASE ActivateAgent(w, a)
  <2> DEFINE e == [agents[a] EXCEPT !.status = "active", !.activated = TRUE]
  <2>1. e \in AgentRow
    BY <1>1 DEF AgentRow, AgentStatus
  <2>2. Exists(a) => SoundEdit([kind |-> "update", agent |-> a, loaded |-> agents[a], edited |-> e])
    BY <1>1, <1>2 DEF SoundEdit, StampsOf, AgentRow, Exists, ActivateAgent, MayActivate
  <2> QED
    BY <1>2, <2>1, <2>2, LoadStamps DEF ActivateAgent, LoadAndEdit
<1>3. CASE SuspendAgent(w, a)
  <2> DEFINE e == [agents[a] EXCEPT !.status = "suspended", !.suspended = TRUE]
  <2>1. e \in AgentRow
    BY <1>1 DEF AgentRow, AgentStatus
  <2>2. Exists(a) => SoundEdit([kind |-> "update", agent |-> a, loaded |-> agents[a], edited |-> e])
    BY <1>1, <1>3 DEF SoundEdit, StampsOf, AgentRow, Exists, SuspendAgent, MaySuspend
  <2> QED
    BY <1>3, <2>1, <2>2, LoadStamps DEF SuspendAgent, LoadAndEdit
<1>4. CASE RevokeAgent(w, a)
  <2> DEFINE e == [agents[a] EXCEPT !.status = "revoked", !.revoked = TRUE]
  <2>1. e \in AgentRow
    BY <1>1 DEF AgentRow, AgentStatus
  <2>2. Exists(a) => SoundEdit([kind |-> "update", agent |-> a, loaded |-> agents[a], edited |-> e])
    BY <1>1 DEF SoundEdit, StampsOf, AgentRow, Exists
  <2> QED
    BY <1>4, <2>1, <2>2, LoadStamps DEF RevokeAgent, LoadAndEdit
<1>5. CASE \E k \in Keys : RotateKey(w, a, k)
  <2>1. PICK k \in Keys : RotateKey(w, a, k)
    BY <1>5
  <2> DEFINE e == [agents[a] EXCEPT !.key = k]
  <2>2. e \in AgentRow
    BY <1>1 DEF AgentRow
  <2>3. Exists(a) => SoundEdit([kind |-> "update", agent |-> a, loaded |-> agents[a], edited |-> e])
    BY <1>1 DEF SoundEdit, StampsOf, AgentRow, Exists
  <2> QED
    BY <2>1, <2>2, <2>3, LoadStamps DEF RotateKey, LoadAndEdit
<1> QED
  BY <1>2, <1>3, <1>4, <1>5

\* An INSERT creates a consistent row where there was none.
LEMMA InsertStamps ==
  ASSUME StampInv, NEW w \in Workers, InsertAgent(w)
  PROVE  StampInv' /\ \A a \in Agents : KeepsStamps(a)
<1>1. TypeOK' /\ TypeOK
  BY HandleType DEF StampInv, Handle, Commit
<1>2. PICK b \in Agents : ~Exists(b) /\ agents' = [agents EXCEPT ![b] = requests[w].row]
  BY DEF InsertAgent
<1>3. agents[b].status = "absent" /\ StampsOf(agents[b]) /\ StampsOf(requests[w].row)
  BY <1>2 DEF Exists, InsertAgent, StampInv, StampedStatus
<1>4. agents'[b] = requests[w].row /\ \A a \in Agents : a # b => agents'[a] = agents[a]
  BY <1>1, <1>2 DEF TypeOK
<1>5. \A v \in Workers : v # w => requests'[v] = requests[v]
  BY <1>1 DEF TypeOK, InsertAgent
<1>6. requests'[w].kind = "idle"
  BY <1>1 DEF TypeOK, InsertAgent, Idle
<1>7. \A v \in Workers :
        requests[v].kind = "update" => requests[v].agent \in Agents /\ requests[v].agent # b
  BY <1>1, <1>3 DEF StampInv, Covers, TypeOK, Request, Idle
<1>8. StampedStatus'
  BY <1>3, <1>4 DEF StampInv, StampedStatus
<1>9. \A v \in Workers :
        /\ requests'[v].kind = "insert" =>
             requests'[v].row.status = "draft" /\ StampsOf(requests'[v].row)
        /\ requests'[v].kind = "update" =>
             SoundEdit(requests'[v]) /\ Covers(agents'[requests'[v].agent], requests'[v].loaded)
  <2> TAKE v \in Workers
  <2>1. CASE v = w
    BY <2>1, <1>6
  <2>2. CASE v # w
    BY <2>2, <1>4, <1>5, <1>7 DEF StampInv
  <2> QED
    BY <2>1, <2>2
<1>10. \A a \in Agents : KeepsStamps(a)
  BY <1>3, <1>4 DEF KeepsStamps, StampsOf
<1> QED
  BY <1>1, <1>8, <1>9, <1>10 DEF StampInv

\* An UPDATE covers the row it replaces.
LEMMA UpdateStamps ==
  ASSUME StampInv, NEW w \in Workers, UpdateAgent(w)
  PROVE  StampInv' /\ \A a \in Agents : KeepsStamps(a)
<1> DEFINE r == requests[w]
           b == r.agent
           m == Merge(agents[b], r.loaded, r.edited)
<1>1. TypeOK' /\ TypeOK
  BY HandleType DEF StampInv, Handle, Commit
<1>2. b \in Agents /\ r.loaded \in AgentRow /\ r.edited \in AgentRow /\ agents[b] \in AgentRow
  BY <1>1 DEF UpdateAgent, TypeOK, Request, Idle
<1>3. StampsOf(m) /\ Covers(m, agents[b])
  BY <1>2, MergeStamps DEF StampInv, StampedStatus, UpdateAgent
<1>4. agents'[b] = m /\ \A a \in Agents : a # b => agents'[a] = agents[a]
  BY <1>1, <1>2 DEF TypeOK, UpdateAgent
<1>5. requests'[w].kind = "idle" /\ \A v \in Workers : v # w => requests'[v] = requests[v]
  BY <1>1 DEF TypeOK, UpdateAgent, Idle
<1>6. StampedStatus'
  BY <1>3, <1>4 DEF StampInv, StampedStatus
<1>7. \A v \in Workers :
        /\ requests'[v].kind = "insert" =>
             requests'[v].row.status = "draft" /\ StampsOf(requests'[v].row)
        /\ requests'[v].kind = "update" =>
             SoundEdit(requests'[v]) /\ Covers(agents'[requests'[v].agent], requests'[v].loaded)
  <2> TAKE v \in Workers
  <2>1. CASE v = w
    BY <2>1, <1>5
  <2>2. CASE v # w
    <3>1. requests'[v] = requests[v]
      BY <2>2, <1>5
    <3>2. ASSUME requests[v].kind = "update"
          PROVE  Covers(agents'[requests[v].agent], requests[v].loaded)
      <4>1. requests[v].agent \in Agents /\ Covers(agents[requests[v].agent], requests[v].loaded)
        BY <3>2, <1>1 DEF StampInv, TypeOK, Request, Idle
      <4>2. CASE requests[v].agent = b
        BY <4>1, <4>2, <1>3, <1>4, CoversTrans
      <4>3. CASE requests[v].agent # b
        BY <4>1, <4>3, <1>4
      <4> QED
        BY <4>2, <4>3
    <3> QED
      BY <3>1, <3>2 DEF StampInv
  <2> QED
    BY <2>1, <2>2
<1>8. \A a \in Agents : KeepsStamps(a)
  BY <1>3, <1>4 DEF KeepsStamps, Covers
<1> QED
  BY <1>1, <1>6, <1>7, <1>8 DEF StampInv

\* Every step keeps the invariant and every stamp.
LEMMA NextStamps ==
  ASSUME StampInv, [Next]_vars
  PROVE  StampInv' /\ \A a \in Agents : KeepsStamps(a)
<1>1. agents' = agents => \A a \in Agents : KeepsStamps(a)
  BY DEF KeepsStamps
<1>2. ASSUME NEW w \in Workers, Handle(w)
      PROVE  StampInv' /\ \A a \in Agents : KeepsStamps(a)
  <2>1. TypeOK /\ TypeOK'
    BY <1>2, HandleType DEF StampInv
  <2>2. CASE \E b \in Blueprints, k \in Keys \cup {NoKey} : CreateAgent(w, b, k)
    <3>1. PICK b \in Blueprints, k \in Keys \cup {NoKey} : CreateAgent(w, b, k)
      BY <2>2
    <3>2. /\ agents' = agents
          /\ requests'[w] = [kind |-> "insert", row |-> NewAgent(b, k)]
          /\ \A v \in Workers : v # w => requests'[v] = requests[v]
      BY <3>1, <2>1 DEF CreateAgent, TypeOK
    <3>3. NewAgent(b, k).status = "draft" /\ StampsOf(NewAgent(b, k))
      BY DEF NewAgent, NoAgent, StampsOf
    <3> QED
      BY <3>2, <3>3, <2>1, <1>1 DEF StampInv, StampedStatus
  <2>3. CASE \E a \in Agents :
               \/ ActivateAgent(w, a) \/ SuspendAgent(w, a) \/ RevokeAgent(w, a)
               \/ \E k \in Keys : RotateKey(w, a, k)
    BY <2>3, <1>1, LoadsStamps
  <2>4. CASE Commit(w)
    BY <2>4, InsertStamps, UpdateStamps DEF Commit
  <2>5. CASE FailRequest(w)
    <3>1. /\ agents' = agents
          /\ requests'[w].kind = "idle"
          /\ \A v \in Workers : v # w => requests'[v] = requests[v]
      BY <2>5, <2>1 DEF FailRequest, TypeOK, Idle
    <3> QED
      BY <3>1, <2>1, <1>1 DEF StampInv, StampedStatus
  <2> QED
    BY <1>2, <2>2, <2>3, <2>4, <2>5 DEF Handle
<1>3. CASE \E b \in Blueprints : BlueprintChanges(b)
  BY <1>3, <1>1 DEF BlueprintChanges, StampInv, StampedStatus, TypeOK
<1>4. CASE UNCHANGED vars
  BY <1>4, <1>1 DEF vars, StampInv, StampedStatus, TypeOK
<1> QED
  BY <1>2, <1>3, <1>4 DEF Next

\* StampInv holds initially.
LEMMA InitStamps == Init => StampInv
BY DEF Init, StampInv, TypeOK, NoAgent, AgentRow, Request, Idle, StampedStatus, StampsOf

\* However many handlers interleave, no row shows a status without the stamps
\* that status entails.
THEOREM StampsFollowStatus == Spec => []StampedStatus
<1>1. StampInv /\ [Next]_vars => StampInv'
  BY NextStamps
<1>2. StampInv => StampedStatus
  BY DEF StampInv
<1> QED
  BY InitStamps, <1>1, <1>2, PTL DEF Spec

\* No handler's stale copy of a row ever erases a stamp.
THEOREM StampsNeverLost == Spec => StampsPermanent
<1>1. StampInv /\ [Next]_vars => StampInv'
  BY NextStamps
<1>2. StampInv /\ [Next]_vars =>
        [\A a \in Agents : /\ agents[a].activated => agents'[a].activated
                           /\ agents[a].suspended => agents'[a].suspended
                           /\ agents[a].revoked   => agents'[a].revoked]_vars
  BY NextStamps DEF KeepsStamps
<1> QED
  BY InitStamps, <1>1, <1>2, PTL DEF Spec, StampsPermanent

-----------------------------------------------------------------------------
(* Settled revocations.  TypeOK suffices: that the row is revoked keeps new  *)
(* activations and suspensions out, and that no request in flight overwrites *)
(* it makes every merge leave it revoked.                                    *)

\* One step keeps a settled revocation settled.
LEMMA SettledStep ==
  ASSUME TypeOK, [Next]_vars, NEW a \in Agents, Settled(a)
  PROVE  Settled(a)'
<1>1. agents[a].status = "revoked" /\ \A v \in Workers : ~Overwrites(v, a)
  BY DEF Settled
<1>2. ASSUME NEW w \in Workers, NEW b \in Agents, NEW e,
             LoadAndEdit(w, b, e), b = a => e.status = "revoked"
      PROVE  Settled(a)'
  <2>1. /\ agents' = agents
        /\ requests'[w] = [kind |-> "update", agent |-> b, loaded |-> agents[b], edited |-> e]
        /\ \A v \in Workers : v # w => requests'[v] = requests[v]
    BY <1>2 DEF LoadAndEdit, TypeOK
  <2>2. ~Overwrites(w, a)'
    BY <2>1, <1>2 DEF Overwrites
  <2>3. \A v \in Workers : v # w => ~Overwrites(v, a)'
    BY <2>1, <1>1 DEF Overwrites
  <2> QED
    BY <1>1, <2>1, <2>2, <2>3 DEF Settled
<1>3. ASSUME NEW w \in Workers, requests' = [requests EXCEPT ![w] = Idle],
             agents'[a].status = "revoked"
      PROVE  Settled(a)'
  <2>1. requests'[w].kind = "idle" /\ \A v \in Workers : v # w => requests'[v] = requests[v]
    BY <1>3 DEF TypeOK, Idle
  <2> QED
    BY <1>1, <1>3, <2>1 DEF Settled, Overwrites
<1>4. ASSUME NEW w \in Workers, Handle(w)
      PROVE  Settled(a)'
  <2>1. CASE \E b \in Blueprints, k \in Keys \cup {NoKey} : CreateAgent(w, b, k)
    <3>1. /\ agents' = agents
          /\ requests'[w].kind = "insert"
          /\ \A v \in Workers : v # w => requests'[v] = requests[v]
      BY <2>1 DEF CreateAgent, TypeOK
    <3> QED
      BY <3>1, <1>1 DEF Settled, Overwrites
  <2>2. CASE \E b \in Agents : ActivateAgent(w, b)
    BY <2>2, <1>1, <1>2 DEF ActivateAgent, MayActivate
  <2>3. CASE \E b \in Agents : SuspendAgent(w, b)
    BY <2>3, <1>1, <1>2 DEF SuspendAgent, MaySuspend
  <2>4. CASE \E b \in Agents : RevokeAgent(w, b)
    <3>1. PICK b \in Agents : RevokeAgent(w, b)
      BY <2>4
    <3>2. [agents[b] EXCEPT !.status = "revoked", !.revoked = TRUE].status = "revoked"
      BY DEF TypeOK, AgentRow
    <3> QED
      BY <3>1, <3>2, <1>2 DEF RevokeAgent
  <2>5. CASE \E b \in Agents, k \in Keys : RotateKey(w, b, k)
    <3>1. PICK b \in Agents, k \in Keys : RotateKey(w, b, k)
      BY <2>5
    <3>2. [agents[b] EXCEPT !.key = k].status = agents[b].status
      BY DEF TypeOK, AgentRow
    <3> QED
      BY <3>1, <3>2, <1>1, <1>2 DEF RotateKey
  <2>6. CASE InsertAgent(w)
    BY <2>6, <1>1, <1>3 DEF InsertAgent, Exists, TypeOK
  <2>7. CASE UpdateAgent(w)
    <3> DEFINE r == requests[w]
    <3>1. r.agent \in Agents /\ agents' = [agents EXCEPT ![r.agent] =
                                             Merge(agents[r.agent], r.loaded, r.edited)]
      BY <2>7 DEF UpdateAgent, TypeOK, Request, Idle
    <3>2. CASE r.agent = a
      <4>1. r.edited.status \in {r.loaded.status, "revoked"}
        BY <2>7, <3>2, <1>1 DEF Overwrites, UpdateAgent
      <4>2. agents'[a].status = Written(agents[a].status, r.loaded.status, r.edited.status)
        BY <3>1, <3>2 DEF Merge, TypeOK
      <4>3. agents'[a].status = "revoked"
        BY <4>1, <4>2, <1>1 DEF Written
      <4> QED
        BY <4>3, <2>7, <1>3 DEF UpdateAgent
    <3>3. CASE r.agent # a
      BY <3>1, <3>3, <2>7, <1>1, <1>3 DEF UpdateAgent, TypeOK
    <3> QED
      BY <3>2, <3>3
  <2>8. CASE FailRequest(w)
    BY <2>8, <1>1, <1>3 DEF FailRequest
  <2> QED
    BY <1>4, <2>1, <2>2, <2>3, <2>4, <2>5, <2>6, <2>7, <2>8 DEF Handle, Commit
<1>5. CASE \E b \in Blueprints : BlueprintChanges(b)
  BY <1>5, <1>1 DEF BlueprintChanges, Settled, Overwrites
<1>6. CASE UNCHANGED vars
  BY <1>6, <1>1 DEF vars, Settled, Overwrites
<1> QED
  BY <1>4, <1>5, <1>6 DEF Next

\* Once no older request can overwrite it, a revocation is final, whatever any
\* number of administrators do afterwards.
THEOREM SettledIsFinal == Spec => SettledRevocationIsFinal
<1>1. TypeOK /\ [Next]_vars => [\A a \in Agents : Settled(a) => Settled(a)']_vars
  BY SettledStep
<1> QED
  BY TypeCorrect, <1>1, PTL DEF Spec, SettledRevocationIsFinal

-----------------------------------------------------------------------------
(* Refinement.  With at most one worker a request's copy of the row is the   *)
(* stored row when it commits, so each commit is a step of AgentLifecycle;   *)
(* every other step leaves the statuses alone.                               *)

\* A change of status that some handler's guard allows.
Allowed(from, to) ==
  \/ to = from
  \/ to = "active" /\ from \in {"draft", "pending_approval", "suspended"}
  \/ to = "suspended" /\ from = "active"
  \/ to = "revoked"

\* What the requests in flight hold when there is one at a time.
SerialInv ==
  /\ TypeOK
  /\ \A w \in Workers :
       /\ requests[w].kind = "insert" => requests[w].row.status = "draft"
       /\ requests[w].kind = "update" =>
            /\ requests[w].loaded = agents[requests[w].agent]
            /\ Exists(requests[w].agent)
            /\ Allowed(requests[w].loaded.status, requests[w].edited.status)

AtMostOneWorker == \A v, w \in Workers : v = w

Statuses == [a \in Agents |-> agents[a].status]

\* A load keeps SerialInv and the statuses.
LEMMA SerialLoad ==
  ASSUME AtMostOneWorker, SerialInv, NEW w \in Workers, NEW a \in Agents,
         NEW e \in AgentRow, LoadAndEdit(w, a, e), Allowed(agents[a].status, e.status)
  PROVE  SerialInv' /\ agents' = agents
<1>1. TypeOK'
  BY LoadType DEF SerialInv
<1>2. /\ agents' = agents
      /\ requests'[w] = [kind |-> "update", agent |-> a, loaded |-> agents[a], edited |-> e]
      /\ Exists(a)
  BY DEF LoadAndEdit, SerialInv, TypeOK
<1>3. Exists(a)'
  BY <1>2 DEF Exists
<1> QED
  BY <1>1, <1>2, <1>3 DEF SerialInv, AtMostOneWorker

\* Changing the status of one agent as Allowed says is a step of AgentLifecycle.
LEMMA AllowedIsLifecycleStep ==
  ASSUME TypeOK, NEW a \in Agents, Exists(a), NEW row,
         agents' = [agents EXCEPT ![a] = row], Allowed(agents[a].status, row.status)
  PROVE  Lifecycle!Next \/ UNCHANGED Statuses
<1>1. agents[a].status \in AgentStatus
  BY DEF TypeOK, AgentRow, Exists
<1>2. Statuses' = [Statuses EXCEPT ![a] = row.status]
  BY DEF Statuses, TypeOK
<1>3. Statuses[a] = agents[a].status
  BY DEF Statuses
<1>4. CASE row.status = agents[a].status
  BY <1>2, <1>4 DEF Statuses
<1>5. CASE row.status = "active" /\ agents[a].status \in {"draft", "pending_approval", "suspended"}
  <2>1. Lifecycle!Activate(a)
    BY <1>2, <1>3, <1>5 DEF Lifecycle!Activate, Lifecycle!Move, Statuses
  <2> QED
    BY <2>1 DEF Lifecycle!Next
<1>6. CASE row.status = "suspended" /\ agents[a].status = "active"
  <2>1. Lifecycle!Suspend(a)
    BY <1>2, <1>3, <1>6 DEF Lifecycle!Suspend, Lifecycle!Move, Statuses
  <2> QED
    BY <2>1 DEF Lifecycle!Next
<1>7. CASE row.status = "revoked"
  <2>1. Lifecycle!Revoke(a)
    BY <1>1, <1>2, <1>3, <1>7
    DEF Lifecycle!Revoke, Lifecycle!Move, Lifecycle!AgentStatus, AgentStatus, Statuses
  <2> QED
    BY <2>1 DEF Lifecycle!Next
<1> QED
  BY <1>4, <1>5, <1>6, <1>7 DEF Allowed

\* One step of the registry is a step of the lifecycle or leaves it alone.
LEMMA SerialStep ==
  ASSUME AtMostOneWorker, SerialInv, [Next]_vars
  PROVE  SerialInv' /\ (Lifecycle!Next \/ UNCHANGED Statuses)
<1>1. TypeOK
  BY DEF SerialInv
<1>2. agents' = agents => UNCHANGED Statuses
  BY DEF Statuses
<1>3. ASSUME NEW w \in Workers, requests'[w].kind = "idle", TypeOK'
      PROVE  SerialInv'
  BY <1>3 DEF SerialInv, AtMostOneWorker
<1>4. ASSUME NEW w \in Workers, Handle(w)
      PROVE  SerialInv' /\ (Lifecycle!Next \/ UNCHANGED Statuses)
  <2>1. TypeOK'
    BY <1>1, <1>4, HandleType
  <2>2. CASE \E b \in Blueprints, k \in Keys \cup {NoKey} : CreateAgent(w, b, k)
    <3>1. PICK b \in Blueprints, k \in Keys \cup {NoKey} : CreateAgent(w, b, k)
      BY <2>2
    <3>2. agents' = agents /\ requests'[w] = [kind |-> "insert", row |-> NewAgent(b, k)]
      BY <3>1, <1>1 DEF CreateAgent, TypeOK
    <3>3. NewAgent(b, k).status = "draft"
      BY DEF NewAgent, NoAgent
    <3> QED
      BY <3>2, <3>3, <2>1, <1>2 DEF SerialInv, AtMostOneWorker
  <2>3. CASE \E a \in Agents : ActivateAgent(w, a)
    <3>1. PICK a \in Agents : ActivateAgent(w, a)
      BY <2>3
    <3> DEFINE e == [agents[a] EXCEPT !.status = "active", !.activated = TRUE]
    <3>2. e \in AgentRow /\ e.status = "active"
      BY <1>1 DEF TypeOK, AgentRow, AgentStatus
    <3>3. Allowed(agents[a].status, e.status)
      BY <3>1, <3>2 DEF ActivateAgent, MayActivate, Allowed
    <3> QED
      BY <3>1, <3>2, <3>3, <1>2, SerialLoad DEF ActivateAgent
  <2>4. CASE \E a \in Agents : SuspendAgent(w, a)
    <3>1. PICK a \in Agents : SuspendAgent(w, a)
      BY <2>4
    <3> DEFINE e == [agents[a] EXCEPT !.status = "suspended", !.suspended = TRUE]
    <3>2. e \in AgentRow /\ e.status = "suspended"
      BY <1>1 DEF TypeOK, AgentRow, AgentStatus
    <3>3. Allowed(agents[a].status, e.status)
      BY <3>1, <3>2 DEF SuspendAgent, MaySuspend, Allowed
    <3> QED
      BY <3>1, <3>2, <3>3, <1>2, SerialLoad DEF SuspendAgent
  <2>5. CASE \E a \in Agents : RevokeAgent(w, a)
    <3>1. PICK a \in Agents : RevokeAgent(w, a)
      BY <2>5
    <3> DEFINE e == [agents[a] EXCEPT !.status = "revoked", !.revoked = TRUE]
    <3>2. e \in AgentRow /\ e.status = "revoked"
      BY <1>1 DEF TypeOK, AgentRow, AgentStatus
    <3> QED
      BY <3>1, <3>2, <1>2, SerialLoad DEF RevokeAgent, Allowed
  <2>6. CASE \E a \in Agents, k \in Keys : RotateKey(w, a, k)
    <3>1. PICK a \in Agents, k \in Keys : RotateKey(w, a, k)
      BY <2>6
    <3> DEFINE e == [agents[a] EXCEPT !.key = k]
    <3>2. e \in AgentRow /\ e.status = agents[a].status
      BY <1>1 DEF TypeOK, AgentRow
    <3> QED
      BY <3>1, <3>2, <1>2, SerialLoad DEF RotateKey, Allowed
  <2>7. CASE InsertAgent(w)
    <3>1. PICK a \in Agents : ~Exists(a) /\ agents' = [agents EXCEPT ![a] = requests[w].row]
      BY <2>7 DEF InsertAgent
    <3>2. requests[w].row.status = "draft" /\ requests'[w].kind = "idle"
      BY <2>7, <1>1 DEF InsertAgent, SerialInv, TypeOK, Idle
    <3>3. /\ Statuses[a] = "absent"
          /\ Statuses' = [Statuses EXCEPT ![a] = "draft"]
      BY <3>1, <3>2, <1>1 DEF Statuses, Exists, TypeOK
    <3>4. Lifecycle!Register(a)
      BY <3>3 DEF Lifecycle!Register, Lifecycle!Move, Statuses
    <3> QED
      BY <3>2, <3>4, <1>3, <2>1 DEF Lifecycle!Next
  <2>8. CASE UpdateAgent(w)
    <3> DEFINE r == requests[w]
               m == Merge(agents[r.agent], r.loaded, r.edited)
    <3>1. /\ r.agent \in Agents /\ Exists(r.agent)
          /\ r.loaded = agents[r.agent]
          /\ Allowed(agents[r.agent].status, r.edited.status)
      BY <2>8, <1>1 DEF UpdateAgent, SerialInv, TypeOK, Request, Idle
    <3>2. agents' = [agents EXCEPT ![r.agent] = m] /\ requests'[w].kind = "idle"
      BY <2>8, <1>1 DEF UpdateAgent, TypeOK, Idle
    <3>3. m.status = r.edited.status
      BY <3>1 DEF Merge, Written
    <3> QED
      BY <3>1, <3>2, <3>3, <1>1, <1>3, <2>1, AllowedIsLifecycleStep
  <2>9. CASE FailRequest(w)
    <3>1. agents' = agents /\ requests'[w].kind = "idle"
      BY <2>9, <1>1 DEF FailRequest, TypeOK, Idle
    <3> QED
      BY <3>1, <1>2, <1>3, <2>1
  <2> QED
    BY <1>4, <2>2, <2>3, <2>4, <2>5, <2>6, <2>7, <2>8, <2>9 DEF Handle, Commit
<1>5. CASE \E b \in Blueprints : BlueprintChanges(b)
  BY <1>5, <1>2 DEF BlueprintChanges, SerialInv, TypeOK, Exists
<1>6. CASE UNCHANGED vars
  BY <1>6, <1>2 DEF vars, SerialInv, TypeOK, Exists
<1> QED
  BY <1>4, <1>5, <1>6 DEF Next

\* Served one at a time, the handlers implement the lifecycle their guards
\* state, in which a revoked agent stays revoked.
THEOREM SerialImplementsLifecycle ==
  ASSUME AtMostOneWorker
  PROVE  Spec => FollowsLifecycle
<1>1. Init => SerialInv /\ Lifecycle!Init
  BY DEF Init, SerialInv, Lifecycle!Init, TypeOK, NoAgent, AgentRow, Request, Idle
<1>2. SerialInv /\ [Next]_vars => SerialInv' /\ [Lifecycle!Next]_Statuses
  BY SerialStep
<1> QED
  BY <1>1, <1>2, PTL DEF Spec, FollowsLifecycle, Lifecycle!Spec, Statuses
-----------------------------------------------------------------------------
(* Any number of workers.  What is left of the lifecycle is that each edit   *)
(* was allowed on the row it was loaded from; a request that was not         *)
(* overtaken still finds that status.                                        *)

AllowedInv ==
  \A w \in Workers :
    requests[w].kind = "update" => Allowed(requests[w].loaded.status, requests[w].edited.status)

\* A request that is replaced by one with an allowed edit, or by none.
LEMMA OneRequest ==
  ASSUME TypeOK, AllowedInv, NEW w \in Workers, NEW r,
         requests' = [requests EXCEPT ![w] = r],
         r.kind = "update" => Allowed(r.loaded.status, r.edited.status)
  PROVE  AllowedInv'
BY DEF AllowedInv, TypeOK

LEMMA AllowedLoad ==
  ASSUME TypeOK, AllowedInv, NEW w \in Workers, NEW a \in Agents, NEW e,
         LoadAndEdit(w, a, e), Allowed(agents[a].status, e.status)
  PROVE  AllowedInv'
BY OneRequest DEF LoadAndEdit

LEMMA AllowedStep ==
  ASSUME TypeOK, AllowedInv, [Next]_vars
  PROVE  AllowedInv'
<1>1. ASSUME NEW w \in Workers, NEW b, NEW k, CreateAgent(w, b, k)
      PROVE  AllowedInv'
  BY <1>1, OneRequest DEF CreateAgent
<1>2. ASSUME NEW w \in Workers, NEW a \in Agents, ActivateAgent(w, a)
      PROVE  AllowedInv'
  <2>1. [agents[a] EXCEPT !.status = "active", !.activated = TRUE].status = "active"
    BY DEF TypeOK, AgentRow
  <2> QED BY <1>2, <2>1, AllowedLoad DEF ActivateAgent, MayActivate, Allowed
<1>3. ASSUME NEW w \in Workers, NEW a \in Agents, SuspendAgent(w, a)
      PROVE  AllowedInv'
  <2>1. [agents[a] EXCEPT !.status = "suspended", !.suspended = TRUE].status = "suspended"
    BY DEF TypeOK, AgentRow
  <2> QED BY <1>3, <2>1, AllowedLoad DEF SuspendAgent, MaySuspend, Allowed
<1>4. ASSUME NEW w \in Workers, NEW a \in Agents, RevokeAgent(w, a)
      PROVE  AllowedInv'
  <2>1. [agents[a] EXCEPT !.status = "revoked", !.revoked = TRUE].status = "revoked"
    BY DEF TypeOK, AgentRow
  <2> QED BY <1>4, <2>1, AllowedLoad DEF RevokeAgent, Allowed
<1>5. ASSUME NEW w \in Workers, NEW a \in Agents, NEW k \in Keys, RotateKey(w, a, k)
      PROVE  AllowedInv'
  <2>1. [agents[a] EXCEPT !.key = k].status = agents[a].status
    BY DEF TypeOK, AgentRow
  <2> QED BY <1>5, <2>1, AllowedLoad DEF RotateKey, Allowed
<1>6. ASSUME NEW w \in Workers, Commit(w) \/ FailRequest(w)
      PROVE  AllowedInv'
  BY <1>6, OneRequest DEF Commit, InsertAgent, UpdateAgent, FailRequest, Idle
<1>7. CASE \E b \in Blueprints : BlueprintChanges(b)
  BY <1>7 DEF BlueprintChanges, AllowedInv
<1>8. CASE UNCHANGED vars
  BY <1>8 DEF vars, AllowedInv
<1> QED
  BY <1>1, <1>2, <1>3, <1>4, <1>5, <1>6, <1>7, <1>8 DEF Next, Handle

\* A step that lets no overtaken request commit is one of the lifecycle's.
LEMMA FreshStep ==
  ASSUME StampInv, AllowedInv, [Next]_vars,
         \A w \in Workers : Overtaken(w) => requests'[w] = requests[w]
  PROVE  Lifecycle!Next \/ UNCHANGED Statuses
<1>1. TypeOK
  BY DEF StampInv
<1>2. agents' = agents => UNCHANGED Statuses
  BY DEF Statuses
<1>3. ASSUME NEW w \in Workers, InsertAgent(w)
      PROVE  Lifecycle!Next
  <2>1. PICK a \in Agents : ~Exists(a) /\ agents' = [agents EXCEPT ![a] = requests[w].row]
    BY <1>3 DEF InsertAgent
  <2>2. requests[w].row.status = "draft"
    BY <1>3 DEF InsertAgent, StampInv
  <2>3. Statuses[a] = "absent" /\ Statuses' = [Statuses EXCEPT ![a] = "draft"]
    BY <2>1, <2>2, <1>1 DEF Statuses, Exists, TypeOK
  <2>4. Lifecycle!Register(a)
    BY <2>3 DEF Lifecycle!Register, Lifecycle!Move, Statuses
  <2> QED BY <2>4 DEF Lifecycle!Next
<1>4. ASSUME NEW w \in Workers, UpdateAgent(w)
      PROVE  Lifecycle!Next \/ UNCHANGED Statuses
  <2> DEFINE r == requests[w]
             m == Merge(agents[r.agent], r.loaded, r.edited)
  <2>1. /\ r.agent \in Agents /\ Exists(r.agent)
        /\ Allowed(r.loaded.status, r.edited.status)
    BY <1>4, <1>1 DEF UpdateAgent, StampInv, Covers, Exists, AllowedInv, TypeOK, Request, Idle
  <2>2. agents' = [agents EXCEPT ![r.agent] = m] /\ requests'[w].kind = "idle" /\ r.kind = "update"
    BY <1>4, <1>1 DEF UpdateAgent, TypeOK, Idle
  <2>3. r.loaded.status = agents[r.agent].status
    BY <2>2 DEF Overtaken
  <2>4. m.status = r.edited.status
    BY <2>3 DEF Merge, Written
  <2>5. Allowed(agents[r.agent].status, m.status)
    BY <2>1, <2>3, <2>4
  <2> QED BY <2>1, <2>2, <2>5, <1>1, AllowedIsLifecycleStep
<1>5. ASSUME NEW w \in Workers, Handle(w)
      PROVE  Lifecycle!Next \/ UNCHANGED Statuses
  BY <1>5, <1>2, <1>3, <1>4
  DEF Handle, Commit, CreateAgent, ActivateAgent, SuspendAgent, RevokeAgent, RotateKey,
      LoadAndEdit, FailRequest
<1> QED
  BY <1>2, <1>5 DEF Next, BlueprintChanges, vars

\* For any number of overlapping administrators, a commit that was not overtaken
\* is a transition of the lifecycle: the stale copies are the only way out of it.
THEOREM OnlyStaleCommitsDepart == Spec => FreshCommitsFollowLifecycle
<1>1. Init => AllowedInv
  BY DEF Init, AllowedInv, Idle
<1>2. StampInv /\ [Next]_vars => StampInv'
  BY NextStamps
<1>3. StampInv /\ AllowedInv /\ [Next]_vars => AllowedInv'
  BY AllowedStep DEF StampInv
<1>4. StampInv /\ AllowedInv /\ [Next]_vars =>
        [(\A w \in Workers : Overtaken(w) => requests'[w] = requests[w]) =>
           Lifecycle!Next \/ UNCHANGED [a \in Agents |-> agents[a].status]]_vars
  BY FreshStep DEF Statuses
<1> QED
  BY InitStamps, <1>1, <1>2, <1>3, <1>4, PTL DEF Spec, FreshCommitsFollowLifecycle
=============================================================================
