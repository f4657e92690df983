------------------------ MODULE BlueprintRegistryProofs ------------------------
(***************************************************************************)
(* Theorems about BlueprintRegistry for any number of requests, blueprints *)
(* and slugs, and any bound on the versions.                               *)
(***************************************************************************)
EXTENDS BlueprintRegistry, TLAPS

\* What a request has done to the row it loaded.  Needed because an UPDATE may
\* write any column that a request changed, two awaits after it read the row.
EditOK(r) ==
  /\ r.kind = "insert" => r.row.status = "draft" /\ r.row.ttl \in UpdateTtls
  /\ r.kind \in {"put", "status"} =>
       /\ BlueprintExists(r.blueprint)
       /\ r.edited.slug = r.loaded.slug
       /\ r.edited.status = r.loaded.status \/ r.edited.status # "absent"
  /\ r.kind = "put" => /\ r.edited.status = r.loaded.status
                       /\ r.edited.version = r.loaded.version + 1
  /\ r.kind = "status" => /\ r.edited.version = r.loaded.version
                          /\ r.edited.ttl = r.loaded.ttl

\* max_session_ttl_seconds is NOT NULL; it may be zero or negative.
TtlStored == \A b \in Blueprints : BlueprintExists(b) => blueprints[b].ttl \in UpdateTtls

BlueprintInv ==
  /\ BlueprintTypeOK
  /\ SlugUnique
  /\ TtlStored
  /\ \A w \in BlueprintWorkers : EditOK(blueprintRequests[w])

-----------------------------------------------------------------------------
\* A step that gives worker w the request r and touches no row.
LEMMA RequestStep ==
  ASSUME BlueprintInv, NEW w \in BlueprintWorkers, NEW r \in BlueprintRequest, EditOK(r),
         blueprintRequests' = [blueprintRequests EXCEPT ![w] = r], UNCHANGED blueprints
  PROVE  BlueprintInv'
<1>1. BlueprintTypeOK'
  BY DEF BlueprintInv, BlueprintTypeOK
<1>2. SlugUnique' /\ TtlStored'
  BY DEF BlueprintInv, SlugUnique, TtlStored, BlueprintExists
<1>3. ASSUME NEW v \in BlueprintWorkers PROVE EditOK(blueprintRequests[v])'
  <2>1. EditOK(blueprintRequests'[v])
    BY DEF BlueprintInv, BlueprintTypeOK
  <2> QED BY <2>1 DEF EditOK, BlueprintExists
<1> QED BY <1>1, <1>2, <1>3 DEF BlueprintInv

LEMMA IdleRequest == NoRequest \in BlueprintRequest /\ EditOK(NoRequest)
BY DEF NoRequest, BlueprintRequest, EditOK

\* A PUT's row, for any version within the bound and for the next one.
LEMMA Rewritten ==
  ASSUME NEW row \in BlueprintRow, NEW t \in UpdateTtls \cup {NullTtl}, NEW v \in 0..MaxVersion
  PROVE  LET e == [row EXCEPT !.ttl = t, !.version = v]
         IN  e \in BlueprintRow /\ e.slug = row.slug /\ e.status = row.status /\ e.version = v
BY DEF BlueprintRow

LEMMA Bumped ==
  ASSUME NEW row \in BlueprintRow, NEW t \in UpdateTtls \cup {NullTtl}, row.version < MaxVersion
  PROVE  LET e == [row EXCEPT !.ttl = t, !.version = @ + 1]
         IN  /\ e \in BlueprintRow
             /\ e.slug = row.slug /\ e.status = row.status
             /\ e.version = row.version + 1
<1> DEFINE v == row.version + 1
<1>1. row.version \in 0..MaxVersion
  BY DEF BlueprintRow
<1>2. v \in 0..MaxVersion
  BY <1>1, BlueprintAssumption
<1> HIDE DEF v
<1>3. LET e == [row EXCEPT !.ttl = t, !.version = v]
      IN  e \in BlueprintRow /\ e.slug = row.slug /\ e.status = row.status /\ e.version = v
  BY <1>2, Rewritten
<1> QED BY <1>3, Zenon DEF v

\* The beginnings of requests.
LEMMA BeginStep ==
  ASSUME BlueprintInv, NEW w \in BlueprintWorkers,
         \/ \E s \in Slugs, t \in CreateTtls : CreateBlueprint(w, s, t)
         \/ \E b \in Blueprints :
              \/ \E t \in UpdateTtls \cup {NullTtl} : UpdateBlueprint(w, b, t)
              \/ ActivateBlueprint(w, b)
              \/ DeactivateBlueprint(w, b)
  PROVE  BlueprintInv'
<1> USE BlueprintAssumption
<1>1. ASSUME NEW s \in Slugs, NEW t \in CreateTtls, CreateBlueprint(w, s, t)
      PROVE  BlueprintInv'
  <2> DEFINE r == [kind |-> "insert", row |-> NewBlueprint(s, t)]
  <2>1. NewBlueprint(s, t) \in BlueprintRow
    BY DEF NewBlueprint, BlueprintRow, BlueprintStatus
  <2>2. r \in BlueprintRequest /\ EditOK(r)
    BY <2>1 DEF BlueprintRequest, EditOK, NewBlueprint
  <2> QED BY <1>1, <2>2, RequestStep DEF CreateBlueprint
<1>2. ASSUME NEW b \in Blueprints, NEW kind \in {"put", "status"}, NEW e \in BlueprintRow,
             LoadAndEdit(w, b, kind, e),
             EditOK([kind |-> kind, blueprint |-> b, loaded |-> blueprints[b], edited |-> e])
      PROVE  BlueprintInv'
  <2> DEFINE r == [kind |-> kind, blueprint |-> b, loaded |-> blueprints[b], edited |-> e]
  <2>1. r \in BlueprintRequest
    BY DEF BlueprintRequest, BlueprintInv, BlueprintTypeOK
  <2> QED BY <1>2, <2>1, RequestStep DEF LoadAndEdit
<1>3. ASSUME NEW b \in Blueprints, NEW t \in UpdateTtls \cup {NullTtl}, UpdateBlueprint(w, b, t)
      PROVE  BlueprintInv'
  <2> DEFINE e == [blueprints[b] EXCEPT !.ttl = t, !.version = @ + 1]
  <2>1. blueprints[b] \in BlueprintRow /\ blueprints[b].version < MaxVersion
    BY <1>3 DEF UpdateBlueprint, BlueprintInv, BlueprintTypeOK
  <2>2. /\ e \in BlueprintRow
        /\ e.slug = blueprints[b].slug /\ e.status = blueprints[b].status
        /\ e.version = blueprints[b].version + 1
    BY <2>1, Bumped
  <2>3. LoadAndEdit(w, b, "put", e)
    BY <1>3 DEF UpdateBlueprint
  <2>4. EditOK([kind |-> "put", blueprint |-> b, loaded |-> blueprints[b], edited |-> e])
    BY <2>2, <2>3 DEF EditOK, LoadAndEdit
  <2> QED BY <1>2, <2>2, <2>3, <2>4
<1>4. ASSUME NEW b \in Blueprints, NEW status \in {"active", "inactive"},
             LoadAndEdit(w, b, "status", [blueprints[b] EXCEPT !.status = status])
      PROVE  BlueprintInv'
  <2> DEFINE e == [blueprints[b] EXCEPT !.status = status]
  <2>1. blueprints[b] \in BlueprintRow
    BY DEF BlueprintInv, BlueprintTypeOK
  <2>2. /\ e \in BlueprintRow
        /\ e.slug = blueprints[b].slug /\ e.status # "absent"
        /\ e.version = blueprints[b].version /\ e.ttl = blueprints[b].ttl
    BY <2>1 DEF BlueprintRow, BlueprintStatus
  <2>3. EditOK([kind |-> "status", blueprint |-> b, loaded |-> blueprints[b], edited |-> e])
    BY <1>4, <2>2 DEF EditOK, LoadAndEdit
  <2> QED BY <1>2, <1>4, <2>2, <2>3
<1> QED BY <1>1, <1>3, <1>4 DEF ActivateBlueprint, DeactivateBlueprint

-----------------------------------------------------------------------------
\* INSERT: the UNIQUE constraint sees the rows of the moment.
LEMMA InsertStep ==
  ASSUME BlueprintInv, NEW w \in BlueprintWorkers, InsertBlueprint(w)
  PROVE  BlueprintInv'
<1> DEFINE row == blueprintRequests[w].row
<1>1. blueprintRequests' = [blueprintRequests EXCEPT ![w] = NoRequest]
  BY DEF InsertBlueprint
<1>2. CASE UNCHANGED blueprints
  BY <1>1, <1>2, IdleRequest, RequestStep
<1>3. ASSUME ~SlugTaken(row.slug), NEW b \in Blueprints, ~BlueprintExists(b),
             blueprints' = [blueprints EXCEPT ![b] = row]
      PROVE  BlueprintInv'
  <2>1. blueprintRequests[w] \in BlueprintRequest /\ blueprintRequests[w].kind = "insert"
    BY DEF InsertBlueprint, BlueprintInv, BlueprintTypeOK
  <2>2. row \in BlueprintRow /\ row.status = "draft" /\ row.ttl \in UpdateTtls
    BY <2>1 DEF BlueprintInv, EditOK, BlueprintRequest, NoRequest
  <2>3. /\ DOMAIN blueprints = Blueprints /\ blueprints'[b] = row
        /\ \A c \in Blueprints \ {b} : blueprints'[c] = blueprints[c]
    BY <1>3 DEF BlueprintInv, BlueprintTypeOK
  <2>4. BlueprintTypeOK'
    BY <1>1, <1>3, <2>2, IdleRequest DEF BlueprintInv, BlueprintTypeOK
  <2>5. SlugUnique'
    BY <1>3, <2>3 DEF BlueprintInv, SlugUnique, SlugTaken, BlueprintExists
  <2>6. TtlStored'
    BY <2>2, <2>3 DEF BlueprintInv, TtlStored, BlueprintExists
  <2>7. ASSUME NEW v \in BlueprintWorkers PROVE EditOK(blueprintRequests[v])'
    <3>1. EditOK(blueprintRequests'[v])
      BY <1>1, IdleRequest DEF BlueprintInv, BlueprintTypeOK
    <3>2. \A c : BlueprintExists(c) /\ blueprintRequests'[v].blueprint = c
                   /\ blueprintRequests'[v].kind \in {"put", "status"} => BlueprintExists(c)'
      <4>1. \A c \in Blueprints : BlueprintExists(c) => BlueprintExists(c)'
        BY <1>3, <2>3 DEF BlueprintExists
      <4>2. blueprintRequests'[v] \in BlueprintRequest
        BY <2>4 DEF BlueprintTypeOK
      <4> QED BY <4>1, <4>2 DEF BlueprintRequest, NoRequest
    <3> QED BY <3>1, <3>2 DEF EditOK
  <2> QED BY <2>4, <2>5, <2>6, <2>7 DEF BlueprintInv
<1> QED BY <1>2, <1>3 DEF InsertBlueprint

\* UPDATE: the merged row keeps its slug, and every column is the stored one's or
\* the request's.
LEMMA MergedRow ==
  ASSUME BlueprintInv, NEW w \in BlueprintWorkers, CommitBlueprint(w)
  PROVE  LET r == blueprintRequests[w]
             old == blueprints[r.blueprint]
             row == Merge(old, r.loaded, r.edited)
         IN  /\ r.blueprint \in Blueprints /\ old \in BlueprintRow
             /\ r.loaded \in BlueprintRow /\ r.edited \in BlueprintRow
             /\ row \in BlueprintRow
             /\ row.slug = old.slug
             /\ row.status # "absent"
             /\ BlueprintExists(r.blueprint)
<1> DEFINE r == blueprintRequests[w]
           old == blueprints[r.blueprint]
           row == Merge(old, r.loaded, r.edited)
<1>1. r \in BlueprintRequest /\ r.kind \in {"put", "status"} /\ EditOK(r)
  BY DEF CommitBlueprint, BlueprintInv, BlueprintTypeOK
<1>2. r.blueprint \in Blueprints /\ r.loaded \in BlueprintRow /\ r.edited \in BlueprintRow
  BY <1>1 DEF BlueprintRequest, NoRequest
<1>3. old \in BlueprintRow /\ BlueprintExists(r.blueprint)
  BY <1>1, <1>2 DEF BlueprintInv, BlueprintTypeOK, EditOK
<1>4. row \in BlueprintRow
  BY <1>2, <1>3 DEF Merge, Written, BlueprintRow
<1>5. row.slug = old.slug /\ row.status # "absent"
  BY <1>1, <1>3 DEF Merge, Written, EditOK, BlueprintExists
<1> QED BY <1>2, <1>3, <1>4, <1>5

LEMMA CommitStep ==
  ASSUME BlueprintInv, NEW w \in BlueprintWorkers, CommitBlueprint(w)
  PROVE  BlueprintInv'
<1> DEFINE r == blueprintRequests[w]
           b == r.blueprint
           row == Merge(blueprints[b], r.loaded, r.edited)
<1>1. blueprintRequests' = [blueprintRequests EXCEPT ![w] = NoRequest]
  BY DEF CommitBlueprint
<1>2. CASE UNCHANGED blueprints
  BY <1>1, <1>2, IdleRequest, RequestStep
<1>3. ASSUME Storable(row), blueprints' = [blueprints EXCEPT ![b] = row]
      PROVE  BlueprintInv'
  <2>1. /\ b \in Blueprints /\ row \in BlueprintRow /\ row.slug = blueprints[b].slug
        /\ row.status # "absent" /\ BlueprintExists(b)
    BY MergedRow
  <2>2. /\ DOMAIN blueprints = Blueprints /\ blueprints'[b] = row
        /\ \A c \in Blueprints \ {b} : blueprints'[c] = blueprints[c]
    BY <1>3, <2>1 DEF BlueprintInv, BlueprintTypeOK
  <2>3. BlueprintTypeOK'
    BY <1>1, <1>3, <2>1, IdleRequest DEF BlueprintInv, BlueprintTypeOK
  <2>4. \A c \in Blueprints : /\ blueprints'[c].slug = blueprints[c].slug
                              /\ BlueprintExists(c)' <=> BlueprintExists(c)
    BY <2>1, <2>2 DEF BlueprintExists
  <2>5. SlugUnique'
    BY <2>4 DEF BlueprintInv, SlugUnique
  <2>6. row.ttl \in UpdateTtls
    BY <1>3, <2>1 DEF Storable, BlueprintRow
  <2>7. TtlStored'
    BY <2>1, <2>2, <2>4, <2>6 DEF BlueprintInv, TtlStored
  <2>8. ASSUME NEW v \in BlueprintWorkers PROVE EditOK(blueprintRequests[v])'
    <3>1. EditOK(blueprintRequests'[v])
      BY <1>1, IdleRequest DEF BlueprintInv, BlueprintTypeOK
    <3>2. blueprintRequests'[v] \in BlueprintRequest
      BY <2>3 DEF BlueprintTypeOK
    <3>3. blueprintRequests'[v].kind \in {"put", "status"} =>
            blueprintRequests'[v].blueprint \in Blueprints
      BY <3>2 DEF BlueprintRequest, NoRequest
    <3> QED BY <2>4, <3>1, <3>3 DEF EditOK
  <2> QED BY <2>3, <2>5, <2>7, <2>8 DEF BlueprintInv
<1> QED BY <1>2, <1>3 DEF CommitBlueprint

LEMMA BlueprintStep == BlueprintInv /\ [Next]_blueprintVars => BlueprintInv'
<1> SUFFICES ASSUME BlueprintInv, [Next]_blueprintVars
             PROVE  BlueprintInv'
  OBVIOUS
<1>1. ASSUME NEW w \in BlueprintWorkers, FailBlueprintRequest(w)
      PROVE  BlueprintInv'
  BY <1>1, IdleRequest, RequestStep DEF FailBlueprintRequest
<1>2. CASE UNCHANGED blueprintVars
  BY <1>2
  DEF blueprintVars, BlueprintInv, BlueprintTypeOK, SlugUnique, TtlStored, EditOK,
      BlueprintExists
<1> QED BY <1>1, <1>2, BeginStep, InsertStep, CommitStep DEF Next

LEMMA BlueprintStart == Init => BlueprintInv
<1> SUFFICES ASSUME Init PROVE BlueprintInv
  OBVIOUS
<1>1. NoBlueprint \in BlueprintRow
  BY BlueprintAssumption DEF NoBlueprint, BlueprintRow
<1> QED
  BY <1>1, IdleRequest
  DEF Init, BlueprintInv, BlueprintTypeOK, SlugUnique, TtlStored, BlueprintExists, NoBlueprint

\* The rows and the requests in flight are well formed.
THEOREM BlueprintTypes == Spec => []BlueprintTypeOK
<1>1. BlueprintInv => BlueprintTypeOK
  BY DEF BlueprintInv
<1> QED BY <1>1, BlueprintStart, BlueprintStep, PTL DEF Spec

\* However many creations overlap, no two stored blueprints share a slug.
THEOREM SlugsStayUnique == Spec => []SlugUnique
<1>1. BlueprintInv => SlugUnique
  BY DEF BlueprintInv
<1> QED BY <1>1, BlueprintStart, BlueprintStep, PTL DEF Spec

-----------------------------------------------------------------------------
\* What happens to a stored row is the commit of a request that changed it.
LEMMA RowChanges ==
  ASSUME BlueprintInv, [Next]_blueprintVars, NEW b \in Blueprints, BlueprintExists(b),
         blueprints'[b] # blueprints[b]
  PROVE  \E w \in BlueprintWorkers :
           /\ CommitBlueprint(w) /\ blueprintRequests[w].blueprint = b
           /\ blueprintRequests'[w] = NoRequest
           /\ blueprints'[b] = Merge(blueprints[b], blueprintRequests[w].loaded,
                                     blueprintRequests[w].edited)
<1>1. PICK w \in BlueprintWorkers : InsertBlueprint(w) \/ CommitBlueprint(w)
  BY DEF Next, CreateBlueprint, UpdateBlueprint, ActivateBlueprint, DeactivateBlueprint,
         LoadAndEdit, FailBlueprintRequest, blueprintVars
<1>2. ~InsertBlueprint(w)
  BY DEF InsertBlueprint, BlueprintInv, BlueprintTypeOK
<1>3. CommitBlueprint(w)
  BY <1>1, <1>2
<1>4. blueprintRequests'[w] = NoRequest
  BY <1>3 DEF CommitBlueprint, BlueprintInv, BlueprintTypeOK
<1> QED BY <1>3, <1>4 DEF CommitBlueprint, BlueprintInv, BlueprintTypeOK

\* A status changes by the commit of a request for a status.
LEMMA StatusChanges ==
  ASSUME BlueprintInv, [Next]_blueprintVars, NEW b \in Blueprints, BlueprintExists(b),
         blueprints'[b].status # blueprints[b].status
  PROVE  \E w \in BlueprintWorkers : /\ blueprintRequests[w].kind = "status"
                                     /\ blueprintRequests[w].blueprint = b
                                     /\ blueprintRequests'[w] = NoRequest
<1>1. PICK w \in BlueprintWorkers :
        /\ CommitBlueprint(w) /\ blueprintRequests[w].blueprint = b
        /\ blueprintRequests'[w] = NoRequest
        /\ blueprints'[b] = Merge(blueprints[b], blueprintRequests[w].loaded,
                                  blueprintRequests[w].edited)
  BY RowChanges
<1>2. blueprintRequests[w].kind # "put"
  BY <1>1 DEF BlueprintInv, EditOK, Merge, Written
<1> QED BY <1>1, <1>2 DEF CommitBlueprint

\* A PUT never writes a status, however stale its copy of the row.
THEOREM PutsKeepStatus == Spec => PutKeepsStatus
<1>1. BlueprintInv /\ [Next]_blueprintVars =>
        [\A b \in Blueprints :
           BlueprintExists(b) /\ blueprints'[b].status # blueprints[b].status =>
             \E w \in BlueprintWorkers : /\ blueprintRequests[w].kind = "status"
                                         /\ blueprintRequests[w].blueprint = b
                                         /\ blueprintRequests'[w] = NoRequest]_blueprintVars
  BY StatusChanges
<1> QED BY <1>1, BlueprintStart, BlueprintStep, PTL DEF Spec, PutKeepsStatus

\* The commit of a PUT of b, which adds one to the version it finds unless another
\* PUT overtook it.
CountedPut(b) ==
  \E w \in BlueprintWorkers :
    /\ blueprintRequests[w].kind = "put"
    /\ blueprintRequests[w].blueprint = b
    /\ blueprintRequests'[w] = NoRequest
    /\ blueprintRequests[w].loaded.version = blueprints[b].version =>
         blueprints'[b].version = blueprints[b].version + 1

LEMMA ContentChanges ==
  ASSUME BlueprintInv, [Next]_blueprintVars, NEW b \in Blueprints, BlueprintExists(b),
         \/ blueprints'[b].version # blueprints[b].version
         \/ blueprints'[b].ttl # blueprints[b].ttl
  PROVE  CountedPut(b)
<1>1. PICK w \in BlueprintWorkers :
        /\ CommitBlueprint(w) /\ blueprintRequests[w].blueprint = b
        /\ blueprintRequests'[w] = NoRequest
        /\ blueprints'[b] = Merge(blueprints[b], blueprintRequests[w].loaded,
                                  blueprintRequests[w].edited)
  BY RowChanges
<1>2. blueprintRequests[w].kind = "put"
  BY <1>1 DEF CommitBlueprint, BlueprintInv, EditOK, Merge, Written
<1>3. /\ blueprintRequests[w].edited.version = blueprintRequests[w].loaded.version + 1
      /\ blueprintRequests[w].loaded.version \in Nat
  BY <1>1, <1>2, MergedRow, BlueprintAssumption DEF BlueprintInv, EditOK, BlueprintRow
<1>4. blueprints'[b].version = blueprintRequests[w].edited.version
  BY <1>1, <1>3 DEF Merge, Written
<1> QED BY <1>1, <1>2, <1>3, <1>4 DEF CountedPut

\* Versions and contents are written by PUTs alone, and one that no other PUT
\* overtook adds exactly one.
THEOREM VersionsAreCounts == Spec => VersionsCountPuts
<1>1. BlueprintInv /\ [Next]_blueprintVars =>
        [\A b \in Blueprints :
           /\ BlueprintExists(b)
           /\ \/ blueprints'[b].version # blueprints[b].version
              \/ blueprints'[b].ttl # blueprints[b].ttl
           => CountedPut(b)]_blueprintVars
  BY ContentChanges
<1> QED
  BY <1>1, BlueprintStart, BlueprintStep, PTL DEF Spec, VersionsCountPuts, CountedPut
=============================================================================
