-------------------------- MODULE BlueprintRegistry ---------------------------
(***************************************************************************)
(* The blueprint endpoints of the identity API (api/blueprints.py over     *)
(* repositories/blueprint_repo.py): create with a unique slug, update with *)
(* a version bump, activate, deactivate.  Handlers are cut at their awaits *)
(* as in AgentRegistry.                                                    *)
(***************************************************************************)
EXTENDS UnitOfWork, Naturals

CONSTANTS
  Blueprints,      \* blueprint ids the database can allocate
  Slugs,
  CreateTtls,      \* max_session_ttl_seconds that BlueprintCreate accepts (60..86400)
  UpdateTtls,      \* those that BlueprintUpdate accepts: any integer
  NullTtl,         \* an explicit null, which BlueprintUpdate accepts too
  BlueprintWorkers,
  MaxVersion       \* bound of the exploration on the version counter

ASSUME BlueprintAssumption ==
  /\ CreateTtls \subseteq UpdateTtls
  /\ NullTtl \notin UpdateTtls
  /\ MaxVersion \in Nat \ {0}

VARIABLES
  blueprints,          \* table agent_blueprints
  blueprintRequests    \* each worker's request, between its load and its commit

blueprintVars == <<blueprints, blueprintRequests>>

BlueprintStatus == {"draft", "active", "inactive", "deprecated"}

BlueprintRow ==
  [ status  : BlueprintStatus \cup {"absent"},
    slug    : Slugs \cup {"none"},
    version : 0..MaxVersion,
    ttl     : UpdateTtls \cup {NullTtl} ]

NoBlueprint == [status |-> "absent", slug |-> "none", version |-> 0, ttl |-> NullTtl]

BlueprintExists(b) == blueprints[b].status # "absent"

IsActive(b) == blueprints[b].status = "active"

NoRequest == [kind |-> "idle"]

BlueprintRequest ==
  {NoRequest} \cup [kind : {"insert"}, row : BlueprintRow]
    \cup [kind : {"put", "status"}, blueprint : Blueprints,
          loaded : BlueprintRow, edited : BlueprintRow]

BlueprintTypeOK ==
  /\ blueprints \in [Blueprints -> BlueprintRow]
  /\ blueprintRequests \in [BlueprintWorkers -> BlueprintRequest]

Init ==
  /\ blueprints = [b \in Blueprints |-> NoBlueprint]
  /\ blueprintRequests = [w \in BlueprintWorkers |-> NoRequest]

-----------------------------------------------------------------------------
SlugTaken(s) == \E b \in Blueprints : blueprints[b].slug = s

DraftWithoutDefault(s, t) == [status |-> "unset", slug |-> s, version |-> 1, ttl |-> t]
\* The row AgentBlueprint(**data) builds: column defaults DRAFT and version 1.
NewBlueprint(s, t) == [status |-> "draft", slug |-> s, version |-> 1, ttl |-> t]

\* create_blueprint: 409 if the slug exists, else on to the INSERT.
CreateBlueprint(w, s, t) ==
  /\ blueprintRequests[w] = NoRequest
  /\ ~SlugTaken(s)
  /\ blueprintRequests' = [blueprintRequests EXCEPT ![w] =
       [kind |-> "insert", row |-> NewBlueprint(s, t)]]
  /\ UNCHANGED blueprints

LoadAndEdit(w, b, kind, edited) ==
  /\ blueprintRequests[w] = NoRequest
  /\ BlueprintExists(b)
  /\ blueprintRequests' = [blueprintRequests EXCEPT ![w] =
       [kind |-> kind, blueprint |-> b, loaded |-> blueprints[b], edited |-> edited]]
  /\ UNCHANGED blueprints

\* update_blueprint: the given fields (ttl stands for them; t = the stored one
\* is a PUT that leaves it unset) and version += 1, computed from the loaded row.
UpdateBlueprint(w, b, t) ==
  /\ blueprints[b].version < MaxVersion
  /\ LoadAndEdit(w, b, "put",
       [blueprints[b] EXCEPT !.ttl = t, !.version = @ + 1])

\* activate_blueprint, deactivate_blueprint: no guard on the status.
ActivateBlueprint(w, b) ==
  LoadAndEdit(w, b, "status", [blueprints[b] EXCEPT !.status = "active"])

DeactivateBlueprint(w, b) ==
  LoadAndEdit(w, b, "status", [blueprints[b] EXCEPT !.status = "inactive"])

-----------------------------------------------------------------------------
InsertUnconstrained(w) ==
  /\ blueprintRequests[w].kind = "insert"
  /\ \E b \in Blueprints :
       /\ ~BlueprintExists(b)
       /\ blueprints' = [blueprints EXCEPT ![b] = blueprintRequests[w].row]
  /\ blueprintRequests' = [blueprintRequests EXCEPT ![w] = NoRequest]

\* BlueprintRepository.create.  A slug that appeared since the check violates
\* the UNIQUE constraint: IntegrityError, rolled back, answered 500.
InsertBlueprint(w) ==
  /\ blueprintRequests[w].kind = "insert"
  /\ IF SlugTaken(blueprintRequests[w].row.slug)
       THEN UNCHANGED blueprints
       ELSE \E b \in Blueprints :
              /\ ~BlueprintExists(b)
              /\ blueprints' = [blueprints EXCEPT ![b] = blueprintRequests[w].row]
  /\ blueprintRequests' = [blueprintRequests EXCEPT ![w] = NoRequest]

MergeWholeRow(stored, loaded, edited) == edited

Merge(stored, loaded, edited) ==
  [ status  |-> Written(stored.status, loaded.status, edited.status),
    slug    |-> Written(stored.slug, loaded.slug, edited.slug),
    version |-> Written(stored.version, loaded.version, edited.version),
    ttl     |-> Written(stored.ttl, loaded.ttl, edited.ttl) ]

\* max_session_ttl_seconds is NOT NULL.
Storable(row) == row.ttl # NullTtl

\* BlueprintRepository.update: UPDATE and COMMIT; a null in a NOT NULL column is
\* an IntegrityError and changes nothing.
CommitBlueprint(w) ==
  /\ blueprintRequests[w].kind \in {"put", "status"}
  /\ LET r == blueprintRequests[w]
         row == Merge(blueprints[r.blueprint], r.loaded, r.edited)
     IN  blueprints' = IF Storable(row)
                         THEN [blueprints EXCEPT ![r.blueprint] = row]
                         ELSE blueprints
  /\ blueprintRequests' = [blueprintRequests EXCEPT ![w] = NoRequest]

\* get_db rolls back.
FailBlueprintRequest(w) ==
  /\ blueprintRequests[w] # NoRequest
  /\ blueprintRequests' = [blueprintRequests EXCEPT ![w] = NoRequest]
  /\ UNCHANGED blueprints

Next ==
  \E w \in BlueprintWorkers :
    \/ \E s \in Slugs, t \in CreateTtls : CreateBlueprint(w, s, t)
    \/ \E b \in Blueprints :
         \/ \E t \in UpdateTtls \cup {NullTtl} : UpdateBlueprint(w, b, t)
         \/ ActivateBlueprint(w, b)
         \/ DeactivateBlueprint(w, b)
    \/ InsertBlueprint(w)
    \/ CommitBlueprint(w)
    \/ FailBlueprintRequest(w)

Spec == Init /\ [][Next]_blueprintVars

-----------------------------------------------------------------------------
(* Properties. *)

\* Two stored blueprints never share a slug, although two concurrent creations
\* both pass the handler's check: principal URIs and token blueprint_id claims
\* name a blueprint by its slug.
SlugUnique ==
  \A b, c \in Blueprints :
    BlueprintExists(b) /\ blueprints[b].slug = blueprints[c].slug => b = c

\* A PUT that commits after a concurrent activate or deactivate leaves the new
\* status in place although it carries a stale copy of the row.
PutKeepsStatus ==
  [][\A b \in Blueprints :
       BlueprintExists(b) /\ blueprints'[b].status # blueprints[b].status =>
         \E w \in BlueprintWorkers : /\ blueprintRequests[w].kind = "status"
                                     /\ blueprintRequests[w].blueprint = b
                                     /\ blueprintRequests'[w] = NoRequest]_blueprintVars

\* The version counts the PUTs: nothing but the commit of a PUT changes a version
\* or the content it names, and one that no other PUT overtook adds exactly one.
\* (An overtaken PUT writes a number that is in use already: the token's "slug:vN"
\* then stands for two contents.)
VersionsCountPuts ==
  [][\A b \in Blueprints :
       /\ BlueprintExists(b)
       /\ \/ blueprints'[b].version # blueprints[b].version
          \/ blueprints'[b].ttl # blueprints[b].ttl
       => \E w \in BlueprintWorkers :
            /\ blueprintRequests[w].kind = "put"
            /\ blueprintRequests[w].blueprint = b
            /\ blueprintRequests'[w] = NoRequest
            /\ blueprintRequests[w].loaded.version = blueprints[b].version =>
                 blueprints'[b].version = blueprints[b].version + 1]_blueprintVars
=============================================================================
