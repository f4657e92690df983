---------------------------- MODULE AgentLifecycle ----------------------------
(***************************************************************************)
(* What the agent registry promises its callers: the lifecycle of one      *)
(* agent identity as the guards of apps/identity_api/api/agents.py state   *)
(* it, each transition atomic.  "absent" stands for an id with no row.     *)
(***************************************************************************)
CONSTANT Agents

VARIABLE status

\* packages/common/enums.py, AgentStatus.
AgentStatus ==
  {"draft", "pending_approval", "active", "suspended", "revoked", "decommissioned"}

Move(a, from, to) ==
  /\ status[a] \in from
  /\ status' = [status EXCEPT ![a] = to]

Register(a) == Move(a, {"absent"}, "draft")
Activate(a) == Move(a, {"draft", "pending_approval", "suspended"}, "active")
Suspend(a)  == Move(a, {"active"}, "suspended")
Revoke(a)   == Move(a, AgentStatus, "revoked")

Init == status = [a \in Agents |-> "absent"]

Next == \E a \in Agents : Register(a) \/ Activate(a) \/ Suspend(a) \/ Revoke(a)

Spec == Init /\ [][Next]_status
=============================================================================
