-------------------------- MODULE InterventionGate --------------------------
(***************************************************************************)
(* The control plane of the agent fleet: core/towercore/domain/gate.py.    *)
(* A per-agent control state and a queue of approvals that park risky      *)
(* actions until a human rules on them.                                    *)
(*                                                                         *)
(* One action per method, as the callers use it: one request runs at a     *)
(* time, and an agent only asks for an approval in a step that passed      *)
(* check() first.                                                          *)
(***************************************************************************)
EXTENDS Naturals

CONSTANTS
    Agents,         \* the agent ids the gate is asked about
    MaxApprovalId   \* bound: approvals issued in one process lifetime

ASSUME MaxApprovalIdAssumption == MaxApprovalId \in Nat

VARIABLES
    states,     \* _states: agent id -> control state; an absent key is "active"
    approvals,  \* _approvals: approval id -> approval
    nextId      \* _ids: the counter behind "ap-<n>"; reset() does not rewind it

gateVars == <<states, approvals, nextId>>

ControlState == {"active", "paused", "awaiting_approval", "killed"}
ApprovalStatus == {"pending", "approved", "denied"}
Operator == {"none", "human", "system:kill"}

Approval == [agent : Agents, status : ApprovalStatus, operator : Operator]

GateTypeOK ==
    /\ states \in [Agents -> ControlState]
    /\ nextId \in 1 .. MaxApprovalId + 1
    /\ DOMAIN approvals \subseteq 1 .. nextId - 1
    /\ approvals \in [DOMAIN approvals -> Approval]

-----------------------------------------------------------------------------

\* Mutant: a verdict is taken on whatever the queue remembers.
PendingOrNot(i) == i \in DOMAIN approvals

Pending(i) == i \in DOMAIN approvals /\ approvals[i].status = "pending"
PendingOf(a) == {i \in DOMAIN approvals : Pending(i) /\ approvals[i].agent = a}

NotKilled(a) == states[a] # "killed"

\* check(): the enforcement point every agent step goes through first.
Check(a) == states[a] = "active"

Resolved(i, verdict, who) ==
    [approvals[i] EXCEPT !.status = verdict, !.operator = who]

\* The queue after one more approval, parked for agent a.
Queued(a) ==
    [i \in DOMAIN approvals \cup {nextId} |->
        IF i = nextId
        THEN [agent |-> a, status |-> "pending", operator |-> "none"]
        ELSE approvals[i]]

GateInit ==
    /\ states = [a \in Agents |-> "active"]
    /\ approvals = [i \in {} |-> 0]
    /\ nextId = 1

Pause(a) ==
    /\ NotKilled(a)
    /\ states' = [states EXCEPT ![a] = "paused"]
    /\ UNCHANGED <<approvals, nextId>>

\* The containment path of the anomaly detector.
ForcePause(a) ==
    /\ NotKilled(a)
    /\ states' = [states EXCEPT ![a] = "paused"]
    /\ UNCHANGED <<approvals, nextId>>

\* Mutant: a resume that forgets the parked approval.
ResumeDropsQueue(a) ==
    /\ NotKilled(a)
    /\ states' = [states EXCEPT ![a] = "active"]
    /\ UNCHANGED <<approvals, nextId>>

\* An agent with a parked approval goes back to waiting for it.
Resume(a) ==
    /\ NotKilled(a)
    /\ states' = [states EXCEPT ![a] =
                    IF PendingOf(a) # {} THEN "awaiting_approval" ELSE "active"]
    /\ UNCHANGED <<approvals, nextId>>

\* Mutant: a kill that leaves the dead agent's approvals in the queue.
KillKeepsQueue(a) ==
    /\ states' = [states EXCEPT ![a] = "killed"]
    /\ UNCHANGED <<approvals, nextId>>

\* Terminal, from any state, and allowed again on a killed agent.
Kill(a) ==
    /\ states' = [states EXCEPT ![a] = "killed"]
    /\ approvals' = [i \in DOMAIN approvals |->
                        IF i \in PendingOf(a)
                        THEN Resolved(i, "denied", "system:kill")
                        ELSE approvals[i]]
    /\ UNCHANGED nextId

\* request_approval(): parks the action and holds the agent.
RequestApproval(a) ==
    /\ NotKilled(a)
    /\ nextId <= MaxApprovalId
    /\ approvals' = Queued(a)
    /\ nextId' = nextId + 1
    /\ states' = [states EXCEPT ![a] = "awaiting_approval"]

\* A step of agent a that ends in a request: check() at its start.
CheckedRequest(a) == Check(a) /\ RequestApproval(a)

\* The same step when the drift detector pauses the agent at its end.
CheckedRequestContained(a) ==
    /\ Check(a)
    /\ nextId <= MaxApprovalId
    /\ approvals' = Queued(a)
    /\ nextId' = nextId + 1
    /\ states' = [states EXCEPT ![a] = "paused"]

Approve(i) ==
    /\ Pending(i)
    /\ approvals' = [approvals EXCEPT ![i] = Resolved(i, "approved", "human")]
    /\ states' = [states EXCEPT ![approvals[i].agent] = "active"]
    /\ UNCHANGED nextId

Deny(i) ==
    /\ Pending(i)
    /\ approvals' = [approvals EXCEPT ![i] = Resolved(i, "denied", "human")]
    /\ states' = [states EXCEPT ![approvals[i].agent] = "active"]
    /\ UNCHANGED nextId

GateReset ==
    /\ states' = [a \in Agents |-> "active"]
    /\ approvals' = [i \in {} |-> 0]
    /\ UNCHANGED nextId

GateNext ==
    \/ \E a \in Agents :
        \/ Pause(a) \/ ForcePause(a) \/ Resume(a) \/ Kill(a)
        \/ CheckedRequest(a) \/ CheckedRequestContained(a)
    \/ \E i \in DOMAIN approvals : Approve(i) \/ Deny(i)
    \/ GateReset

GateSpec == GateInit /\ [][GateNext]_gateVars

-----------------------------------------------------------------------------

\* An agent has at most one action parked: it cannot take the step that would
\* park a second one until the first is ruled on.
OneParkedAction ==
    \A a \in Agents : \A i, j \in PendingOf(a) : i = j

\* A parked action holds its agent: while an approval is pending its agent is
\* waiting or paused, so it takes no step; a killed agent has none left in the
\* queue, which is what keeps approve() and deny() from bringing it back.
ParkedActionHolds ==
    \A a \in Agents :
        PendingOf(a) # {} => states[a] \in {"awaiting_approval", "paused"}

\* Nobody waits for nothing: an agent in awaiting_approval has an approval in
\* the queue that a human can rule on.
WaitingHasApproval ==
    \A a \in Agents : states[a] = "awaiting_approval" => PendingOf(a) # {}

\* The queue and the control states agree.
QueueHoldsAgents ==
    /\ OneParkedAction
    /\ ParkedActionHolds
    /\ WaitingHasApproval

\* Kill is terminal: whatever is paused, resumed, approved or denied afterwards,
\* only a reset of the whole gate brings a killed agent back.
KilledIsTerminal ==
    [][\A a \in Agents :
        states[a] = "killed" =>
            \/ states'[a] = "killed"
            \/ DOMAIN approvals' = {} /\ \A b \in Agents : states'[b] = "active"]_gateVars

\* A verdict is final: an approval that was approved or denied keeps its
\* verdict and who gave it for as long as the queue remembers it.
VerdictIsFinal ==
    [][\A i \in DOMAIN approvals \cap DOMAIN approvals' :
        approvals[i].status # "pending" => approvals'[i] = approvals[i]]_gateVars

\* The gate keeps the promise of Leash: only a free agent parks an action, only
\* a verdict or a kill takes it out of the queue, and the dead stay dead.
Control == INSTANCE Leash WITH
    leash <- [a \in Agents |->
                CASE states[a] = "active" -> "free"
                  [] states[a] = "killed" -> "dead"
                  [] OTHER -> "held"],
    parked <- {a \in Agents : PendingOf(a) # {}}

GateKeepsLeash == Control!Spec

=============================================================================
