----------------------- MODULE InterventionGateProofs -----------------------
(***************************************************************************)
(* Theorems about InterventionGate, for every fleet and every bound on the *)
(* number of approvals, and about AmbientCore, which observes the gate and *)
(* acts on it when its cards are executed, for any number of canvas        *)
(* requests and rulings served at the same time.                           *)
(*                                                                         *)
(* The gate's inductive invariant is the type invariant together with      *)
(* QueueHoldsAgents.  The second is not inductive without the first: that  *)
(* a new approval does not overwrite a pending one rests on the ids in the *)
(* queue being below nextId.  KilledIsTerminal rests on it in turn:        *)
(* approve() and deny() do not look at the control state, and leave a      *)
(* killed agent alone only because kill() left nothing of it in the queue. *)
(* The gate below AmbientCore moves only as InterventionGate says, so what *)
(* is proved of the gate holds there too.  That overlapping requests leave *)
(* no more cards than they are is inductive once the requests past their   *)
(* look are counted with the cards: saving a card turns one into the other.*)
(***************************************************************************)
EXTENDS AmbientCore, FiniteSetTheorems, TLAPS

GateInv == GateTypeOK /\ QueueHoldsAgents

\* What the steps do, as one disjunction to split a proof on.
GateStep ==
    \/ \E a \in Agents : Pause(a)
    \/ \E a \in Agents : ForcePause(a)
    \/ \E a \in Agents : Resume(a)
    \/ \E a \in Agents : Kill(a)
    \/ \E a \in Agents : CheckedRequest(a)
    \/ \E a \in Agents : CheckedRequestContained(a)
    \/ \E i \in DOMAIN approvals : Approve(i)
    \/ \E i \in DOMAIN approvals : Deny(i)
    \/ GateReset

LEMMA StepCases == GateNext => GateStep
BY DEF GateNext, GateStep

-----------------------------------------------------------------------------

\* The queue of a fresh or a reset gate.
LEMMA EmptyQueue ==
    ASSUME NEW q, q = [i \in {} |-> 0]
    PROVE  /\ DOMAIN q = {}
           /\ \A n \in Nat : DOMAIN q \subseteq 1 .. n
           /\ q \in [DOMAIN q -> Approval]
OBVIOUS

\* An approval that gets a verdict stays an approval, and the queue keeps its ids.
LEMMA ResolvedIsApproval ==
    ASSUME GateTypeOK,
           NEW i \in DOMAIN approvals,
           NEW verdict \in {"approved", "denied"},
           NEW who \in Operator
    PROVE  /\ Resolved(i, verdict, who) \in Approval
           /\ Resolved(i, verdict, who).agent = approvals[i].agent
           /\ Resolved(i, verdict, who).status = verdict
BY DEF GateTypeOK, Approval, ApprovalStatus, Resolved

\* One more approval, under an id that no other has.
LEMMA QueuedIsTyped ==
    ASSUME GateTypeOK, NEW a \in Agents, nextId <= MaxApprovalId
    PROVE  /\ nextId \notin DOMAIN approvals
           /\ nextId + 1 \in 1 .. MaxApprovalId + 1
           /\ DOMAIN Queued(a) = DOMAIN approvals \cup {nextId}
           /\ DOMAIN Queued(a) \subseteq 1 .. nextId
           /\ Queued(a) \in [DOMAIN Queued(a) -> Approval]
           /\ Queued(a)[nextId].agent = a
           /\ Queued(a)[nextId].status = "pending"
           /\ \A i \in DOMAIN approvals : Queued(a)[i] = approvals[i]
<1> USE MaxApprovalIdAssumption
<1>1. nextId \notin DOMAIN approvals
  BY DEF GateTypeOK
<1>2. DOMAIN Queued(a) = DOMAIN approvals \cup {nextId}
  BY DEF Queued
<1>3. Queued(a)[nextId] = [agent |-> a, status |-> "pending", operator |-> "none"]
  BY DEF Queued
<1>4. \A i \in DOMAIN approvals : Queued(a)[i] = approvals[i]
  BY <1>1 DEF Queued
<1>5. Queued(a) \in [DOMAIN Queued(a) -> Approval]
  <2>1. \A i \in DOMAIN Queued(a) : Queued(a)[i] \in Approval
    BY <1>2, <1>3, <1>4 DEF GateTypeOK, Approval, ApprovalStatus, Operator
  <2>2. Queued(a) = [i \in DOMAIN Queued(a) |-> Queued(a)[i]]
    BY DEF Queued
  <2> QED BY <2>1, <2>2
<1>6. nextId + 1 \in 1 .. MaxApprovalId + 1 /\ DOMAIN Queued(a) \subseteq 1 .. nextId
  BY <1>2 DEF GateTypeOK
<1> QED BY <1>1, <1>2, <1>3, <1>4, <1>5, <1>6

-----------------------------------------------------------------------------

LEMMA TypeInit == GateInit => GateTypeOK
BY MaxApprovalIdAssumption DEF GateInit, GateTypeOK, ControlState

LEMMA TypeStep == GateTypeOK /\ [GateNext]_gateVars => GateTypeOK'
<1> SUFFICES ASSUME GateTypeOK, [GateNext]_gateVars PROVE GateTypeOK'
  OBVIOUS
<1> USE MaxApprovalIdAssumption
<1>1. ASSUME NEW a \in Agents, Pause(a) PROVE GateTypeOK'
  BY <1>1 DEF Pause, GateTypeOK, ControlState
<1>2. ASSUME NEW a \in Agents, ForcePause(a) PROVE GateTypeOK'
  BY <1>2 DEF ForcePause, GateTypeOK, ControlState
<1>3. ASSUME NEW a \in Agents, Resume(a) PROVE GateTypeOK'
  BY <1>3 DEF Resume, GateTypeOK, ControlState
<1>4. ASSUME NEW a \in Agents, Kill(a) PROVE GateTypeOK'
  <2>1. states' \in [Agents -> ControlState]
    BY <1>4 DEF Kill, GateTypeOK, ControlState
  <2>2. \A i \in DOMAIN approvals : approvals'[i] \in Approval
    BY <1>4, ResolvedIsApproval DEF Kill, GateTypeOK, Operator
  <2>3. DOMAIN approvals' = DOMAIN approvals /\ nextId' = nextId
    BY <1>4 DEF Kill
  <2>4. approvals' \in [DOMAIN approvals' -> Approval]
    BY <1>4, <2>2, <2>3 DEF Kill
  <2> QED BY <2>1, <2>3, <2>4 DEF GateTypeOK
<1>5. ASSUME NEW a \in Agents, CheckedRequest(a) PROVE GateTypeOK'
  <2>1. nextId <= MaxApprovalId /\ approvals' = Queued(a) /\ nextId' = nextId + 1
    BY <1>5 DEF CheckedRequest, RequestApproval
  <2>2. states' \in [Agents -> ControlState]
    BY <1>5 DEF CheckedRequest, RequestApproval, GateTypeOK, ControlState
  <2> QED BY <2>1, <2>2, QueuedIsTyped DEF GateTypeOK
<1>6. ASSUME NEW a \in Agents, CheckedRequestContained(a) PROVE GateTypeOK'
  <2>1. nextId <= MaxApprovalId /\ approvals' = Queued(a) /\ nextId' = nextId + 1
    BY <1>6 DEF CheckedRequestContained
  <2>2. states' \in [Agents -> ControlState]
    BY <1>6 DEF CheckedRequestContained, GateTypeOK, ControlState
  <2> QED BY <2>1, <2>2, QueuedIsTyped DEF GateTypeOK
<1>7. ASSUME NEW i \in DOMAIN approvals, Approve(i) PROVE GateTypeOK'
  BY <1>7, ResolvedIsApproval DEF Approve, GateTypeOK, ControlState, Operator
<1>8. ASSUME NEW i \in DOMAIN approvals, Deny(i) PROVE GateTypeOK'
  BY <1>8, ResolvedIsApproval DEF Deny, GateTypeOK, ControlState, Operator
<1>9. CASE GateReset
  BY <1>9, EmptyQueue DEF GateReset, GateTypeOK, ControlState
<1>10. CASE UNCHANGED gateVars
  BY <1>10 DEF gateVars, GateTypeOK
<1> QED BY <1>1, <1>2, <1>3, <1>4, <1>5, <1>6, <1>7, <1>8, <1>9, <1>10, StepCases
        DEF GateStep

\* The gate's variables always hold what the code stores in them, and an
\* approval id is never issued twice.
THEOREM GateTypeCorrect == GateSpec => []GateTypeOK
<1>1. GateInit => GateTypeOK BY TypeInit
<1>2. GateTypeOK /\ [GateNext]_gateVars => GateTypeOK' BY TypeStep
<1> QED BY <1>1, <1>2, PTL DEF GateSpec

-----------------------------------------------------------------------------

\* The pending approvals of each agent after a step, in terms of those before.
LEMMA PendingAfterQuiet ==
    ASSUME UNCHANGED approvals
    PROVE  \A b \in Agents : PendingOf(b)' = PendingOf(b)
BY DEF PendingOf, Pending

LEMMA PendingAfterKill ==
    ASSUME GateTypeOK, NEW a \in Agents, Kill(a)
    PROVE  \A b \in Agents : PendingOf(b)' = IF b = a THEN {} ELSE PendingOf(b)
<1>1. DOMAIN approvals' = DOMAIN approvals
  BY DEF Kill
<1>2. \A i \in PendingOf(a) : approvals'[i].status = "denied" /\ approvals'[i].agent = a
  BY ResolvedIsApproval DEF Kill, PendingOf, Operator
<1>3. \A i \in DOMAIN approvals \ PendingOf(a) : approvals'[i] = approvals[i]
  BY DEF Kill
<1> QED BY <1>1, <1>2, <1>3 DEF PendingOf, Pending

LEMMA PendingAfterRequest ==
    ASSUME GateTypeOK, NEW a \in Agents,
           nextId <= MaxApprovalId, approvals' = Queued(a)
    PROVE  \A b \in Agents :
               PendingOf(b)' = PendingOf(b) \cup (IF b = a THEN {nextId} ELSE {})
BY QueuedIsTyped DEF PendingOf, Pending

LEMMA PendingAfterVerdict ==
    ASSUME GateTypeOK, NEW i \in DOMAIN approvals,
           Approve(i) \/ Deny(i)
    PROVE  /\ approvals[i].agent \in Agents
           /\ i \in PendingOf(approvals[i].agent)
           /\ states' = [states EXCEPT ![approvals[i].agent] = "active"]
           /\ \A b \in Agents : PendingOf(b)' = PendingOf(b) \ {i}
<1>1. approvals[i].agent \in Agents
  BY DEF GateTypeOK, Approval
<1>2. DOMAIN approvals' = DOMAIN approvals
  BY DEF Approve, Deny
<1>3. approvals'[i].status # "pending"
  <2>1. PICK verdict \in {"approved", "denied"} :
            approvals' = [approvals EXCEPT ![i] = Resolved(i, verdict, "human")]
    BY DEF Approve, Deny
  <2>2. approvals'[i] = Resolved(i, verdict, "human")
    BY <2>1
  <2>3. Resolved(i, verdict, "human").status = verdict
    BY DEF Resolved, GateTypeOK, Approval
  <2> QED BY <2>2, <2>3
<1>4. \A j \in DOMAIN approvals \ {i} : approvals'[j] = approvals[j]
  BY DEF Approve, Deny
<1>5. Pending(i) /\ states' = [states EXCEPT ![approvals[i].agent] = "active"]
  BY DEF Approve, Deny
<1> QED BY <1>1, <1>2, <1>3, <1>4, <1>5 DEF PendingOf, Pending

LEMMA QueueInit == GateInit => QueueHoldsAgents
BY DEF GateInit, QueueHoldsAgents, OneParkedAction, ParkedActionHolds,
       WaitingHasApproval, PendingOf, Pending

LEMMA QueueStep == GateInv /\ [GateNext]_gateVars => QueueHoldsAgents'
<1> SUFFICES ASSUME GateInv, [GateNext]_gateVars PROVE QueueHoldsAgents'
  OBVIOUS
<1> USE DEF QueueHoldsAgents, OneParkedAction, ParkedActionHolds, WaitingHasApproval
<1>0. GateTypeOK /\ QueueHoldsAgents
  BY DEF GateInv
<1>1. ASSUME NEW a \in Agents, Pause(a) \/ ForcePause(a) PROVE QueueHoldsAgents'
  <2>1. \A b \in Agents : PendingOf(b)' = PendingOf(b)
    BY <1>1, PendingAfterQuiet DEF Pause, ForcePause
  <2>2. states' = [states EXCEPT ![a] = "paused"]
    BY <1>1 DEF Pause, ForcePause
  <2> QED BY <1>0, <2>1, <2>2 DEF GateTypeOK
<1>2. ASSUME NEW a \in Agents, Resume(a) PROVE QueueHoldsAgents'
  <2>1. \A b \in Agents : PendingOf(b)' = PendingOf(b)
    BY <1>2, PendingAfterQuiet DEF Resume
  <2>2. states' = [states EXCEPT ![a] =
                      IF PendingOf(a) # {} THEN "awaiting_approval" ELSE "active"]
    BY <1>2 DEF Resume
  <2> QED BY <1>0, <2>1, <2>2 DEF GateTypeOK
<1>3. ASSUME NEW a \in Agents, Kill(a) PROVE QueueHoldsAgents'
  <2>1. states' = [states EXCEPT ![a] = "killed"]
    BY <1>3 DEF Kill
  <2> QED BY <1>0, <1>3, <2>1, PendingAfterKill DEF GateTypeOK
<1>4. ASSUME NEW a \in Agents, CheckedRequest(a) \/ CheckedRequestContained(a)
      PROVE  QueueHoldsAgents'
  <2>1. PendingOf(a) = {}
    BY <1>0, <1>4 DEF CheckedRequest, CheckedRequestContained, Check
  <2>2. \A b \in Agents :
            PendingOf(b)' = PendingOf(b) \cup (IF b = a THEN {nextId} ELSE {})
    BY <1>0, <1>4, PendingAfterRequest
       DEF CheckedRequest, CheckedRequestContained, RequestApproval
  <2>3. \E s \in {"awaiting_approval", "paused"} : states' = [states EXCEPT ![a] = s]
    BY <1>4 DEF CheckedRequest, CheckedRequestContained, RequestApproval
  <2>4. \A b \in Agents : \A i, j \in PendingOf(b)' : i = j
    BY <1>0, <2>1, <2>2
  <2> QED BY <1>0, <2>2, <2>3, <2>4 DEF GateTypeOK
<1>5. ASSUME NEW i \in DOMAIN approvals, Approve(i) \/ Deny(i) PROVE QueueHoldsAgents'
  <2>1. PICK c \in Agents : c = approvals[i].agent
    BY <1>0, <1>5, PendingAfterVerdict
  <2>2. PendingOf(c)' = {}
    BY <1>0, <1>5, <2>1, PendingAfterVerdict
  <2>3. \A b \in Agents \ {c} : PendingOf(b)' = PendingOf(b)
    BY <1>0, <1>5, <2>1, PendingAfterVerdict DEF PendingOf
  <2> QED BY <1>0, <1>5, <2>1, <2>2, <2>3, PendingAfterVerdict DEF GateTypeOK
<1>6. CASE GateReset
  BY <1>6, EmptyQueue DEF GateReset, PendingOf, Pending
<1>7. CASE UNCHANGED gateVars
  BY <1>0, <1>7, PendingAfterQuiet DEF gateVars
<1> QED BY <1>1, <1>2, <1>3, <1>4, <1>5, <1>6, <1>7, StepCases DEF GateStep

LEMMA GateInvariant == GateSpec => []GateInv
<1>1. GateInit => GateInv BY TypeInit, QueueInit DEF GateInv
<1>2. GateInv /\ [GateNext]_gateVars => GateInv' BY TypeStep, QueueStep DEF GateInv
<1> QED BY <1>1, <1>2, PTL DEF GateSpec

\* The approval queue and the control states never disagree: at most one action
\* is parked per agent, its agent is held, and nobody waits without one.
THEOREM QueueAndStatesAgree == GateSpec => []QueueHoldsAgents
<1>1. GateInv => QueueHoldsAgents BY DEF GateInv
<1> QED BY <1>1, GateInvariant, PTL

-----------------------------------------------------------------------------

\* Killed agents stay killed until the whole gate is reset.
THEOREM KillIsForGood == GateSpec => KilledIsTerminal
<1> DEFINE Stays == \A a \in Agents :
        states[a] = "killed" =>
            \/ states'[a] = "killed"
            \/ DOMAIN approvals' = {} /\ \A b \in Agents : states'[b] = "active"
<1>1. GateInv /\ [GateNext]_gateVars => [Stays]_gateVars
  <2> SUFFICES ASSUME GateInv, GateStep PROVE Stays
    BY StepCases
  <2>0. GateTypeOK /\ QueueHoldsAgents
    BY DEF GateInv
  <2>1. ASSUME NEW b \in Agents,
               Pause(b) \/ ForcePause(b) \/ Resume(b) \/ CheckedRequest(b)
                 \/ CheckedRequestContained(b)
        PROVE  Stays
    <3>1. states[b] # "killed"
      BY <2>1 DEF Pause, ForcePause, Resume, CheckedRequest, CheckedRequestContained,
                  NotKilled, Check
    <3>2. \E s \in ControlState : states' = [states EXCEPT ![b] = s]
      BY <2>1 DEF Pause, ForcePause, Resume, CheckedRequest, RequestApproval,
                  CheckedRequestContained, ControlState
    <3> QED BY <2>0, <3>1, <3>2 DEF GateTypeOK
  <2>2. ASSUME NEW b \in Agents, Kill(b) PROVE Stays
    BY <2>0, <2>2 DEF Kill, GateTypeOK
  <2>3. ASSUME NEW i \in DOMAIN approvals, Approve(i) \/ Deny(i) PROVE Stays
    <3>1. states[approvals[i].agent] # "killed"
      BY <2>0, <2>3, PendingAfterVerdict DEF QueueHoldsAgents, ParkedActionHolds
    <3> QED BY <2>0, <2>3, <3>1, PendingAfterVerdict DEF GateTypeOK
  <2>4. CASE GateReset
    BY <2>4, EmptyQueue DEF GateReset
  <2> QED BY <2>1, <2>2, <2>3, <2>4 DEF GateStep
<1>2. [][Stays]_gateVars => KilledIsTerminal
  BY PTL DEF KilledIsTerminal
<1> QED BY <1>1, <1>2, GateInvariant, PTL DEF GateSpec

\* A verdict, a human's or the one a kill gives, is never taken back.
THEOREM VerdictsAreFinal == GateSpec => VerdictIsFinal
<1> DEFINE Final == \A i \in DOMAIN approvals \cap DOMAIN approvals' :
        approvals[i].status # "pending" => approvals'[i] = approvals[i]
<1>1. GateInv /\ [GateNext]_gateVars => [Final]_gateVars
  <2> SUFFICES ASSUME GateInv, GateStep PROVE Final
    BY StepCases
  <2>0. GateTypeOK
    BY DEF GateInv
  <2>1. ASSUME NEW b \in Agents, Pause(b) \/ ForcePause(b) \/ Resume(b) PROVE Final
    BY <2>1 DEF Pause, ForcePause, Resume
  <2>2. ASSUME NEW b \in Agents, Kill(b) PROVE Final
    BY <2>2 DEF Kill, PendingOf, Pending
  <2>3. ASSUME NEW b \in Agents, CheckedRequest(b) \/ CheckedRequestContained(b)
        PROVE  Final
    BY <2>0, <2>3, QueuedIsTyped DEF CheckedRequest, RequestApproval, CheckedRequestContained
  <2>4. ASSUME NEW i \in DOMAIN approvals, Approve(i) \/ Deny(i) PROVE Final
    BY <2>4 DEF Approve, Deny, Pending
  <2>5. CASE GateReset
    BY <2>5, EmptyQueue DEF GateReset
  <2> QED BY <2>1, <2>2, <2>3, <2>4, <2>5 DEF GateStep
<1>2. [][Final]_gateVars => VerdictIsFinal
  BY PTL DEF VerdictIsFinal
<1> QED BY <1>1, <1>2, GateInvariant, PTL DEF GateSpec

-----------------------------------------------------------------------------

\* The abstract `parked`: the agents that the queue holds.
ParkedMap == {a \in Agents : PendingOf(a) # {}}

LEMMA LeashInit == GateInit => Control!Init
BY DEF GateInit, Control!Init, PendingOf, Pending

LEMMA LeashStep == GateInv /\ [GateNext]_gateVars => [Control!Next]_(Control!leashVars)
<1> SUFFICES ASSUME GateInv, [GateNext]_gateVars
             PROVE  Control!Next \/ UNCHANGED Control!leashVars
  OBVIOUS
<1>0. GateTypeOK /\ QueueHoldsAgents
  BY DEF GateInv
<1>1. ASSUME NEW a \in Agents, Pause(a) \/ ForcePause(a)
      PROVE  Control!Hold(a) \/ UNCHANGED Control!leashVars
  <2>1. ParkedMap' = ParkedMap
    BY <1>1, PendingAfterQuiet DEF Pause, ForcePause, ParkedMap
  <2>2. states' = [states EXCEPT ![a] = "paused"] /\ states[a] # "killed"
    BY <1>1 DEF Pause, ForcePause, NotKilled
  <2>3. CASE states[a] = "active"
    BY <1>0, <2>1, <2>2, <2>3 DEF GateTypeOK, Control!Hold, ParkedMap
  <2>4. CASE states[a] # "active"
    BY <1>0, <2>1, <2>2, <2>4 DEF GateTypeOK, Control!leashVars, ParkedMap
  <2> QED BY <2>3, <2>4
<1>2. ASSUME NEW a \in Agents, Resume(a)
      PROVE  Control!Release(a) \/ UNCHANGED Control!leashVars
  <2>1. ParkedMap' = ParkedMap
    BY <1>2, PendingAfterQuiet DEF Resume, ParkedMap
  <2>2. /\ states' = [states EXCEPT ![a] =
                      IF PendingOf(a) # {} THEN "awaiting_approval" ELSE "active"]
        /\ states[a] # "killed"
    BY <1>2 DEF Resume, NotKilled
  <2>3. CASE PendingOf(a) # {}
    <3>1. states[a] \in {"awaiting_approval", "paused"}
      BY <1>0, <2>3 DEF QueueHoldsAgents, ParkedActionHolds
    <3> QED BY <1>0, <2>1, <2>2, <2>3, <3>1 DEF GateTypeOK, Control!leashVars, ParkedMap
  <2>4. CASE PendingOf(a) = {} /\ states[a] # "active"
    BY <1>0, <2>1, <2>2, <2>4 DEF GateTypeOK, Control!Release, ParkedMap
  <2>5. CASE PendingOf(a) = {} /\ states[a] = "active"
    BY <1>0, <2>1, <2>2, <2>5 DEF GateTypeOK, Control!leashVars, ParkedMap
  <2> QED BY <2>3, <2>4, <2>5
<1>3. ASSUME NEW a \in Agents, Kill(a)
      PROVE  Control!Sever(a) \/ UNCHANGED Control!leashVars
  <2>1. states' = [states EXCEPT ![a] = "killed"]
    BY <1>3 DEF Kill
  <2>2. ParkedMap' = ParkedMap \ {a}
    BY <1>0, <1>3, PendingAfterKill DEF ParkedMap
  <2>3. CASE states[a] # "killed"
    BY <1>0, <2>1, <2>2, <2>3 DEF GateTypeOK, Control!Sever, ParkedMap
  <2>4. CASE states[a] = "killed"
    <3>1. a \notin ParkedMap
      BY <1>0, <2>4 DEF QueueHoldsAgents, ParkedActionHolds, ParkedMap
    <3> QED BY <1>0, <2>1, <2>2, <2>4, <3>1 DEF GateTypeOK, Control!leashVars, ParkedMap
  <2> QED BY <2>3, <2>4
<1>4. ASSUME NEW a \in Agents, CheckedRequest(a) \/ CheckedRequestContained(a)
      PROVE  Control!Park(a)
  <2>1. states[a] = "active"
    BY <1>4 DEF CheckedRequest, CheckedRequestContained, Check
  <2>2. \E s \in {"awaiting_approval", "paused"} : states' = [states EXCEPT ![a] = s]
    BY <1>4 DEF CheckedRequest, CheckedRequestContained, RequestApproval
  <2>3. ParkedMap' = ParkedMap \cup {a}
    BY <1>0, <1>4, PendingAfterRequest
       DEF CheckedRequest, CheckedRequestContained, RequestApproval, ParkedMap
  <2> QED BY <1>0, <2>1, <2>2, <2>3 DEF GateTypeOK, Control!Park, ParkedMap
<1>5. ASSUME NEW i \in DOMAIN approvals, Approve(i) \/ Deny(i)
      PROVE  \E a \in Agents : Control!Rule(a)
  <2>1. PICK c \in Agents : c = approvals[i].agent
    BY <1>0, <1>5, PendingAfterVerdict
  <2>2. PendingOf(c) = {i} /\ states[c] \in {"awaiting_approval", "paused"}
    BY <1>0, <1>5, <2>1, PendingAfterVerdict
       DEF QueueHoldsAgents, OneParkedAction, ParkedActionHolds
  <2>3. states' = [states EXCEPT ![c] = "active"]
    BY <1>0, <1>5, <2>1, PendingAfterVerdict
  <2>4. ParkedMap' = ParkedMap \ {c}
    <3>1. PendingOf(c)' = {}
      BY <1>0, <1>5, <2>2, PendingAfterVerdict
    <3>2. \A b \in Agents \ {c} : PendingOf(b)' = PendingOf(b)
      BY <1>0, <1>5, <2>1, PendingAfterVerdict DEF PendingOf
    <3> QED BY <3>1, <3>2 DEF ParkedMap
  <2>5. Control!Rule(c)
    BY <1>0, <2>2, <2>3, <2>4 DEF GateTypeOK, Control!Rule, ParkedMap
  <2> QED BY <2>5
<1>6. CASE GateReset
  BY <1>6, EmptyQueue DEF GateReset, Control!Next, Control!Renew, PendingOf, Pending
<1>7. CASE UNCHANGED gateVars
  BY <1>7, PendingAfterQuiet DEF gateVars, Control!leashVars
<1> QED BY <1>1, <1>2, <1>3, <1>4, <1>5, <1>6, <1>7, StepCases DEF GateStep, Control!Next

\* The gate, with its queue of approvals and its four states, implements Leash.
THEOREM GateImplementsLeash == GateSpec => GateKeepsLeash
BY LeashInit, LeashStep, GateInvariant, PTL DEF GateSpec, GateKeepsLeash, Control!Spec

-----------------------------------------------------------------------------
(* The gate below. *)

LEMMA ReviewMovesGate ==
    ASSUME NEW w \in Workers, ExecuteReview(w)
    PROVE  GateNext \/ UNCHANGED gateVars
<1> DEFINE pending == PendingOf(ruling[w].id.target)
<1>1. pending = {} => UNCHANGED gateVars
  BY DEF ExecuteReview
<1>2. pending # {} => \E i \in pending : Approve(i)
  BY DEF ExecuteReview
<1>3. pending \subseteq DOMAIN approvals
  BY DEF PendingOf
<1> QED BY <1>1, <1>2, <1>3 DEF GateNext

\* A containment pauses an agent the gate knows.
LEMMA ContainMovesGate ==
    ASSUME NEW w \in Workers, ExecuteContain(w), ruling \in [Workers -> RulingType],
           ruling[w].at # "free" => ruling[w].id \in Hypotheses
    PROVE  GateNext \/ UNCHANGED gateVars
<1>1. ruling[w].id \in Hypotheses /\ ruling[w].id.kind = "drift_contain"
  BY DEF ExecuteContain, Carrying
<1>2. ruling[w].id.target \in Agents
  BY <1>1 DEF Hypotheses, Hypothesis
<1> QED BY <1>2 DEF ExecuteContain, GateNext

LEMMA FleetMovesGate ==
    ASSUME (\E a \in Agents : FleetSteps(a)) \/ FleetIsRuled \/ FleetReset
    PROVE  GateNext \/ UNCHANGED gateVars
<1>1. ASSUME NEW a \in Agents, FleetSteps(a) PROVE GateNext \/ UNCHANGED gateVars
  BY <1>1 DEF FleetSteps, GateNext
<1>2. CASE FleetIsRuled
  BY <1>2 DEF FleetIsRuled, GateNext
<1>3. CASE FleetReset
  BY <1>3 DEF FleetReset, GateNext
<1> QED BY <1>1, <1>2, <1>3

\* What a poller does.
CanvasStep(p) == CanvasFold(p) \/ CanvasCheck(p) \/ CanvasSimulate(p) \/ CanvasSave(p)

\* What a ruling needs of its worker: a card that can be made, and a verdict.
RulingsAreTyped ==
    /\ ruling \in [Workers -> RulingType]
    /\ \A w \in Workers : ruling[w].at # "free" =>
        ruling[w].id \in Hypotheses /\ ruling[w].becomes \in CardState \ {"surfaced"}

LEMMA AmbientMovesGate ==
    ASSUME RulingsAreTyped, [AmbientNext]_ambientVars
    PROVE  GateNext \/ UNCHANGED gateVars
<1>1. ASSUME NEW p \in Pollers, CanvasStep(p)
      PROVE  GateNext \/ UNCHANGED gateVars
  BY <1>1 DEF CanvasStep, CanvasFold, CanvasCheck, CanvasSimulate, CanvasSave, observedVars
<1>2. ASSUME NEW w \in Workers, BeginRuling(w) \/ ServeRuling(w)
      PROVE  GateNext \/ UNCHANGED gateVars
  <2>1. CASE BeginRuling(w) \/ SaveRuling(w) \/ LearnCorrection(w)
    BY <2>1 DEF BeginRuling, SaveRuling, LearnCorrection, observedVars
  <2>2. CASE ExecuteReview(w)
    BY <2>2, ReviewMovesGate
  <2>3. CASE ExecuteContain(w)
    BY <2>3, ContainMovesGate DEF RulingsAreTyped
  <2>4. CASE ExecuteRestock(w) \/ ExecuteReading(w)
    BY <2>4 DEF ExecuteRestock, ExecuteReading
  <2> QED BY <1>2, <2>1, <2>2, <2>3, <2>4 DEF ServeRuling
<1>3. CASE (\E a \in Agents : FleetSteps(a)) \/ FleetIsRuled \/ FleetReset
  BY <1>3, FleetMovesGate
<1>4. CASE OthersMove \/ AmbientReset
  BY <1>4 DEF OthersMove, AmbientReset, observedVars
<1>5. CASE UNCHANGED ambientVars
  BY <1>5 DEF ambientVars, observedVars
<1> QED BY <1>1, <1>2, <1>3, <1>4, <1>5 DEF AmbientNext, CanvasStep

-----------------------------------------------------------------------------
(* The cards. *)

LEMMA SavedCardIsStore ==
    ASSUME NEW id, NEW card, cards' = SavedCard(id, card)
    PROVE  /\ DOMAIN cards' = DOMAIN cards \cup {id}
           /\ cards'[id] = card
           /\ \A i \in DOMAIN cards : i # id => cards'[i] = cards[i]
BY DEF SavedCard

\* The conjuncts of AmbientTypeOK about the cards and the simulations they name.
CardsAreTyped ==
    /\ sims \in Seq({"pending", "executed", "rejected"})
    /\ DOMAIN cards \subseteq Hypotheses
    /\ \A id \in DOMAIN cards : cards[id] \in [state : CardState, sim : 0 .. Len(sims)]

\* ... and about the canvas requests.
PollsAreTyped ==
    /\ canvas \in [Pollers -> CanvasType]
    /\ \A p \in Pollers : canvas[p].at # "idle" => canvas[p].shows \in Hypotheses

Typed == CardsAreTyped /\ PollsAreTyped /\ RulingsAreTyped

\* The simulations only get more.
SimsGrow == Len(sims) \in Nat /\ Len(sims') \in Nat /\ Len(sims) <= Len(sims')

LEMMA RulingsStay ==
    ASSUME RulingsAreTyped, SimsGrow, UNCHANGED ruling
    PROVE  RulingsAreTyped'
<1>1. 0 .. Len(sims) \subseteq 0 .. Len(sims')
  BY DEF SimsGrow
<1>2. RulingType \subseteq RulingType'
  BY <1>1 DEF RulingType, Hypotheses, Hypothesis, NoHypothesis, CardState
<1> QED BY <1>2 DEF RulingsAreTyped, Hypotheses, Hypothesis, CardState

LEMMA PollsStay ==
    ASSUME PollsAreTyped, SimsGrow, UNCHANGED canvas
    PROVE  PollsAreTyped'
<1>1. 0 .. Len(sims) \subseteq 0 .. Len(sims')
  BY DEF SimsGrow
<1>2. CanvasType \subseteq CanvasType'
  BY <1>1 DEF CanvasType, Hypotheses, Hypothesis, NoHypothesis
<1> QED BY <1>2 DEF PollsAreTyped, Hypotheses, Hypothesis

LEMMA IntentsAreHypotheses ==
    ASSUME GateTypeOK, flagged \subseteq Agents, low \subseteq Agents
    PROVE  Best \subseteq Hypotheses
<1>1. Intents \subseteq Hypotheses
  BY DEF Intents, Hypotheses, Hypothesis, Kinds
<1> QED BY <1>1 DEF Best, Surfaceable

LEMMA CardsAreCards ==
    ASSUME CardsAreTyped, NEW id \in Hypotheses, NEW card, SimsGrow,
           sims' \in Seq({"pending", "executed", "rejected"}),
           card \in [state : CardState, sim : 0 .. Len(sims')],
           cards' = SavedCard(id, card)
    PROVE  CardsAreTyped'
<1>0. /\ DOMAIN cards' = DOMAIN cards \cup {id}
      /\ cards'[id] = card
      /\ \A i \in DOMAIN cards : i # id => cards'[i] = cards[i]
  BY SavedCardIsStore, Zenon
<1>1. DOMAIN cards' \subseteq Hypotheses
  BY <1>0 DEF CardsAreTyped
<1>2. [state : CardState, sim : 0 .. Len(sims)] \subseteq [state : CardState, sim : 0 .. Len(sims')]
  BY DEF SimsGrow
<1>3. \A i \in DOMAIN cards' : cards'[i] \in [state : CardState, sim : 0 .. Len(sims')]
  BY <1>0, <1>2 DEF CardsAreTyped
<1> QED BY <1>1, <1>3 DEF CardsAreTyped, Hypotheses, Hypothesis, CardState

\* A step that leaves cards and simulations alone.
LEMMA QuietIsTyped ==
    ASSUME Typed, UNCHANGED <<sims, cards>>, PollsAreTyped', RulingsAreTyped'
    PROVE  Typed'
BY DEF Typed, CardsAreTyped, Hypotheses, Hypothesis, CardState

\* A step of one poller to a request of the right type.
LEMMA PollIsTyped ==
    ASSUME PollsAreTyped, SimsGrow, NEW p \in Pollers, NEW request,
           request \in CanvasType', request.at # "idle" => request.shows \in Hypotheses,
           canvas' = [canvas EXCEPT ![p] = request]
    PROVE  PollsAreTyped'
<1>1. 0 .. Len(sims) \subseteq 0 .. Len(sims')
  BY DEF SimsGrow
<1>2. CanvasType \subseteq CanvasType'
  BY <1>1 DEF CanvasType, Hypotheses, Hypothesis, NoHypothesis
<1>3. \A q \in Pollers : canvas'[q] = IF q = p THEN request ELSE canvas[q]
  BY DEF PollsAreTyped
<1>4. canvas' \in [Pollers -> CanvasType']
  BY <1>2, <1>3 DEF PollsAreTyped
<1>5. \A q \in Pollers : canvas'[q].at # "idle" => canvas'[q].shows \in Hypotheses
  BY <1>3 DEF PollsAreTyped
<1> QED BY <1>4, <1>5 DEF PollsAreTyped, Hypotheses, Hypothesis

LEMMA IdleIsTyped ==
    ASSUME CardsAreTyped
    PROVE  NoPoll \in CanvasType /\ NoPoll.at = "idle"
BY DEF NoPoll, CanvasType, NoHypothesis, NoSim, CardsAreTyped

LEMMA FoldIsTyped ==
    ASSUME Typed, GateTypeOK, flagged \subseteq Agents, low \subseteq Agents,
           NEW p \in Pollers, CanvasFold(p)
    PROVE  Typed'
<1>1. PICK h \in Best : canvas' = [canvas EXCEPT ![p] = [NoPoll EXCEPT !.at = "check", !.shows = h]]
  BY DEF CanvasFold
<1> DEFINE request == [NoPoll EXCEPT !.at = "check", !.shows = h]
<1>2. h \in Hypotheses
  BY IntentsAreHypotheses
<1>3. UNCHANGED <<sims, cards, ruling>>
  BY DEF CanvasFold
<1>4. SimsGrow
  BY <1>3 DEF SimsGrow, Typed, CardsAreTyped
<1>5. request \in CanvasType /\ request.shows \in Hypotheses
  BY <1>2, IdleIsTyped DEF Typed, CanvasType, NoPoll
<1>6. request \in CanvasType'
  BY <1>3, <1>5 DEF CanvasType, Hypotheses, Hypothesis, NoHypothesis
<1>7. canvas' = [canvas EXCEPT ![p] = request]
  BY <1>1
<1> HIDE DEF request
<1>8. PollsAreTyped'
  BY <1>4, <1>5, <1>6, <1>7, PollIsTyped DEF Typed
<1> QED BY <1>3, <1>4, <1>8, RulingsStay, QuietIsTyped DEF Typed

LEMMA CheckIsTyped ==
    ASSUME Typed, NEW p \in Pollers, CanvasCheck(p)
    PROVE  Typed'
<1> DEFINE request == IF ActiveCards # {} THEN NoPoll
                      ELSE [canvas[p] EXCEPT !.at = "simulate", !.alone = TRUE]
<1>1. canvas' = [canvas EXCEPT ![p] = request] /\ UNCHANGED <<sims, cards, ruling>>
  BY DEF CanvasCheck, Typed, PollsAreTyped
<1>2. SimsGrow
  BY <1>1 DEF SimsGrow, Typed, CardsAreTyped
<1>3. canvas[p] \in CanvasType /\ canvas[p].shows \in Hypotheses
  BY DEF CanvasCheck, Typed, PollsAreTyped
<1>4. [canvas[p] EXCEPT !.at = "simulate", !.alone = TRUE] \in CanvasType
  BY <1>3 DEF CanvasType
<1>5. request \in CanvasType
  BY <1>4, IdleIsTyped DEF Typed
<1>6. request \in CanvasType'
  BY <1>1, <1>5 DEF CanvasType, Hypotheses, Hypothesis, NoHypothesis
<1>7. request.at # "idle" => request.shows \in Hypotheses
  BY <1>3 DEF CanvasType, NoPoll
<1> HIDE DEF request
<1>8. PollsAreTyped'
  BY <1>1, <1>2, <1>6, <1>7, PollIsTyped DEF Typed
<1> QED BY <1>1, <1>2, <1>8, RulingsStay, QuietIsTyped DEF Typed

LEMMA SimulateIsTyped ==
    ASSUME Typed, NEW p \in Pollers, CanvasSimulate(p)
    PROVE  Typed'
<1>1. PICK sim \in 0 .. Len(sims') : Prepares(p, sim)
  BY DEF CanvasSimulate, Typed, CardsAreTyped, NoSim
<1> DEFINE request == [canvas[p] EXCEPT !.at = "save", !.sim = sim]
<1>2. SimsGrow /\ sims' \in Seq({"pending", "executed", "rejected"})
  BY DEF CanvasSimulate, SimsGrow, Typed, CardsAreTyped
<1>3. canvas[p] \in CanvasType /\ canvas[p].shows \in Hypotheses
  BY DEF CanvasSimulate, Typed, PollsAreTyped
<1>4. request \in CanvasType' /\ request.shows \in Hypotheses
  BY <1>3 DEF CanvasType, Hypotheses, Hypothesis, NoHypothesis
<1>5. canvas' = [canvas EXCEPT ![p] = request]
  BY <1>1 DEF Prepares, Typed, PollsAreTyped
<1> HIDE DEF request
<1>6. PollsAreTyped'
  BY <1>2, <1>4, <1>5, PollIsTyped DEF Typed
<1>7. UNCHANGED <<cards, ruling>>
  BY DEF CanvasSimulate
<1>8. [state : CardState, sim : 0 .. Len(sims)] \subseteq [state : CardState, sim : 0 .. Len(sims')]
  BY <1>2 DEF SimsGrow
<1>9. CardsAreTyped'
  BY <1>2, <1>7, <1>8 DEF Typed, CardsAreTyped, Hypotheses, Hypothesis, CardState
<1> QED BY <1>2, <1>6, <1>7, <1>9, RulingsStay DEF Typed

LEMMA ShowIsTyped ==
    ASSUME Typed, NEW p \in Pollers, CanvasSave(p)
    PROVE  Typed'
<1> DEFINE card == Card("surfaced", canvas[p].sim)
<1>1. /\ canvas[p] \in CanvasType /\ canvas[p].shows \in Hypotheses
      /\ cards' = SavedCard(canvas[p].shows, card) /\ UNCHANGED <<sims, ruling>>
  BY DEF CanvasSave, Typed, PollsAreTyped
<1>2. SimsGrow /\ sims' \in Seq({"pending", "executed", "rejected"})
  BY <1>1 DEF SimsGrow, Typed, CardsAreTyped
<1>3. card \in [state : CardState, sim : 0 .. Len(sims')]
  BY <1>1 DEF Card, CardState, CanvasType
<1>4. CardsAreTyped'
  <2> HIDE DEF card
  <2> QED BY <1>1, <1>2, <1>3, CardsAreCards DEF Typed
<1>5. canvas' = [q \in Pollers |-> IF q = p THEN NoPoll ELSE [canvas[q] EXCEPT !.alone = FALSE]]
  BY DEF CanvasSave
<1>6. UNCHANGED CanvasType
  BY <1>1 DEF CanvasType
<1>7. \A q \in Pollers : [canvas[q] EXCEPT !.alone = FALSE] \in CanvasType
  BY DEF Typed, PollsAreTyped, CanvasType
<1>8. canvas' \in [Pollers -> CanvasType]
  BY <1>5, <1>7, IdleIsTyped DEF Typed
<1>9. ASSUME NEW q \in Pollers, canvas'[q].at # "idle"
      PROVE  canvas'[q].shows \in Hypotheses
  <2>1. q # p
    BY <1>5, <1>9, IdleIsTyped DEF Typed
  <2>2. canvas'[q].at = canvas[q].at /\ canvas'[q].shows = canvas[q].shows
    BY <1>5, <2>1 DEF Typed, PollsAreTyped, CanvasType
  <2> QED BY <1>9, <2>2 DEF Typed, PollsAreTyped
<1>10. PollsAreTyped'
  BY <1>6, <1>8, <1>9 DEF PollsAreTyped, Hypotheses, Hypothesis
<1> QED BY <1>1, <1>2, <1>4, <1>10, RulingsStay DEF Typed

LEMMA DoneIsTyped ==
    ASSUME Typed, NEW w \in Workers, Done(w), UNCHANGED sims
    PROVE  RulingsAreTyped'
<1>1. Free \in RulingType /\ Free.at = "free"
  BY DEF Free, RulingType, NoHypothesis, NoSim, Typed, CardsAreTyped
<1>2. UNCHANGED RulingType
  BY DEF RulingType
<1>3. \A v \in Workers : ruling'[v] = IF v = w THEN Free ELSE ruling[v]
  BY DEF Done, Typed, RulingsAreTyped
<1>4. ruling' \in [Workers -> RulingType]
  BY <1>1 DEF Done, Typed, RulingsAreTyped
<1> QED BY <1>1, <1>2, <1>3, <1>4
        DEF Typed, RulingsAreTyped, Hypotheses, Hypothesis, CardState

LEMMA BeginIsTyped ==
    ASSUME Typed, NEW w \in Workers, BeginRuling(w)
    PROVE  Typed'
<1>1. PICK id \in ActiveCards, verdict \in {"accepted", "declined"} :
        ruling' = [ruling EXCEPT ![w] =
            [at |-> "save", id |-> id, becomes |-> verdict, sim |-> cards[id].sim]]
  BY DEF BeginRuling
<1> DEFINE begun == [at |-> "save", id |-> id, becomes |-> verdict, sim |-> cards[id].sim]
<1>2. id \in Hypotheses /\ cards[id].sim \in 0 .. Len(sims)
  BY DEF ActiveCards, Typed, CardsAreTyped
<1>3. begun \in RulingType /\ begun.id \in Hypotheses /\ begun.becomes \in CardState \ {"surfaced"}
  BY <1>2 DEF RulingType, CardState
<1>4. UNCHANGED <<observedVars, corrections, sims, cards, canvas>>
  BY DEF BeginRuling
<1>5. UNCHANGED RulingType
  BY <1>4 DEF RulingType
<1>6. RulingsAreTyped'
  BY <1>1, <1>3, <1>5 DEF Typed, RulingsAreTyped, Hypotheses, Hypothesis, CardState
<1>7. SimsGrow
  BY <1>4 DEF SimsGrow, Typed, CardsAreTyped
<1> QED BY <1>4, <1>6, <1>7, PollsStay, QuietIsTyped DEF Typed

LEMMA SaveIsTyped ==
    ASSUME Typed, NEW w \in Workers, SaveRuling(w)
    PROVE  Typed'
<1> DEFINE saved == Card(ruling[w].becomes, ruling[w].sim)
<1>1. /\ ruling[w].id \in Hypotheses /\ ruling[w].becomes \in CardState
      /\ ruling[w].sim \in 0 .. Len(sims)
  BY DEF SaveRuling, Typed, RulingsAreTyped, RulingType
<1>2. /\ UNCHANGED <<observedVars, corrections, sims, canvas>>
      /\ cards' = SavedCard(ruling[w].id, saved)
  BY DEF SaveRuling
<1>3. SimsGrow
  BY <1>2 DEF SimsGrow, Typed, CardsAreTyped
<1>4. saved \in [state : CardState, sim : 0 .. Len(sims')]
  BY <1>1, <1>2 DEF Card
<1>5. CardsAreTyped'
  BY <1>1, <1>2, <1>3, <1>4, CardsAreCards DEF Typed, CardsAreTyped
<1>6. UNCHANGED RulingType
  BY <1>2 DEF RulingType
<1>7. PICK at \in {"execute", "learn"} : ruling' = [ruling EXCEPT ![w] = [@ EXCEPT !.at = at]]
  BY DEF SaveRuling, Serves
<1>8. [ruling[w] EXCEPT !.at = at] \in RulingType
  BY DEF Typed, RulingsAreTyped, RulingType
<1>9. ruling' \in [Workers -> RulingType]
  BY <1>7, <1>8 DEF Typed, RulingsAreTyped
<1>10. \A v \in Workers : ruling'[v].id = ruling[v].id /\ ruling'[v].becomes = ruling[v].becomes
                            /\ (ruling'[v].at # "free" => ruling[v].at # "free")
  BY <1>7, ruling[w].at = "save" DEF Typed, RulingsAreTyped, RulingType, SaveRuling
<1>11. RulingsAreTyped'
  BY <1>6, <1>9, <1>10 DEF Typed, RulingsAreTyped, Hypotheses, Hypothesis, CardState
<1> QED BY <1>2, <1>3, <1>5, <1>11, PollsStay DEF Typed

LEMMA RestockIsTyped ==
    ASSUME Typed, NEW w \in Workers, ExecuteRestock(w)
    PROVE  Typed'
<1>1. SimsGrow /\ sims' \in Seq({"pending", "executed", "rejected"}) /\ Len(sims') = Len(sims)
  BY DEF ExecuteRestock, SimsGrow, Typed, CardsAreTyped
<1>2. Done(w) /\ UNCHANGED <<cards, canvas>>
  BY DEF ExecuteRestock, Carrying
<1>3. UNCHANGED RulingType
  BY <1>1 DEF RulingType
<1>4. Free \in RulingType /\ Free.at = "free"
  BY DEF Free, RulingType, NoHypothesis, NoSim, Typed, CardsAreTyped
<1>5. ruling' \in [Workers -> RulingType]
  BY <1>2, <1>4 DEF Done, Typed, RulingsAreTyped
<1>6. \A v \in Workers : ruling'[v] = IF v = w THEN Free ELSE ruling[v]
  BY <1>2 DEF Done, Typed, RulingsAreTyped
<1>7. RulingsAreTyped'
  BY <1>3, <1>4, <1>5, <1>6 DEF Typed, RulingsAreTyped, Hypotheses, Hypothesis, CardState
<1>8. CardsAreTyped'
  BY <1>1, <1>2 DEF Typed, CardsAreTyped, Hypotheses, Hypothesis, CardState
<1> QED BY <1>1, <1>2, <1>7, <1>8, PollsStay DEF Typed

WorldIsTyped ==
    /\ tight \in BOOLEAN
    /\ flagged \subseteq Agents /\ low \subseteq Agents
    /\ corrections \subseteq Kinds
    /\ moves \in 0 .. MaxMoves

LEMMA TypeParts == AmbientTypeOK <=> GateTypeOK /\ WorldIsTyped /\ Typed
BY DEF AmbientTypeOK, WorldIsTyped, Typed, CardsAreTyped, PollsAreTyped, RulingsAreTyped

LEMMA WorldStep ==
    ASSUME AmbientTypeOK, [AmbientNext]_ambientVars
    PROVE  WorldIsTyped'
<1> USE AmbientAssumption DEF AmbientTypeOK, WorldIsTyped
<1>1. ASSUME NEW p \in Pollers, CanvasStep(p) PROVE WorldIsTyped'
  BY <1>1 DEF CanvasStep, CanvasFold, CanvasCheck, CanvasSimulate, CanvasSave, observedVars, Kinds
<1>2. ASSUME NEW w \in Workers, BeginRuling(w) \/ ServeRuling(w)
      PROVE  WorldIsTyped'
  <2>1. CASE BeginRuling(w) \/ SaveRuling(w)
    BY <2>1 DEF BeginRuling, SaveRuling, observedVars, Kinds
  <2>2. CASE ExecuteReview(w) \/ ExecuteContain(w) \/ ExecuteRestock(w) \/ ExecuteReading(w)
    BY <2>2 DEF ExecuteReview, ExecuteContain, ExecuteRestock, ExecuteReading, Carrying, Kinds
  <2>3. CASE LearnCorrection(w)
    <3>1. ruling[w].id.kind \in Kinds
      BY <2>3 DEF LearnCorrection, Hypotheses, Hypothesis, Kinds
    <3> QED BY <2>3, <3>1 DEF LearnCorrection, observedVars, Kinds
  <2> QED BY <1>2, <2>1, <2>2, <2>3 DEF ServeRuling
<1>3. ASSUME NEW a \in Agents, FleetSteps(a) PROVE WorldIsTyped'
  BY <1>3 DEF FleetSteps, FleetMoves, Moves, Kinds
<1>4. CASE FleetIsRuled \/ FleetReset
  <2>1. FleetMoves /\ flagged' \subseteq Agents /\ low' \subseteq Agents
    BY <1>4 DEF FleetIsRuled, FleetReset
  <2>2. moves' \in 0 .. MaxMoves
    BY <2>1 DEF FleetMoves, Moves
  <2> QED BY <2>1, <2>2 DEF FleetMoves, Kinds
<1>5. CASE OthersMove
  <2>1. tight' \in BOOLEAN
    BY <1>5 DEF OthersMove
  <2>2. moves' \in 0 .. MaxMoves
    BY <1>5 DEF OthersMove, Moves
  <2>3. corrections' \subseteq Kinds /\ UNCHANGED <<flagged, low>>
    BY <1>5 DEF OthersMove
  <2> QED BY <2>1, <2>2, <2>3
<1>6. CASE AmbientReset \/ UNCHANGED ambientVars
  BY <1>6 DEF AmbientReset, ambientVars, observedVars, Kinds
<1> QED BY <1>1, <1>2, <1>3, <1>4, <1>5, <1>6 DEF AmbientNext, CanvasStep

\* A step that moves neither cards, nor requests, nor rulings, and at most settles
\* simulations.
LEMMA RestIsTyped ==
    ASSUME Typed, UNCHANGED <<cards, canvas, ruling>>,
           sims' \in Seq({"pending", "executed", "rejected"}), Len(sims') = Len(sims)
    PROVE  Typed'
<1>1. SimsGrow
  BY DEF SimsGrow, Typed, CardsAreTyped
<1>2. CardsAreTyped'
  BY DEF Typed, CardsAreTyped, Hypotheses, Hypothesis, CardState
<1> QED BY <1>1, <1>2, PollsStay, RulingsStay DEF Typed

LEMMA CardsStep ==
    ASSUME AmbientTypeOK, [AmbientNext]_ambientVars
    PROVE  Typed'
<1>0. GateTypeOK /\ WorldIsTyped /\ Typed
  BY TypeParts
<1>1. ASSUME NEW p \in Pollers, CanvasStep(p) PROVE Typed'
  <2>1. CASE CanvasFold(p)
    BY <1>0, <2>1, FoldIsTyped DEF WorldIsTyped
  <2>2. CASE CanvasCheck(p)
    BY <1>0, <2>2, CheckIsTyped
  <2>3. CASE CanvasSimulate(p)
    BY <1>0, <2>3, SimulateIsTyped
  <2>4. CASE CanvasSave(p)
    BY <1>0, <2>4, ShowIsTyped
  <2> QED BY <1>1, <2>1, <2>2, <2>3, <2>4 DEF CanvasStep
<1>2. Len(sims) = Len(sims) /\ sims \in Seq({"pending", "executed", "rejected"})
  BY <1>0 DEF Typed, CardsAreTyped
<1>3. ASSUME NEW w \in Workers, BeginRuling(w) \/ ServeRuling(w) PROVE Typed'
  <2>1. CASE BeginRuling(w)
    BY <1>0, <2>1, BeginIsTyped
  <2>2. CASE SaveRuling(w)
    BY <1>0, <2>2, SaveIsTyped
  <2>3. CASE ExecuteRestock(w)
    BY <1>0, <2>3, RestockIsTyped
  <2>4. CASE ExecuteReview(w) \/ ExecuteContain(w) \/ ExecuteReading(w) \/ LearnCorrection(w)
    <3>1. Done(w) /\ UNCHANGED <<sims, cards, canvas>>
      BY <2>4 DEF ExecuteReview, ExecuteContain, ExecuteReading, LearnCorrection, Carrying
    <3>2. SimsGrow
      BY <1>0, <3>1 DEF SimsGrow, Typed, CardsAreTyped
    <3>3. PollsAreTyped' /\ RulingsAreTyped'
      BY <1>0, <3>1, <3>2, DoneIsTyped, PollsStay DEF Typed
    <3> QED BY <1>0, <3>1, <3>3, QuietIsTyped
  <2> QED BY <1>3, <2>1, <2>2, <2>3, <2>4 DEF ServeRuling
<1>4. CASE (\E a \in Agents : FleetSteps(a)) \/ FleetIsRuled \/ FleetReset
  <2>1. UNCHANGED <<sims, cards, canvas, ruling>>
    BY <1>4 DEF FleetSteps, FleetIsRuled, FleetReset, FleetMoves
  <2> QED BY <1>0, <1>2, <2>1, RestIsTyped
<1>5. CASE OthersMove
  <2>1. UNCHANGED <<cards, canvas, ruling>>
    BY <1>5 DEF OthersMove
  <2>2. sims' \in Seq({"pending", "executed", "rejected"}) /\ Len(sims') = Len(sims)
    BY <1>0, <1>5 DEF OthersMove, Typed, CardsAreTyped
  <2> QED BY <1>0, <2>1, <2>2, RestIsTyped
<1>6. CASE AmbientReset
  <2>1. DOMAIN cards' = {} /\ UNCHANGED <<sims, canvas, ruling>>
    BY <1>6 DEF AmbientReset
  <2>2. SimsGrow
    BY <1>0, <2>1 DEF SimsGrow, Typed, CardsAreTyped
  <2>3. CardsAreTyped'
    BY <1>0, <2>1 DEF Typed, CardsAreTyped
  <2> QED BY <1>0, <2>1, <2>2, <2>3, PollsStay, RulingsStay DEF Typed
<1>7. CASE UNCHANGED ambientVars
  BY <1>0, <1>2, <1>7, RestIsTyped DEF ambientVars
<1> QED BY <1>1, <1>3, <1>4, <1>5, <1>6, <1>7 DEF AmbientNext, CanvasStep

-----------------------------------------------------------------------------

LEMMA AmbientTypeInit == AmbientInit => AmbientTypeOK
<1> SUFFICES ASSUME AmbientInit PROVE AmbientTypeOK
  OBVIOUS
<1> USE AmbientAssumption DEF AmbientInit
<1>1. GateTypeOK
  BY TypeInit
<1>2. WorldIsTyped
  <2>1. moves \in 0 .. MaxMoves
    OBVIOUS
  <2>2. tight \in BOOLEAN
    BY Zenon
  <2> QED BY <2>1, <2>2 DEF WorldIsTyped
<1>3. DOMAIN cards = {} /\ sims = <<>>
  OBVIOUS
<1>4. Free \in RulingType /\ Free.at = "free"
  BY <1>3 DEF Free, RulingType, NoHypothesis, NoSim
<1>5. NoPoll \in CanvasType /\ NoPoll.at = "idle"
  BY <1>3, IdleIsTyped DEF CardsAreTyped
<1>6. Typed
  BY <1>3, <1>4, <1>5 DEF Typed, CardsAreTyped, PollsAreTyped, RulingsAreTyped
<1> QED BY <1>1, <1>2, <1>6, TypeParts

LEMMA AmbientTypeStep == AmbientTypeOK /\ [AmbientNext]_ambientVars => AmbientTypeOK'
<1> SUFFICES ASSUME AmbientTypeOK, [AmbientNext]_ambientVars PROVE AmbientTypeOK'
  OBVIOUS
<1>1. GateTypeOK /\ RulingsAreTyped
  BY TypeParts DEF Typed
<1>2. GateTypeOK'
  BY <1>1, AmbientMovesGate, TypeStep
<1> QED BY <1>2, WorldStep, CardsStep DEF AmbientTypeOK, WorldIsTyped, Typed, CardsAreTyped,
        PollsAreTyped, RulingsAreTyped

\* AmbientCore's variables keep their types, for any agents, workers and bounds: a
\* card or a ruling in flight never names a simulation that was not prepared, nor
\* a target that cannot be acted on.
THEOREM AmbientTypeCorrect == AmbientSpec => []AmbientTypeOK
<1>1. AmbientInit => AmbientTypeOK BY AmbientTypeInit
<1>2. AmbientTypeOK /\ [AmbientNext]_ambientVars => AmbientTypeOK' BY AmbientTypeStep
<1> QED BY <1>1, <1>2, PTL DEF AmbientSpec

\* Whatever the rulings on cards do, the fleet's control plane moves only by the
\* gate's own steps.
THEOREM AmbientRunsGate == AmbientSpec => GateSpec
<1>1. AmbientInit => GateInit
  BY DEF AmbientInit
<1>2. AmbientTypeOK /\ [AmbientNext]_ambientVars => [GateNext]_gateVars
  BY TypeParts, AmbientMovesGate DEF Typed
<1> QED BY <1>1, <1>2, AmbientTypeCorrect, PTL DEF AmbientSpec, GateSpec

\* So the approval queue and the control states agree also while cards are carried
\* out by several threads.
THEOREM AmbientQueueAgrees == AmbientSpec => []QueueHoldsAgents
BY AmbientRunsGate, QueueAndStatesAgree, PTL

-----------------------------------------------------------------------------
(* The cards that are shown. *)

\* OneActiveCard, and what counting the active cards needs.
CardsInv == IsFiniteSet(ActiveCards) /\ OneActiveCard

LEMMA SurfacingIsFinite == IsFiniteSet(Surfacing) /\ Cardinality(Surfacing) <= Cardinality(Pollers)
<1>1. Surfacing \in SUBSET Pollers
  BY DEF Surfacing
<1> QED BY <1>1, PollersAssumption, FS_Subset

LEMMA SurfacingStaysFinite ==
    IsFiniteSet(Surfacing') /\ Cardinality(Surfacing') <= Cardinality(Pollers)
<1>1. Surfacing' \in SUBSET Pollers
  BY DEF Surfacing
<1> QED BY <1>1, PollersAssumption, FS_Subset

\* A step that shows no new card and lets no request past its look.
LEMMA NoNewCard ==
    ASSUME CardsInv, ActiveCards' \subseteq ActiveCards, Surfacing' \subseteq Surfacing,
           \A p \in Surfacing' : canvas'[p].alone => canvas[p].alone
    PROVE  CardsInv'
<1>1. /\ IsFiniteSet(ActiveCards') /\ Cardinality(ActiveCards') <= Cardinality(ActiveCards)
      /\ Cardinality(ActiveCards) \in Nat /\ Cardinality(ActiveCards') \in Nat
  BY FS_Subset, FS_CardinalityType DEF CardsInv
<1>2. /\ Cardinality(Surfacing') <= Cardinality(Surfacing)
      /\ Cardinality(Surfacing) \in Nat /\ Cardinality(Surfacing') \in Nat
  BY SurfacingIsFinite, FS_Subset, FS_CardinalityType
<1>3. Cardinality(Pollers) \in Nat
  BY PollersAssumption, FS_CardinalityType
<1>4. Cardinality(ActiveCards') + Cardinality(Surfacing') <= Cardinality(Pollers)
  BY <1>1, <1>2, <1>3 DEF CardsInv, OneActiveCard
<1>5. \A p \in Surfacing' : canvas'[p].alone => ActiveCards' = {}
  BY DEF CardsInv, OneActiveCard
<1> QED BY <1>1, <1>4, <1>5 DEF CardsInv, OneActiveCard

\* What the rest of the system does to the cards: a ruled card is stored ruled.
LEMMA RulingShowsNone ==
    ASSUME RulingsAreTyped, NEW w \in Workers, BeginRuling(w) \/ ServeRuling(w)
    PROVE  ActiveCards' \subseteq ActiveCards /\ UNCHANGED canvas
<1>1. CASE SaveRuling(w)
  <2>1. cards' = SavedCard(ruling[w].id, Card(ruling[w].becomes, ruling[w].sim)) /\ UNCHANGED canvas
    BY <1>1 DEF SaveRuling
  <2>2. ruling[w].becomes # "surfaced"
    BY <1>1 DEF SaveRuling, RulingsAreTyped
  <2> QED BY <2>1, <2>2 DEF SavedCard, Card, ActiveCards
<1>2. CASE ~SaveRuling(w)
  <2>1. UNCHANGED <<cards, canvas>>
    BY <1>2 DEF BeginRuling, ServeRuling, ExecuteReview, ExecuteContain, ExecuteRestock,
       ExecuteReading, LearnCorrection, Carrying
  <2> QED BY <2>1 DEF ActiveCards
<1> QED BY <1>1, <1>2

LEMMA WorldShowsNone ==
    ASSUME \/ \E a \in Agents : FleetSteps(a)
           \/ FleetIsRuled \/ FleetReset \/ OthersMove \/ AmbientReset \/ UNCHANGED ambientVars
    PROVE  ActiveCards' \subseteq ActiveCards /\ UNCHANGED canvas
<1>1. CASE AmbientReset
  BY <1>1 DEF AmbientReset, ActiveCards
<1>2. CASE ~AmbientReset
  <2>1. UNCHANGED <<cards, canvas>>
    BY <1>2 DEF FleetSteps, FleetIsRuled, FleetReset, FleetMoves, OthersMove, ambientVars
  <2> QED BY <2>1 DEF ActiveCards
<1> QED BY <1>1, <1>2

\* A look that finds no card is right at that moment, whoever else is past it.
LEMMA CheckShowsNone ==
    ASSUME CardsInv, PollsAreTyped, NEW p \in Pollers, CanvasCheck(p)
    PROVE  CardsInv'
<1>1. UNCHANGED ActiveCards
  BY DEF CanvasCheck, ActiveCards
<1>2. \A q \in Pollers : q # p => canvas'[q] = canvas[q]
  BY DEF CanvasCheck, PollsAreTyped
<1>3. CASE ActiveCards # {}
  <2>1. canvas'[p] = NoPoll
    BY <1>3 DEF CanvasCheck, PollsAreTyped
  <2>2. Surfacing' \subseteq Surfacing
    BY <1>2, <2>1 DEF Surfacing, NoPoll
  <2>3. \A q \in Surfacing' : q # p
    BY <2>1 DEF Surfacing, NoPoll
  <2>4. \A q \in Surfacing' : canvas'[q].alone => canvas[q].alone
    BY <1>2, <2>3 DEF Surfacing
  <2> QED BY <1>1, <2>2, <2>4, NoNewCard
<1>4. CASE ActiveCards = {}
  <2>1. Cardinality(ActiveCards') = 0 /\ IsFiniteSet(ActiveCards')
    BY <1>1, <1>4, FS_EmptySet
  <2>2. Cardinality(Surfacing') \in Nat /\ Cardinality(Pollers) \in Nat
    BY SurfacingStaysFinite, PollersAssumption, FS_CardinalityType
  <2> QED BY <1>1, <1>4, <2>1, <2>2, SurfacingStaysFinite DEF CardsInv, OneActiveCard
<1> QED BY <1>3, <1>4

\* A saved card takes the place of the request that made it.
LEMMA SaveShowsOne ==
    ASSUME CardsInv, PollsAreTyped, NEW p \in Pollers, CanvasSave(p)
    PROVE  CardsInv'
<1>1. PICK card : cards' = SavedCard(canvas[p].shows, card)
  BY DEF CanvasSave
<1>2. ActiveCards' \subseteq ActiveCards \cup {canvas[p].shows}
  BY <1>1 DEF SavedCard, ActiveCards
<1>3. /\ IsFiniteSet(ActiveCards \cup {canvas[p].shows})
      /\ Cardinality(ActiveCards \cup {canvas[p].shows}) <= Cardinality(ActiveCards) + 1
      /\ Cardinality(ActiveCards) \in Nat
      /\ Cardinality(ActiveCards \cup {canvas[p].shows}) \in Nat
  <2> DEFINE added == ActiveCards \cup {canvas[p].shows}
  <2>1. IsFiniteSet(ActiveCards) /\ Cardinality(ActiveCards) \in Nat
    BY FS_CardinalityType DEF CardsInv
  <2>2. /\ IsFiniteSet(added)
        /\ Cardinality(added) = IF canvas[p].shows \in ActiveCards THEN Cardinality(ActiveCards)
                               ELSE Cardinality(ActiveCards) + 1
    BY <2>1, FS_AddElement, Zenon
  <2> QED BY <2>1, <2>2
<1>4. /\ IsFiniteSet(ActiveCards') /\ Cardinality(ActiveCards') \in Nat
      /\ Cardinality(ActiveCards') <= Cardinality(ActiveCards) + 1
  BY <1>2, <1>3, FS_Subset, FS_CardinalityType
<1>5. canvas' = [q \in Pollers |-> IF q = p THEN NoPoll ELSE [canvas[q] EXCEPT !.alone = FALSE]]
  BY DEF CanvasSave
<1>6. /\ canvas'[p] = NoPoll
      /\ \A q \in Pollers : q # p =>
            canvas'[q].at = canvas[q].at /\ canvas'[q].alone = FALSE
  BY <1>5 DEF PollsAreTyped, CanvasType
<1>7. Surfacing' = Surfacing \ {p} /\ p \in Surfacing
  BY <1>6 DEF Surfacing, NoPoll, CanvasSave
<1>8. /\ Cardinality(Surfacing') = Cardinality(Surfacing) - 1
      /\ Cardinality(Surfacing) \in Nat
  BY <1>7, SurfacingIsFinite, FS_RemoveElement, FS_CardinalityType
<1>9. Cardinality(ActiveCards') + Cardinality(Surfacing') <= Cardinality(Pollers)
  <2>1. Cardinality(Pollers) \in Nat
    BY PollersAssumption, FS_CardinalityType
  <2> QED BY <1>4, <1>8, <2>1, <1>3 DEF CardsInv, OneActiveCard
<1>10. \A q \in Surfacing' : ~canvas'[q].alone
  BY <1>6, <1>7 DEF Surfacing
<1> QED BY <1>4, <1>9, <1>10 DEF CardsInv, OneActiveCard

LEMMA PollKeepsCards ==
    ASSUME CardsInv, PollsAreTyped, NEW p \in Pollers, CanvasStep(p)
    PROVE  CardsInv'
<1>1. CASE CanvasFold(p)
  <2>1. PICK h : canvas' = [canvas EXCEPT ![p] = [NoPoll EXCEPT !.at = "check", !.shows = h]]
    BY <1>1 DEF CanvasFold
  <2>2. canvas'[p].at = "check" /\ \A q \in Pollers : q # p => canvas'[q] = canvas[q]
    BY <2>1 DEF PollsAreTyped, NoPoll
  <2>3. Surfacing' \subseteq Surfacing /\ \A q \in Surfacing' : canvas'[q] = canvas[q]
    BY <2>2 DEF Surfacing
  <2>4. UNCHANGED ActiveCards
    BY <1>1 DEF CanvasFold, ActiveCards
  <2> QED BY <2>3, <2>4, NoNewCard
<1>2. CASE CanvasCheck(p)
  BY <1>2, CheckShowsNone
<1>3. CASE CanvasSimulate(p)
  <2>1. PICK sim : Prepares(p, sim)
    BY <1>3 DEF CanvasSimulate
  <2>2. /\ canvas'[p].alone = canvas[p].alone /\ canvas[p].at = "simulate"
        /\ \A q \in Pollers : q # p => canvas'[q] = canvas[q]
    BY <1>3, <2>1 DEF CanvasSimulate, Prepares, PollsAreTyped, CanvasType
  <2>3. Surfacing' \subseteq Surfacing /\ \A q \in Surfacing' : canvas'[q].alone = canvas[q].alone
    BY <2>2 DEF Surfacing
  <2>4. UNCHANGED ActiveCards
    BY <1>3 DEF CanvasSimulate, ActiveCards
  <2> QED BY <2>3, <2>4, NoNewCard
<1>4. CASE CanvasSave(p)
  BY <1>4, SaveShowsOne
<1> QED BY <1>1, <1>2, <1>3, <1>4 DEF CanvasStep

\* For any number of pollers and rulings: a request that found no active card is
\* still right when it saves its own unless another saved one since, whatever was
\* ruled, stored late or reset in between; and requests that overlap leave no more
\* cards than they are.  With one poller there is so never a second card.
THEOREM SecondCardNeedsOverlap == AmbientSpec => []OneActiveCard
<1>1. AmbientInit => CardsInv
  <2> SUFFICES ASSUME AmbientInit PROVE CardsInv
    OBVIOUS
  <2>1. ActiveCards = {}
    BY DEF AmbientInit, ActiveCards
  <2>2. Surfacing = {}
    BY DEF AmbientInit, Surfacing, NoPoll
  <2>3. Cardinality(Pollers) \in Nat
    BY PollersAssumption, FS_CardinalityType
  <2> QED BY <2>1, <2>2, <2>3, FS_EmptySet DEF CardsInv, OneActiveCard
<1>2. AmbientTypeOK /\ CardsInv /\ [AmbientNext]_ambientVars => CardsInv'
  <2> SUFFICES ASSUME AmbientTypeOK, CardsInv, [AmbientNext]_ambientVars
               PROVE  CardsInv'
    OBVIOUS
  <2>0. PollsAreTyped /\ RulingsAreTyped
    BY TypeParts DEF Typed
  <2>1. ASSUME NEW p \in Pollers, CanvasStep(p) PROVE CardsInv'
    BY <2>0, <2>1, PollKeepsCards
  <2>2. ASSUME ActiveCards' \subseteq ActiveCards, UNCHANGED canvas PROVE CardsInv'
    <3>1. Surfacing' = Surfacing
      BY <2>2 DEF Surfacing
    <3> QED BY <2>2, <3>1, NoNewCard
  <2>3. ASSUME NEW w \in Workers, BeginRuling(w) \/ ServeRuling(w) PROVE CardsInv'
    BY <2>0, <2>2, <2>3, RulingShowsNone
  <2> QED BY <2>1, <2>2, <2>3, WorldShowsNone DEF AmbientNext, CanvasStep
<1>3. CardsInv => OneActiveCard
  BY DEF CardsInv
<1> QED BY <1>1, <1>2, <1>3, AmbientTypeCorrect, PTL DEF AmbientSpec

=============================================================================
