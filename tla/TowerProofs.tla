----------------------------- MODULE TowerProofs -----------------------------
(***************************************************************************)
(* The theorems of the tower, for every fleet, every bound and whatever    *)
(* DecisionCore is told: every step of TowerSpec is a step of GateSpec or  *)
(* leaves the gate alone, so what is proved of the gate holds of the       *)
(* tower; the variables keep their types; drift is contained by the end of *)
(* the step that showed it; the trail of an agent tells its control state; *)
(* every item is settled once; an unticketed release is never deployed.    *)
(*                                                                         *)
(* The proofs rest on one description of what a request does to a trail:   *)
(* of all the events it appends, one tells something (Tells, Leaves), and  *)
(* the others are idle for every reader of the trail.                      *)
(***************************************************************************)
EXTENDS Tower, InterventionGateProofs, FoldLemmas, SequenceTheorems

\* A step drives the gate, or leaves it alone.
LEMMA StepMovesGate ==
    ASSUME NEW a \in Agents, NEW es, NEW parks, Stepped(a, es, parks)
    PROVE  GateNext \/ UNCHANGED gateVars
<1>1. Unflagged(a, parks) \/ Contained(a, parks)
  BY DEF Stepped, AfterStep
<1>2. CASE Unflagged(a, parks)
  BY <1>2 DEF Unflagged, GateNext
<1>3. CASE Contained(a, parks)
  BY <1>3 DEF Contained, GateNext
<1> QED BY <1>1, <1>2, <1>3

\* Whichever step it is.
LEMMA AdvanceMovesGate ==
    ASSUME NEW a \in Agents, Advance(a)
    PROVE  GateNext \/ UNCHANGED gateVars
<1>1. \E es, parks : Stepped(a, es, parks)
  BY DEF Advance, RoutineStep, PurchaseStep, TakeItem, NothingToTake, VerifyTicket, DecideStep
<1> QED BY <1>1, StepMovesGate

\* The control plane of the running tower is the gate: it starts as the gate
\* does and moves only by the gate's own steps.
THEOREM TowerRunsGate == TowerSpec => GateSpec
<1>1. TowerInit => GateInit
  BY DEF TowerInit
<1>2. [TowerNext]_towerVars => [GateNext]_gateVars
  <2> SUFFICES ASSUME [TowerNext]_towerVars PROVE GateNext \/ UNCHANGED gateVars
    OBVIOUS
  <2>1. ASSUME NEW a \in Agents, Advance(a) PROVE GateNext \/ UNCHANGED gateVars
    BY <2>1, AdvanceMovesGate
  <2>2. ASSUME NEW a \in Agents, HumanPause(a) \/ HumanResume(a) \/ HumanKill(a)
        PROVE  GateNext
    BY <2>2 DEF HumanPause, HumanResume, HumanKill, GateNext
  <2>3. ASSUME NEW a \in Agents, InjectRogue(a) PROVE UNCHANGED gateVars
    BY <2>3 DEF InjectRogue
  <2>4. ASSUME NEW i \in DOMAIN approvals, HumanVerdict(i) PROVE GateNext
    BY <2>4 DEF HumanVerdict, GateNext
  <2>5. CASE Reset \/ SeedDemo
    BY <2>5 DEF Reset, SeedDemo, GateNext
  <2>6. CASE UNCHANGED towerVars
    BY <2>6 DEF towerVars
  <2> QED BY <2>1, <2>2, <2>3, <2>4, <2>5, <2>6 DEF TowerNext
<1> QED BY <1>1, <1>2, PTL DEF TowerSpec, GateSpec

\* What the gate guarantees, the tower has: the queue and the states agree.
THEOREM TowerQueueAgrees == TowerSpec => []QueueHoldsAgents
BY TowerRunsGate, QueueAndStatesAgree, PTL

\* A killed agent stays killed in the tower, until a reset or a new seed.
THEOREM TowerKillIsForGood == TowerSpec => KilledIsTerminal
BY TowerRunsGate, KillIsForGood, PTL

\* A verdict on a parked action is final in the tower (approve(), deny(), kill()).
THEOREM TowerVerdictsAreFinal == TowerSpec => VerdictIsFinal
BY TowerRunsGate, VerdictsAreFinal, PTL

\* The tower keeps the promise of Leash.
THEOREM TowerImplementsLeash == TowerSpec => GateKeepsLeash
BY TowerRunsGate, GateImplementsLeash, PTL


-----------------------------------------------------------------------------
(* How a trail grows. *)

\* What the drift rules, the readers of the trail and the items do not look at.
IdleKinds == {"step_started", "decision_requested", "cost_recorded", "drift_flagged"}

Grows(old, new) ==
    /\ Len(old) <= Len(new)
    /\ \A n \in 1 .. Len(old) : new[n] = old[n]

Idle(old, new) ==
    /\ Grows(old, new)
    /\ \A n \in 1 .. Len(new) : n > Len(old) => new[n].kind \in IdleKinds

\* Of what is new, only e tells anything.
Tells(old, new, e) ==
    \E pre \in Seq(Event), said \in Seq(Event) :
        Idle(old, pre) /\ said = Append(pre, e) /\ Idle(said, new)

\* A trail that stays as it is has grown by nothing.
LEMMA IdleStays ==
    ASSUME NEW s \in Seq(Event)
    PROVE  Idle(s, s)
BY DEF Idle, Grows

\* Idle growth, twice.
LEMMA IdleContinues ==
    ASSUME NEW s \in Seq(Event), NEW t \in Seq(Event), NEW u \in Seq(Event),
           Idle(s, t), Idle(t, u)
    PROVE  Idle(s, u)
BY DEF Idle, Grows

\* An idle event more.
LEMMA IdleAppend ==
    ASSUME NEW s \in Seq(Event), NEW e \in Event, e.kind \in IdleKinds
    PROVE  Append(s, e) \in Seq(Event) /\ Idle(s, Append(s, e))
BY DEF Idle, Grows

\* One event more keeps every place.
LEMMA AppendGrows ==
    ASSUME NEW s \in Seq(Event), NEW e \in Event
    PROVE  /\ Append(s, e) \in Seq(Event)
           /\ Grows(s, Append(s, e))
           /\ Len(Append(s, e)) = Len(s) + 1
           /\ Append(s, e)[Len(s) + 1] = e
BY DEF Grows

\* The event, and the cost event of a metered one.
LEMMA EventTyped ==
    ASSUME NEW kind \in EventKind, NEW action \in ActionName, NEW item \in ItemName
    PROVE  /\ E(kind, action, item) \in Event
           /\ E(kind, action, item).kind = kind
           /\ E(kind, action, item).action = action
           /\ E(kind, action, item).item = item
BY DEF E, Event

\* What _emit() appends are events.
LEMMA EmitTyped ==
    ASSUME NEW e \in Event
    PROVE  /\ Emit(e) \in Seq(Event)
           /\ \/ Emit(e) = <<e>>
              \/ \E cost \in Event : cost.kind = "cost_recorded" /\ Emit(e) = <<e, cost>>
<1>0. /\ "cost_recorded" \in EventKind
      /\ "decide" \in ActionName /\ "execute" \in ActionName /\ NoItem \in ItemName
  BY DEF EventKind, ActionName, ItemName
<1>1. /\ E("cost_recorded", "decide", NoItem) \in Event
      /\ E("cost_recorded", "execute", NoItem) \in Event
      /\ E("cost_recorded", "decide", NoItem).kind = "cost_recorded"
      /\ E("cost_recorded", "execute", NoItem).kind = "cost_recorded"
  BY <1>0, EventTyped
<1>2. \/ Emit(e) = <<e>>
      \/ Emit(e) = <<e, E("cost_recorded", "decide", NoItem)>>
      \/ Emit(e) = <<e, E("cost_recorded", "execute", NoItem)>>
  BY DEF Emit
<1>3. ASSUME NEW cost \in Event, Emit(e) = <<e, cost>> PROVE Emit(e) \in Seq(Event)
  BY <1>3
<1>4. Emit(e) = <<e>> => Emit(e) \in Seq(Event)
  OBVIOUS
<1> QED BY <1>1, <1>2, <1>3, <1>4

\* Emitting an event that tells something.
LEMMA EmitTells ==
    ASSUME NEW s \in Seq(Event), NEW e \in Event
    PROVE  s \o Emit(e) \in Seq(Event) /\ Tells(s, s \o Emit(e), e)
<1>1. Append(s, e) \in Seq(Event) /\ Idle(s, s)
  BY IdleStays
<1>2. CASE Emit(e) = <<e>>
  <2>1. s \o Emit(e) = Append(s, e)
    BY <1>2
  <2> QED BY <1>1, <2>1, IdleStays DEF Tells
<1>3. ASSUME NEW cost \in Event, cost.kind = "cost_recorded", Emit(e) = <<e, cost>>
      PROVE  s \o Emit(e) \in Seq(Event) /\ Tells(s, s \o Emit(e), e)
  <2>1. s \o Emit(e) = Append(Append(s, e), cost)
    BY <1>3
  <2>2. /\ Append(Append(s, e), cost) \in Seq(Event)
        /\ Idle(Append(s, e), Append(Append(s, e), cost))
    BY <1>1, <1>3, IdleAppend DEF IdleKinds
  <2> QED BY <1>1, <2>1, <2>2 DEF Tells
<1> QED BY <1>2, <1>3, EmitTyped

\* Emitting one that tells nothing.
LEMMA EmitIdles ==
    ASSUME NEW s \in Seq(Event), NEW e \in Event, e.kind \in IdleKinds
    PROVE  s \o Emit(e) \in Seq(Event) /\ Idle(s, s \o Emit(e))
<1>1. PICK pre \in Seq(Event), said \in Seq(Event) :
        Idle(s, pre) /\ said = Append(pre, e) /\ Idle(said, s \o Emit(e))
  BY EmitTells DEF Tells
<1>2. s \o Emit(e) \in Seq(Event)
  BY EmitTells
<1>3. Idle(pre, said)
  BY <1>1, IdleAppend
<1>4. Idle(s, said)
  BY <1>1, <1>3, IdleContinues
<1> QED BY <1>1, <1>2, <1>4, IdleContinues

\* What comes before and after may be idle.
LEMMA TellsLater ==
    ASSUME NEW s \in Seq(Event), NEW t \in Seq(Event), NEW u \in Seq(Event),
           NEW v \in Seq(Event), NEW e, Idle(s, t), Tells(t, u, e), Idle(u, v)
    PROVE  Tells(s, v, e)
<1>1. PICK pre \in Seq(Event), said \in Seq(Event) :
        Idle(t, pre) /\ said = Append(pre, e) /\ Idle(said, u)
  BY DEF Tells
<1>2. Idle(s, pre) /\ Idle(said, v)
  BY <1>1, IdleContinues
<1> QED BY <1>1, <1>2 DEF Tells

-----------------------------------------------------------------------------
(* The work of the fleet. *)

ItemType == [name : ItemName, amount : Nat, complete : BOOLEAN]
Queues(a) == {SubSeq(Work(a), n, Len(Work(a))) : n \in 1 .. Len(Work(a)) + 1}
Awaited == {"decide_refund", "verify_ticket", "deploy"}

\* Who the agents are.
LEMMA FleetOfThree == \A a \in Agents : a = "restockbot" \/ a = "refundbot" \/ a = "deploybot"
BY FleetAssumption

\* What the three agents have to do, spelled out.
LEMMA WorkSpelled ==
    /\ Work("restockbot") = <<>>
    /\ Work("refundbot") = Tickets
    /\ Work("deploybot") = Releases
BY DEF Work

\* The three tickets.
LEMMA TicketsSpelled ==
    /\ Len(Tickets) = 3
    /\ Tickets[1].name = "T-101" /\ Tickets[2].name = "T-102" /\ Tickets[3].name = "T-103"
    /\ Tickets \in Seq(ItemType)
<1> DEFINE x == Item("T-101", 120, TRUE)
           y == Item("T-102", 2400, FALSE)
           z == Item("T-103", 85, TRUE)
<1>1. x \in ItemType /\ y \in ItemType /\ z \in ItemType
  BY SMT DEF Item, ItemType, ItemName
<1>2. x.name = "T-101" /\ y.name = "T-102" /\ z.name = "T-103"
  BY SMT DEF Item
<1>3. Tickets = <<x, y, z>>
  BY DEF Tickets
<1> HIDE DEF x, y, z
<1> QED BY <1>1, <1>2, <1>3

\* The two releases: v12 has no change ticket.
LEMMA ReleasesSpelled ==
    /\ Len(Releases) = 2
    /\ Releases[1].name = "v12" /\ Releases[2].name = "v13"
    /\ ~Releases[1].complete
    /\ Releases \in Seq(ItemType)
<1> DEFINE x == Item("v12", 1200, FALSE)
           y == Item("v13", 400, TRUE)
<1>1. x \in ItemType /\ y \in ItemType
  BY SMT DEF Item, ItemType, ItemName
<1>2. x.name = "v12" /\ y.name = "v13" /\ ~x.complete
  BY SMT DEF Item
<1>3. Releases = <<x, y>>
  BY DEF Releases
<1> HIDE DEF x, y
<1> QED BY <1>1, <1>2, <1>3

\* The work of an agent: every item has a name of its own.
LEMMA WorkIsTyped ==
    ASSUME NEW a \in Agents
    PROVE  /\ Work(a) \in Seq(ItemType)
           /\ \A n \in 1 .. Len(Work(a)) : Work(a)[n].name # NoItem
           /\ \A m, n \in 1 .. Len(Work(a)) : Work(a)[m].name = Work(a)[n].name => m = n
           /\ a = "restockbot" => Work(a) = <<>>
<1>1. CASE a = "restockbot"
  <2>1. PICK w : w = Work(a) /\ w = <<>>
    BY <1>1, WorkSpelled
  <2>2. w \in Seq(ItemType) /\ Len(w) = 0
    BY <2>1
  <2> QED BY <2>1, <2>2
<1>2. CASE a = "refundbot"
  <2>1. PICK w : w = Work(a) /\ w = Tickets
    BY <1>2, WorkSpelled
  <2>2. \A n \in 1 .. Len(w) : n = 1 \/ n = 2 \/ n = 3
    BY <2>1, TicketsSpelled
  <2> QED BY <1>2, <2>1, <2>2, TicketsSpelled DEF NoItem
<1>3. CASE a = "deploybot"
  <2>1. PICK w : w = Work(a) /\ w = Releases
    BY <1>3, WorkSpelled
  <2>2. \A n \in 1 .. Len(w) : n = 1 \/ n = 2
    BY <2>1, ReleasesSpelled
  <2> QED BY <1>3, <2>1, <2>2, ReleasesSpelled DEF NoItem
<1> QED BY <1>1, <1>2, <1>3, FleetOfThree

\* A corrupted agent changes what an item says, never which it is.
LEMMA TamperedItem ==
    ASSUME NEW item \in ItemType
    PROVE  /\ Tampered(item) \in ItemType
           /\ Tampered(item).name = item.name
           /\ ~Tampered(item).complete
           /\ Tampered(Tampered(item)) = Tampered(item)
BY SMT DEF Item, Tampered, ItemType

\* An empty desk.
LEMMA NothingIsTyped == Nothing \in ItemType /\ Nothing.name = NoItem /\ ~Nothing.complete
BY SMT DEF Item, Nothing, ItemType, NoItem, ItemName

\* What lies on a desk is of the agent's work, and is not nothing.
LEMMA DeskItems ==
    ASSUME NEW a \in Agents, NEW item \in Desk(a)
    PROVE  /\ item \in ItemType /\ Tampered(item) \in Desk(a)
           /\ item.name # NoItem /\ item # Nothing
           /\ \E n \in 1 .. Len(Work(a)) :
                item.name = Work(a)[n].name /\ (item.complete => item = Work(a)[n])
<1>1. PICK n \in DOMAIN Work(a) : item = Work(a)[n] \/ item = Tampered(Work(a)[n])
  BY DEF Desk
<1>2. n \in 1 .. Len(Work(a)) /\ Work(a)[n] \in ItemType /\ Work(a)[n].name # NoItem
  BY WorkIsTyped
<1>3. /\ Tampered(Work(a)[n]) \in ItemType
      /\ Tampered(Work(a)[n]).name = Work(a)[n].name
      /\ ~Tampered(Work(a)[n]).complete
      /\ Tampered(Tampered(Work(a)[n])) = Tampered(Work(a)[n])
  BY <1>2, TamperedItem
<1>4. item \in ItemType /\ item.name = Work(a)[n].name /\ (item.complete => item = Work(a)[n])
  BY <1>1, <1>2, <1>3
<1>5. Tampered(item) = Tampered(Work(a)[n])
  BY <1>1, <1>3
<1>6. Tampered(item) \in Desk(a)
  BY <1>5 DEF Desk
<1> QED BY <1>2, <1>4, <1>6, NothingIsTyped

\* A queue is the rest of the agent's work.
LEMMA QueueIsRest ==
    ASSUME NEW a \in Agents, NEW q \in Queues(a)
    PROVE  \E n \in 1 .. Len(Work(a)) + 1 :
               /\ q = SubSeq(Work(a), n, Len(Work(a)))
               /\ q \in Seq(ItemType)
               /\ Len(q) = Len(Work(a)) + 1 - n
               /\ \A k \in 1 .. Len(q) : q[k] = Work(a)[n + k - 1]
               /\ q # <<>> => /\ n \in 1 .. Len(Work(a))
                              /\ Head(q) = Work(a)[n] /\ Head(q) \in Desk(a)
                              /\ Tail(q) = SubSeq(Work(a), n + 1, Len(Work(a)))
                              /\ Tail(q) \in Queues(a)
<1>1. PICK w \in Seq(ItemType) : w = Work(a)
  BY WorkIsTyped
<1>2. PICK n \in 1 .. Len(w) + 1 : q = SubSeq(w, n, Len(w))
  BY <1>1 DEF Queues
<1>3. /\ q \in Seq(ItemType) /\ Len(q) = Len(w) + 1 - n
      /\ \A k \in 1 .. Len(q) : q[k] = w[n + k - 1]
  BY <1>2
<1>4. ASSUME q # <<>>
      PROVE  /\ n \in 1 .. Len(w) /\ Head(q) = w[n] /\ Head(q) \in Desk(a)
             /\ Tail(q) = SubSeq(w, n + 1, Len(w)) /\ Tail(q) \in Queues(a)
  <2>1. Len(q) > 0 /\ n \in 1 .. Len(w)
    BY <1>3, <1>4
  <2>2. Head(q) = q[1] /\ q[1] = w[n]
    BY <1>3, <2>1
  <2>3. w[n] \in Desk(a)
    BY <1>1, <2>1 DEF Desk
  <2>4. Tail(q) = SubSeq(w, n + 1, Len(w))
    <3>1. Len(w) \in n .. Len(w)
      BY <2>1
    <3> QED BY <1>2, <2>1, <3>1, HeadTailOfSubSeq
  <2>5. Tail(q) \in Queues(a)
    <3>1. n + 1 \in 1 .. Len(w) + 1
      BY <2>1
    <3> QED BY <1>1, <2>4, <3>1 DEF Queues
  <2> QED BY <2>1, <2>2, <2>3, <2>4, <2>5
<1> QED BY <1>1, <1>2, <1>3, <1>4

\* The scripts, step by step.
StepFits(a, step, next, c) ==
    /\ step \in ActionName
    /\ c \in 0 .. Len(Steps(a)) - 1
    /\ step \in {"check_stock", "size_order", "verify_delivery", "purchase"} =>
         step \notin Awaited /\ next \notin Awaited
    /\ step \in {"pop_ticket", "pick_release"} => step \notin Awaited /\ next \in Awaited
    /\ step = "verify_ticket" => a = "deploybot" /\ step \in Awaited /\ next \in Awaited
    /\ step = "decide_refund" => a = "refundbot" /\ step \in Awaited /\ next \notin Awaited
    /\ step = "deploy" => a = "deploybot" /\ step \in Awaited /\ next \notin Awaited

\* Every step of every script fits the desk before it and after it.
LEMMA StepsSpelled ==
    ASSUME NEW a \in Agents, NEW c \in 0 .. Len(Steps(a)) - 1
    PROVE  /\ StepFits(a, Steps(a)[c + 1], Steps(a)[((c + 1) % Len(Steps(a))) + 1],
                       (c + 1) % Len(Steps(a)))
           /\ 0 \in 0 .. Len(Steps(a)) - 1
           /\ Steps(a)[1] \notin Awaited
<1>1. CASE a = "restockbot"
  <2>1. PICK s : s = Steps(a) /\ s = <<"check_stock", "size_order", "purchase", "verify_delivery">>
    BY <1>1 DEF Steps
  <2>2. Len(s) = 4 /\ s[1] = "check_stock" /\ s[2] = "size_order" /\ s[3] = "purchase" /\ s[4] = "verify_delivery"
    BY <2>1
  <2>3. c = 0 \/ c = 1 \/ c = 2 \/ c = 3
    BY <2>1, <2>2
  <2>4. 1 % 4 = 1 /\ 2 % 4 = 2 /\ 3 % 4 = 3 /\ 4 % 4 = 0
    OBVIOUS
  <2>5. CASE c = 0
    <3>1. s[c + 1] = "check_stock" /\ (c + 1) % Len(s) = 1 /\ s[((c + 1) % Len(s)) + 1] = "size_order"
      BY <2>2, <2>4, <2>5
    <3> QED BY <1>1, <2>1, <2>2, <3>1, SMT DEF ActionName, RoutineActions, Awaited, StepFits
  <2>6. CASE c = 1
    <3>1. s[c + 1] = "size_order" /\ (c + 1) % Len(s) = 2 /\ s[((c + 1) % Len(s)) + 1] = "purchase"
      BY <2>2, <2>4, <2>6
    <3> QED BY <1>1, <2>1, <2>2, <3>1, SMT DEF ActionName, RoutineActions, Awaited, StepFits
  <2>7. CASE c = 2
    <3>1. s[c + 1] = "purchase" /\ (c + 1) % Len(s) = 3 /\ s[((c + 1) % Len(s)) + 1] = "verify_delivery"
      BY <2>2, <2>4, <2>7
    <3> QED BY <1>1, <2>1, <2>2, <3>1, SMT DEF ActionName, RoutineActions, Awaited, StepFits
  <2>8. CASE c = 3
    <3>1. s[c + 1] = "verify_delivery" /\ (c + 1) % Len(s) = 0 /\ s[((c + 1) % Len(s)) + 1] = "check_stock"
      BY <2>2, <2>4, <2>8
    <3> QED BY <1>1, <2>1, <2>2, <3>1, SMT DEF ActionName, RoutineActions, Awaited, StepFits
  <2> QED BY <2>3, <2>5, <2>6, <2>7, <2>8
<1>2. CASE a = "refundbot"
  <2>1. PICK s : s = Steps(a) /\ s = <<"pop_ticket", "decide_refund">>
    BY <1>2 DEF Steps
  <2>2. Len(s) = 2 /\ s[1] = "pop_ticket" /\ s[2] = "decide_refund"
    BY <2>1
  <2>3. c = 0 \/ c = 1
    BY <2>1, <2>2
  <2>4. 1 % 2 = 1 /\ 2 % 2 = 0
    OBVIOUS
  <2>5. CASE c = 0
    <3>1. s[c + 1] = "pop_ticket" /\ (c + 1) % Len(s) = 1 /\ s[((c + 1) % Len(s)) + 1] = "decide_refund"
      BY <2>2, <2>4, <2>5
    <3> QED BY <1>2, <2>1, <2>2, <3>1, SMT DEF ActionName, RoutineActions, Awaited, StepFits
  <2>6. CASE c = 1
    <3>1. s[c + 1] = "decide_refund" /\ (c + 1) % Len(s) = 0 /\ s[((c + 1) % Len(s)) + 1] = "pop_ticket"
      BY <2>2, <2>4, <2>6
    <3> QED BY <1>2, <2>1, <2>2, <3>1, SMT DEF ActionName, RoutineActions, Awaited, StepFits
  <2> QED BY <2>3, <2>5, <2>6
<1>3. CASE a = "deploybot"
  <2>1. PICK s : s = Steps(a) /\ s = <<"pick_release", "verify_ticket", "deploy">>
    BY <1>3 DEF Steps
  <2>2. Len(s) = 3 /\ s[1] = "pick_release" /\ s[2] = "verify_ticket" /\ s[3] = "deploy"
    BY <2>1
  <2>3. c = 0 \/ c = 1 \/ c = 2
    BY <2>1, <2>2
  <2>4. 1 % 3 = 1 /\ 2 % 3 = 2 /\ 3 % 3 = 0
    OBVIOUS
  <2>5. CASE c = 0
    <3>1. s[c + 1] = "pick_release" /\ (c + 1) % Len(s) = 1 /\ s[((c + 1) % Len(s)) + 1] = "verify_ticket"
      BY <2>2, <2>4, <2>5
    <3> QED BY <1>3, <2>1, <2>2, <3>1, SMT DEF ActionName, RoutineActions, Awaited, StepFits
  <2>6. CASE c = 1
    <3>1. s[c + 1] = "verify_ticket" /\ (c + 1) % Len(s) = 2 /\ s[((c + 1) % Len(s)) + 1] = "deploy"
      BY <2>2, <2>4, <2>6
    <3> QED BY <1>3, <2>1, <2>2, <3>1, SMT DEF ActionName, RoutineActions, Awaited, StepFits
  <2>7. CASE c = 2
    <3>1. s[c + 1] = "deploy" /\ (c + 1) % Len(s) = 0 /\ s[((c + 1) % Len(s)) + 1] = "pick_release"
      BY <2>2, <2>4, <2>7
    <3> QED BY <1>3, <2>1, <2>2, <3>1, SMT DEF ActionName, RoutineActions, Awaited, StepFits
  <2> QED BY <2>3, <2>5, <2>6, <2>7
<1> QED BY <1>1, <1>2, <1>3, FleetOfThree

-----------------------------------------------------------------------------
(* What a step leaves behind. *)

AutoPause == E("intervention_applied", "auto_pause", NoItem)

\* The receipt of containment is an event.
LEMMA AutoPauseTyped ==
    /\ AutoPause \in Event
    /\ AutoPause.kind = "intervention_applied"
    /\ AutoPause.action = "auto_pause"
    /\ AutoPause.item = NoItem
<1>1. "intervention_applied" \in EventKind /\ "auto_pause" \in ActionName /\ NoItem \in ItemName
  BY DEF EventKind, ActionName, ItemName
<1> QED BY <1>1, EventTyped DEF AutoPause

\* The rules that fire.
LEMMA DriftTyped == ASSUME NEW es PROVE Drift(es) \in Seq(Rules)
<1>1. /\ "denial_burst" \in Rules /\ "escalation_burst" \in Rules
      /\ "cost_runaway" \in Rules /\ "oscillation" \in Rules
  BY DEF Rules
<1>2. ASSUME NEW rule \in Rules PROVE Raised(rule, es) \in Seq(Rules)
  BY <1>2 DEF Raised
<1>3. /\ Raised("denial_burst", es) \in Seq(Rules)
      /\ Raised("escalation_burst", es) \in Seq(Rules)
      /\ Raised("cost_runaway", es) \in Seq(Rules)
      /\ Raised("oscillation", es) \in Seq(Rules)
  BY <1>1, <1>2
<1> QED BY <1>3, ConcatProperties DEF Drift

\* The drift events are idle, and the pause is the last word.
LEMMA ReceiptsLast ==
    ASSUME NEW t \in Seq(Event), NEW flags \in Seq(Rules)
    PROVE  \E mid \in Seq(Event) :
               Idle(t, mid) /\ t \o ContainmentReceipts(flags) = Append(mid, AutoPause)
<1>1. PICK f : f = [n \in DOMAIN flags |-> E("drift_flagged", flags[n], NoItem)]
  OBVIOUS
<1>2. \A n \in 1 .. Len(flags) :
        f[n] \in Event /\ f[n].kind = "drift_flagged"
  <2> SUFFICES ASSUME NEW n \in 1 .. Len(flags) PROVE f[n] \in Event /\ f[n].kind = "drift_flagged"
    OBVIOUS
  <2>1. PICK rule \in Rules : rule = flags[n]
    OBVIOUS
  <2>2. "drift_flagged" \in EventKind /\ rule \in ActionName /\ NoItem \in ItemName
    BY DEF EventKind, ActionName, ItemName
  <2> QED BY <1>1, <2>1, <2>2, EventTyped
<1>3. f \in Seq(Event) /\ Len(f) = Len(flags)
  <2>1. DOMAIN flags = 1 .. Len(flags) /\ Len(flags) \in Nat
    OBVIOUS
  <2>2. DOMAIN f = 1 .. Len(flags) /\ f \in [1 .. Len(flags) -> Event]
    BY <1>1, <1>2, <2>1
  <2> QED BY <2>1, <2>2
<1>4. /\ t \o f \in Seq(Event) /\ Len(t \o f) = Len(t) + Len(f)
      /\ \A n \in 1 .. Len(t) + Len(f) :
            (t \o f)[n] = IF n <= Len(t) THEN t[n] ELSE f[n - Len(t)]
  BY <1>3, ConcatProperties
<1>5. PICK mid :
      /\ mid = t \o f
      /\ mid \in Seq(Event) /\ Len(mid) = Len(t) + Len(f)
      /\ \A n \in 1 .. Len(mid) : mid[n] = IF n <= Len(t) THEN t[n] ELSE f[n - Len(t)]
  BY <1>4
<1>6. Idle(t, mid)
  <2>1. \A n \in 1 .. Len(t) : n \in 1 .. Len(mid)
    BY <1>3, <1>5
  <2>2. ASSUME NEW n \in 1 .. Len(mid), n > Len(t) PROVE mid[n].kind \in IdleKinds
    <3>1. n - Len(t) \in 1 .. Len(flags)
      BY <1>3, <1>5, <2>2
    <3>2. mid[n] = f[n - Len(t)]
      BY <1>5, <2>2
    <3> QED BY <1>2, <3>1, <3>2 DEF IdleKinds
  <2>3. Len(t) <= Len(mid)
    BY <1>3, <1>5
  <2> QED BY <1>5, <2>1, <2>2, <2>3 DEF Idle, Grows
<1>7. t \o ContainmentReceipts(flags) = Append(mid, AutoPause)
  <2>1. ContainmentReceipts(flags) = f \o <<AutoPause>>
    BY <1>1 DEF ContainmentReceipts, AutoPause
  <2>2. t \o (f \o <<AutoPause>>) = (t \o f) \o <<AutoPause>>
    BY <1>3, AutoPauseTyped, ConcatAssociative
  <2>3. mid \o <<AutoPause>> = Append(mid, AutoPause)
    BY <1>5, AutoPauseTyped
  <2> QED BY <1>5, <2>1, <2>2, <2>3
<1> QED BY <1>5, <1>6, <1>7

\* A step of agent a that tells e: what its trail becomes, and its control.
Leaves(a, e, parks) ==
    \E trail \in Seq(Event), new \in Seq(Event) :
        /\ Tells(log[a], trail, e)
        /\ log' = [log EXCEPT ![a] = new]
        /\ \/ new = trail /\ ~Drifting(trail) /\ Unflagged(a, parks)
           \/ /\ Contained(a, parks)
              /\ \E mid \in Seq(Event) : Idle(trail, mid) /\ new = Append(mid, AutoPause)

\* What _after_step() leaves, flagged or not.
LEMMA AfterStepLeaves ==
    ASSUME NEW a \in Agents, NEW trail \in Seq(Event), NEW e, NEW parks,
           Tells(log[a], trail, e), AfterStep(a, trail, parks)
    PROVE  Leaves(a, e, parks)
<1>1. CASE Drifting(trail)
  <2>1. PICK new : new = trail \o ContainmentReceipts(Drift(trail))
    OBVIOUS
  <2>2. log' = [log EXCEPT ![a] = new] /\ Contained(a, parks)
    BY <1>1, <2>1 DEF AfterStep
  <2>3. PICK mid \in Seq(Event) : Idle(trail, mid) /\ new = Append(mid, AutoPause)
    BY <2>1, DriftTyped, ReceiptsLast
  <2>4. new \in Seq(Event)
    BY <2>3, AutoPauseTyped, AppendGrows
  <2> QED BY <2>2, <2>3, <2>4 DEF Leaves
<1>2. CASE ~Drifting(trail)
  BY <1>2 DEF AfterStep, Leaves
<1> QED BY <1>1, <1>2

\* The start of a step, and what it decides on, are idle.
LEMMA StepLeaves ==
    ASSUME NEW a \in Agents, log[a] \in Seq(Event), Step(a) \in ActionName,
           NEW e \in Event, NEW parks, Stepped(a, Emit(e), parks)
    PROVE  Leaves(a, e, parks)
<1>1. PICK s : s = E("step_started", Step(a), NoItem)
  OBVIOUS
<1>2. s \in Event /\ s.kind \in IdleKinds
  <2>1. "step_started" \in EventKind /\ NoItem \in ItemName
    BY DEF EventKind, ItemName
  <2>2. s \in Event /\ s.kind = "step_started"
    BY <1>1, <2>1, EventTyped
  <2> QED BY <2>2 DEF IdleKinds
<1>3. PICK t : t = log[a] \o Emit(s)
  OBVIOUS
<1>4. t \in Seq(Event) /\ Idle(log[a], t)
  BY <1>2, <1>3, EmitIdles
<1>5. PICK u : u = t \o Emit(e)
  OBVIOUS
<1>6. u \in Seq(Event) /\ Tells(t, u, e)
  BY <1>4, <1>5, EmitTells
<1>7. Tells(log[a], u, e)
  BY <1>4, <1>6, IdleStays, TellsLater
<1>8. AfterStep(a, u, parks)
  BY <1>1, <1>3, <1>5 DEF Stepped
<1> QED BY <1>6, <1>7, <1>8, AfterStepLeaves

\* The same of a step that asks DecisionCore first.
LEMMA DecidedStepLeaves ==
    ASSUME NEW a \in Agents, log[a] \in Seq(Event), Step(a) \in ActionName,
           NEW d \in Event, d.kind \in IdleKinds,
           NEW e \in Event, NEW parks, Stepped(a, Emit(d) \o Emit(e), parks)
    PROVE  Leaves(a, e, parks)
<1>1. PICK s : s = E("step_started", Step(a), NoItem)
  OBVIOUS
<1>2. s \in Event /\ s.kind \in IdleKinds
  <2>1. "step_started" \in EventKind /\ NoItem \in ItemName
    BY DEF EventKind, ItemName
  <2>2. s \in Event /\ s.kind = "step_started"
    BY <1>1, <2>1, EventTyped
  <2> QED BY <2>2 DEF IdleKinds
<1>3. PICK t : t = log[a] \o Emit(s)
  OBVIOUS
<1>4. t \in Seq(Event) /\ Idle(log[a], t)
  BY <1>2, <1>3, EmitIdles
<1>5. PICK u : u = t \o Emit(d)
  OBVIOUS
<1>6. u \in Seq(Event) /\ Idle(t, u)
  BY <1>4, <1>5, EmitIdles
<1>7. PICK v : v = u \o Emit(e)
  OBVIOUS
<1>8. v \in Seq(Event) /\ Tells(u, v, e)
  BY <1>6, <1>7, EmitTells
<1>9. Tells(log[a], v, e)
  <2>1. Idle(log[a], u)
    BY <1>4, <1>6, IdleContinues
  <2> QED BY <1>6, <1>8, <2>1, IdleStays, TellsLater
<1>10. AfterStep(a, v, parks)
  <2>1. Emit(d) \in Seq(Event) /\ Emit(e) \in Seq(Event)
    BY EmitTyped
  <2>2. t \o (Emit(d) \o Emit(e)) = v
    <3>1. PICK c, x : c = Emit(d) /\ x = Emit(e)
      OBVIOUS
    <3>2. c \in Seq(Event) /\ x \in Seq(Event)
      BY <2>1, <3>1
    <3>3. (t \o c) \o x = t \o (c \o x)
      BY <1>4, <3>2, ConcatAssociative, SMTT(30)
    <3> QED BY <1>5, <1>7, <3>1, <3>3
  <2>3. AfterStep(a, log[a] \o Emit(s) \o (Emit(d) \o Emit(e)), parks)
    BY <1>1 DEF Stepped
  <2> QED BY <1>3, <2>2, <2>3
<1> QED BY <1>8, <1>9, <1>10, AfterStepLeaves

-----------------------------------------------------------------------------
(* What every step tells. *)

\* Everything but the gate.
FleetTyped ==
    /\ seeded \in BOOLEAN
    /\ rogue \subseteq Agents
    /\ log \in [Agents -> Seq(Event)]
    /\ DOMAIN cursor = Agents /\ DOMAIN queue = Agents /\ DOMAIN current = Agents
    /\ \A a \in Agents :
        /\ cursor[a] \in 0 .. Len(Steps(a)) - 1
        /\ queue[a] \in Queues(a)
        /\ current[a] \in {Nothing} \cup Desk(a)
        /\ (current[a] # Nothing) <=> Step(a) \in Awaited

\* The types are those of the gate and those of the fleet.
LEMMA TowerParts == TowerTypeOK <=> GateTypeOK /\ FleetTyped
BY DEF TowerTypeOK, FleetTyped, Queues, Awaited

\* Every step has a name, and every agent a trail.
LEMMA StepNamed ==
    ASSUME FleetTyped, NEW a \in Agents
    PROVE  Step(a) \in ActionName /\ log[a] \in Seq(Event)
<1>1. PICK c \in 0 .. Len(Steps(a)) - 1 : c = cursor[a]
  BY DEF FleetTyped
<1>2. Steps(a)[c + 1] \in ActionName
  BY StepsSpelled DEF StepFits
<1> QED BY <1>1, <1>2 DEF Step, FleetTyped

\* The events a step or a receipt tells.
LEMMA ExecutedTyped ==
    ASSUME NEW action \in ActionName, NEW item \in ItemName
    PROVE  \A kind \in {"action_executed", "action_denied", "approval_requested",
                        "blocker_raised", "decision_requested", "intervention_applied",
                        "approval_resolved"} :
               /\ E(kind, action, item) \in Event
               /\ E(kind, action, item).kind = kind
               /\ E(kind, action, item).action = action
               /\ E(kind, action, item).item = item
<1>1. {"action_executed", "action_denied", "approval_requested", "blocker_raised",
       "decision_requested", "intervention_applied", "approval_resolved"} \subseteq EventKind
  BY DEF EventKind
<1> QED BY <1>1, EventTyped

\* An event may name no item.
LEMMA NoItemTyped == NoItem \in ItemName
BY DEF ItemName

\* A routine step tells that it was executed.
LEMMA RoutineLeaves ==
    ASSUME FleetTyped, NEW a \in Agents, RoutineStep(a)
    PROVE  \E e \in Event :
               /\ e.kind = "action_executed" /\ e.action = Step(a) /\ e.item = NoItem
               /\ Leaves(a, e, FALSE)
<1>1. Step(a) \in ActionName /\ log[a] \in Seq(Event)
  BY StepNamed
<1>2. PICK e \in Event : /\ e = E("action_executed", Step(a), NoItem)
                         /\ e.kind = "action_executed" /\ e.action = Step(a) /\ e.item = NoItem
  BY <1>1, NoItemTyped, ExecutedTyped
<1>3. Stepped(a, Emit(e), FALSE)
  BY <1>2 DEF RoutineStep
<1> QED BY <1>1, <1>2, <1>3, StepLeaves

\* A purchase is executed or denied.
LEMMA PurchaseLeaves ==
    ASSUME FleetTyped, NEW a \in Agents, PurchaseStep(a)
    PROVE  \E e \in Event :
               /\ e.kind \in {"action_executed", "action_denied"}
               /\ e.action = "purchase" /\ e.item = NoItem
               /\ Leaves(a, e, FALSE)
<1>1. Step(a) \in ActionName /\ log[a] \in Seq(Event) /\ "purchase" \in ActionName
  BY StepNamed DEF ActionName
<1>2. PICK d \in Event : d = E("decision_requested", "purchase", NoItem) /\ d.kind \in IdleKinds
  BY <1>1, NoItemTyped, ExecutedTyped DEF IdleKinds
<1>3. PICK verdict \in PurchaseVerdicts :
        Stepped(a, Emit(d) \o Emit(E(IF verdict = "allow" THEN "action_executed"
                                     ELSE "action_denied", "purchase", NoItem)), FALSE)
  BY <1>2 DEF PurchaseStep
<1>4. PICK kind \in {"action_executed", "action_denied"} :
        kind = IF verdict = "allow" THEN "action_executed" ELSE "action_denied"
  OBVIOUS
<1>5. PICK e \in Event : /\ e = E(kind, "purchase", NoItem)
                         /\ e.kind = kind /\ e.action = "purchase" /\ e.item = NoItem
  BY <1>1, <1>4, NoItemTyped, ExecutedTyped
<1>6. Stepped(a, Emit(d) \o Emit(e), FALSE)
  BY <1>3, <1>4, <1>5
<1> QED BY <1>1, <1>2, <1>4, <1>5, <1>6, DecidedStepLeaves

\* Taking an item tells which.
LEMMA TakeLeaves ==
    ASSUME FleetTyped, NEW a \in Agents, TakeItem(a)
    PROVE  \E e \in Event :
               /\ e.kind = "action_executed" /\ e.action = Step(a)
               /\ e.item = Head(queue[a]).name
               /\ Leaves(a, e, FALSE)
<1>1. Step(a) \in ActionName /\ log[a] \in Seq(Event)
  BY StepNamed
<1>2. PICK q \in Queues(a) : q = queue[a] /\ q # <<>>
  BY DEF FleetTyped, TakeItem
<1>3. Head(q) \in Desk(a)
  BY <1>2, QueueIsRest
<1>4. PICK item \in ItemName : item = Head(queue[a]).name
  BY <1>2, <1>3, DeskItems DEF ItemType
<1>5. PICK e \in Event : /\ e = E("action_executed", Step(a), item)
                         /\ e.kind = "action_executed" /\ e.action = Step(a) /\ e.item = item
  BY <1>1, ExecutedTyped
<1>6. Stepped(a, Emit(e), FALSE)
  BY <1>4, <1>5 DEF TakeItem
<1> QED BY <1>1, <1>4, <1>5, <1>6, StepLeaves

\* An empty queue is a blocker.
LEMMA BlockerLeaves ==
    ASSUME FleetTyped, NEW a \in Agents, NothingToTake(a)
    PROVE  \E e \in Event :
               /\ e.kind = "blocker_raised" /\ e.action = Step(a) /\ e.item = NoItem
               /\ Leaves(a, e, FALSE)
<1>1. Step(a) \in ActionName /\ log[a] \in Seq(Event)
  BY StepNamed
<1>2. PICK e \in Event : /\ e = E("blocker_raised", Step(a), NoItem)
                         /\ e.kind = "blocker_raised" /\ e.action = Step(a) /\ e.item = NoItem
  BY <1>1, NoItemTyped, ExecutedTyped
<1>3. Stepped(a, Emit(e), FALSE)
  BY <1>2 DEF NothingToTake
<1> QED BY <1>1, <1>2, <1>3, StepLeaves

\* What lies on the desk has a name.
LEMMA OnDesk ==
    ASSUME FleetTyped, NEW a \in Agents, current[a] # Nothing
    PROVE  current[a] \in Desk(a) /\ current[a].name \in ItemName
<1>1. PICK item \in Desk(a) : item = current[a]
  BY DEF FleetTyped
<1>2. item.name \in ItemName
  BY DeskItems DEF ItemType
<1> QED BY <1>1, <1>2

\* Verifying a release tells which.
LEMMA VerifyLeaves ==
    ASSUME FleetTyped, NEW a \in Agents, VerifyTicket(a)
    PROVE  \E e \in Event :
               /\ e.kind = "action_executed" /\ e.action = "verify_ticket"
               /\ e.item = current[a].name
               /\ Leaves(a, e, FALSE)
<1>1. Step(a) \in ActionName /\ log[a] \in Seq(Event) /\ Step(a) = "verify_ticket"
  BY StepNamed DEF VerifyTicket
<1>2. PICK item \in ItemName : item = current[a].name
  BY OnDesk DEF VerifyTicket
<1>3. PICK e \in Event : /\ e = E("action_executed", Step(a), item)
                         /\ e.kind = "action_executed" /\ e.action = Step(a) /\ e.item = item
  BY <1>1, ExecutedTyped
<1>4. Stepped(a, Emit(e), FALSE)
  BY <1>2, <1>3 DEF VerifyTicket
<1> QED BY <1>1, <1>2, <1>3, <1>4, StepLeaves

\* The rule table gives one of the five outcomes.
LEMMA OutcomeIsOne ==
    \A a, item, g :
        Outcomes(a, item, g) \in {"execute", "ask", "defer", "escalate", "refuse"}
<1>1. \A p, c, r, au, m : Resolve(p, c, r, au, m) \in {"execute", "ask", "defer", "escalate", "refuse"}
  BY DEF Resolve
<1> QED BY <1>1 DEF Outcomes, Decision

\* A decision is executed, parked or denied, and tells of the item on the desk.
LEMMA DecideLeaves ==
    ASSUME FleetTyped, NEW a \in Agents, DecideStep(a)
    PROVE  \E e \in Event, g \in Gathered, parks \in BOOLEAN :
               /\ e.action = ActionOf(a) /\ e.item = current[a].name
               /\ \/ e.kind = "action_executed" /\ ~parks
                     /\ Outcomes(a, current[a], g) = "execute"
                  \/ e.kind = "approval_requested" /\ parks
                  \/ e.kind = "action_denied" /\ ~parks
               /\ Leaves(a, e, parks)
<1>1. Step(a) \in ActionName /\ log[a] \in Seq(Event)
  BY StepNamed
<1>2. PICK item \in ItemName : item = current[a].name
  BY OnDesk DEF DecideStep
<1>3. PICK action \in ActionName : action = ActionOf(a)
  BY DEF ActionOf, ActionName
<1>4. PICK d \in Event : d = E("decision_requested", action, item) /\ d.kind \in IdleKinds
  BY ExecutedTyped DEF IdleKinds
<1>5. PICK g \in Gathered :
        LET outcome == Outcomes(a, current[a], g)
        IN  Stepped(a, Emit(d) \o Emit(E(Verdict(outcome), action, item)),
                    outcome \in {"ask", "escalate"})
  BY <1>2, <1>3, <1>4 DEF DecideStep
<1>5a. PICK outcome : outcome = Outcomes(a, current[a], g)
  OBVIOUS
<1>5b. outcome \in {"execute", "ask", "defer", "escalate", "refuse"}
  BY <1>5a, OutcomeIsOne, Zenon
<1> DEFINE parks == outcome \in {"ask", "escalate"}
<1>6. parks \in BOOLEAN
  OBVIOUS
<1>7. PICK kind \in {"action_executed", "action_denied", "approval_requested"} :
        /\ kind = Verdict(outcome)
        /\ \/ kind = "action_executed" /\ ~parks /\ outcome = "execute"
           \/ kind = "approval_requested" /\ parks
           \/ kind = "action_denied" /\ ~parks
  BY <1>5b DEF Verdict
<1>8. PICK e \in Event : /\ e = E(kind, action, item)
                         /\ e.kind = kind /\ e.action = action /\ e.item = item
  BY ExecutedTyped
<1>9. Stepped(a, Emit(d) \o Emit(e), parks)
  BY <1>5, <1>7, <1>8, <1>5a
<1> HIDE DEF parks
<1>10. Leaves(a, e, parks)
  BY <1>1, <1>4, <1>8, <1>9, DecidedStepLeaves
<1> QED BY <1>2, <1>3, <1>6, <1>7, <1>8, <1>10, <1>5a

\* Of every step, whatever it is.
LEMMA AdvanceLeaves ==
    ASSUME FleetTyped, NEW a \in Agents, Advance(a)
    PROVE  \E e \in Event, parks \in BOOLEAN :
               /\ e.kind \in {"action_executed", "action_denied", "approval_requested",
                              "blocker_raised"}
               /\ parks <=> e.kind = "approval_requested"
               /\ Leaves(a, e, parks)
<1>1. CASE RoutineStep(a)
  BY <1>1, RoutineLeaves
<1>2. CASE PurchaseStep(a)
  BY <1>2, PurchaseLeaves
<1>3. CASE TakeItem(a)
  BY <1>3, TakeLeaves
<1>4. CASE NothingToTake(a)
  BY <1>4, BlockerLeaves
<1>5. CASE VerifyTicket(a)
  BY <1>5, VerifyLeaves
<1>6. CASE DecideStep(a)
  BY <1>6, DecideLeaves
<1> QED BY <1>1, <1>2, <1>3, <1>4, <1>5, <1>6 DEF Advance

-----------------------------------------------------------------------------
(* Types. *)

\* The trails stay trails.
LEMMA LeavesTrails ==
    ASSUME log \in [Agents -> Seq(Event)], NEW a \in Agents, NEW e, NEW parks,
           Leaves(a, e, parks)
    PROVE  log' \in [Agents -> Seq(Event)]
BY DEF Leaves

\* The desk, the cursor and the step after one step on.
LEMMA CursorStep ==
    ASSUME FleetTyped, NEW a \in Agents, AdvanceCursor(a)
    PROVE  /\ DOMAIN cursor' = Agents
           /\ \A b \in Agents : b # a => cursor'[b] = cursor[b]
           /\ cursor'[a] \in 0 .. Len(Steps(a)) - 1
           /\ \E c : cursor'[a] = c /\ StepFits(a, Step(a), Steps(a)[c + 1], c)
<1>1. PICK c \in 0 .. Len(Steps(a)) - 1 : c = cursor[a]
  BY DEF FleetTyped
<1>2. PICK d : d = (c + 1) % Len(Steps(a))
  OBVIOUS
<1>3. StepFits(a, Steps(a)[c + 1], Steps(a)[d + 1], d)
  BY <1>2, StepsSpelled
<1>4. cursor' = [cursor EXCEPT ![a] = d]
  BY <1>1, <1>2 DEF AdvanceCursor
<1>5. DOMAIN cursor = Agents
  BY DEF FleetTyped
<1>6. cursor'[a] = d
  BY <1>4, <1>5
<1>7. d \in 0 .. Len(Steps(a)) - 1
  BY <1>3 DEF StepFits
<1>8. DOMAIN cursor' = Agents /\ \A b \in Agents : b # a => cursor'[b] = cursor[b]
  BY <1>4, <1>5
<1>9. StepFits(a, Step(a), Steps(a)[d + 1], d)
  BY <1>1, <1>3 DEF Step
<1> QED BY <1>6, <1>7, <1>8, <1>9

\* One agent's half of the types.
DeskTyped(a, c, q, item) ==
    /\ c \in 0 .. Len(Steps(a)) - 1
    /\ q \in Queues(a)
    /\ item \in {Nothing} \cup Desk(a)
    /\ (item # Nothing) <=> Steps(a)[c + 1] \in Awaited

\* The fleet's types, agent by agent.
LEMMA FleetParts ==
    FleetTyped <=>
        /\ seeded \in BOOLEAN
        /\ rogue \subseteq Agents
        /\ log \in [Agents -> Seq(Event)]
        /\ DOMAIN cursor = Agents /\ DOMAIN queue = Agents /\ DOMAIN current = Agents
        /\ \A a \in Agents : DeskTyped(a, cursor[a], queue[a], current[a])
BY DEF FleetTyped, DeskTyped, Step

\* The others stay as they are, so only the agent of the step matters.
LEMMA OneDeskChanges ==
    ASSUME FleetTyped, NEW a \in Agents,
           UNCHANGED <<seeded, rogue>>, log' \in [Agents -> Seq(Event)],
           DOMAIN cursor' = Agents, DOMAIN queue' = Agents, DOMAIN current' = Agents,
           \A b \in Agents : b # a =>
               cursor'[b] = cursor[b] /\ queue'[b] = queue[b] /\ current'[b] = current[b],
           DeskTyped(a, cursor'[a], queue'[a], current'[a])
    PROVE  FleetTyped'
<1>1. \A b \in Agents : DeskTyped(b, cursor[b], queue[b], current[b])
  BY FleetParts
<1>2. \A b \in Agents : DeskTyped(b, cursor'[b], queue'[b], current'[b])
  BY <1>1
<1>3. seeded \in BOOLEAN /\ rogue \subseteq Agents
  BY DEF FleetTyped
<1>4. /\ seeded' \in BOOLEAN /\ rogue' \subseteq Agents
  BY <1>3
<1> QED BY <1>2, <1>4 DEF FleetTyped, DeskTyped, Step

\* Every step keeps the types.
LEMMA AdvanceTyped ==
    ASSUME FleetTyped, NEW a \in Agents, Advance(a)
    PROVE  FleetTyped'
<1>0. /\ DOMAIN cursor = Agents /\ DOMAIN queue = Agents /\ DOMAIN current = Agents
      /\ DeskTyped(a, cursor[a], queue[a], current[a])
  BY FleetParts
<1>1. log' \in [Agents -> Seq(Event)]
  <2>1. log \in [Agents -> Seq(Event)]
    BY DEF FleetTyped
  <2> QED BY <2>1, AdvanceLeaves, LeavesTrails
<1>2. UNCHANGED seeded
  BY DEF Advance, RoutineStep, PurchaseStep, TakeItem, NothingToTake, VerifyTicket, DecideStep,
         Stepped
<1>3. Step(a) = Steps(a)[cursor[a] + 1]
  BY DEF Step
<1>4. (current[a] # Nothing) <=> Step(a) \in Awaited
  BY <1>0, <1>3 DEF DeskTyped
<1>5. CASE RoutineStep(a) \/ PurchaseStep(a)
  <2>1. /\ Step(a) \in {"check_stock", "size_order", "verify_delivery", "purchase"}
        /\ AdvanceCursor(a) /\ UNCHANGED <<rogue, queue, current>>
    BY <1>5 DEF RoutineStep, PurchaseStep
  <2>2. PICK c : /\ cursor'[a] = c /\ StepFits(a, Step(a), Steps(a)[c + 1], c)
    BY <2>1, CursorStep
  <2>3. DeskTyped(a, cursor'[a], queue'[a], current'[a])
    BY <1>0, <1>4, <2>1, <2>2 DEF DeskTyped, StepFits
  <2> QED BY <1>0, <1>1, <1>2, <2>1, <2>3, CursorStep, OneDeskChanges
<1>6. CASE TakeItem(a)
  <2>1. /\ Step(a) \in {"pop_ticket", "pick_release"}
        /\ queue[a] # <<>>
        /\ current' = [current EXCEPT ![a] = Head(queue[a])]
        /\ queue' = [queue EXCEPT ![a] = Tail(queue[a])]
        /\ AdvanceCursor(a) /\ UNCHANGED rogue
    BY <1>6 DEF TakeItem
  <2>2. PICK c : cursor'[a] = c /\ StepFits(a, Step(a), Steps(a)[c + 1], c)
    BY <2>1, CursorStep
  <2>3. PICK q \in Queues(a) : q = queue[a]
    BY <1>0 DEF DeskTyped
  <2>4. Head(q) \in Desk(a) /\ Tail(q) \in Queues(a)
    BY <2>1, <2>3, QueueIsRest
  <2>5. Head(q) # Nothing
    BY <2>4, DeskItems
  <2>6. current'[a] = Head(q) /\ queue'[a] = Tail(q)
    BY <1>0, <2>1, <2>3
  <2>7. DeskTyped(a, cursor'[a], queue'[a], current'[a])
    BY <2>1, <2>2, <2>4, <2>5, <2>6 DEF DeskTyped, StepFits
  <2>8. /\ DOMAIN queue' = Agents /\ DOMAIN current' = Agents
        /\ \A b \in Agents : b # a => queue'[b] = queue[b] /\ current'[b] = current[b]
    BY <1>0, <2>1
  <2>9. DOMAIN cursor' = Agents /\ \A b \in Agents : b # a => cursor'[b] = cursor[b]
    BY <2>1, CursorStep
  <2> QED BY <1>1, <1>2, <2>1, <2>7, <2>8, <2>9, OneDeskChanges
<1>7. CASE NothingToTake(a)
  <2>1. UNCHANGED <<rogue, cursor, queue, current>>
    BY <1>7 DEF NothingToTake, worldVars
  <2> QED BY <1>0, <1>1, <1>2, <2>1, OneDeskChanges
<1>8. CASE VerifyTicket(a)
  <2>1. /\ Step(a) = "verify_ticket" /\ current[a] # Nothing
        /\ current' = [current EXCEPT ![a] =
                        IF a \in rogue THEN Tampered(current[a]) ELSE current[a]]
        /\ AdvanceCursor(a) /\ UNCHANGED <<rogue, queue>>
    BY <1>8 DEF VerifyTicket
  <2>2. PICK c : cursor'[a] = c /\ StepFits(a, Step(a), Steps(a)[c + 1], c)
    BY <2>1, CursorStep
  <2>3. PICK item \in Desk(a) : item = current[a]
    BY <2>1, OnDesk
  <2>4. Tampered(item) \in Desk(a)
    BY DeskItems
  <2>5. current'[a] = IF a \in rogue THEN Tampered(item) ELSE item
    BY <1>0, <2>1, <2>3
  <2>6. current'[a] \in Desk(a) /\ current'[a] # Nothing
    BY <2>4, <2>5, DeskItems
  <2>7. DeskTyped(a, cursor'[a], queue'[a], current'[a])
    BY <1>0, <2>1, <2>2, <2>6 DEF DeskTyped, StepFits
  <2>8. /\ DOMAIN queue' = Agents /\ DOMAIN current' = Agents
        /\ \A b \in Agents : b # a => queue'[b] = queue[b] /\ current'[b] = current[b]
    BY <1>0, <2>1
  <2> QED BY <1>1, <1>2, <2>1, <2>7, <2>8, CursorStep, OneDeskChanges
<1>9. CASE DecideStep(a)
  <2>1. /\ Step(a) \in {"decide_refund", "deploy"}
        /\ current' = [current EXCEPT ![a] = Nothing]
        /\ AdvanceCursor(a) /\ UNCHANGED <<rogue, queue>>
    BY <1>9 DEF DecideStep, Settle
  <2>2. PICK c : cursor'[a] = c /\ StepFits(a, Step(a), Steps(a)[c + 1], c)
    BY <2>1, CursorStep
  <2>3. current'[a] = Nothing
    BY <1>0, <2>1
  <2>4. DeskTyped(a, cursor'[a], queue'[a], current'[a])
    BY <1>0, <2>1, <2>2, <2>3 DEF DeskTyped, StepFits
  <2>5. /\ DOMAIN queue' = Agents /\ DOMAIN current' = Agents
        /\ \A b \in Agents : b # a => queue'[b] = queue[b] /\ current'[b] = current[b]
    BY <1>0, <2>1
  <2> QED BY <1>1, <1>2, <2>1, <2>4, <2>5, CursorStep, OneDeskChanges
<1> QED BY <1>5, <1>6, <1>7, <1>8, <1>9 DEF Advance

\* What humans leave on the trails: one event, without an item.
Receipted(a, kind, action) ==
    \E e \in Event :
        /\ e.kind = kind /\ e.action = action /\ e.item = NoItem
        /\ log' = [log EXCEPT ![a] = Append(log[a], e)]

\* A human's receipt is one event.
LEMMA HumansReceipt ==
    ASSUME log \in [Agents -> Seq(Event)], NEW a \in Agents,
           NEW kind \in {"intervention_applied", "approval_resolved", "blocker_raised"},
           NEW action \in {"pause", "resume", "kill", "approved", "denied", "injection"},
           Receipt(a, E(kind, action, NoItem))
    PROVE  Receipted(a, kind, action) /\ log' \in [Agents -> Seq(Event)]
<1>1. action \in ActionName
  BY DEF ActionName
<1>2. PICK e \in Event : /\ e = E(kind, action, NoItem)
                         /\ e.kind = kind /\ e.action = action /\ e.item = NoItem
  BY <1>1, NoItemTyped, ExecutedTyped
<1>3. Emit(e) = <<e>>
  BY <1>2 DEF Emit
<1>4. PICK trail \in Seq(Event) : trail = log[a]
  OBVIOUS
<1>5. trail \o Emit(e) = Append(trail, e) /\ Append(trail, e) \in Seq(Event)
  BY <1>3
<1>6. log' = [log EXCEPT ![a] = Append(log[a], e)]
  BY <1>2, <1>4, <1>5 DEF Receipt
<1> QED BY <1>2, <1>4, <1>5, <1>6 DEF Receipted

\* A receipt leaves the world as it is.
LEMMA QuietWorldTyped ==
    ASSUME FleetTyped, UNCHANGED <<seeded, cursor, queue, current>>,
           rogue' \subseteq Agents, log' \in [Agents -> Seq(Event)]
    PROVE  FleetTyped'
BY DEF FleetTyped, Step

\* Interventions keep the types, and are receipted.
LEMMA HumanTyped ==
    ASSUME FleetTyped, NEW a \in Agents,
           HumanPause(a) \/ HumanResume(a) \/ HumanKill(a) \/ InjectRogue(a)
    PROVE  /\ FleetTyped'
           /\ HumanPause(a) => Receipted(a, "intervention_applied", "pause")
           /\ HumanResume(a) => Receipted(a, "intervention_applied", "resume")
           /\ HumanKill(a) => Receipted(a, "intervention_applied", "kill")
           /\ InjectRogue(a) => Receipted(a, "blocker_raised", "injection")
<1>0. log \in [Agents -> Seq(Event)] /\ rogue \subseteq Agents
  BY DEF FleetTyped
<1>1. ASSUME NEW name \in {"pause", "resume", "kill"}, Intervene(a, name)
      PROVE  FleetTyped' /\ Receipted(a, "intervention_applied", name)
  <2>1. Receipt(a, E("intervention_applied", name, NoItem))
    BY <1>1 DEF Intervene
  <2>2. Receipted(a, "intervention_applied", name) /\ log' \in [Agents -> Seq(Event)]
    BY <1>0, <2>1, HumansReceipt
  <2>3. UNCHANGED <<seeded, cursor, queue, current, rogue>>
    BY <1>1 DEF Intervene, worldVars
  <2> QED BY <1>0, <2>2, <2>3, QuietWorldTyped
<1>2. ASSUME InjectRogue(a) PROVE FleetTyped' /\ Receipted(a, "blocker_raised", "injection")
  <2>1. Receipt(a, E("blocker_raised", "injection", NoItem))
    BY <1>2 DEF InjectRogue
  <2>2. Receipted(a, "blocker_raised", "injection") /\ log' \in [Agents -> Seq(Event)]
    BY <1>0, <2>1, HumansReceipt
  <2>3. UNCHANGED <<seeded, cursor, queue, current>> /\ rogue' \subseteq Agents
    BY <1>0, <1>2 DEF InjectRogue
  <2> QED BY <2>2, <2>3, QuietWorldTyped
<1> QED BY <1>1, <1>2 DEF HumanPause, HumanResume, HumanKill

\* Verdicts too, on the trail of the approval's agent.
LEMMA VerdictTyped ==
    ASSUME GateTypeOK, FleetTyped, NEW i \in DOMAIN approvals, HumanVerdict(i)
    PROVE  /\ FleetTyped' /\ approvals[i].agent \in Agents
           /\ \E verdict \in {"approved", "denied"} :
                 Receipted(approvals[i].agent, "approval_resolved", verdict)
           /\ Approve(i) \/ Deny(i)
<1>0. log \in [Agents -> Seq(Event)] /\ rogue \subseteq Agents
  BY DEF FleetTyped
<1>1. PICK a \in Agents : a = approvals[i].agent
  BY DEF GateTypeOK, Approval
<1>2. PICK verdict \in {"approved", "denied"} :
        /\ IF verdict = "approved" THEN Approve(i) ELSE Deny(i)
        /\ Receipt(a, E("approval_resolved", verdict, NoItem))
        /\ UNCHANGED <<seeded, rogue, cursor, queue, current>>
  BY <1>1 DEF HumanVerdict, worldVars
<1>3. Receipted(a, "approval_resolved", verdict) /\ log' \in [Agents -> Seq(Event)]
  BY <1>0, <1>2, HumansReceipt
<1>4. FleetTyped'
  BY <1>0, <1>2, <1>3, QuietWorldTyped
<1> QED BY <1>1, <1>2, <1>3, <1>4

\* A fresh world: nothing on the desk, all the work in the queue.
LEMMA FreshDesk == \A a \in Agents : DeskTyped(a, 0, Work(a), Nothing)
<1> SUFFICES ASSUME NEW a \in Agents PROVE DeskTyped(a, 0, Work(a), Nothing)
  OBVIOUS
<1>1. PICK w \in Seq(ItemType) : w = Work(a)
  BY WorkIsTyped
<1>2. SubSeq(w, 1, Len(w)) = w /\ 1 \in 1 .. Len(w) + 1
  OBVIOUS
<1>3. Work(a) \in Queues(a)
  BY <1>1, <1>2 DEF Queues
<1>4. PICK c : c \in 0 .. Len(Steps(a)) - 1
  <2>1. PICK s : /\ s = Steps(a)
                 /\ \/ s = <<"check_stock", "size_order", "purchase", "verify_delivery">>
                    \/ s = <<"pop_ticket", "decide_refund">>
                    \/ s = <<"pick_release", "verify_ticket", "deploy">>
    BY FleetOfThree DEF Steps
  <2>2. Len(s) = 4 \/ Len(s) = 2 \/ Len(s) = 3
    BY <2>1
  <2>3. 0 \in 0 .. Len(s) - 1
    BY <2>2
  <2> QED BY <2>1, <2>3
<1>5. 0 \in 0 .. Len(Steps(a)) - 1 /\ Steps(a)[1] \notin Awaited
  BY <1>4, StepsSpelled
<1> QED BY <1>3, <1>5 DEF DeskTyped

\* A fresh world, whatever the trails start with.
LEMMA FreshTyped ==
    ASSUME NEW s \in BOOLEAN, NEW t \in Seq(Event), NEW r, NEW c, NEW q, NEW u, NEW l,
           r = {}, c = [a \in Agents |-> 0], q = [a \in Agents |-> Work(a)],
           u = [a \in Agents |-> Nothing], l = [a \in Agents |-> t]
    PROVE  /\ r \subseteq Agents /\ l \in [Agents -> Seq(Event)]
           /\ DOMAIN c = Agents /\ DOMAIN q = Agents /\ DOMAIN u = Agents
           /\ \A a \in Agents : DeskTyped(a, c[a], q[a], u[a])
BY FreshDesk

Enrolled == E("intervention_applied", "enrolled", NoItem)

\* The enrolment is an intervention, of nobody.
LEMMA EnrolledTyped ==
    /\ Enrolled \in Event
    /\ Enrolled.kind = "intervention_applied" /\ Enrolled.action = "enrolled"
    /\ Enrolled.item = NoItem
    /\ <<>> \in Seq(Event) /\ <<Enrolled>> \in Seq(Event)
<1>1. "enrolled" \in ActionName
  BY DEF ActionName
<1>2. /\ Enrolled \in Event
      /\ Enrolled.kind = "intervention_applied" /\ Enrolled.action = "enrolled"
      /\ Enrolled.item = NoItem
  BY <1>1, NoItemTyped, ExecutedTyped DEF Enrolled
<1>3. <<>> \in Seq(Event)
  OBVIOUS
<1>4. ASSUME NEW e \in Event PROVE <<e>> \in Seq(Event)
  OBVIOUS
<1> QED BY <1>2, <1>3, <1>4

\* A reset and a new seeding keep the types.
LEMMA ResetTyped ==
    ASSUME Reset \/ SeedDemo
    PROVE  /\ FleetTyped'
           /\ \/ log' = [a \in Agents |-> <<>>]
              \/ log' = [a \in Agents |-> <<Enrolled>>]
<1>1. PICK t \in Seq(Event) :
        log' = [a \in Agents |-> t] /\ (t = <<>> \/ t = <<Enrolled>>)
  <2>1. Reset => log' = [a \in Agents |-> <<>>]
    BY DEF Reset
  <2>2. SeedDemo => log' = [a \in Agents |-> <<Enrolled>>]
    BY DEF SeedDemo, Enrolled
  <2> QED BY <2>1, <2>2, EnrolledTyped
<1>2. /\ seeded' \in BOOLEAN /\ rogue' = {}
      /\ cursor' = [a \in Agents |-> 0] /\ queue' = [a \in Agents |-> Work(a)]
      /\ current' = [a \in Agents |-> Nothing]
  BY DEF Reset, SeedDemo, FreshWorld
<1>3. /\ rogue' \subseteq Agents /\ log' \in [Agents -> Seq(Event)]
      /\ DOMAIN cursor' = Agents /\ DOMAIN queue' = Agents /\ DOMAIN current' = Agents
      /\ \A a \in Agents : DeskTyped(a, cursor'[a], queue'[a], current'[a])
  BY <1>1, <1>2, FreshTyped
<1>4. FleetTyped'
  BY <1>2, <1>3 DEF FleetTyped, DeskTyped, Step
<1> QED BY <1>1, <1>4

\* The first state is typed.
LEMMA FleetTypeInit == TowerInit => FleetTyped
<1> SUFFICES ASSUME TowerInit PROVE FleetTyped
  OBVIOUS
<1>1. /\ seeded = FALSE /\ rogue = {} /\ log = [a \in Agents |-> <<>>]
      /\ cursor = [a \in Agents |-> 0] /\ queue = [a \in Agents |-> Work(a)]
      /\ current = [a \in Agents |-> Nothing]
  BY DEF TowerInit
<1>2. <<>> \in Seq(Event) /\ FALSE \in BOOLEAN
  OBVIOUS
<1>3. /\ rogue \subseteq Agents /\ log \in [Agents -> Seq(Event)]
      /\ DOMAIN cursor = Agents /\ DOMAIN queue = Agents /\ DOMAIN current = Agents
      /\ \A a \in Agents : DeskTyped(a, cursor[a], queue[a], current[a])
  BY <1>1, <1>2, FreshTyped
<1> QED BY <1>1, <1>3, FleetParts

\* Every step keeps the types.
LEMMA FleetTypeStep == GateTypeOK /\ FleetTyped /\ [TowerNext]_towerVars => FleetTyped'
<1> SUFFICES ASSUME GateTypeOK, FleetTyped, [TowerNext]_towerVars PROVE FleetTyped'
  OBVIOUS
<1>1. ASSUME NEW a \in Agents, Advance(a) PROVE FleetTyped'
  BY <1>1, AdvanceTyped
<1>2. ASSUME NEW a \in Agents, HumanPause(a) \/ HumanResume(a) \/ HumanKill(a) \/ InjectRogue(a)
      PROVE  FleetTyped'
  BY <1>2, HumanTyped
<1>3. ASSUME NEW i \in DOMAIN approvals, HumanVerdict(i) PROVE FleetTyped'
  BY <1>3, VerdictTyped
<1>4. CASE Reset \/ SeedDemo
  BY <1>4, ResetTyped
<1>5. CASE UNCHANGED towerVars
  BY <1>5 DEF towerVars, worldVars, FleetTyped, Step
<1> QED BY <1>1, <1>2, <1>3, <1>4, <1>5 DEF TowerNext

\* The control plane of the tower, with what the gate promises of it.
LEMMA TowerGateInvariant == TowerSpec => []GateInv
BY TowerRunsGate, GateInvariant, PTL

\* The tower's variables hold what the code stores in them: the queue of an
\* agent is a rest of its work, and an item is on the desk exactly at the steps
\* that need one.
THEOREM TowerTypeCorrect == TowerSpec => []TowerTypeOK
<1>1. TowerInit => FleetTyped BY FleetTypeInit
<1>2. GateInv /\ FleetTyped /\ [TowerNext]_towerVars => FleetTyped'
  BY FleetTypeStep DEF GateInv
<1>3. GateInv /\ FleetTyped => TowerTypeOK BY TowerParts DEF GateInv
<1> QED BY <1>1, <1>2, <1>3, TowerGateInvariant, PTL DEF TowerSpec

-----------------------------------------------------------------------------
(* Drift is contained. *)

\* Places of a trail are finitely many.
LEMMA PlacesFinite ==
    ASSUME NEW es \in Seq(Event), NEW S, S \subseteq DOMAIN es
    PROVE  IsFiniteSet(S) /\ Cardinality(S) \in Nat
<1>1. 1 \in Int /\ Len(es) \in Int /\ DOMAIN es = 1 .. Len(es)
  OBVIOUS
<1>2. IsFiniteSet(DOMAIN es)
  BY <1>1, FS_Interval
<1> QED BY <1>2, FS_Subset, FS_CardinalityType

\* A trail of interventions shows no drift.
LEMMA QuietTrail ==
    ASSUME NEW es, \A n \in DOMAIN es : es[n].kind = "intervention_applied"
    PROVE  ~Drifting(es)
<1>1. ASSUME NEW places, places \subseteq DOMAIN es,
             NEW kind \in {"action_denied", "approval_requested", "cost_recorded",
                           "action_executed"}
      PROVE  OfKind(es, places, kind) = {}
  BY <1>1 DEF OfKind
<1>2. /\ Latest(Meaningful(es), 10) \subseteq DOMAIN es
      /\ Latest(Meaningful(es), 8) \subseteq DOMAIN es
      /\ Meaningful(es) \subseteq DOMAIN es
  BY DEF Latest, Meaningful
<1>3. Cardinality({}) = 0
  BY FS_EmptySet
<1>4. ~DenialBurst(es)
  <2>1. OfKind(es, Latest(Meaningful(es), 10), "action_denied") = {}
    BY <1>1, <1>2
  <2>2. ~(0 >= 3)
    OBVIOUS
  <2> QED BY <1>3, <2>1, <2>2 DEF DenialBurst
<1>5. ~EscalationBurst(es)
  <2>1. OfKind(es, Latest(Meaningful(es), 8), "approval_requested") = {}
    BY <1>1, <1>2
  <2>2. ~(0 >= 2)
    OBVIOUS
  <2> QED BY <1>3, <2>1, <2>2 DEF EscalationBurst
<1>6. ~CostRunaway(es)
  <2>1. OfKind(es, DOMAIN es, "cost_recorded") = {}
    BY <1>1
  <2>2. Metered(es, "decide") = {} /\ Metered(es, "execute") = {}
    BY <2>1 DEF Metered
  <2>3. Spent(es) = Charge("decide") * 0 + Charge("execute") * 0
    BY <1>3, <2>2 DEF Spent
  <2>4. Spent(es) = 0
    BY <2>3 DEF Charge
  <2> QED BY <2>4 DEF CostRunaway, Budget
<1>7. ~Oscillation(es)
  <2>1. Latest(OfKind(es, Meaningful(es), "action_executed"), 4) = {}
    BY <1>1, <1>2 DEF Latest
  <2> QED BY <2>1 DEF Oscillation
<1> QED BY <1>4, <1>5, <1>6, <1>7 DEF Drifting, Flagged, Rules

\* What one more event does to the events that count.
LEMMA PlacesAppended ==
    ASSUME NEW es \in Seq(Event), NEW e \in Event, NEW longer, longer = Append(es, e)
    PROVE  /\ longer \in Seq(Event)
           /\ DOMAIN es \subseteq DOMAIN longer
           /\ \A n \in DOMAIN es : longer[n] = es[n]
           /\ \A n \in DOMAIN longer : n \in DOMAIN es \/ (n = Len(es) + 1 /\ longer[n] = e)
           /\ Meaningful(es) \subseteq Meaningful(longer)
           /\ Meaningful(longer) \cap DOMAIN es \subseteq Meaningful(es)
<1>1. /\ longer \in Seq(Event) /\ Len(longer) = Len(es) + 1
      /\ DOMAIN es = 1 .. Len(es) /\ DOMAIN longer = 1 .. Len(es) + 1
  OBVIOUS
<1>2. /\ DOMAIN es \subseteq DOMAIN longer
      /\ \A n \in DOMAIN es : longer[n] = es[n]
      /\ \A n \in DOMAIN longer : n \in DOMAIN es \/ (n = Len(es) + 1 /\ longer[n] = e)
  BY <1>1
<1> QED BY <1>1, <1>2 DEF Meaningful

\* An event of another kind only moves the window on.
LEMMA WindowMoves ==
    ASSUME NEW es \in Seq(Event), NEW e \in Event, NEW longer, longer = Append(es, e),
           NEW k \in Nat, NEW kind, e.kind # kind
    PROVE  OfKind(longer, Latest(Meaningful(longer), k), kind)
             \subseteq OfKind(es, Latest(Meaningful(es), k), kind)
<1> SUFFICES ASSUME NEW p \in OfKind(longer, Latest(Meaningful(longer), k), kind)
             PROVE  p \in OfKind(es, Latest(Meaningful(es), k), kind)
  OBVIOUS
<1>1. /\ p \in Meaningful(longer) /\ longer[p].kind = kind
      /\ Cardinality({q \in Meaningful(longer) : q > p}) < k
  BY DEF OfKind, Latest
<1>2. p \in DOMAIN es /\ p \in Meaningful(es) /\ es[p].kind = kind
  <2>1. p \in DOMAIN longer
    BY <1>1 DEF Meaningful
  <2>2. p \in DOMAIN es
    BY <1>1, <2>1, PlacesAppended
  <2>3. longer[p] = es[p]
    BY <2>2, PlacesAppended
  <2>4. p \in Meaningful(es)
    BY <1>1, <2>2, PlacesAppended
  <2> QED BY <1>1, <2>2, <2>3, <2>4
<1>3. Cardinality({q \in Meaningful(es) : q > p}) < k
  <2>1. PICK A : A = {q \in Meaningful(es) : q > p}
    OBVIOUS
  <2>2. PICK B : B = {q \in Meaningful(longer) : q > p}
    OBVIOUS
  <2>3. A \subseteq B
    BY <2>1, <2>2, PlacesAppended
  <2>4. longer \in Seq(Event) /\ B \subseteq DOMAIN longer
    BY <2>2, PlacesAppended DEF Meaningful
  <2>5. IsFiniteSet(B) /\ Cardinality(B) \in Nat
    BY <2>4, PlacesFinite
  <2>6. Cardinality(A) <= Cardinality(B) /\ Cardinality(A) \in Nat
    BY <2>3, <2>5, FS_Subset, FS_CardinalityType
  <2> QED BY <1>1, <2>1, <2>2, <2>5, <2>6
<1> QED BY <1>2, <1>3 DEF OfKind, Latest

\* A part of the places counts no more than all of them.
LEMMA FewerPlaces ==
    ASSUME NEW es \in Seq(Event), NEW B, B \subseteq DOMAIN es, NEW A, A \subseteq B
    PROVE  Cardinality(A) \in Nat /\ Cardinality(B) \in Nat /\ Cardinality(A) <= Cardinality(B)
<1>1. IsFiniteSet(B) /\ Cardinality(B) \in Nat
  BY PlacesFinite
<1>2. IsFiniteSet(A) /\ Cardinality(A) <= Cardinality(B)
  BY <1>1, FS_Subset
<1> QED BY <1>1, <1>2, FS_CardinalityType

\* Oscillation, of the places it looks at.
Alternates(es, places) ==
    \E p, q, r, s \in places :
        /\ p < q /\ q < r /\ r < s
        /\ es[p].action = es[r].action /\ es[q].action = es[s].action
        /\ es[p].action # es[q].action

\* The oscillation rule, of the places it looks at.
LEMMA OscillationAlternates ==
    \A es : Oscillation(es)
             <=> Alternates(es, Latest(OfKind(es, Meaningful(es), "action_executed"), 4))
BY DEF Oscillation, Alternates

\* An event that is no verdict, no request, no act and no cost raises no rule.
LEMMA NeutralKeepsCalm ==
    ASSUME NEW es \in Seq(Event), NEW e \in Event,
           e.kind \notin {"action_denied", "approval_requested", "action_executed",
                          "cost_recorded"},
           NEW longer, longer = Append(es, e), Drifting(longer)
    PROVE  Drifting(es)
<1>0. longer \in Seq(Event)
  BY PlacesAppended
<1>1. ASSUME DenialBurst(longer) PROVE DenialBurst(es)
  <2>1. PICK A : A = OfKind(longer, Latest(Meaningful(longer), 10), "action_denied")
    OBVIOUS
  <2>2. PICK B : B = OfKind(es, Latest(Meaningful(es), 10), "action_denied")
    OBVIOUS
  <2>3. A \subseteq B
    BY <2>1, <2>2, WindowMoves
  <2>4. B \subseteq DOMAIN es
    BY <2>2 DEF OfKind, Latest, Meaningful
  <2>5. Cardinality(A) \in Nat /\ Cardinality(B) \in Nat /\ Cardinality(A) <= Cardinality(B)
    BY <2>3, <2>4, FewerPlaces
  <2>6. Cardinality(A) >= 3
    BY <1>1, <2>1 DEF DenialBurst
  <2>7. Cardinality(B) >= 3
    BY <2>5, <2>6
  <2> QED BY <2>2, <2>7 DEF DenialBurst
<1>2. ASSUME EscalationBurst(longer) PROVE EscalationBurst(es)
  <2>1. PICK A : A = OfKind(longer, Latest(Meaningful(longer), 8), "approval_requested")
    OBVIOUS
  <2>2. PICK B : B = OfKind(es, Latest(Meaningful(es), 8), "approval_requested")
    OBVIOUS
  <2>3. A \subseteq B
    BY <2>1, <2>2, WindowMoves
  <2>4. B \subseteq DOMAIN es
    BY <2>2 DEF OfKind, Latest, Meaningful
  <2>5. Cardinality(A) \in Nat /\ Cardinality(B) \in Nat /\ Cardinality(A) <= Cardinality(B)
    BY <2>3, <2>4, FewerPlaces
  <2>6. Cardinality(A) >= 2
    BY <1>2, <2>1 DEF EscalationBurst
  <2>7. Cardinality(B) >= 2
    BY <2>5, <2>6
  <2> QED BY <2>2, <2>7 DEF EscalationBurst
<1>3. ASSUME CostRunaway(longer) PROVE CostRunaway(es)
  <2>1. \A action : Metered(longer, action) = Metered(es, action)
    BY PlacesAppended DEF Metered, OfKind
  <2> QED BY <1>3, <2>1 DEF CostRunaway, Spent
<1>4. ASSUME Oscillation(longer) PROVE Oscillation(es)
  <2>1. OfKind(longer, Meaningful(longer), "action_executed")
          = OfKind(es, Meaningful(es), "action_executed")
    <3>1. \A n \in OfKind(longer, Meaningful(longer), "action_executed") : n \in DOMAIN es
      BY PlacesAppended DEF OfKind, Meaningful
    <3>2. Meaningful(es) \subseteq DOMAIN es
      BY DEF Meaningful
    <3>3. \A n \in DOMAIN es : longer[n].kind = es[n].kind
      BY PlacesAppended
    <3>4. \A n \in DOMAIN es : n \in Meaningful(longer) <=> n \in Meaningful(es)
      BY PlacesAppended
    <3>5. \A n : n \in OfKind(longer, Meaningful(longer), "action_executed")
                 <=> n \in OfKind(es, Meaningful(es), "action_executed")
      BY <3>1, <3>2, <3>3, <3>4 DEF OfKind
    <3> QED BY <3>5
  <2>2. PICK W : /\ W = Latest(OfKind(es, Meaningful(es), "action_executed"), 4)
                 /\ W = Latest(OfKind(longer, Meaningful(longer), "action_executed"), 4)
    BY <2>1
  <2>3. W \subseteq DOMAIN es
    BY <2>2 DEF Latest, OfKind, Meaningful
  <2>4. \A n \in W : longer[n] = es[n]
    BY <2>3, PlacesAppended
  <2>5. Alternates(longer, W)
    BY <1>4, <2>2, OscillationAlternates
  <2>5a. PICK p, q, r, s \in W :
        /\ p < q /\ q < r /\ r < s
        /\ longer[p].action = longer[r].action /\ longer[q].action = longer[s].action
        /\ longer[p].action # longer[q].action
    BY <2>5 DEF Alternates
  <2>6. /\ es[p].action = es[r].action /\ es[q].action = es[s].action
        /\ es[p].action # es[q].action
    BY <2>4, <2>5a
  <2>7. Alternates(es, W)
    BY <2>5a, <2>6 DEF Alternates
  <2> QED BY <2>2, <2>7, OscillationAlternates
<1> QED BY <1>1, <1>2, <1>3, <1>4 DEF Drifting, Flagged, Rules

\* One agent's half.
ReleasedLast(trail) ==
    \E n \in DOMAIN trail :
        /\ IsRelease(trail[n])
        /\ \A m \in DOMAIN trail : trail[m].kind = "step_started" => m < n

ContainedOf(state, trail) ==
    state \in {"active", "awaiting_approval"} /\ Drifting(trail) => ReleasedLast(trail)

\* The property, agent by agent.
LEMMA ContainedParts ==
    DriftIsContained <=> \A a \in Agents : ContainedOf(states[a], log[a])
BY DEF DriftIsContained, ContainedOf, ReleasedLast

\* The gate moves one agent at a time.
LEMMA OthersKeepControl ==
    ASSUME GateTypeOK, NEW a \in Agents, NEW b \in Agents, b # a,
           \/ Pause(a) \/ Resume(a) \/ Kill(a) \/ UNCHANGED gateVars
           \/ \E parks : Unflagged(a, parks) \/ Contained(a, parks)
    PROVE  states'[b] = states[b]
<1>1. states \in [Agents -> ControlState]
  BY DEF GateTypeOK
<1> QED BY <1>1 DEF Pause, Resume, Kill, gateVars, Unflagged, Contained, CheckedRequest, Check,
                    RequestApproval, CheckedRequestContained, ForcePause

\* A verdict or a resume is the last word.
LEMMA ReceiptReleases ==
    ASSUME NEW trail \in Seq(Event), NEW e \in Event, IsRelease(e),
           NEW longer, longer = Append(trail, e)
    PROVE  ReleasedLast(longer)
<1>1. /\ Len(trail) + 1 \in DOMAIN longer /\ longer[Len(trail) + 1] = e
      /\ \A m \in DOMAIN longer : m < Len(trail) + 1 \/ m = Len(trail) + 1
  OBVIOUS
<1>2. e.kind # "step_started"
  BY DEF IsRelease
<1> QED BY <1>1, <1>2 DEF ReleasedLast

\* It stays so until the next step starts.
LEMMA StaysReleased ==
    ASSUME NEW trail \in Seq(Event), NEW e \in Event, e.kind # "step_started",
           NEW longer, longer = Append(trail, e), ReleasedLast(trail)
    PROVE  ReleasedLast(longer)
<1>1. PICK n \in DOMAIN trail :
        IsRelease(trail[n]) /\ \A m \in DOMAIN trail : trail[m].kind = "step_started" => m < n
  BY DEF ReleasedLast
<1>2. n \in DOMAIN longer /\ longer[n] = trail[n]
  BY PlacesAppended
<1>3. \A m \in DOMAIN longer : longer[m].kind = "step_started" => m < n
  BY <1>1, PlacesAppended
<1> QED BY <1>1, <1>2, <1>3 DEF ReleasedLast

\* Every step contains what it flagged.
LEMMA DriftStep ==
    GateInv /\ FleetTyped /\ DriftIsContained /\ [TowerNext]_towerVars => DriftIsContained'
<1> SUFFICES ASSUME GateInv, FleetTyped, DriftIsContained, [TowerNext]_towerVars
             PROVE  \A b \in Agents : ContainedOf(states'[b], log'[b])
  BY DEF DriftIsContained, ContainedOf, ReleasedLast
<1>0. /\ GateTypeOK /\ states \in [Agents -> ControlState] /\ log \in [Agents -> Seq(Event)]
      /\ \A b \in Agents : ContainedOf(states[b], log[b])
  BY ContainedParts DEF GateInv, GateTypeOK, FleetTyped
<1>1. ASSUME NEW a \in Agents, Advance(a), NEW b \in Agents
      PROVE  ContainedOf(states'[b], log'[b])
  <2>1. PICK e \in Event, parks \in BOOLEAN : Leaves(a, e, parks)
    BY <1>1, AdvanceLeaves
  <2>2. PICK new \in Seq(Event) :
        /\ log' = [log EXCEPT ![a] = new]
        /\ \/ ~Drifting(new) /\ Unflagged(a, parks)
           \/ Contained(a, parks)
    BY <2>1 DEF Leaves
  <2>3. CASE b = a
    <3>1. log'[b] = new
      BY <1>0, <2>2, <2>3
    <3>2. Contained(a, parks) => states'[a] = "paused"
      BY <1>0 DEF Contained, CheckedRequestContained, ForcePause
    <3> QED BY <2>2, <2>3, <3>1, <3>2 DEF ContainedOf
  <2>4. CASE b # a
    <3>1. log'[b] = log[b]
      BY <1>0, <2>2, <2>4
    <3>2. states'[b] = states[b]
      BY <1>0, <2>2, <2>4, OthersKeepControl
    <3> QED BY <1>0, <3>1, <3>2
  <2> QED BY <2>3, <2>4
<1>2. ASSUME NEW a \in Agents, HumanPause(a) \/ HumanResume(a) \/ HumanKill(a) \/ InjectRogue(a),
             NEW b \in Agents
      PROVE  ContainedOf(states'[b], log'[b])
  <2>1. PICK e \in Event :
        /\ log' = [log EXCEPT ![a] = Append(log[a], e)]
        /\ e.kind # "step_started"
        /\ \/ HumanResume(a) /\ e.kind = "intervention_applied" /\ e.action = "resume"
           \/ HumanPause(a) \/ HumanKill(a)
           \/ InjectRogue(a) /\ e.kind = "blocker_raised"
    BY <1>2, HumanTyped DEF Receipted
  <2>2. Pause(a) \/ Resume(a) \/ Kill(a) \/ UNCHANGED gateVars
    BY <1>2 DEF HumanPause, HumanResume, HumanKill, InjectRogue
  <2>3. CASE b # a
    <3>1. log'[b] = log[b]
      BY <1>0, <2>1, <2>3
    <3>2. states'[b] = states[b]
      BY <1>0, <2>2, <2>3, OthersKeepControl
    <3> QED BY <1>0, <3>1, <3>2
  <2>4. CASE b = a
    <3>1. PICK trail, longer :
            /\ trail \in Seq(Event)
            /\ trail = log[a] /\ longer = Append(trail, e)
      BY <1>0
    <3>2. log'[b] = longer
      BY <1>0, <2>1, <2>4, <3>1
    <3>3. CASE HumanPause(a) \/ HumanKill(a)
      <4>1. states'[a] \in {"paused", "killed"}
        BY <1>0, <3>3 DEF HumanPause, HumanKill, Pause, Kill
      <4> QED BY <2>4, <4>1 DEF ContainedOf
    <3>4. CASE e.kind = "intervention_applied" /\ e.action = "resume"
      <4>1. ReleasedLast(longer)
        BY <3>1, <3>4, ReceiptReleases DEF IsRelease
      <4> QED BY <3>2, <4>1 DEF ContainedOf
    <3>5. CASE InjectRogue(a) /\ e.kind = "blocker_raised"
      <4>1. states'[b] = states[b]
        BY <3>5 DEF InjectRogue, gateVars
      <4>2. Drifting(longer) => Drifting(trail)
        BY <3>1, <3>5, NeutralKeepsCalm
      <4>3. ReleasedLast(trail) => ReleasedLast(longer)
        BY <2>1, <3>1, StaysReleased
      <4>4. ContainedOf(states[b], trail)
        BY <1>0, <2>4, <3>1
      <4> QED BY <3>2, <4>1, <4>2, <4>3, <4>4 DEF ContainedOf
    <3> QED BY <2>1, <3>3, <3>4, <3>5
  <2> QED BY <2>3, <2>4
<1>3. ASSUME NEW i \in DOMAIN approvals, HumanVerdict(i), NEW b \in Agents
      PROVE  ContainedOf(states'[b], log'[b])
  <2>1. PICK a \in Agents : a = approvals[i].agent
    BY <1>0, <1>3, VerdictTyped
  <2>2. PICK e \in Event :
        e.kind = "approval_resolved" /\ log' = [log EXCEPT ![a] = Append(log[a], e)]
    BY <1>0, <1>3, <2>1, VerdictTyped DEF Receipted
  <2>3. states' = [states EXCEPT ![a] = "active"]
    BY <1>0, <1>3, <2>1, VerdictTyped DEF Approve, Deny
  <2>4. CASE b # a
    <3>1. log'[b] = log[b] /\ states'[b] = states[b]
      BY <1>0, <2>2, <2>3, <2>4
    <3> QED BY <1>0, <3>1
  <2>5. CASE b = a
    <3>1. PICK trail, longer :
            /\ trail \in Seq(Event)
            /\ trail = log[a] /\ longer = Append(trail, e)
      BY <1>0
    <3>2. log'[b] = longer
      BY <1>0, <2>2, <2>5, <3>1
    <3>3. ReleasedLast(longer)
      BY <2>2, <3>1, ReceiptReleases DEF IsRelease
    <3> QED BY <3>2, <3>3 DEF ContainedOf
  <2> QED BY <2>4, <2>5
<1>4. ASSUME Reset \/ SeedDemo, NEW b \in Agents PROVE ContainedOf(states'[b], log'[b])
  <2>1. log'[b] = <<>> \/ log'[b] = <<Enrolled>>
    BY <1>4, ResetTyped
  <2>2. ~Drifting(<<>>) /\ ~Drifting(<<Enrolled>>)
    BY EnrolledTyped, QuietTrail
  <2> QED BY <2>1, <2>2 DEF ContainedOf
<1>5. ASSUME UNCHANGED towerVars, NEW b \in Agents PROVE ContainedOf(states'[b], log'[b])
  BY <1>0, <1>5 DEF towerVars, gateVars
<1> QED BY <1>1, <1>2, <1>3, <1>4, <1>5 DEF TowerNext

\* Nothing has drifted yet.
LEMMA DriftInit == TowerInit => DriftIsContained
<1>1. ~Drifting(<<>>)
  BY QuietTrail
<1> QED BY <1>1 DEF TowerInit, DriftIsContained

\* The gate's invariant and the fleet's types, together.
LEMMA TowerTyped == TowerSpec => [](GateInv /\ FleetTyped)
<1>1. TowerInit => FleetTyped BY FleetTypeInit
<1>2. GateInv /\ FleetTyped /\ [TowerNext]_towerVars => FleetTyped'
  BY FleetTypeStep DEF GateInv
<1> QED BY <1>1, <1>2, TowerGateInvariant, PTL DEF TowerSpec

\* Containment without human latency (_after_step(), domain/anomaly.py): an
\* agent whose trail is flagged is out of the active state by the end of the
\* step that flagged it, and is free again only once a human released it.
THEOREM DriftIsAlwaysContained == TowerSpec => []DriftIsContained
<1>1. TowerInit => DriftIsContained BY DriftInit
<1>2. GateInv /\ FleetTyped /\ DriftIsContained /\ [TowerNext]_towerVars => DriftIsContained'
  BY DriftStep
<1> QED BY <1>1, <1>2, TowerTyped, PTL DEF TowerSpec

-----------------------------------------------------------------------------
(* What the trail tells. *)

ReadType == [state : ControlState, parked : BOOLEAN]
Fresh == [state |-> "active", parked |-> FALSE]

\* The readings of a trail: a fold that exists and is the only one.
ReadsTo(es, f) ==
    f = [n \in 0 .. Len(es) |-> IF n = 0 THEN Fresh ELSE Reading(f[n - 1], es[n])]

\* The reading of a trail is the function chosen for it.
LEMMA ReadIsChosen ==
    ASSUME NEW es
    PROVE  ReadBack(es) = (CHOOSE f : ReadsTo(es, f))[Len(es)]
BY DEF ReadBack, ReadsTo, Fresh

ReadStep(es, f, n) == IF n = 0 THEN Fresh ELSE Reading(f[n - 1], es[n])

\* There is one: a longer trail's is an extension of a shorter one's.
LEMMA ReadExists ==
    ASSUME NEW es, Len(es) \in Nat
    PROVE  \E f : ReadsTo(es, f)
<1> DEFINE Right(f, k) == \A n \in 0 .. Len(es) : n <= k => f[n] = ReadStep(es, f, n)
           K == {k \in Nat : \E f : Right(f, k)}
<1>1. 0 \in K
  <2>1. PICK f : f = [n \in 0 .. Len(es) |-> Fresh]
    OBVIOUS
  <2>2. Right(f, 0)
    BY <2>1 DEF ReadStep
  <2> QED BY <2>2
<1>2. ASSUME NEW k \in Nat, k \in K PROVE k + 1 \in K
  <2>1. PICK f : Right(f, k)
    BY <1>2
  <2>2. PICK g : g = [n \in 0 .. Len(es) |-> ReadStep(es, f, n)]
    OBVIOUS
  <2>3. ASSUME NEW n \in 0 .. Len(es), n <= k + 1 PROVE g[n] = ReadStep(es, g, n)
    <3>1. CASE n = 0
      BY <2>2, <3>1 DEF ReadStep
    <3>2. CASE n # 0
      <4>1. n - 1 \in 0 .. Len(es) /\ n - 1 <= k
        BY <2>3, <3>2
      <4>2. g[n - 1] = f[n - 1]
        BY <2>1, <2>2, <4>1
      <4> QED BY <2>2, <3>2, <4>2 DEF ReadStep
    <3> QED BY <3>1, <3>2
  <2> QED BY <2>3
<1> HIDE DEF K
<1>3. Len(es) \in K
  BY <1>1, <1>2, SetInduction
<1>4. PICK f : Right(f, Len(es))
  BY <1>3 DEF K
<1>5. \A n \in 0 .. Len(es) : f[n] = ReadStep(es, f, n)
  BY <1>4
<1>6. PICK g : g = [n \in 0 .. Len(es) |-> ReadStep(es, f, n)]
  OBVIOUS
<1>7. \A n \in 0 .. Len(es) : n # 0 => n - 1 \in 0 .. Len(es)
  OBVIOUS
<1>8. \A n \in 0 .. Len(es) : ReadStep(es, g, n) = ReadStep(es, f, n)
  BY <1>5, <1>6, <1>7 DEF ReadStep
<1> QED BY <1>6, <1>8 DEF ReadsTo, ReadStep

\* What it says at each place.
LEMMA ReadAt ==
    ASSUME NEW es, NEW f, ReadsTo(es, f)
    PROVE  \A n \in 0 .. Len(es) : f[n] = ReadStep(es, f, n)
BY DEF ReadsTo, ReadStep

\* Two trails read the same as far as they are the same.
LEMMA ReadsAgree ==
    ASSUME NEW s, NEW f, ReadsTo(s, f), NEW t, NEW g, ReadsTo(t, g),
           Len(s) \in Nat, Len(t) \in Nat, Grows(s, t)
    PROVE  f[Len(s)] = g[Len(s)]
<1> DEFINE K == {k \in Nat : k <= Len(s) => f[k] = g[k]}
<1>1. 0 \in K
  BY ReadAt DEF ReadStep, Grows
<1>2. ASSUME NEW k \in Nat, k \in K PROVE k + 1 \in K
  <2>1. SUFFICES ASSUME k + 1 <= Len(s) PROVE f[k + 1] = g[k + 1]
    OBVIOUS
  <2>2. f[k] = g[k] /\ k + 1 \in 1 .. Len(s) /\ k + 1 \in 0 .. Len(s) /\ k + 1 \in 0 .. Len(t)
    BY <1>2, <2>1 DEF Grows
  <2>3. PICK n \in 1 .. Len(s) : n = k + 1 /\ k = n - 1 /\ n # 0
    BY <2>2
  <2>4. f[n] = ReadStep(s, f, n) /\ g[n] = ReadStep(t, g, n)
    BY <2>2, <2>3, ReadAt
  <2>5. s[n] = t[n]
    BY DEF Grows
  <2> QED BY <2>2, <2>3, <2>4, <2>5 DEF ReadStep
<1> HIDE DEF K
<1>3. Len(s) \in K
  BY <1>1, <1>2, SetInduction
<1> QED BY <1>3 DEF K

\* The reading of a trail is the last of a row of readings.
LEMMA ReadOf ==
    ASSUME NEW es \in Seq(Event)
    PROVE  \E f : ReadsTo(es, f) /\ ReadBack(es) = f[Len(es)]
<1>1. Len(es) \in Nat
  OBVIOUS
<1> QED BY <1>1, ReadExists, ReadIsChosen

\* An empty trail reads as a fresh agent.
LEMMA ReadBackOfNone == ReadBack(<<>>) = Fresh
<1>0. PICK es : es = <<>>
  OBVIOUS
<1>1. es \in Seq(Event) /\ es = <<>> /\ Len(es) = 0
  BY <1>0
<1>2. PICK f : ReadsTo(es, f) /\ ReadBack(es) = f[Len(es)]
  BY <1>1, ReadOf
<1>3. f[0] = ReadStep(es, f, 0)
  BY <1>1, <1>2, ReadAt
<1> QED BY <1>1, <1>2, <1>3 DEF ReadStep

\* One event more is read on top of the rest.
LEMMA ReadBackAppend ==
    ASSUME NEW s \in Seq(Event), NEW e \in Event, NEW t, t = Append(s, e)
    PROVE  ReadBack(t) = Reading(ReadBack(s), e)
<1>1. /\ t \in Seq(Event) /\ Grows(s, t) /\ Len(t) = Len(s) + 1 /\ t[Len(s) + 1] = e
      /\ Len(s) \in Nat
  BY AppendGrows
<1>2. PICK f : ReadsTo(s, f) /\ ReadBack(s) = f[Len(s)]
  BY ReadOf
<1>3. PICK g : ReadsTo(t, g) /\ ReadBack(t) = g[Len(t)]
  BY <1>1, ReadOf
<1>4. f[Len(s)] = g[Len(s)]
  BY <1>1, <1>2, <1>3, ReadsAgree
<1>5. PICK n \in 0 .. Len(t) : n = Len(s) + 1 /\ n # 0 /\ n - 1 = Len(s)
  BY <1>1
<1>6. g[n] = ReadStep(t, g, n)
  BY <1>3, ReadAt
<1> QED BY <1>1, <1>2, <1>3, <1>4, <1>5, <1>6 DEF ReadStep

\* Idle events tell the reader nothing.
LEMMA ReadBackIdle ==
    ASSUME NEW s \in Seq(Event), NEW t \in Seq(Event), Idle(s, t)
    PROVE  ReadBack(t) = ReadBack(s)
<1>1. Grows(s, t) /\ Len(s) \in Nat /\ Len(t) \in Nat /\ Len(s) <= Len(t)
  BY DEF Idle, Grows
<1>2. PICK f : ReadsTo(s, f) /\ ReadBack(s) = f[Len(s)]
  BY ReadOf
<1>3. PICK g : ReadsTo(t, g) /\ ReadBack(t) = g[Len(t)]
  BY ReadOf
<1>4. f[Len(s)] = g[Len(s)]
  BY <1>1, <1>2, <1>3, ReadsAgree
<1>5. \A r, e : e.kind \in IdleKinds => Reading(r, e) = r
  BY DEF IdleKinds, Reading
<1> DEFINE K == {k \in Nat : Len(s) + k <= Len(t) => g[Len(s) + k] = g[Len(s)]}
<1>6. 0 \in K
  BY <1>1
<1>7. ASSUME NEW k \in Nat, k \in K PROVE k + 1 \in K
  <2>1. SUFFICES ASSUME Len(s) + (k + 1) <= Len(t)
                 PROVE  g[Len(s) + (k + 1)] = g[Len(s)]
    OBVIOUS
  <2>2. PICK n \in 1 .. Len(t) :
          n = Len(s) + (k + 1) /\ n # 0 /\ n > Len(s) /\ n - 1 = Len(s) + k /\ n \in 0 .. Len(t)
    BY <1>1, <2>1
  <2>3. g[n - 1] = g[Len(s)]
    BY <1>1, <1>7, <2>1, <2>2
  <2>4. g[n] = Reading(g[n - 1], t[n])
    BY <1>3, <2>2, ReadAt DEF ReadStep
  <2>5. t[n].kind \in IdleKinds
    BY <2>2 DEF Idle
  <2> QED BY <1>5, <2>2, <2>3, <2>4, <2>5
<1> HIDE DEF K
<1>8. Nat \subseteq K
  BY <1>6, <1>7, SetInduction
<1>9. PICK k : k = Len(t) - Len(s)
  OBVIOUS
<1>9a. k \in Nat /\ Len(s) + k = Len(t)
  BY <1>1, <1>9
<1>9b. k \in K
  BY <1>8, <1>9a
<1>9c. Len(s) + k <= Len(t)
  BY <1>1, <1>9a
<1>10. g[Len(t)] = g[Len(s)]
  BY <1>9a, <1>9b, <1>9c DEF K
<1> QED BY <1>2, <1>3, <1>4, <1>10

\* A step is read as the one event it tells.
LEMMA ReadBackTells ==
    ASSUME NEW s \in Seq(Event), NEW t \in Seq(Event), NEW e \in Event, Tells(s, t, e)
    PROVE  ReadBack(t) = Reading(ReadBack(s), e)
<1>1. PICK pre \in Seq(Event), said \in Seq(Event) :
        Idle(s, pre) /\ said = Append(pre, e) /\ Idle(said, t)
  BY DEF Tells
<1>2. ReadBack(pre) = ReadBack(s)
  BY <1>1, ReadBackIdle
<1>3. ReadBack(said) = Reading(ReadBack(pre), e)
  BY <1>1, ReadBackAppend
<1>4. ReadBack(t) = ReadBack(said)
  BY <1>1, ReadBackIdle
<1> QED BY <1>2, <1>3, <1>4

\* What the reader makes of each event.
LEMMA ReadingCases ==
    ASSUME NEW r \in ReadType, NEW e
    PROVE  /\ e.kind \in {"action_executed", "action_denied", "blocker_raised"}
                => Reading(r, e) = r
           /\ e.kind = "approval_requested" =>
                Reading(r, e) \in ReadType /\ Reading(r, e).state = "awaiting_approval"
                /\ Reading(r, e).parked
           /\ e.kind = "approval_resolved" =>
                Reading(r, e) \in ReadType /\ Reading(r, e).state = "active"
                /\ ~Reading(r, e).parked
           /\ e.kind = "intervention_applied" /\ e.action \in {"pause", "auto_pause"} =>
                Reading(r, e) \in ReadType /\ Reading(r, e).state = "paused"
                /\ (Reading(r, e).parked <=> r.parked)
           /\ e.kind = "intervention_applied" /\ e.action = "resume" =>
                Reading(r, e) \in ReadType
                /\ Reading(r, e).state = (IF r.parked THEN "awaiting_approval" ELSE "active")
                /\ (Reading(r, e).parked <=> r.parked)
           /\ e.kind = "intervention_applied" /\ e.action = "kill" =>
                Reading(r, e) \in ReadType /\ Reading(r, e).state = "killed"
                /\ ~Reading(r, e).parked
           /\ e.kind = "intervention_applied" /\ e.action = "enrolled" => Reading(r, e) = r
<1> USE DEF ReadType, ControlState
<1>1. e.kind \in {"action_executed", "action_denied", "blocker_raised"} => Reading(r, e) = r
  BY DEF Reading
<1>2. ASSUME e.kind = "approval_requested"
      PROVE  Reading(r, e) \in ReadType /\ Reading(r, e).state = "awaiting_approval"
             /\ Reading(r, e).parked
  <2>1. Reading(r, e) = [state |-> "awaiting_approval", parked |-> TRUE]
    BY <1>2 DEF Reading
  <2> QED BY <2>1
<1>3. ASSUME e.kind = "approval_resolved"
      PROVE  Reading(r, e) \in ReadType /\ Reading(r, e).state = "active"
             /\ ~Reading(r, e).parked
  <2>1. Reading(r, e) = [state |-> "active", parked |-> FALSE]
    BY <1>3 DEF Reading
  <2> QED BY <2>1
<1>4. ASSUME e.kind = "intervention_applied", e.action \in {"pause", "auto_pause"}
      PROVE  Reading(r, e) \in ReadType /\ Reading(r, e).state = "paused"
             /\ (Reading(r, e).parked <=> r.parked)
  <2>1. Reading(r, e) = [r EXCEPT !.state = "paused"]
    BY <1>4 DEF Reading
  <2> QED BY <2>1
<1>5. ASSUME e.kind = "intervention_applied", e.action = "resume"
      PROVE  Reading(r, e) \in ReadType
             /\ Reading(r, e).state = (IF r.parked THEN "awaiting_approval" ELSE "active")
             /\ (Reading(r, e).parked <=> r.parked)
  <2>1. PICK st \in ControlState : st = IF r.parked THEN "awaiting_approval" ELSE "active"
    OBVIOUS
  <2>2. Reading(r, e) = [r EXCEPT !.state = st]
    BY <1>5, <2>1 DEF Reading
  <2> QED BY <2>1, <2>2
<1>6. ASSUME e.kind = "intervention_applied", e.action = "kill"
      PROVE  Reading(r, e) \in ReadType /\ Reading(r, e).state = "killed"
             /\ ~Reading(r, e).parked
  <2>1. Reading(r, e) = [state |-> "killed", parked |-> FALSE]
    BY <1>6 DEF Reading
  <2> QED BY <2>1
<1>7. e.kind = "intervention_applied" /\ e.action = "enrolled" => Reading(r, e) = r
  BY DEF Reading
<1> QED BY <1>1, <1>2, <1>3, <1>4, <1>5, <1>6, <1>7

\* One agent's half: its trail reads as its state, with these approvals pending.
Told(trail, state, waiting) == ReadBack(trail) = [state |-> state, parked |-> waiting # {}]

\* A reading, field by field.
LEMMA ToldFields ==
    ASSUME NEW trail, NEW state \in ControlState, NEW waiting
    PROVE  Told(trail, state, waiting) <=>
               /\ ReadBack(trail) \in ReadType
               /\ ReadBack(trail).state = state
               /\ ReadBack(trail).parked <=> waiting # {}
<1>1. PICK r : r = ReadBack(trail)
  OBVIOUS
<1>2. CASE waiting = {}
  <2>1. Told(trail, state, waiting) <=> r = [state |-> state, parked |-> FALSE]
    BY <1>1, <1>2 DEF Told
  <2>2. r = [state |-> state, parked |-> FALSE]
          <=> r \in ReadType /\ r.state = state /\ ~r.parked
    <3>1. ASSUME r = [state |-> state, parked |-> FALSE]
          PROVE  r \in ReadType /\ r.state = state /\ ~r.parked
      BY <3>1 DEF ReadType
    <3>2. ASSUME r \in ReadType, r.state = state, ~r.parked
          PROVE  r = [state |-> state, parked |-> FALSE]
      <4>1. r.parked = FALSE
        BY <3>2 DEF ReadType
      <4>2. r = [state |-> r.state, parked |-> r.parked]
        BY <3>2 DEF ReadType
      <4> QED BY <3>2, <4>1, <4>2
    <3> QED BY <3>1, <3>2
  <2> QED BY <1>1, <1>2, <2>1, <2>2
<1>3. CASE waiting # {}
  <2>1. Told(trail, state, waiting) <=> r = [state |-> state, parked |-> TRUE]
    BY <1>1, <1>3 DEF Told
  <2>2. r = [state |-> state, parked |-> TRUE]
          <=> r \in ReadType /\ r.state = state /\ r.parked
    <3>1. ASSUME r = [state |-> state, parked |-> TRUE]
          PROVE  r \in ReadType /\ r.state = state /\ r.parked
      BY <3>1 DEF ReadType
    <3>2. ASSUME r \in ReadType, r.state = state, r.parked
          PROVE  r = [state |-> state, parked |-> TRUE]
      <4>1. r.parked = TRUE
        BY <3>2 DEF ReadType
      <4>2. r = [state |-> r.state, parked |-> r.parked]
        BY <3>2 DEF ReadType
      <4> QED BY <3>2, <4>1, <4>2
    <3> QED BY <3>1, <3>2
  <2> QED BY <1>1, <1>3, <2>1, <2>2
<1> QED BY <1>2, <1>3

\* The property, agent by agent.
LEMMA ToldParts ==
    TrailTellsControl <=> \A a \in Agents : Told(log[a], states[a], PendingOf(a))
BY DEF TrailTellsControl, Told

\* What a step does to the control of its agent.
LEMMA StepControl ==
    ASSUME GateTypeOK, NEW a \in Agents, NEW parks \in BOOLEAN,
           Unflagged(a, parks) \/ Contained(a, parks)
    PROVE  /\ states[a] = "active"
           /\ parks => PendingOf(a)' # {}
           /\ ~parks => PendingOf(a)' = PendingOf(a)
           /\ \A b \in Agents : b # a => PendingOf(b)' = PendingOf(b)
           /\ Contained(a, parks) => states'[a] = "paused"
           /\ Unflagged(a, parks) /\ parks => states'[a] = "awaiting_approval"
           /\ Unflagged(a, parks) /\ ~parks => states'[a] = "active"
<1>0. states \in [Agents -> ControlState]
  BY DEF GateTypeOK
<1>1. CASE parks
  <2>1. /\ Check(a) /\ nextId <= MaxApprovalId /\ approvals' = Queued(a)
        /\ Contained(a, parks) => states' = [states EXCEPT ![a] = "paused"]
        /\ Unflagged(a, parks) => states' = [states EXCEPT ![a] = "awaiting_approval"]
    BY <1>1 DEF Unflagged, Contained, CheckedRequest, RequestApproval, CheckedRequestContained
  <2>2. \A b \in Agents :
          PendingOf(b)' = PendingOf(b) \cup (IF b = a THEN {nextId} ELSE {})
    BY <2>1, PendingAfterRequest
  <2>3. \A b \in Agents : b # a => PendingOf(b)' = PendingOf(b)
    BY <2>2
  <2>4. PendingOf(a)' # {}
    BY <2>2
  <2> QED BY <1>0, <1>1, <2>1, <2>3, <2>4 DEF Check
<1>2. CASE ~parks
  <2>1. /\ Check(a) /\ UNCHANGED approvals
        /\ Contained(a, parks) => states' = [states EXCEPT ![a] = "paused"]
        /\ Unflagged(a, parks) => states' = states
    BY <1>2 DEF Unflagged, Contained, ForcePause, gateVars
  <2>2. \A b \in Agents : PendingOf(b)' = PendingOf(b)
    BY <2>1, PendingAfterQuiet
  <2> QED BY <1>0, <1>2, <2>1, <2>2 DEF Check
<1> QED BY <1>1, <1>2

\* A step, told.
LEMMA AdvanceTold ==
    ASSUME GateInv, FleetTyped, NEW a \in Agents, Advance(a),
           \A b \in Agents : Told(log[b], states[b], PendingOf(b)),
           NEW b \in Agents
    PROVE  Told(log'[b], states'[b], PendingOf(b)')
<1>0. /\ GateTypeOK /\ states \in [Agents -> ControlState] /\ log \in [Agents -> Seq(Event)]
  BY DEF GateInv, GateTypeOK, FleetTyped
<1>1. PICK e \in Event, parks \in BOOLEAN :
        /\ e.kind \in {"action_executed", "action_denied", "approval_requested",
                       "blocker_raised"}
        /\ parks <=> e.kind = "approval_requested"
        /\ Leaves(a, e, parks)
  BY AdvanceLeaves
<1>2. PICK trail \in Seq(Event), new \in Seq(Event) :
        /\ Tells(log[a], trail, e)
        /\ log' = [log EXCEPT ![a] = new]
        /\ \/ new = trail /\ Unflagged(a, parks)
           \/ /\ Contained(a, parks)
              /\ \E mid \in Seq(Event) : Idle(trail, mid) /\ new = Append(mid, AutoPause)
  BY <1>1 DEF Leaves
<1>3. CASE b # a
  <2>1. log'[b] = log[b]
    BY <1>0, <1>2, <1>3
  <2>2. states'[b] = states[b]
    BY <1>0, <1>2, <1>3, OthersKeepControl
  <2>3. PendingOf(b)' = PendingOf(b)
    BY <1>0, <1>2, <1>3, StepControl
  <2> QED BY <2>1, <2>2, <2>3
<1>4. CASE b = a
  <2>1. PICK before \in Seq(Event) : before = log[a]
    BY <1>0
  <2>2. log'[a] = new
    BY <1>0, <1>2
  <2>3. PICK r : r = ReadBack(before)
    OBVIOUS
  <2>4. r \in ReadType /\ r.state = "active" /\ (r.parked <=> PendingOf(a) # {})
    <3>1. states[a] = "active" /\ "active" \in ControlState
      BY <1>0, <1>2, StepControl DEF ControlState
    <3> QED BY <2>1, <2>3, <3>1, ToldFields
  <2>5. PICK x : x = ReadBack(trail)
    OBVIOUS
  <2>6. x = Reading(r, e)
    BY <1>2, <2>1, <2>3, <2>5, ReadBackTells
  <2>7. PICK pending : pending = PendingOf(a)'
    OBVIOUS
  <2>8. /\ parks => pending # {}
        /\ ~parks => pending = PendingOf(a)
    BY <1>0, <1>2, <2>7, StepControl
  <2>9. x \in ReadType /\ (x.parked <=> pending # {})
    <3>1. CASE parks
      BY <1>1, <2>4, <2>6, <2>8, <3>1, ReadingCases
    <3>2. CASE ~parks
      <4>1. x = r
        BY <1>1, <2>4, <2>6, <3>2, ReadingCases
      <4> QED BY <2>4, <2>8, <3>2, <4>1
    <3> QED BY <3>1, <3>2
  <2>10. CASE new = trail /\ Unflagged(a, parks)
    <3>1. CASE parks
      <4>1. x.state = "awaiting_approval"
        BY <1>1, <2>4, <2>6, <3>1, ReadingCases
      <4>2. states'[a] = "awaiting_approval" /\ "awaiting_approval" \in ControlState
        BY <1>0, <2>10, <3>1, StepControl DEF ControlState
      <4>3. Told(new, "awaiting_approval", pending)
        BY <2>5, <2>9, <2>10, <4>1, <4>2, ToldFields
      <4> QED BY <1>4, <2>2, <2>7, <4>2, <4>3
    <3>2. CASE ~parks
      <4>1. x.state = "active"
        BY <1>1, <2>4, <2>6, <3>2, ReadingCases
      <4>2. states'[a] = "active" /\ "active" \in ControlState
        BY <1>0, <2>10, <3>2, StepControl DEF ControlState
      <4>3. Told(new, "active", pending)
        BY <2>5, <2>9, <2>10, <4>1, <4>2, ToldFields
      <4> QED BY <1>4, <2>2, <2>7, <4>2, <4>3
    <3> QED BY <3>1, <3>2
  <2>11. CASE Contained(a, parks) /\ \E mid \in Seq(Event) :
                Idle(trail, mid) /\ new = Append(mid, AutoPause)
    <3>1. PICK mid \in Seq(Event) : Idle(trail, mid) /\ new = Append(mid, AutoPause)
      BY <2>11
    <3>2. ReadBack(mid) = x
      BY <2>5, <3>1, ReadBackIdle
    <3>3. ReadBack(new) = Reading(x, AutoPause)
      BY <3>1, <3>2, AutoPauseTyped, ReadBackAppend
    <3>4. PICK y : y = ReadBack(new)
      OBVIOUS
    <3>5. y \in ReadType /\ y.state = "paused" /\ (y.parked <=> x.parked)
      <4>1. PICK pause : pause = AutoPause
        OBVIOUS
      <4>2. /\ pause.kind = "intervention_applied"
            /\ pause.action \in {"pause", "auto_pause"}
        BY <4>1, AutoPauseTyped
      <4>3. y = Reading(x, pause)
        BY <3>3, <3>4, <4>1
      <4> QED BY <2>9, <4>2, <4>3, ReadingCases
    <3>6. states'[a] = "paused" /\ "paused" \in ControlState
      BY <1>0, <2>11, StepControl DEF ControlState
    <3>7. Told(new, "paused", pending)
      BY <2>9, <3>4, <3>5, <3>6, ToldFields
    <3> QED BY <1>4, <2>2, <2>7, <3>6, <3>7
  <2> QED BY <1>2, <2>10, <2>11
<1> QED BY <1>3, <1>4

\* Of the other agents nothing changes.
LEMMA OthersTold ==
    ASSUME GateTypeOK, FleetTyped, NEW a \in Agents, NEW e,
           log' = [log EXCEPT ![a] = Append(log[a], e)],
           \A b \in Agents : Told(log[b], states[b], PendingOf(b)),
           \A b \in Agents : b # a => PendingOf(b)' = PendingOf(b),
           Pause(a) \/ Resume(a) \/ Kill(a) \/ UNCHANGED gateVars
               \/ states' = [states EXCEPT ![a] = "active"],
           NEW b \in Agents, b # a
    PROVE  Told(log'[b], states'[b], PendingOf(b)')
<1>1. log \in [Agents -> Seq(Event)] /\ states \in [Agents -> ControlState]
  BY DEF FleetTyped, GateTypeOK
<1>2. log'[b] = log[b]
  BY <1>1
<1>3. states'[b] = states[b]
  BY <1>1, OthersKeepControl
<1>4. PendingOf(b)' = PendingOf(b)
  OBVIOUS
<1> QED BY <1>2, <1>3, <1>4

\* A human act, told.
LEMMA HumanTold ==
    ASSUME GateInv, FleetTyped, NEW a \in Agents,
           HumanPause(a) \/ HumanResume(a) \/ HumanKill(a) \/ InjectRogue(a),
           \A b \in Agents : Told(log[b], states[b], PendingOf(b)),
           NEW b \in Agents
    PROVE  Told(log'[b], states'[b], PendingOf(b)')
<1>0. /\ GateTypeOK /\ states \in [Agents -> ControlState] /\ log \in [Agents -> Seq(Event)]
  BY DEF GateInv, GateTypeOK, FleetTyped
<1>1. PICK e \in Event :
        /\ log' = [log EXCEPT ![a] = Append(log[a], e)]
        /\ \/ HumanPause(a) /\ e.kind = "intervention_applied" /\ e.action = "pause"
           \/ HumanResume(a) /\ e.kind = "intervention_applied" /\ e.action = "resume"
           \/ HumanKill(a) /\ e.kind = "intervention_applied" /\ e.action = "kill"
           \/ InjectRogue(a) /\ e.kind = "blocker_raised"
  BY HumanTyped DEF Receipted
<1>2. Pause(a) \/ Resume(a) \/ Kill(a) \/ UNCHANGED gateVars
  BY DEF HumanPause, HumanResume, HumanKill, InjectRogue
<1>3. CASE b # a
  <2>1. \A c \in Agents : c # a => PendingOf(c)' = PendingOf(c)
    <3>1. CASE Kill(a)
      BY <1>0, <3>1, PendingAfterKill
    <3>2. CASE UNCHANGED approvals
      BY <3>2, PendingAfterQuiet
    <3> QED BY <1>2, <3>1, <3>2 DEF Pause, Resume, gateVars
  <2> QED BY <1>0, <1>1, <1>2, <1>3, <2>1, OthersTold
<1>4. CASE b = a
  <2>1. PICK before, new :
          /\ before \in Seq(Event)
          /\ before = log[a] /\ new = Append(before, e)
    BY <1>0
  <2>2. log'[a] = new
    BY <1>0, <1>1, <2>1
  <2>3. PICK r, x : r = ReadBack(before) /\ x = ReadBack(new)
    OBVIOUS
  <2>4. r \in ReadType /\ r.state = states[a] /\ (r.parked <=> PendingOf(a) # {})
    <3>1. states[a] \in ControlState
      BY <1>0
    <3> QED BY <2>1, <2>3, <3>1, ToldFields
  <2>5. x = Reading(r, e)
    BY <2>1, <2>3, ReadBackAppend
  <2>6. PICK pending : pending = PendingOf(a)'
    OBVIOUS
  <2>7. CASE HumanPause(a) /\ e.kind = "intervention_applied" /\ e.action = "pause"
    <3>1. states'[a] = "paused" /\ UNCHANGED approvals /\ "paused" \in ControlState
      BY <1>0, <2>7 DEF HumanPause, Pause, ControlState
    <3>2. pending = PendingOf(a)
      BY <2>6, <3>1, PendingAfterQuiet
    <3>3. x \in ReadType /\ x.state = "paused" /\ (x.parked <=> pending # {})
      BY <2>4, <2>5, <2>7, <3>2, ReadingCases
    <3>4. Told(new, "paused", pending)
      BY <2>3, <3>1, <3>3, ToldFields
    <3> QED BY <1>4, <2>2, <2>6, <3>1, <3>4
  <2>8. CASE HumanResume(a) /\ e.kind = "intervention_applied" /\ e.action = "resume"
    <3>1. PICK st \in ControlState :
            /\ st = IF PendingOf(a) # {} THEN "awaiting_approval" ELSE "active"
            /\ states'[a] = st /\ UNCHANGED approvals
      BY <1>0, <2>8 DEF HumanResume, Resume, ControlState
    <3>2. pending = PendingOf(a)
      BY <2>6, <3>1, PendingAfterQuiet
    <3>3. x \in ReadType /\ (x.parked <=> r.parked)
          /\ x.state = (IF r.parked THEN "awaiting_approval" ELSE "active")
      BY <2>4, <2>5, <2>8, ReadingCases
    <3>4. x.state = st /\ (x.parked <=> pending # {})
      BY <2>4, <3>1, <3>2, <3>3
    <3>5. Told(new, st, pending)
      BY <2>3, <3>1, <3>3, <3>4, ToldFields
    <3> QED BY <1>4, <2>2, <2>6, <3>1, <3>5
  <2>9. CASE HumanKill(a) /\ e.kind = "intervention_applied" /\ e.action = "kill"
    <3>1. states'[a] = "killed" /\ Kill(a) /\ "killed" \in ControlState
      BY <1>0, <2>9 DEF HumanKill, Kill, ControlState
    <3>2. pending = {}
      BY <1>0, <2>6, <3>1, PendingAfterKill
    <3>3. x \in ReadType /\ x.state = "killed" /\ (x.parked <=> pending # {})
      BY <2>4, <2>5, <2>9, <3>2, ReadingCases
    <3>4. Told(new, "killed", pending)
      BY <2>3, <3>1, <3>3, ToldFields
    <3> QED BY <1>4, <2>2, <2>6, <3>1, <3>4
  <2>10. CASE InjectRogue(a) /\ e.kind = "blocker_raised"
    <3>1. states' = states /\ UNCHANGED approvals
      BY <2>10 DEF InjectRogue, gateVars
    <3>2. pending = PendingOf(a)
      BY <2>6, <3>1, PendingAfterQuiet
    <3>3. x = r
      BY <2>4, <2>5, <2>10, ReadingCases
    <3>4. Told(before, states[a], pending)
      BY <2>1, <3>2
    <3>5. Told(new, states[a], pending)
      BY <2>3, <3>3, <3>4 DEF Told
    <3> QED BY <1>4, <2>2, <2>6, <3>1, <3>5
  <2> QED BY <1>1, <2>7, <2>8, <2>9, <2>10
<1> QED BY <1>3, <1>4

\* A verdict, told: it was the only action parked.
LEMMA VerdictTold ==
    ASSUME GateInv, FleetTyped, NEW i \in DOMAIN approvals, HumanVerdict(i),
           \A b \in Agents : Told(log[b], states[b], PendingOf(b)),
           NEW b \in Agents
    PROVE  Told(log'[b], states'[b], PendingOf(b)')
<1>0. /\ GateTypeOK /\ states \in [Agents -> ControlState] /\ log \in [Agents -> Seq(Event)]
      /\ OneParkedAction
  BY DEF GateInv, GateTypeOK, FleetTyped, QueueHoldsAgents
<1>1. PICK a \in Agents : a = approvals[i].agent
  BY <1>0, VerdictTyped
<1>2. PICK e \in Event :
        e.kind = "approval_resolved" /\ log' = [log EXCEPT ![a] = Append(log[a], e)]
  BY <1>0, <1>1, VerdictTyped DEF Receipted
<1>3. /\ i \in PendingOf(a) /\ states' = [states EXCEPT ![a] = "active"]
      /\ \A c \in Agents : PendingOf(c)' = PendingOf(c) \ {i}
  BY <1>0, <1>1, VerdictTyped, PendingAfterVerdict
<1>4. CASE b # a
  <2>1. \A c \in Agents : c # a => i \notin PendingOf(c)
    BY <1>1 DEF PendingOf
  <2>2. \A c \in Agents : c # a => PendingOf(c)' = PendingOf(c)
    BY <1>3, <2>1
  <2>3. log'[b] = log[b] /\ states'[b] = states[b]
    BY <1>0, <1>2, <1>3, <1>4
  <2>4. PendingOf(b)' = PendingOf(b)
    BY <1>4, <2>2
  <2> QED BY <2>3, <2>4
<1>5. CASE b = a
  <2>1. PICK before, new :
          /\ before \in Seq(Event)
          /\ before = log[a] /\ new = Append(before, e)
    BY <1>0
  <2>2. log'[a] = new
    BY <1>0, <1>2, <2>1
  <2>3. PICK r, x : r = ReadBack(before) /\ x = ReadBack(new)
    OBVIOUS
  <2>4. r \in ReadType
    <3>1. states[a] \in ControlState
      BY <1>0
    <3> QED BY <2>1, <2>3, <3>1, ToldFields
  <2>5. x = Reading(r, e)
    BY <2>1, <2>3, ReadBackAppend
  <2>6. x \in ReadType /\ x.state = "active" /\ ~x.parked
    BY <1>2, <2>4, <2>5, ReadingCases
  <2>7. PICK pending : pending = PendingOf(a)' /\ pending = {}
    <3>1. PendingOf(a) \ {i} = {}
      BY <1>0, <1>3 DEF OneParkedAction
    <3> QED BY <1>3, <3>1
  <2>8. states'[a] = "active" /\ "active" \in ControlState
    BY <1>0, <1>3 DEF ControlState
  <2>9. Told(new, "active", pending)
    BY <2>3, <2>6, <2>7, <2>8, ToldFields
  <2> QED BY <1>5, <2>2, <2>7, <2>8, <2>9
<1> QED BY <1>4, <1>5

\* A new trail, told.
LEMMA FreshTold ==
    /\ Told(<<>>, "active", {})
    /\ Told(<<Enrolled>>, "active", {})
<1>1. PICK none, one : none = <<>> /\ one = <<Enrolled>>
  OBVIOUS
<1>2. none \in Seq(Event) /\ one = Append(none, Enrolled)
  BY <1>1, EnrolledTyped
<1>3. ReadBack(none) = Fresh
  BY <1>1, ReadBackOfNone
<1>4. ReadBack(one) = Reading(Fresh, Enrolled)
  BY <1>2, <1>3, EnrolledTyped, ReadBackAppend
<1>5. Fresh \in ReadType /\ Fresh = [state |-> "active", parked |-> FALSE]
  BY DEF Fresh, ReadType, ControlState
<1>6. PICK f, e : f = Fresh /\ e = Enrolled
  OBVIOUS
<1>7. Reading(f, e) = f
  BY <1>5, <1>6, EnrolledTyped, ReadingCases
<1>8. ReadBack(one) = Fresh
  BY <1>4, <1>6, <1>7
<1>9. ({} # {}) = FALSE
  OBVIOUS
<1> QED BY <1>1, <1>3, <1>5, <1>8, <1>9 DEF Told

\* After a reset every trail reads as fresh.
LEMMA ResetTold ==
    ASSUME Reset \/ SeedDemo, NEW b \in Agents
    PROVE  Told(log'[b], states'[b], PendingOf(b)')
<1>1. log'[b] = <<>> \/ log'[b] = <<Enrolled>>
  BY ResetTyped
<1>2. states'[b] = "active" /\ DOMAIN approvals' = {}
  BY DEF Reset, SeedDemo, GateReset
<1>3. PendingOf(b)' = {}
  BY <1>2 DEF PendingOf
<1> QED BY <1>1, <1>2, <1>3, FreshTold

\* Every step keeps the trail and the gate in agreement.
LEMMA ToldStep ==
    GateInv /\ FleetTyped /\ TrailTellsControl /\ [TowerNext]_towerVars => TrailTellsControl'
<1> SUFFICES ASSUME GateInv, FleetTyped, TrailTellsControl, [TowerNext]_towerVars,
                    NEW b \in Agents
             PROVE  Told(log'[b], states'[b], PendingOf(b)')
  BY DEF TrailTellsControl, Told
<1>0. \A c \in Agents : Told(log[c], states[c], PendingOf(c))
  BY ToldParts
<1>1. ASSUME NEW a \in Agents, Advance(a) PROVE Told(log'[b], states'[b], PendingOf(b)')
  BY <1>0, <1>1, AdvanceTold
<1>2. ASSUME NEW a \in Agents, HumanPause(a) \/ HumanResume(a) \/ HumanKill(a) \/ InjectRogue(a)
      PROVE  Told(log'[b], states'[b], PendingOf(b)')
  BY <1>0, <1>2, HumanTold
<1>3. ASSUME NEW i \in DOMAIN approvals, HumanVerdict(i)
      PROVE  Told(log'[b], states'[b], PendingOf(b)')
  BY <1>0, <1>3, VerdictTold
<1>4. CASE Reset \/ SeedDemo
  BY <1>4, ResetTold
<1>5. CASE UNCHANGED towerVars
  <2>1. log' = log /\ states' = states /\ UNCHANGED approvals
    BY <1>5 DEF towerVars, gateVars
  <2>2. PendingOf(b)' = PendingOf(b)
    BY <2>1, PendingAfterQuiet
  <2> QED BY <1>0, <2>1, <2>2
<1> QED BY <1>1, <1>2, <1>3, <1>4, <1>5 DEF TowerNext

\* They agree at first.
LEMMA ToldInit == TowerInit => TrailTellsControl
<1> SUFFICES ASSUME TowerInit, NEW b \in Agents
             PROVE  Told(log[b], states[b], PendingOf(b))
  BY ToldParts
<1>1. log[b] = <<>> /\ states[b] = "active" /\ DOMAIN approvals = {}
  BY DEF TowerInit, GateInit
<1>2. PendingOf(b) = {}
  BY <1>1 DEF PendingOf
<1> QED BY <1>1, <1>2, FreshTold

\* One forensic trail (_emit(), stream.py, gate.py): replaying an agent's events
\* gives the control state that the gate has for it and tells whether an
\* approval of it is pending; nothing moves the gate without a receipt.
THEOREM TheTrailTellsControl == TowerSpec => []TrailTellsControl
<1>1. TowerInit => TrailTellsControl BY ToldInit
<1>2. GateInv /\ FleetTyped /\ TrailTellsControl /\ [TowerNext]_towerVars => TrailTellsControl'
  BY ToldStep
<1> QED BY <1>1, <1>2, TowerTyped, PTL DEF TowerSpec

-----------------------------------------------------------------------------
(* Every item is settled once. *)

\* What is new and tells nothing of an item.
Silent(e) == e.kind \in IdleKinds \/ e = AutoPause

\* The new trail has e at place p, and nothing else that tells.
Records(old, new, p, e) ==
    /\ Grows(old, new)
    /\ p \in 1 .. Len(new) /\ p > Len(old) /\ new[p] = e
    /\ \A n \in 1 .. Len(new) : n > Len(old) /\ n # p => Silent(new[n])

\* Idle growth records nothing more.
LEMMA IdleRecords ==
    ASSUME NEW s \in Seq(Event), NEW t \in Seq(Event), NEW u \in Seq(Event),
           NEW p, NEW e, Records(s, t, p, e), Idle(t, u)
    PROVE  Records(s, u, p, e)
<1>1. Len(s) <= Len(t) /\ Len(t) <= Len(u) /\ p \in 1 .. Len(t) /\ p > Len(s)
  BY DEF Records, Idle, Grows
<1>2. \A n \in 1 .. Len(t) : u[n] = t[n]
  BY DEF Idle, Grows
<1>3. Grows(s, u)
  BY <1>1, <1>2 DEF Records, Grows
<1>4. p \in 1 .. Len(u) /\ u[p] = e
  BY <1>1, <1>2 DEF Records
<1>5. ASSUME NEW n \in 1 .. Len(u), n > Len(s), n # p PROVE Silent(u[n])
  <2>1. CASE n <= Len(t)
    BY <1>2, <1>5, <2>1 DEF Records
  <2>2. CASE n > Len(t)
    BY <1>5, <2>2 DEF Idle, Silent
  <2> QED BY <1>1, <1>5, <2>1, <2>2
<1> QED BY <1>1, <1>3, <1>4, <1>5 DEF Records

\* What a step tells is recorded at one place.
LEMMA TellsRecords ==
    ASSUME NEW s \in Seq(Event), NEW t \in Seq(Event), NEW e \in Event, Tells(s, t, e)
    PROVE  \E p \in Nat : Records(s, t, p, e)
<1>1. PICK pre \in Seq(Event), said \in Seq(Event) :
        Idle(s, pre) /\ said = Append(pre, e) /\ Idle(said, t)
  BY DEF Tells
<1>2. PICK p \in Nat : p = Len(pre) + 1
  OBVIOUS
<1>3. Records(s, said, p, e)
  BY <1>1, <1>2 DEF Records, Idle, Grows, Silent
<1>4. Records(s, t, p, e)
  BY <1>1, <1>3, IdleRecords
<1> QED BY <1>4

\* The receipt of containment records nothing about an item.
LEMMA PauseRecords ==
    ASSUME NEW s \in Seq(Event), NEW t \in Seq(Event), NEW p, NEW e, Records(s, t, p, e),
           NEW u, u = Append(t, AutoPause)
    PROVE  Records(s, u, p, e)
<1>1. PICK pause \in Event : pause = AutoPause
  BY AutoPauseTyped
<1>2. /\ Grows(t, u) /\ Len(u) = Len(t) + 1 /\ u[Len(t) + 1] = pause
  BY <1>1, AppendGrows
<1> QED BY <1>1, <1>2 DEF Records, Grows, Silent

\* So every step records one event.
LEMMA LeavesRecords ==
    ASSUME FleetTyped, NEW a \in Agents, NEW e \in Event, NEW parks, Leaves(a, e, parks)
    PROVE  \E new \in Seq(Event), p \in Nat :
               log' = [log EXCEPT ![a] = new] /\ Records(log[a], new, p, e)
<1>1. PICK s \in Seq(Event) : s = log[a]
  BY DEF FleetTyped
<1>2. PICK trail \in Seq(Event), new \in Seq(Event) :
        /\ Tells(s, trail, e)
        /\ log' = [log EXCEPT ![a] = new]
        /\ \/ new = trail
           \/ \E mid \in Seq(Event) : Idle(trail, mid) /\ new = Append(mid, AutoPause)
  BY <1>1 DEF Leaves
<1>3. PICK p \in Nat : Records(s, trail, p, e)
  BY <1>2, TellsRecords
<1>4. CASE new = trail
  BY <1>1, <1>2, <1>3, <1>4
<1>5. ASSUME NEW mid \in Seq(Event), Idle(trail, mid), new = Append(mid, AutoPause)
      PROVE  Records(s, new, p, e)
  <2>1. Records(s, mid, p, e)
    BY <1>3, <1>5, IdleRecords
  <2> QED BY <1>5, <2>1, PauseRecords
<1> QED BY <1>1, <1>2, <1>4, <1>5

\* And every receipt.
LEMMA ReceiptRecords ==
    ASSUME FleetTyped, NEW a \in Agents, NEW e \in Event,
           log' = [log EXCEPT ![a] = Append(log[a], e)]
    PROVE  \E new \in Seq(Event), p \in Nat :
               log' = [log EXCEPT ![a] = new] /\ Records(log[a], new, p, e)
<1>1. PICK s \in Seq(Event) : s = log[a]
  BY DEF FleetTyped
<1>2. PICK new \in Seq(Event) : new = Append(s, e)
  BY AppendGrows
<1>3. Records(s, new, Len(s) + 1, e) /\ Len(s) + 1 \in Nat
  BY <1>2 DEF Records, Grows
<1> QED BY <1>1, <1>2, <1>3

\* The settlements of a trail.
Settles(e, action, name) ==
    /\ e.item = name /\ e.action = action
    /\ e.kind \in {"action_executed", "action_denied", "approval_requested"}

Settled(trail, action, name) == {n \in DOMAIN trail : Settles(trail[n], action, name)}

\* A silent event settles nothing.
LEMMA SilentSettlesNothing ==
    ASSUME NEW e, Silent(e), NEW action, NEW name
    PROVE  ~Settles(e, action, name)
BY AutoPauseTyped DEF Silent, Settles, IdleKinds

\* A record adds at most one settlement.
LEMMA RecordSettles ==
    ASSUME NEW s \in Seq(Event), NEW t \in Seq(Event), NEW p \in Nat, NEW e, Records(s, t, p, e),
           NEW action, NEW name
    PROVE  /\ Cardinality(Settled(s, action, name)) \in Nat
           /\ Cardinality(Settled(t, action, name))
                = Cardinality(Settled(s, action, name))
                  + (IF Settles(e, action, name) THEN 1 ELSE 0)
<1>1. PICK A, B : A = Settled(s, action, name) /\ B = Settled(t, action, name)
  OBVIOUS
<1>2. DOMAIN s = 1 .. Len(s) /\ DOMAIN t = 1 .. Len(t)
  OBVIOUS
<1>3. A \subseteq DOMAIN s /\ p \notin A
  BY <1>1, <1>2 DEF Settled, Records
<1>4. IsFiniteSet(A) /\ Cardinality(A) \in Nat
  BY <1>3, PlacesFinite
<1>5. \A n \in DOMAIN s : n \in DOMAIN t /\ n # p /\ t[n] = s[n]
  BY <1>2 DEF Records, Grows
<1>6. \A n \in DOMAIN t : n \in DOMAIN s \/ n = p \/ Silent(t[n])
  BY <1>2 DEF Records
<1>7. p \in DOMAIN t /\ t[p] = e
  BY <1>2 DEF Records
<1>8. CASE Settles(e, action, name)
  <2>1. B = A \cup {p}
    BY <1>1, <1>5, <1>6, <1>7, <1>8, SilentSettlesNothing DEF Settled
  <2>2. Cardinality(B) = Cardinality(A) + 1
    BY <1>3, <1>4, <2>1, FS_AddElement
  <2> QED BY <1>1, <1>4, <1>8, <2>2
<1>9. CASE ~Settles(e, action, name)
  <2>1. B = A
    BY <1>1, <1>5, <1>6, <1>7, <1>9, SilentSettlesNothing DEF Settled
  <2> QED BY <1>1, <1>4, <1>9, <2>1
<1> QED BY <1>8, <1>9

\* Where an item waits in the rest of the work.
WaitsIn(q, name) == {n \in DOMAIN q : q[n].name = name}

\* An item waits once, as long as it has not been taken.
LEMMA WaitsOnce ==
    ASSUME NEW a \in Agents, NEW j \in 1 .. Len(Work(a)), NEW n \in 1 .. Len(Work(a)) + 1,
           NEW q, q = SubSeq(Work(a), n, Len(Work(a)))
    PROVE  Cardinality(WaitsIn(q, Work(a)[j].name)) = IF n <= j THEN 1 ELSE 0
<1>1. PICK w \in Seq(ItemType) : w = Work(a)
  BY WorkIsTyped
<1>2. /\ DOMAIN q = 1 .. Len(w) + 1 - n
      /\ \A k \in 1 .. Len(w) + 1 - n : q[k] = w[n + k - 1]
  BY <1>1
<1>3. \A k \in 1 .. Len(w) + 1 - n : n + k - 1 \in 1 .. Len(w)
  BY <1>1
<1>4. \A k \in 1 .. Len(w) : w[k].name = w[j].name => k = j
  BY <1>1, WorkIsTyped
<1>5. Cardinality({}) = 0
  BY FS_EmptySet
<1>6. CASE n <= j
  <2>1. PICK k \in 1 .. Len(w) + 1 - n : k = j - n + 1 /\ n + k - 1 = j
    BY <1>1, <1>6
  <2>2. \A m \in 1 .. Len(w) + 1 - n : q[m].name = w[j].name => m = k
    BY <1>1, <1>2, <1>3, <1>4, <2>1
  <2>3. q[k].name = w[j].name
    BY <1>2, <2>1
  <2>4. WaitsIn(q, w[j].name) = {k}
    BY <1>2, <2>1, <2>2, <2>3 DEF WaitsIn
  <2>5. Cardinality({k}) = 1
    BY FS_Singleton
  <2> QED BY <1>1, <1>6, <2>4, <2>5
<1>7. CASE ~(n <= j)
  <2>1. \A m \in 1 .. Len(w) + 1 - n : q[m].name # w[j].name
    BY <1>1, <1>2, <1>3, <1>4, <1>7
  <2>2. WaitsIn(q, w[j].name) = {}
    BY <1>2, <2>1 DEF WaitsIn
  <2> QED BY <1>1, <1>5, <1>7, <2>2
<1> QED BY <1>6, <1>7

\* One item of one agent: in the queue, on the desk, or settled once.
Once(trail, q, item, action, name) ==
    Cardinality(Settled(trail, action, name)) + Cardinality(WaitsIn(q, name))
    + (IF item.name = name THEN 1 ELSE 0) = 1

SettledParts ==
    \A a \in Agents \cap {"refundbot", "deploybot"} : \A j \in DOMAIN Work(a) :
        Once(log[a], queue[a], current[a], ActionOf(a), Work(a)[j].name)

\* The property, item by item.
LEMMA SettledOnceParts == ItemSettledOnce <=> SettledParts
BY DEF ItemSettledOnce, SettledParts, Once, Settlements, Settled, Settles, Waiting, WaitsIn

\* A step that settles nothing of it leaves an item where it is.
LEMMA QuietOnce ==
    ASSUME NEW s \in Seq(Event), NEW t \in Seq(Event), NEW p \in Nat, NEW e, Records(s, t, p, e),
           NEW q, NEW item, NEW same, same.name = item.name, NEW action, NEW name,
           ~Settles(e, action, name), Once(s, q, item, action, name)
    PROVE  Once(t, q, same, action, name)
<1>1. PICK m \in Nat : m = Cardinality(Settled(s, action, name))
  BY RecordSettles
<1>2. Cardinality(Settled(t, action, name)) = m
  BY <1>1, RecordSettles
<1> QED BY <1>1, <1>2 DEF Once

\* The agents that settle items.
Settlers == Agents \cap {"refundbot", "deploybot"}

\* The two actions that settle.
LEMMA ActionOfSettler ==
    ASSUME NEW a
    PROVE  ActionOf(a) \in {"issue_refund", "deploy_production"}
BY DEF ActionOf

\* Taking the next item.
LEMMA TakeOnce ==
    ASSUME FleetTyped, NEW a \in Agents, TakeItem(a), NEW j \in 1 .. Len(Work(a)),
           NEW action \in {"issue_refund", "deploy_production"},
           Once(log[a], queue[a], current[a], action, Work(a)[j].name)
    PROVE  Once(log'[a], queue'[a], current'[a], action, Work(a)[j].name)
<1>0. PICK name : name = Work(a)[j].name /\ name # NoItem
  BY WorkIsTyped
<1>1. PICK e \in Event : /\ e.kind = "action_executed" /\ e.action = Step(a)
                         /\ Leaves(a, e, FALSE)
  BY TakeLeaves
<1>2. /\ Step(a) \in {"pop_ticket", "pick_release"} /\ queue[a] # <<>>
      /\ current' = [current EXCEPT ![a] = Head(queue[a])]
      /\ queue' = [queue EXCEPT ![a] = Tail(queue[a])]
  BY DEF TakeItem
<1>3. PICK s \in Seq(Event), q \in Queues(a) : s = log[a] /\ q = queue[a]
  BY DEF FleetTyped
<1>4. PICK t \in Seq(Event), p \in Nat : log'[a] = t /\ Records(s, t, p, e)
  BY <1>1, <1>3, LeavesRecords DEF FleetTyped
<1>5. current'[a] = Head(q) /\ queue'[a] = Tail(q)
  BY <1>2, <1>3 DEF FleetTyped
<1>6. current[a].name = NoItem
  BY <1>2, NothingIsTyped DEF FleetTyped, Awaited
<1>7. PICK n \in 1 .. Len(Work(a)) :
        /\ q = SubSeq(Work(a), n, Len(Work(a)))
        /\ Head(q) = Work(a)[n]
        /\ Tail(q) = SubSeq(Work(a), n + 1, Len(Work(a)))
  BY <1>2, <1>3, QueueIsRest
<1>8. n \in 1 .. Len(Work(a)) + 1 /\ n + 1 \in 1 .. Len(Work(a)) + 1
  <2>1. Len(Work(a)) \in Nat
    BY WorkIsTyped
  <2> QED BY <2>1
<1>9. /\ Cardinality(WaitsIn(q, name)) = IF n <= j THEN 1 ELSE 0
      /\ Cardinality(WaitsIn(Tail(q), name)) = IF n + 1 <= j THEN 1 ELSE 0
  BY <1>0, <1>7, <1>8, WaitsOnce
<1>10. Head(q).name = name <=> n = j
  BY <1>0, <1>7, WorkIsTyped
<1>11. PICK m \in Nat : /\ m = Cardinality(Settled(s, action, name))
                        /\ m = Cardinality(Settled(t, action, name))
  <2>1. ~Settles(e, action, name)
    BY <1>1, <1>2 DEF Settles
  <2> QED BY <1>4, <2>1, RecordSettles
<1>12. m + (IF n <= j THEN 1 ELSE 0) + 0 = 1
  BY <1>0, <1>3, <1>6, <1>9, <1>11 DEF Once
<1>13. m + (IF n + 1 <= j THEN 1 ELSE 0) + (IF n = j THEN 1 ELSE 0) = 1
  BY <1>12
<1>14. Once(t, Tail(q), Head(q), action, name)
  BY <1>9, <1>10, <1>11, <1>13 DEF Once
<1> QED BY <1>0, <1>4, <1>5, <1>14

\* Deciding on the item on the desk.
LEMMA DecideOnce ==
    ASSUME FleetTyped, NEW a \in Agents, DecideStep(a), NEW j \in 1 .. Len(Work(a)),
           Once(log[a], queue[a], current[a], ActionOf(a), Work(a)[j].name)
    PROVE  Once(log'[a], queue'[a], current'[a], ActionOf(a), Work(a)[j].name)
<1>0. PICK name, action : name = Work(a)[j].name /\ name # NoItem /\ action = ActionOf(a)
  BY WorkIsTyped
<1>1. PICK e \in Event, parks \in BOOLEAN :
        /\ e.action = action /\ e.item = current[a].name
        /\ e.kind \in {"action_executed", "approval_requested", "action_denied"}
        /\ Leaves(a, e, parks)
  BY <1>0, DecideLeaves
<1>2. current' = [current EXCEPT ![a] = Nothing] /\ queue' = queue
  BY DEF DecideStep, Settle
<1>3. PICK s, q, item :
        /\ s \in Seq(Event)
        /\ s = log[a] /\ q = queue[a] /\ item = current[a]
  BY DEF FleetTyped
<1>4. PICK t \in Seq(Event), p \in Nat : log'[a] = t /\ Records(s, t, p, e)
  BY <1>1, <1>3, LeavesRecords DEF FleetTyped
<1>5. current'[a] = Nothing /\ queue'[a] = q /\ Nothing.name # name
  BY <1>0, <1>2, <1>3, NothingIsTyped DEF FleetTyped
<1>6. PICK m, w, k : /\ m = Cardinality(Settled(s, action, name))
                     /\ w = Cardinality(WaitsIn(q, name))
                     /\ k = Cardinality(Settled(t, action, name))
  OBVIOUS
<1>7. m \in Nat /\ k = m + (IF Settles(e, action, name) THEN 1 ELSE 0)
  BY <1>3, <1>4, <1>6, RecordSettles
<1>8. Settles(e, action, name) <=> item.name = name
  BY <1>1, <1>3 DEF Settles
<1>9. m + w + (IF item.name = name THEN 1 ELSE 0) = 1
  BY <1>0, <1>3, <1>6 DEF Once
<1>10. w \in Nat
  <2>1. PICK queued \in Queues(a) : queued = q
    BY <1>3 DEF FleetTyped
  <2>2. PICK n \in 1 .. Len(Work(a)) + 1 : q = SubSeq(Work(a), n, Len(Work(a)))
    BY <2>1, QueueIsRest
  <2>3. Cardinality(WaitsIn(q, Work(a)[j].name)) = IF n <= j THEN 1 ELSE 0
    BY <2>2, WaitsOnce
  <2> QED BY <1>0, <1>6, <2>3
<1>11. k + w + 0 = 1
  BY <1>7, <1>8, <1>9, <1>10
<1>12. Once(t, q, Nothing, action, name)
  BY <1>5, <1>6, <1>11 DEF Once
<1> QED BY <1>0, <1>4, <1>5, <1>12

\* Every other event leaves all the items where they are.
LEMMA OtherOnce ==
    ASSUME FleetTyped, NEW a \in Agents, NEW new \in Seq(Event), NEW p \in Nat, NEW e,
           log' = [log EXCEPT ![a] = new], Records(log[a], new, p, e),
           NEW action \in {"issue_refund", "deploy_production"}, NEW name,
           \/ e.kind \in {"intervention_applied", "approval_resolved", "blocker_raised"}
           \/ e.action \in {"check_stock", "size_order", "verify_delivery", "purchase",
                            "verify_ticket"},
           queue' = queue, current'[a].name = current[a].name,
           Once(log[a], queue[a], current[a], action, name)
    PROVE  Once(log'[a], queue'[a], current'[a], action, name)
<1>1. ~Settles(e, action, name)
  BY DEF Settles
<1>2. PICK s, q, item, same :
        /\ s \in Seq(Event)
        /\ s = log[a] /\ q = queue[a] /\ item = current[a] /\ same = current'[a]
  BY DEF FleetTyped
<1>3. log'[a] = new
  BY DEF FleetTyped
<1>4. Once(new, q, same, action, name)
  BY <1>1, <1>2, QuietOnce
<1> QED BY <1>2, <1>3, <1>4

\* Every step of the item's own agent.
LEMMA AdvanceOnce ==
    ASSUME FleetTyped, NEW a \in Agents, Advance(a), NEW j \in 1 .. Len(Work(a)),
           Once(log[a], queue[a], current[a], ActionOf(a), Work(a)[j].name)
    PROVE  Once(log'[a], queue'[a], current'[a], ActionOf(a), Work(a)[j].name)
<1>0. PICK action, name :
        /\ action \in {"issue_refund", "deploy_production"}
        /\ action = ActionOf(a) /\ name = Work(a)[j].name
  BY ActionOfSettler
<1>1. ASSUME NEW e \in Event, NEW parks, Leaves(a, e, parks),
             \/ e.kind = "blocker_raised"
             \/ e.action \in {"check_stock", "size_order", "verify_delivery", "purchase",
                              "verify_ticket"},
             queue' = queue, current'[a].name = current[a].name
      PROVE  Once(log'[a], queue'[a], current'[a], action, name)
  <2>1. PICK new \in Seq(Event), p \in Nat :
          log' = [log EXCEPT ![a] = new] /\ Records(log[a], new, p, e)
    BY <1>1, LeavesRecords
  <2> QED BY <1>0, <1>1, <2>1, OtherOnce
<1>2. CASE RoutineStep(a)
  <2>1. PICK e \in Event : e.action = Step(a) /\ Leaves(a, e, FALSE)
    BY <1>2, RoutineLeaves
  <2>2. /\ Step(a) \in {"check_stock", "size_order", "verify_delivery"}
        /\ queue' = queue /\ current' = current
    BY <1>2 DEF RoutineStep
  <2> QED BY <1>0, <1>1, <2>1, <2>2
<1>3. CASE PurchaseStep(a)
  <2>1. PICK e \in Event : e.action = "purchase" /\ Leaves(a, e, FALSE)
    BY <1>3, PurchaseLeaves
  <2>2. queue' = queue /\ current' = current
    BY <1>3 DEF PurchaseStep
  <2> QED BY <1>0, <1>1, <2>1, <2>2
<1>4. CASE TakeItem(a)
  BY <1>0, <1>4, TakeOnce
<1>5. CASE NothingToTake(a)
  <2>1. PICK e \in Event : e.kind = "blocker_raised" /\ Leaves(a, e, FALSE)
    BY <1>5, BlockerLeaves
  <2>2. queue' = queue /\ current' = current
    BY <1>5 DEF NothingToTake, worldVars
  <2> QED BY <1>0, <1>1, <2>1, <2>2
<1>6. CASE VerifyTicket(a)
  <2>1. PICK e \in Event : e.action = "verify_ticket" /\ Leaves(a, e, FALSE)
    BY <1>6, VerifyLeaves
  <2>2. /\ queue' = queue /\ current[a] # Nothing
        /\ current' = [current EXCEPT ![a] =
                        IF a \in rogue THEN Tampered(current[a]) ELSE current[a]]
    BY <1>6 DEF VerifyTicket
  <2>3. PICK item \in ItemType : item = current[a]
    BY <2>2, OnDesk, DeskItems
  <2>4. Tampered(item).name = item.name
    BY TamperedItem
  <2>5. current'[a] = IF a \in rogue THEN Tampered(item) ELSE item
    BY <2>2, <2>3 DEF FleetTyped
  <2>6. current'[a].name = current[a].name
    BY <2>3, <2>4, <2>5
  <2> QED BY <1>0, <1>1, <2>1, <2>2, <2>6
<1>7. CASE DecideStep(a)
  BY <1>7, DecideOnce
<1> QED BY <1>2, <1>3, <1>4, <1>5, <1>6, <1>7 DEF Advance

\* The work of the others is not touched.
LEMMA OthersUntouched ==
    ASSUME FleetTyped, NEW a \in Agents, Advance(a), NEW b \in Agents, b # a
    PROVE  log'[b] = log[b] /\ queue'[b] = queue[b] /\ current'[b] = current[b]
<1>1. log'[b] = log[b]
  <2>1. PICK e \in Event, parks \in BOOLEAN : Leaves(a, e, parks)
    BY AdvanceLeaves
  <2>2. PICK new : log' = [log EXCEPT ![a] = new]
    BY <2>1 DEF Leaves
  <2> QED BY <2>2 DEF FleetTyped
<1>2. /\ DOMAIN queue = Agents /\ DOMAIN current = Agents
      /\ UNCHANGED queue \/ queue' = [queue EXCEPT ![a] = Tail(queue[a])]
      /\ \/ UNCHANGED current
         \/ \E item : current' = [current EXCEPT ![a] = item]
  BY DEF FleetTyped, Advance, RoutineStep, PurchaseStep, TakeItem, NothingToTake, VerifyTicket,
         DecideStep, Settle, worldVars
<1> QED BY <1>1, <1>2

\* A receipt settles nothing.
LEMMA ReceiptOnce ==
    ASSUME FleetTyped, NEW a \in Agents, NEW e \in Event,
           e.kind \in {"intervention_applied", "approval_resolved", "blocker_raised"},
           log' = [log EXCEPT ![a] = Append(log[a], e)], queue' = queue, current' = current,
           NEW b \in Agents, NEW action \in {"issue_refund", "deploy_production"}, NEW name,
           Once(log[b], queue[b], current[b], action, name)
    PROVE  Once(log'[b], queue'[b], current'[b], action, name)
<1>1. CASE b # a
  <2>1. log'[b] = log[b]
    BY <1>1 DEF FleetTyped
  <2> QED BY <2>1
<1>2. CASE b = a
  <2>1. PICK new \in Seq(Event), p \in Nat :
          log' = [log EXCEPT ![a] = new] /\ Records(log[a], new, p, e)
    BY ReceiptRecords
  <2>2. /\ Once(log[a], queue[a], current[a], action, name)
        /\ current'[a].name = current[a].name
    BY <1>2
  <2>3. Once(log'[a], queue'[a], current'[a], action, name)
    BY <2>1, <2>2, OtherOnce
  <2> QED BY <1>2, <2>3
<1> QED BY <1>1, <1>2

\* A fresh world has all its work in the queue.
LEMMA FreshOnce ==
    ASSUME NEW a \in Agents, NEW j \in 1 .. Len(Work(a)), NEW action,
           NEW trail, trail = <<>> \/ trail = <<Enrolled>>
    PROVE  Once(trail, Work(a), Nothing, action, Work(a)[j].name)
<1>0. PICK name : name = Work(a)[j].name /\ name # NoItem
  BY WorkIsTyped
<1>1. PICK w \in Seq(ItemType) : w = Work(a)
  BY WorkIsTyped
<1>2. Cardinality(WaitsIn(w, name)) = 1
  <2>1. w = SubSeq(w, 1, Len(w)) /\ 1 \in 1 .. Len(w) + 1 /\ 1 <= j
    BY <1>1
  <2> QED BY <1>0, <1>1, <2>1, WaitsOnce
<1>3. Settled(trail, action, name) = {}
  <2>1. \A n \in DOMAIN trail : trail[n].kind = "intervention_applied"
    BY EnrolledTyped
  <2> QED BY <2>1 DEF Settled, Settles
<1>4. Nothing.name # name
  BY <1>0, NothingIsTyped
<1>5. 0 + 1 + 0 = 1 /\ Cardinality({}) = 0
  BY FS_EmptySet
<1> QED BY <1>0, <1>1, <1>2, <1>3, <1>4, <1>5 DEF Once

\* Every step of anyone.
LEMMA SettledStep ==
    GateInv /\ FleetTyped /\ ItemSettledOnce /\ [TowerNext]_towerVars => ItemSettledOnce'
<1> SUFFICES ASSUME GateInv, FleetTyped, SettledParts, [TowerNext]_towerVars,
                    NEW b \in Settlers, NEW j \in DOMAIN Work(b)
             PROVE  Once(log'[b], queue'[b], current'[b], ActionOf(b), Work(b)[j].name)
  <2>1. SettledParts' =>  ItemSettledOnce'
    BY DEF ItemSettledOnce, SettledParts, Once, Settlements, Settled, Settles, Waiting, WaitsIn
  <2> QED BY <2>1, SettledOnceParts DEF SettledParts, Settlers
<1>0. /\ GateTypeOK /\ b \in Agents /\ j \in 1 .. Len(Work(b))
      /\ Once(log[b], queue[b], current[b], ActionOf(b), Work(b)[j].name)
  BY WorkIsTyped DEF GateInv, SettledParts, Settlers
<1>a. PICK action, name :
        /\ action \in {"issue_refund", "deploy_production"}
        /\ action = ActionOf(b) /\ name = Work(b)[j].name
  BY ActionOfSettler
<1>1. ASSUME NEW a \in Agents, Advance(a)
      PROVE  Once(log'[b], queue'[b], current'[b], ActionOf(b), Work(b)[j].name)
  <2>1. CASE b = a
    BY <1>0, <1>1, <2>1, AdvanceOnce
  <2>2. CASE b # a
    <3>1. log'[b] = log[b] /\ queue'[b] = queue[b] /\ current'[b] = current[b]
      BY <1>0, <1>1, <2>2, OthersUntouched
    <3> QED BY <1>0, <3>1
  <2> QED BY <2>1, <2>2
<1>2. ASSUME NEW a \in Agents, HumanPause(a) \/ HumanResume(a) \/ HumanKill(a) \/ InjectRogue(a)
      PROVE  Once(log'[b], queue'[b], current'[b], ActionOf(b), Work(b)[j].name)
  <2>1. PICK e \in Event : /\ e.kind \in {"intervention_applied", "blocker_raised"}
                           /\ log' = [log EXCEPT ![a] = Append(log[a], e)]
    BY <1>2, HumanTyped DEF Receipted
  <2>2. queue' = queue /\ current' = current
    BY <1>2 DEF HumanPause, HumanResume, HumanKill, InjectRogue, Intervene, worldVars
  <2> QED BY <1>0, <1>a, <2>1, <2>2, ReceiptOnce
<1>3. ASSUME NEW i \in DOMAIN approvals, HumanVerdict(i)
      PROVE  Once(log'[b], queue'[b], current'[b], ActionOf(b), Work(b)[j].name)
  <2>1. PICK a \in Agents, e \in Event :
          e.kind = "approval_resolved" /\ log' = [log EXCEPT ![a] = Append(log[a], e)]
    BY <1>0, <1>3, VerdictTyped DEF Receipted
  <2>2. queue' = queue /\ current' = current
    BY <1>3 DEF HumanVerdict, worldVars
  <2> QED BY <1>0, <1>a, <2>1, <2>2, ReceiptOnce
<1>4. CASE Reset \/ SeedDemo
  <2>1. /\ queue'[b] = Work(b) /\ current'[b] = Nothing
        /\ log'[b] = <<>> \/ log'[b] = <<Enrolled>>
    BY <1>0, <1>4, ResetTyped DEF Reset, SeedDemo, FreshWorld
  <2> QED BY <1>0, <2>1, FreshOnce
<1>5. CASE UNCHANGED towerVars
  BY <1>0, <1>5 DEF towerVars, worldVars
<1> QED BY <1>1, <1>2, <1>3, <1>4, <1>5 DEF TowerNext

\* At first every item waits.
LEMMA SettledInit == TowerInit => ItemSettledOnce
<1> SUFFICES ASSUME TowerInit, NEW b \in Settlers, NEW j \in DOMAIN Work(b)
             PROVE  Once(log[b], queue[b], current[b], ActionOf(b), Work(b)[j].name)
  BY SettledOnceParts DEF SettledParts, Settlers
<1>1. /\ b \in Agents /\ j \in 1 .. Len(Work(b))
      /\ queue[b] = Work(b) /\ current[b] = Nothing /\ log[b] = <<>>
  BY WorkIsTyped DEF TowerInit, Settlers
<1> QED BY <1>1, FreshOnce

\* A ticket or a release is put to a decision once (refund_step, deploy_step): it
\* is in the queue, on the desk, or was executed, denied or parked exactly once,
\* whatever interventions fall between the steps.
THEOREM ItemsAreSettledOnce == TowerSpec => []ItemSettledOnce
<1>1. TowerInit => ItemSettledOnce BY SettledInit
<1>2. GateInv /\ FleetTyped /\ ItemSettledOnce /\ [TowerNext]_towerVars => ItemSettledOnce'
  BY SettledStep
<1> QED BY <1>1, <1>2, TowerTyped, PTL DEF TowerSpec

-----------------------------------------------------------------------------
(* An unticketed release is never deployed. *)

\* What a rounded quotient is.
LEMMA FleetQuotientIs ==
    ASSUME NEW n \in Int, NEW d \in Nat \ {0}
    PROVE  /\ Rounded(n, d) \in Int
           /\ 2 * d * Rounded(n, d) <= 2 * n + d
<1>1. PICK c \in Nat \ {0} : c = 2 * d
  OBVIOUS
<1>2. PICK m \in Int : m = 2 * n + d
  OBVIOUS
<1>3. Rounded(n, d) = m \div c
  BY <1>1, <1>2 DEF Rounded
<1>4. PICK q \in Int : q = m \div c /\ c * q <= m /\ m < c * (q + 1)
  OBVIOUS
<1> QED BY <1>1, <1>2, <1>3, <1>4

\* A track record counts for 1000 at most.
LEMMA HistoryBounded ==
    ASSUME NEW total \in Nat, NEW favorable \in 0 .. total
    PROVE  HistoryValue(total, favorable) \in Int /\ HistoryValue(total, favorable) <= 1000
<1>1. CASE total = 0
  BY <1>1 DEF HistoryValue
<1>2. CASE total # 0
  <2>1. PICK n \in Int, d \in Nat \ {0} : n = 1000 * favorable /\ n <= 1000 * total /\ d = total
    BY <1>2
  <2>2. PICK r : r = Rounded(n, d)
    OBVIOUS
  <2>3. r \in Int /\ 2 * d * r <= 2 * n + d
    BY <2>2, FleetQuotientIs
  <2>4. r <= 1000
    <3> SUFFICES ASSUME r >= 1001 PROVE FALSE
      BY <2>3
    <3>1. d * r >= d * 1001
      BY <2>3
    <3>2. 2 * (d * r) <= 2 * n + d
      BY <2>3
    <3> QED BY <2>1, <3>1, <3>2, <2>3
  <2> QED BY <1>2, <2>1, <2>2, <2>3, <2>4 DEF HistoryValue
<1> QED BY <1>1, <1>2

\* With one required field missing the deploy policy's bar is out of reach, for
\* any authority and any track record.
LEMMA UnticketedConfidence ==
    ASSUME NEW authority \in Authority, NEW total \in Nat, NEW favorable \in 0 .. total,
           NEW x, x.authority = authority, x.total = total, x.favorable = favorable,
           x.required = 2, x.optional = 0
    PROVE  /\ Confidence(Policy("deploy"), x) \in Int /\ Bar(Policy("deploy").executeBar) \in Int
           /\ Confidence(Policy("deploy"), x) < Bar(Policy("deploy").executeBar)
<1>1. PICK p : p = Policy("deploy")
  OBVIOUS
<1>2. /\ p.required = 3 /\ p.optional = 2 /\ p.executeBar = 75
      /\ p.confidence.authority = 25 /\ p.confidence.reversibility = 10
      /\ p.confidence.evidence = 40 /\ p.confidence.history = 25
      /\ p.compensation = [exists |-> TRUE, cost |-> "high", partial |-> TRUE]
  BY <1>1 DEF Policy
<1>3. PICK h \in Int : h = HistoryValue(total, favorable) /\ h <= 1000
  BY HistoryBounded
<1>4. PICK v \in Int : v = AuthorityValue(authority) /\ v <= 1000
  BY SMT DEF AuthorityValue, Authority
<1>5. PICK c : c = p.compensation /\ c.exists /\ c.partial /\ c.cost = "high"
  BY <1>2
<1>6. ReversibilityScore(p.compensation) = 150
  BY <1>5 DEF ReversibilityScore
<1>7. EvidenceValue(p, 2, 0) = 533
  <2>1. Rounded(3200, 6) = 533
    BY DEF Rounded
  <2>2. 800 * 2 * p.optional + 200 * 0 * p.required = 3200 /\ p.required * p.optional = 6
    BY <1>2
  <2> QED BY <2>1, <2>2 DEF EvidenceValue, AtMost
<1>8. Confidence(p, x) = 25 * v + 10 * 150 + 40 * 533 + 25 * h
  BY <1>2, <1>3, <1>4, <1>6, <1>7 DEF Confidence
<1>9. Bar(p.executeBar) = 75000
  BY <1>2 DEF Bar
<1> QED BY <1>1, <1>3, <1>4, <1>8, <1>9

\* So DecisionCore never says execute.
LEMMA UnticketedNotExecuted ==
    ASSUME NEW item, ~item.complete, NEW g \in Gathered
    PROVE  Outcomes("deploybot", item, g) # "execute"
<1>1. g.authority \in Authority /\ g.total \in Nat /\ g.favorable \in 0 .. g.total
  BY FleetAssumption
<1>2. Policy("deploy").required = 3 /\ DomainOf("deploybot") = "deploy"
  BY DEF Policy, DomainOf
<1>3. PICK x : x = [authority |-> g.authority, total |-> g.total, favorable |-> g.favorable,
                    required |-> 2, optional |-> 0, amount |-> item.amount]
  OBVIOUS
<1>4. Outcomes("deploybot", item, g) = Decision("deploy", x)
  BY <1>2, <1>3 DEF Outcomes
<1>5. /\ Confidence(Policy("deploy"), x) \in Int /\ Bar(Policy("deploy").executeBar) \in Int
      /\ Confidence(Policy("deploy"), x) < Bar(Policy("deploy").executeBar)
  BY <1>1, <1>3, UnticketedConfidence
<1>6. PICK confidence, bar : /\ confidence = Confidence(Policy("deploy"), x)
                             /\ bar = Bar(Policy("deploy").executeBar)
                             /\ ~(confidence >= bar)
  BY <1>5
<1> QED BY <1>4, <1>6 DEF Decision, Resolve

\* An item that was verified after an injection, by place n of the trail.
Deployed(e) == e.kind = "action_executed" /\ e.action = "deploy_production"
Verified(e) == e.kind = "action_executed" /\ e.action = "verify_ticket"

Stripped(trail, name, n) ==
    \E m \in 1 .. n : \E k \in 1 .. m :
        IsInjection(trail[k]) /\ Verified(trail[m]) /\ trail[m].item = name

\* The inductive invariant, of deploybot's trail, the names that wait in its
\* queue, the release on its desk and the corrupted agents: what is deployed was
\* ticketed; what was verified no longer waits; an injection leaves its mark; a
\* stripped release on the desk stays incomplete; the desk is not in the queue.
Ticketed(trail, waiting, item, rogues) ==
    /\ \A n \in DOMAIN trail : Deployed(trail[n]) =>
            trail[n].item # "v12" /\ ~Stripped(trail, trail[n].item, n)
    /\ \A n \in DOMAIN trail : Verified(trail[n]) => trail[n].item \notin waiting
    /\ \A n \in DOMAIN trail : IsInjection(trail[n]) => "deploybot" \in rogues
    /\ Stripped(trail, item.name, Len(trail)) => ~item.complete
    /\ item # Nothing => item.name \notin waiting

\* Of what is new only the event recorded tells anything about a release.
LEMMA RecordOnly ==
    ASSUME NEW s \in Seq(Event), NEW t \in Seq(Event), NEW p \in Nat, NEW e, Records(s, t, p, e),
           NEW n \in DOMAIN t, Deployed(t[n]) \/ Verified(t[n]) \/ IsInjection(t[n])
    PROVE  (n \in DOMAIN s /\ t[n] = s[n]) \/ (n = p /\ t[n] = e /\ n > Len(s))
<1>1. n \in 1 .. Len(t) /\ Len(s) \in Nat /\ DOMAIN s = 1 .. Len(s)
  OBVIOUS
<1>2. ~Silent(t[n])
  BY AutoPauseTyped DEF Silent, IdleKinds, Deployed, Verified, IsInjection
<1>3. CASE n > Len(s)
  BY <1>1, <1>2, <1>3 DEF Records
<1>4. CASE n <= Len(s)
  BY <1>1, <1>4 DEF Records, Grows
<1> QED BY <1>1, <1>3, <1>4

\* What is stripped now was stripped before, or has just been verified.
LEMMA StrippedBefore ==
    ASSUME NEW s \in Seq(Event), NEW t \in Seq(Event), NEW p \in Nat, NEW e, Records(s, t, p, e),
           NEW name, NEW n \in DOMAIN t, Stripped(t, name, n)
    PROVE  \/ Stripped(s, name, Len(s)) /\ (n \in DOMAIN s => Stripped(s, name, n))
           \/ /\ n >= p /\ Verified(e) /\ e.item = name
              /\ \E k \in DOMAIN s : IsInjection(s[k])
<1>0. /\ DOMAIN s = 1 .. Len(s) /\ DOMAIN t = 1 .. Len(t) /\ Len(s) \in Nat /\ Len(t) \in Nat
      /\ n \in 1 .. Len(t)
  OBVIOUS
<1>1. PICK m \in 1 .. n : \E k \in 1 .. m :
        IsInjection(t[k]) /\ Verified(t[m]) /\ t[m].item = name
  BY DEF Stripped
<1>2. PICK k \in 1 .. m : IsInjection(t[k]) /\ Verified(t[m]) /\ t[m].item = name
  BY <1>1
<1>3. m \in DOMAIN t /\ k \in DOMAIN t /\ k <= m
  BY <1>0
<1>4. (m \in DOMAIN s /\ t[m] = s[m]) \/ (m = p /\ t[m] = e /\ m > Len(s))
  BY <1>2, <1>3, RecordOnly
<1>5. (k \in DOMAIN s /\ t[k] = s[k]) \/ (k = p /\ t[k] = e /\ k > Len(s))
  BY <1>2, <1>3, RecordOnly
<1>6. CASE m \in DOMAIN s /\ t[m] = s[m]
  <2>1. k \in DOMAIN s /\ t[k] = s[k]
    BY <1>0, <1>3, <1>5, <1>6
  <2>2. Stripped(s, name, Len(s))
    BY <1>0, <1>2, <1>6, <2>1 DEF Stripped
  <2>3. Stripped(s, name, n)
    BY <1>2, <1>6, <2>1 DEF Stripped
  <2> QED BY <2>2, <2>3
<1>7. CASE m = p /\ t[m] = e /\ m > Len(s)
  <2>1. k # p
    BY <1>2, <1>5, <1>7 DEF Verified, IsInjection
  <2>2. k \in DOMAIN s /\ IsInjection(s[k])
    BY <1>2, <1>5, <2>1
  <2> QED BY <1>0, <1>2, <1>7, <2>2
<1> QED BY <1>4, <1>6, <1>7

\* One event more.
LEMMA TicketedStep ==
    ASSUME NEW s \in Seq(Event), NEW t \in Seq(Event), NEW p \in Nat, NEW e, Records(s, t, p, e),
           NEW waiting, NEW waits, waits \subseteq waiting, NEW item, NEW next,
           NEW rogues, NEW corrupt, rogues \subseteq corrupt,
           Ticketed(s, waiting, item, rogues),
           IsInjection(e) => "deploybot" \in corrupt,
           Verified(e) => /\ e.item = item.name /\ item # Nothing /\ next.name = item.name
                          /\ next.complete => item.complete /\ "deploybot" \notin rogues,
           Deployed(e) => e.item = item.name /\ item.complete /\ item.name # "v12",
           next # Nothing => next.name \notin waits,
           next.complete => \/ next.name \in waiting
                            \/ next.name = item.name /\ item.complete
    PROVE  Ticketed(t, waits, next, corrupt)
<1>0. /\ DOMAIN s = 1 .. Len(s) /\ DOMAIN t = 1 .. Len(t) /\ Len(s) \in Nat /\ Len(t) \in Nat
      /\ Len(s) < p /\ p <= Len(t)
  BY DEF Records
<1>1. ASSUME NEW n \in DOMAIN t, Deployed(t[n])
      PROVE  t[n].item # "v12" /\ ~Stripped(t, t[n].item, n)
  <2>1. CASE n \in DOMAIN s /\ t[n] = s[n]
    <3>1. s[n].item # "v12" /\ ~Stripped(s, s[n].item, n)
      BY <1>1, <2>1 DEF Ticketed
    <3>2. n < p
      BY <1>0, <2>1
    <3> QED BY <1>0, <2>1, <3>1, <3>2, StrippedBefore
  <2>2. CASE n = p /\ t[n] = e /\ n > Len(s)
    <3>1. e.item = item.name /\ item.complete /\ item.name # "v12" /\ ~Verified(e)
      BY <1>1, <2>2 DEF Deployed, Verified
    <3>2. ~Stripped(s, item.name, Len(s))
      BY <3>1 DEF Ticketed
    <3> QED BY <2>2, <3>1, <3>2, StrippedBefore
  <2> QED BY <1>1, <2>1, <2>2, RecordOnly
<1>2. ASSUME NEW n \in DOMAIN t, Verified(t[n])
      PROVE  t[n].item \notin waits
  <2>1. CASE n \in DOMAIN s /\ t[n] = s[n]
    BY <1>2, <2>1 DEF Ticketed
  <2>2. CASE n = p /\ t[n] = e /\ n > Len(s)
    BY <1>2, <2>2 DEF Ticketed
  <2> QED BY <1>2, <2>1, <2>2, RecordOnly
<1>3. ASSUME NEW n \in DOMAIN t, IsInjection(t[n])
      PROVE  "deploybot" \in corrupt
  <2>1. CASE n \in DOMAIN s /\ t[n] = s[n]
    BY <1>3, <2>1 DEF Ticketed
  <2>2. CASE n = p /\ t[n] = e /\ n > Len(s)
    BY <1>3, <2>2
  <2> QED BY <1>3, <2>1, <2>2, RecordOnly
<1>4. ASSUME Stripped(t, next.name, Len(t)), next.complete
      PROVE  FALSE
  <2>1. Len(t) \in DOMAIN t
    BY <1>0
  <2>2. CASE Stripped(s, next.name, Len(s))
    <3>1. ~(next.name = item.name /\ item.complete)
      BY <2>2 DEF Ticketed
    <3>2. next.name \in waiting
      BY <1>4, <3>1
    <3>3. PICK m \in 1 .. Len(s) : Verified(s[m]) /\ s[m].item = next.name
      BY <2>2 DEF Stripped
    <3> QED BY <1>0, <3>2, <3>3 DEF Ticketed
  <2>3. CASE Verified(e) /\ e.item = next.name /\ \E k \in DOMAIN s : IsInjection(s[k])
    <3>1. "deploybot" \in rogues
      BY <2>3 DEF Ticketed
    <3> QED BY <1>4, <2>3, <3>1
  <2> QED BY <1>4, <2>1, <2>2, <2>3, StrippedBefore
<1> QED BY <1>1, <1>2, <1>3, <1>4 DEF Ticketed

Names(q) == {q[k].name : k \in DOMAIN q}

DeskTicketed ==
    "deploybot" \in Agents =>
        Ticketed(log["deploybot"], Names(queue["deploybot"]), current["deploybot"], rogue)

\* The invariant implies the property.
LEMMA TicketedMeansIt == DeskTicketed => UnticketedNeverDeploys
<1> SUFFICES ASSUME "deploybot" \in Agents, DeskTicketed, NEW trail, trail = log["deploybot"],
                    NEW n \in DOMAIN trail, Deployed(trail[n])
             PROVE  /\ trail[n].item # "v12"
                    /\ \A m \in 1 .. n : \A k \in 1 .. m :
                        ~ (/\ IsInjection(trail[k]) /\ Verified(trail[m])
                           /\ trail[m].item = trail[n].item)
  BY DEF UnticketedNeverDeploys, Deployed, Verified
<1>1. trail[n].item # "v12" /\ ~Stripped(trail, trail[n].item, n)
  BY DEF DeskTicketed, Ticketed
<1> QED BY <1>1 DEF Stripped

\* A complete release is v13.
LEMMA CompleteRelease ==
    ASSUME "deploybot" \in Agents, NEW item \in Desk("deploybot"), item.complete
    PROVE  item.name # "v12"
<1>1. PICK n \in 1 .. Len(Releases) : item = Releases[n]
  BY DeskItems, WorkSpelled
<1>2. n = 1 \/ n = 2
  BY <1>1, ReleasesSpelled
<1> QED BY <1>1, <1>2, ReleasesSpelled

\* Deploybot takes the next step.
LEMMA AdvanceTicketed ==
    ASSUME FleetTyped, "deploybot" \in Agents, Advance("deploybot"), DeskTicketed
    PROVE  DeskTicketed'
<1>0. PICK a \in Agents : a = "deploybot" /\ Advance(a)
  OBVIOUS
<1>1. PICK s, q, item :
        /\ s \in Seq(Event) /\ q \in Queues(a)
        /\ s = log[a] /\ q = queue[a] /\ item = current[a]
  BY <1>0 DEF FleetTyped
<1>2. Ticketed(s, Names(q), item, rogue) /\ rogue' = rogue
  BY <1>0, <1>1 DEF DeskTicketed, Advance, RoutineStep, PurchaseStep, TakeItem, NothingToTake,
                    VerifyTicket, DecideStep, worldVars
<1>3. ASSUME NEW e \in Event, NEW parks, Leaves(a, e, parks),
             ~IsInjection(e),
             NEW rest, NEW next, queue'[a] = rest, current'[a] = next,
             Names(rest) \subseteq Names(q),
             Verified(e) => /\ e.item = item.name /\ item # Nothing /\ next.name = item.name
                            /\ next.complete => item.complete /\ "deploybot" \notin rogue,
             Deployed(e) => e.item = item.name /\ item.complete /\ item.name # "v12",
             next # Nothing => next.name \notin Names(rest),
             next.complete => next.name \in Names(q) \/ (next.name = item.name /\ item.complete)
      PROVE  DeskTicketed'
  <2>1. PICK t \in Seq(Event), p \in Nat : log'[a] = t /\ Records(s, t, p, e)
    BY <1>1, <1>3, LeavesRecords DEF FleetTyped
  <2>2. PICK waiting, waits : waiting = Names(q) /\ waits = Names(rest)
    OBVIOUS
  <2>3. Ticketed(t, waits, next, rogue)
    BY <1>1, <1>2, <1>3, <2>1, <2>2, TicketedStep
  <2>4. Names(queue["deploybot"])' = Names(rest)
    BY <1>0, <1>3 DEF Names
  <2> QED BY <1>0, <1>2, <1>3, <2>1, <2>2, <2>3, <2>4 DEF DeskTicketed
<1>4. item # Nothing => item.name \notin Names(q)
  BY <1>2 DEF Ticketed
<1>5. ASSUME NEW e \in Event, NEW parks, Leaves(a, e, parks), queue' = queue, current' = current,
             ~IsInjection(e), ~Verified(e), ~Deployed(e)
      PROVE  DeskTicketed'
  <2>1. queue'[a] = q /\ current'[a] = item
    BY <1>1, <1>5
  <2> QED BY <1>3, <1>4, <1>5, <2>1
<1>6. CASE RoutineStep(a)
  <2>1. PICK e \in Event :
          e.kind = "action_executed" /\ e.action = Step(a) /\ Leaves(a, e, FALSE)
    BY <1>6, RoutineLeaves
  <2>2. /\ Step(a) \in {"check_stock", "size_order", "verify_delivery"}
        /\ queue' = queue /\ current' = current
    BY <1>6 DEF RoutineStep
  <2> QED BY <1>5, <2>1, <2>2 DEF IsInjection, Verified, Deployed
<1>7. CASE PurchaseStep(a)
  <2>1. PICK e \in Event : /\ e.kind \in {"action_executed", "action_denied"}
                           /\ e.action = "purchase" /\ Leaves(a, e, FALSE)
    BY <1>7, PurchaseLeaves
  <2>2. queue' = queue /\ current' = current
    BY <1>7 DEF PurchaseStep
  <2> QED BY <1>5, <2>1, <2>2 DEF IsInjection, Verified, Deployed
<1>8. CASE TakeItem(a)
  <2>1. PICK e \in Event :
          e.kind = "action_executed" /\ e.action = Step(a) /\ Leaves(a, e, FALSE)
    BY <1>8, TakeLeaves
  <2>2. /\ Step(a) \in {"pop_ticket", "pick_release"} /\ q # <<>>
        /\ current'[a] = Head(q) /\ queue'[a] = Tail(q)
    BY <1>1, <1>8 DEF TakeItem, FleetTyped
  <2>3. PICK w \in Seq(ItemType) :
          /\ w = Work(a)
          /\ \A m, n \in 1 .. Len(w) : w[m].name = w[n].name => m = n
    BY WorkIsTyped
  <2>4. PICK n \in 1 .. Len(Work(a)) + 1 :
          /\ Len(q) = Len(Work(a)) + 1 - n
          /\ \A k \in 1 .. Len(q) : q[k] = Work(a)[n + k - 1]
          /\ q \in Seq(ItemType)
    BY <1>1, QueueIsRest
  <2>5. /\ Head(q) = q[1] /\ Len(q) > 0 /\ Tail(q) \in Seq(ItemType)
        /\ Len(Tail(q)) = Len(q) - 1
        /\ \A k \in 1 .. Len(q) - 1 : Tail(q)[k] = q[k + 1]
    BY <2>2, <2>4
  <2>6. Names(Tail(q)) \subseteq Names(q) /\ Head(q).name \in Names(q)
    <3>1. \A k \in DOMAIN Tail(q) : k + 1 \in DOMAIN q /\ Tail(q)[k] = q[k + 1]
      BY <2>4, <2>5
    <3>2. Names(Tail(q)) \subseteq Names(q)
      BY <3>1 DEF Names
    <3>3. 1 \in DOMAIN q /\ Head(q) = q[1]
      BY <2>4, <2>5
    <3> QED BY <3>2, <3>3 DEF Names
  <2>7. Head(q).name \notin Names(Tail(q))
    <3> SUFFICES ASSUME NEW k \in DOMAIN Tail(q), Tail(q)[k].name = Head(q).name PROVE FALSE
      BY DEF Names
    <3>1. k \in 1 .. Len(q) - 1 /\ Tail(q)[k] = q[k + 1]
      BY <2>4, <2>5
    <3>2. /\ q[k + 1] = w[n + k] /\ q[1] = w[n]
          /\ n + k \in 1 .. Len(w) /\ n \in 1 .. Len(w)
      <4>1. PICK j \in 1 .. Len(q) : j = k + 1 /\ n + j - 1 = n + k /\ 1 \in 1 .. Len(q)
        BY <2>4, <3>1
      <4>2. q[j] = w[n + j - 1] /\ q[1] = w[n + 1 - 1]
        BY <2>3, <2>4, <4>1
      <4>3. PICK len \in Nat : len = Len(w)
        BY <2>3
      <4>4. n \in 1 .. len + 1 /\ k \in 1 .. (len + 1 - n) - 1
        BY <2>3, <2>4, <3>1, <4>3
      <4>5. n + 1 - 1 = n /\ n + k \in 1 .. len /\ n \in 1 .. len
        BY <4>3, <4>4
      <4> QED BY <4>1, <4>2, <4>3, <4>5
    <3>3. w[n + k].name = w[n].name
      BY <2>5, <3>1, <3>2
    <3>4. n + k = n
      BY <2>3, <3>2, <3>3
    <3> QED BY <2>4, <3>1, <3>4
  <2> QED BY <1>3, <2>1, <2>2, <2>6, <2>7 DEF IsInjection, Verified, Deployed
<1>9. CASE NothingToTake(a)
  <2>1. PICK e \in Event : e.kind = "blocker_raised" /\ e.action = Step(a) /\ Leaves(a, e, FALSE)
    BY <1>9, BlockerLeaves
  <2>2. Step(a) \in {"pop_ticket", "pick_release"} /\ queue' = queue /\ current' = current
    BY <1>9 DEF NothingToTake, worldVars
  <2> QED BY <1>5, <2>1, <2>2 DEF IsInjection, Verified, Deployed
<1>10. CASE VerifyTicket(a)
  <2>1. PICK e \in Event : /\ e.kind = "action_executed" /\ e.action = "verify_ticket"
                           /\ e.item = item.name /\ Leaves(a, e, FALSE)
    BY <1>1, <1>10, VerifyLeaves
  <2>2. /\ item # Nothing /\ item \in ItemType /\ queue'[a] = q
        /\ current'[a] = IF a \in rogue THEN Tampered(item) ELSE item
    BY <1>1, <1>10, OnDesk, DeskItems DEF VerifyTicket, FleetTyped
  <2>3. PICK next : next = current'[a]
    OBVIOUS
  <2>4. next.name = item.name /\ (next.complete => item.complete /\ a \notin rogue)
    BY <2>2, <2>3, TamperedItem
  <2> QED BY <1>0, <1>3, <1>4, <2>1, <2>2, <2>3, <2>4 DEF IsInjection, Verified, Deployed
<1>11. CASE DecideStep(a)
  <2>1. PICK e \in Event, g \in Gathered, parks \in BOOLEAN :
          /\ e.action = "deploy_production" /\ e.item = item.name
          /\ \/ e.kind = "action_executed" /\ Outcomes(a, item, g) = "execute"
             \/ e.kind = "approval_requested" \/ e.kind = "action_denied"
          /\ Leaves(a, e, parks)
    BY <1>0, <1>1, <1>11, DecideLeaves DEF ActionOf
  <2>2. item \in Desk(a) /\ queue'[a] = q /\ current'[a] = Nothing
    BY <1>1, <1>11, OnDesk DEF DecideStep, Settle, FleetTyped
  <2>3. Deployed(e) => item.complete /\ item.name # "v12"
    BY <1>0, <2>1, <2>2, UnticketedNotExecuted, CompleteRelease DEF Deployed
  <2>4. ~Nothing.complete
    BY NothingIsTyped
  <2> QED BY <1>3, <2>1, <2>2, <2>3, <2>4 DEF IsInjection, Verified, Deployed
<1> QED BY <1>0, <1>6, <1>7, <1>8, <1>9, <1>10, <1>11 DEF Advance

\* A receipt on any trail.
LEMMA ReceiptTicketed ==
    ASSUME FleetTyped, NEW a \in Agents, NEW e \in Event, ~Verified(e), ~Deployed(e),
           log' = [log EXCEPT ![a] = Append(log[a], e)], queue' = queue, current' = current,
           rogue \subseteq rogue', a = "deploybot" /\ IsInjection(e) => "deploybot" \in rogue',
           DeskTicketed
    PROVE  DeskTicketed'
<1> SUFFICES ASSUME "deploybot" \in Agents
             PROVE  Ticketed(log'["deploybot"], Names(queue["deploybot"]),
                             current["deploybot"], rogue')
  BY DEF DeskTicketed, Names
<1>1. PICK b \in Agents : b = "deploybot"
  OBVIOUS
<1>2. PICK s, waiting, item :
        /\ s \in Seq(Event)
        /\ s = log[b] /\ waiting = Names(queue[b]) /\ item = current[b]
  BY DEF FleetTyped
<1>3. PICK rogues, corrupt : rogues = rogue /\ corrupt = rogue' /\ rogues \subseteq corrupt
  OBVIOUS
<1>4. Ticketed(s, waiting, item, rogues)
  BY <1>1, <1>2, <1>3 DEF DeskTicketed
<1>5. CASE a # b
  <2>1. log'[b] = s
    BY <1>2, <1>5 DEF FleetTyped
  <2>2. Ticketed(s, waiting, item, corrupt)
    BY <1>3, <1>4 DEF Ticketed
  <2> QED BY <1>1, <1>2, <1>3, <2>1, <2>2
<1>6. CASE a = b
  <2>1. PICK t \in Seq(Event), p \in Nat : log'[b] = t /\ Records(s, t, p, e)
    BY <1>2, <1>6, ReceiptRecords DEF FleetTyped
  <2>2. item # Nothing => item.name \notin waiting
    BY <1>4 DEF Ticketed
  <2>3. IsInjection(e) => "deploybot" \in corrupt
    BY <1>1, <1>3, <1>6
  <2>4. Ticketed(t, waiting, item, corrupt)
    BY <1>2, <1>3, <1>4, <2>1, <2>2, <2>3, TicketedStep
  <2> QED BY <1>1, <1>2, <1>3, <2>1, <2>4
<1> QED BY <1>5, <1>6

\* A fresh world has deployed nothing.
LEMMA FreshTicketed ==
    ASSUME NEW trail, trail = <<>> \/ trail = <<Enrolled>>, NEW waiting
    PROVE  Ticketed(trail, waiting, Nothing, {})
<1>1. \A n \in DOMAIN trail : trail[n].kind = "intervention_applied"
  BY EnrolledTyped
<1>2. ~Nothing.complete
  BY NothingIsTyped
<1> QED BY <1>1, <1>2 DEF Ticketed, Deployed, Verified, IsInjection

\* Every step of anyone.
LEMMA TicketedNext ==
    GateInv /\ FleetTyped /\ DeskTicketed /\ [TowerNext]_towerVars => DeskTicketed'
<1> SUFFICES ASSUME GateTypeOK, FleetTyped, DeskTicketed, [TowerNext]_towerVars
             PROVE  DeskTicketed'
  BY DEF GateInv
<1>1. ASSUME NEW a \in Agents, Advance(a) PROVE DeskTicketed'
  <2>1. CASE a = "deploybot"
    BY <1>1, <2>1, AdvanceTicketed
  <2>2. CASE a # "deploybot"
    <3>1. rogue' = rogue
      BY <1>1 DEF Advance, RoutineStep, PurchaseStep, TakeItem, NothingToTake, VerifyTicket,
                  DecideStep, worldVars
    <3>2. ASSUME NEW b \in Agents, b = "deploybot"
          PROVE  log'[b] = log[b] /\ queue'[b] = queue[b] /\ current'[b] = current[b]
      BY <1>1, <2>2, <3>2, OthersUntouched
    <3> QED BY <3>1, <3>2 DEF DeskTicketed, Names
  <2> QED BY <2>1, <2>2
<1>2. ASSUME NEW a \in Agents, HumanPause(a) \/ HumanResume(a) \/ HumanKill(a) \/ InjectRogue(a)
      PROVE  DeskTicketed'
  <2>1. PICK e \in Event : /\ log' = [log EXCEPT ![a] = Append(log[a], e)]
                           /\ \/ e.kind = "intervention_applied"
                              \/ e.kind = "blocker_raised" /\ InjectRogue(a)
    BY <1>2, HumanTyped DEF Receipted
  <2>2. /\ queue' = queue /\ current' = current /\ rogue \subseteq rogue'
        /\ InjectRogue(a) => a \in rogue'
    BY <1>2 DEF HumanPause, HumanResume, HumanKill, InjectRogue, Intervene, worldVars
  <2> QED BY <2>1, <2>2, ReceiptTicketed DEF Verified, Deployed, IsInjection
<1>3. ASSUME NEW i \in DOMAIN approvals, HumanVerdict(i) PROVE DeskTicketed'
  <2>1. PICK a \in Agents, e \in Event :
          e.kind = "approval_resolved" /\ log' = [log EXCEPT ![a] = Append(log[a], e)]
    BY <1>3, VerdictTyped DEF Receipted
  <2>2. queue' = queue /\ current' = current /\ rogue' = rogue
    BY <1>3 DEF HumanVerdict, worldVars
  <2> QED BY <2>1, <2>2, ReceiptTicketed DEF Verified, Deployed, IsInjection
<1>4. ASSUME Reset \/ SeedDemo PROVE DeskTicketed'
  <2> SUFFICES ASSUME NEW b \in Agents, b = "deploybot"
               PROVE  Ticketed(log'[b], Names(queue'[b]), current'[b], rogue')
    BY DEF DeskTicketed, Names
  <2>1. current'[b] = Nothing /\ rogue' = {} /\ (log'[b] = <<>> \/ log'[b] = <<Enrolled>>)
    BY <1>4, ResetTyped DEF Reset, SeedDemo, FreshWorld
  <2> QED BY <2>1, FreshTicketed
<1>5. CASE UNCHANGED towerVars
  BY <1>5 DEF towerVars, worldVars, DeskTicketed, Names
<1> QED BY <1>1, <1>2, <1>3, <1>4, <1>5 DEF TowerNext

\* Nothing is deployed at first.
LEMMA TicketedInit == TowerInit => DeskTicketed
<1> SUFFICES ASSUME TowerInit, NEW b \in Agents, b = "deploybot"
             PROVE  Ticketed(log[b], Names(queue[b]), current[b], rogue)
  BY DEF DeskTicketed
<1>1. current[b] = Nothing /\ rogue = {} /\ log[b] = <<>>
  BY DEF TowerInit
<1> QED BY <1>1, FreshTicketed

\* A release that lacks its change ticket, by birth or because a corrupted
\* deploybot stripped it (deploy_step()), is never deployed: the evidence weight
\* keeps it under the deploy policy's bar for any authority and any track record
\* DecisionCore may be told of.
THEOREM UnticketedIsNeverDeployed == TowerSpec => []UnticketedNeverDeploys
<1>1. TowerInit => DeskTicketed BY TicketedInit
<1>2. GateInv /\ FleetTyped /\ DeskTicketed /\ [TowerNext]_towerVars => DeskTicketed'
  BY TicketedNext
<1>3. DeskTicketed => UnticketedNeverDeploys BY TicketedMeansIt
<1> QED BY <1>1, <1>2, <1>3, TowerTyped, PTL DEF TowerSpec

=============================================================================
