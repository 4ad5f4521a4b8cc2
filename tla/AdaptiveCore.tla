----------------------------- MODULE AdaptiveCore -----------------------------
(***************************************************************************)
(* AdaptiveService (core/adaptivecore/application/services.py): runs that  *)
(* execute a restock plan one step per advance(), while events change the  *)
(* world they share: the suppliers, the budget ledger of SimCore, and the  *)
(* authority that TrustCore verifies.                                      *)
(*                                                                         *)
(* Each run has one request at a time, cut where it has read what others   *)
(* write: after the observation, after the gate's verdict, after           *)
(* TrustCore's decision, and between the spend and the budget check.  The  *)
(* requests of different runs, and events, interleave at these cuts.       *)
(***************************************************************************)
EXTENDS AdaptivePlan, DecisionPolicy, BudgetLedger

CONSTANTS
    Runs,       \* bound: run ids
    Starts,     \* run id -> how start_run() may start it: [world, primary, span, mode]
    Cycles,     \* run id -> the cycles a request may make: 1 for advance(), MaxCycles
    Injections, \* the events that may come: [kind, supplier, value]
    MaxEvents,  \* bound: events in the stream
    MaxCycles   \* run_to_end()'s guard

WorldEvents == {"price_changed", "supplier_unavailable", "delivery_delayed"}
BudgetEvents == {"hold_placed", "hold_released"}

ASSUME AdaptiveAssumption ==
    /\ "other" \notin Runs
    /\ MaxCycles \in Nat \ {0}
    /\ Cycles \in [Runs -> SUBSET {1, MaxCycles}]
    /\ \A r \in Runs : Starts[r] \subseteq
        [world : [Suppliers -> [price : Nat \ {0}, available : BOOLEAN, days : Nat]],
         primary : Suppliers, span : Nat, mode : {"adaptive", "baseline"}]
    /\ \A r \in Runs : \A s \in Starts[r] : s.world[s.primary].price <= PriceCap
    /\ \A e \in Injections :
        /\ e.kind \in WorldEvents \cup BudgetEvents \cup {"authority_revoked"}
        /\ e.kind \in WorldEvents => e.supplier \in Suppliers
        /\ e.value \in Nat /\ (e.kind = "price_changed" => e.value > 0)

VARIABLES
    suppliers,  \* the world store
    granted,    \* the agent's purchase grant is valid (TrustCore)
    record,     \* the agent's purchase receipts: [total, favorable]
    events,     \* the event stream; an event's seq is its place
    injecting,  \* the event whose effect is applied and that is not yet appended
    run,        \* run id -> run record, with its plan in force
    request     \* run id -> the request that advances it

adaptiveVars == <<ledgerVars, suppliers, granted, record, events, injecting, run, request>>

NoEvent == [kind |-> "none", supplier |-> NoSupplier, value |-> 0]
NoPlan == Plan(0, <<>>)
Unstarted ==
    [status |-> "none", mode |-> "none", plan |-> NoPlan, cursor |-> 0, damping |-> <<>>]

\* `left` counts the advances the request may still make, this one included.
Serving(at, left) == [at |-> at, left |-> left]
Idle == Serving("idle", 0)
IsAt(r, place) == request[r].at = place
Goes(r, place) == request' = [request EXCEPT ![r].at = place]

\* One advance() is over, with the run in this status: run_to_end() goes on while
\* the run is running and the guard has cycles left.
CycleEnds(r, status) ==
    request' = [request EXCEPT ![r] =
        IF status = "running" /\ @.left > 1 THEN Serving("observe", @.left - 1) ELSE Idle]

\* _snapshot_world()
World == [suppliers |-> suppliers, headroom |-> Limit - Committed, authority |-> granted]

\* _gate_step() of an order, through DecisionCore: all its evidence is there.
GateOutcome(amount) ==
    Decision("purchase",
             [authority |-> IF granted THEN "valid" ELSE "invalid", required |-> 2,
              optional |-> 1, amount |-> amount \div 10, total |-> record.total,
              favorable |-> record.favorable])

-----------------------------------------------------------------------------

\* start_run(); the suppliers of the scenario overwrite those in the world.
StartRun(r) ==
    /\ run[r].status = "none"
    /\ \E scenario \in Starts[r] :
        LET plan == InitialPlan(scenario.primary, scenario.world[scenario.primary].price)
        IN  /\ suppliers' = scenario.world
            /\ run' = [run EXCEPT ![r] =
                    [status |-> "running", mode |-> scenario.mode, plan |-> plan,
                     cursor |-> Len(events), damping |-> DampingInit(plan, scenario.span)]]
    /\ UNCHANGED <<ledgerVars, granted, record, events, injecting, request>>

\* release_hold(): the oldest hold that is large enough.
Releasable(amount) ==
    {n \in Outstanding : ledger[n].kind = "hold" /\ ledger[n].amount >= amount}

WorldMoves(e) ==
    /\ suppliers' =
        CASE e.kind = "price_changed" -> [suppliers EXCEPT ![e.supplier].price = e.value]
          [] e.kind = "supplier_unavailable" -> [suppliers EXCEPT ![e.supplier].available = FALSE]
          [] e.kind = "delivery_delayed" -> [suppliers EXCEPT ![e.supplier].days = e.value]
    /\ UNCHANGED <<ledgerVars, granted>>

BudgetMoves(e) ==
    /\ \/ e.kind = "hold_placed" /\ PlaceHold(e.value, "other")
       \/ /\ e.kind = "hold_released"
          /\ \E n \in Releasable(e.value) :
                /\ \A m \in Releasable(e.value) : n <= m
                /\ Refund(n, "other")
    /\ UNCHANGED <<suppliers, granted>>

\* inject_event(): the effect first ...
InjectApply(e) ==
    /\ injecting = NoEvent
    /\ Len(events) < MaxEvents
    /\ \E r \in Runs : run[r].status # "none"
    /\ CASE e.kind \in WorldEvents -> WorldMoves(e)
         [] e.kind \in BudgetEvents -> BudgetMoves(e)
         [] e.kind = "authority_revoked" -> granted' = FALSE /\ UNCHANGED <<ledgerVars, suppliers>>
    /\ injecting' = e
    /\ UNCHANGED <<record, events, run, request>>

\* ... then the event.
InjectAppend ==
    /\ injecting # NoEvent
    /\ events' = Append(events, injecting)
    /\ injecting' = NoEvent
    /\ UNCHANGED <<ledgerVars, suppliers, granted, record, run, request>>

\* Mutant: a run is advanced whatever its status.
AdvanceAny(r) ==
    /\ IsAt(r, "idle") /\ run[r].status # "none"
    /\ \E left \in Cycles[r] :
        request' = [request EXCEPT ![r] = Serving("observe", left)]
    /\ UNCHANGED <<ledgerVars, suppliers, granted, record, events, injecting, run>>

\* advance() and run_to_end() of a run that is running
Advance(r) ==
    /\ IsAt(r, "idle") /\ run[r].status = "running"
    /\ \E left \in Cycles[r] :
        request' = [request EXCEPT ![r] = Serving("observe", left)]
    /\ UNCHANGED <<ledgerVars, suppliers, granted, record, events, injecting, run>>

-----------------------------------------------------------------------------
(* _observe(): new events are read, then the world. *)

Fresh(r) == {events[n] : n \in (run[r].cursor + 1) .. Len(events)}

\* revise_plan(): a plan for one of the choices, or none.
Candidates(r, found) ==
    LET plan == run[r].plan
        choices == OrderChoices(plan, World)
    IN  IF choices = {} THEN {NoPlan}
        ELSE {Revised(plan, World, s, IsCascade(plan, found)) : s \in choices}

ShapeOf(candidate) == IF candidate = NoPlan THEN <<>> ELSE ChoiceSignature(candidate)

\* The gate lets the order of the candidate pass.
Activatable(candidate) ==
    GateOutcome(Total(candidate.steps[PlaceOrder])) \notin {"refuse", "escalate"}

\* What becomes of what was found: damping comes first, then the lack of a
\* feasible plan, then the gate.
Verdict(r, found, candidate) ==
    LET damping == DampingVerdict(run[r].damping, found, ShapeOf(candidate), Len(events))
    IN  IF found = {} THEN "calm"
        ELSE IF damping # "allowed" THEN damping
        ELSE IF candidate = NoPlan THEN "escalate"
        ELSE IF Activatable(candidate) THEN "revise" ELSE "block"

\* The outcomes of an observation.
Observations(r) ==
    LET found == Contradictions(run[r].plan, World, Fresh(r))
    IN  {[found |-> found, candidate |-> c, verdict |-> Verdict(r, found, c)] :
            c \in IF found = {} THEN {NoPlan} ELSE Candidates(r, found)}

\* The plan in force, which shares its executed steps with the candidate.
InForce(r, o) ==
    IF o.candidate = NoPlan \/ ~IsCascade(run[r].plan, o.found) THEN run[r].plan
    ELSE [run[r].plan EXCEPT
            !.steps[VerifyPrice].watches = o.candidate.steps[VerifyPrice].watches]

\* The cursor moves past the events, whatever is made of them.
Observed(r, o, status) ==
    run' = [run EXCEPT ![r] =
        [@ EXCEPT !.cursor = Len(events), !.status = status, !.plan = InForce(r, o)]]

\* Nothing that counts is contradicted, or damping absorbs what is.
Keeps(r, o) ==
    /\ o.verdict \in {"calm", "damped"}
    /\ Observed(r, o, "running")
    /\ Goes(r, "execute")

\* Mutant: the run does not take note that it is handed over.
EscalatesQuietly(r, o) ==
    /\ o.verdict = "escalate"
    /\ Observed(r, o, "running")
    /\ CycleEnds(r, "running")

\* Damping, or the lack of a feasible plan, hands the run to a human.
Escalates(r, o) ==
    /\ o.verdict = "escalate"
    /\ Observed(r, o, "escalated")
    /\ CycleEnds(r, "escalated")

\* The gate refuses the revised order.
Blocks(r, o) ==
    /\ o.verdict = "block"
    /\ Observed(r, o, "awaiting_human")
    /\ CycleEnds(r, "awaiting_human")

\* The candidate becomes the plan in force.
Revises(r, o) ==
    /\ o.verdict = "revise"
    /\ run' = [run EXCEPT ![r] = [@ EXCEPT
            !.cursor = Len(events),
            !.plan = o.candidate,
            !.damping = AfterRevision(run[r].damping, o.found, ShapeOf(o.candidate), Len(events))]]
    /\ Goes(r, "execute")

Observe(r) ==
    /\ IsAt(r, "observe")
    /\ run[r].mode = "adaptive"
    /\ \E o \in Observations(r) : Keeps(r, o) \/ Escalates(r, o) \/ Blocks(r, o) \/ Revises(r, o)
    /\ UNCHANGED <<ledgerVars, suppliers, granted, record, events, injecting>>

-----------------------------------------------------------------------------
(* _execute_step() and _advance_baseline() *)

\* The step gets its status, and the run its own.
Concluded(r, i, stepStatus, status) ==
    /\ run' = [run EXCEPT ![r] = [@ EXCEPT !.plan.steps[i].status = stepStatus, !.status = status]]
    /\ CycleEnds(r, status)

Complete(r) ==
    /\ run' = [run EXCEPT ![r].status = "completed"]
    /\ CycleEnds(r, "completed")

\* A step that changes nothing outside is done at once.
Execute(r) ==
    LET plan == run[r].plan
    IN  /\ IsAt(r, "execute")
        /\ IF PendingSteps(plan) = {} THEN Complete(r)
           ELSE IF NextStep(plan) = PlaceOrder THEN Goes(r, "gate") /\ UNCHANGED run
           ELSE Concluded(r, NextStep(plan), "done", "running")
        /\ UNCHANGED <<ledgerVars, suppliers, granted, record, events, injecting>>

\* A baseline run moves its cursor and looks at no event.
ExecuteBaseline(r) ==
    LET plan == run[r].plan
        supplier == plan.steps[PlaceOrder].supplier
    IN  /\ IsAt(r, "observe")
        /\ run[r].mode = "baseline"
        /\ IF PendingSteps(plan) = {} THEN Complete(r)
           ELSE IF NextStep(plan) # PlaceOrder THEN Concluded(r, NextStep(plan), "done", "running")
           ELSE IF ~suppliers[supplier].available THEN Concluded(r, PlaceOrder, "failed", "failed")
           ELSE Goes(r, "decide") /\ UNCHANGED run
        /\ UNCHANGED <<ledgerVars, suppliers, granted, record, events, injecting>>

\* The order is gated; refuse and escalate block it, ask and defer put it off.
OrderGate(r) ==
    LET outcome == GateOutcome(Total(run[r].plan.steps[PlaceOrder]))
    IN  /\ IsAt(r, "gate")
        /\ IF outcome = "execute" THEN Goes(r, "decide") /\ UNCHANGED run
           ELSE Concluded(r, PlaceOrder,
                          IF outcome \in {"refuse", "escalate"} THEN "blocked" ELSE "deferred",
                          "awaiting_human")
        /\ UNCHANGED <<ledgerVars, suppliers, granted, record, events, injecting>>

\* TrustCore decides on the purchase and remembers it.
OrderDecide(r) ==
    /\ IsAt(r, "decide")
    /\ record' = [total |-> record.total + 1,
                  favorable |-> record.favorable + (IF granted THEN 1 ELSE 0)]
    /\ IF granted THEN Goes(r, "spend") /\ UNCHANGED run
       ELSE Concluded(r, PlaceOrder, "failed",
                      IF run[r].mode = "adaptive" THEN "escalated" ELSE "failed")
    /\ UNCHANGED <<ledgerVars, suppliers, granted, events, injecting>>

\* The planned amount, also in a baseline run, whose plan is never revised.
OrderSpend(r) ==
    /\ IsAt(r, "spend")
    /\ Spend(Total(run[r].plan.steps[PlaceOrder]), r)
    /\ Goes(r, "check")
    /\ UNCHANGED <<suppliers, granted, record, events, injecting, run>>

\* Mutant: the check is left to the next cycle.
OrderUnchecked(r) ==
    /\ IsAt(r, "check")
    /\ Concluded(r, PlaceOrder, "done", "running")
    /\ UNCHANGED <<ledgerVars, suppliers, granted, record, events, injecting>>

\* invariant_ok()
OrderCheck(r) ==
    /\ IsAt(r, "check")
    /\ IF OverLimit THEN Concluded(r, PlaceOrder, "failed", "escalated")
       ELSE Concluded(r, PlaceOrder, "done", "running")
    /\ UNCHANGED <<ledgerVars, suppliers, granted, record, events, injecting>>

AdaptiveInit ==
    /\ LedgerInit
    /\ \E r \in Runs : \E scenario \in Starts[r] : suppliers = scenario.world
    /\ granted = TRUE
    /\ record = [total |-> 0, favorable |-> 0]
    /\ events = <<>>
    /\ injecting = NoEvent
    /\ run = [r \in Runs |-> Unstarted]
    /\ request = [r \in Runs |-> Idle]

\* What a request does once it has begun.
Serve(r) ==
    \/ Observe(r) \/ Execute(r) \/ ExecuteBaseline(r)
    \/ OrderGate(r) \/ OrderDecide(r) \/ OrderSpend(r) \/ OrderCheck(r)

AdaptiveNext ==
    \/ \E r \in Runs : StartRun(r) \/ Advance(r) \/ Serve(r)
    \/ \E e \in Injections : InjectApply(e)
    \/ InjectAppend

\* A thread that serves a request runs on; nobody has to start, advance or inject.
AdaptiveSpec ==
    /\ AdaptiveInit
    /\ [][AdaptiveNext]_adaptiveVars
    /\ \A r \in Runs : WF_adaptiveVars(Serve(r))

-----------------------------------------------------------------------------

Status == {"none", "running", "completed", "escalated", "awaiting_human", "failed"}
StepType == [status : {"pending", "done", "failed", "blocked", "deferred"},
             supplier : Suppliers \cup {NoSupplier}, qty : Nat, unit : Nat,
             watches : Suppliers \cup {NoSupplier}]
PlanType == [version : Nat \ {0}, steps : [Steps -> StepType]]
ShapeType == [Steps -> [supplier : Suppliers \cup {NoSupplier}, tens : Nat]]
DampingType == [count : 0 .. MaxRevisions, until : Nat, shapes : Seq(ShapeType),
                price : Int, budget : Int, span : Nat]
RunType == [status : Status \ {"none"}, mode : {"adaptive", "baseline"}, plan : PlanType,
            cursor : Nat, damping : DampingType]
Stage == {"idle", "observe", "execute", "gate", "decide", "spend", "check"}

\* The variables hold what the code stores in them, and a request in flight serves
\* a run that is running.
AdaptiveTypeOK ==
    /\ LedgerTypeOK(Runs \cup {"other"})
    /\ suppliers \in [Suppliers -> [price : Nat \ {0}, available : BOOLEAN, days : Nat]]
    /\ granted \in BOOLEAN
    /\ record \in [total : Nat, favorable : Nat]
    /\ events \in Seq(Injections)
    /\ injecting \in Injections \cup {NoEvent}
    /\ run \in [Runs -> RunType \cup {Unstarted}]
    /\ request \in [Runs -> [at : Stage, left : 0 .. MaxCycles]]
    /\ \A r \in Runs : ~IsAt(r, "idle") => run[r].status = "running"

Started(r) == run[r].status # "none"
SpendsOf(r) == {n \in DOMAIN ledger : ledger[n].kind = "spend" /\ ledger[n].by = r}

\* However often a run is revised, and whatever its revisions carry over or size
\* anew, it pays once, what the order in its plan says, and an order it paid for
\* is never pending again.
OrderedOnce ==
    \A r \in Runs : Started(r) =>
        LET order == run[r].plan.steps[PlaceOrder]
            paid == IsAt(r, "check") \/ order.status = "done" \/ run[r].status = "escalated"
        IN  /\ order.status = "done" => SpendsOf(r) # {}
            /\ SpendsOf(r) # {} => paid /\ (order.status = "pending" => IsAt(r, "check"))
            /\ \A n \in SpendsOf(r) : SpendsOf(r) = {n} /\ ledger[n].amount = Total(order)

\* Damping contains adaptation: a run makes at most MaxRevisions revisions, each a
\* new version, and never goes back to the choice it has just left.
AdaptationIsContained ==
    \A r \in Runs : Started(r) =>
        LET d == run[r].damping
        IN  /\ run[r].plan.version = d.count + 1
            /\ d.count <= MaxRevisions
            /\ Len(d.shapes) = d.count + 1
            /\ d.shapes[Len(d.shapes)] = ChoiceSignature(run[r].plan)
            /\ \A i \in 1 .. Len(d.shapes) - 2 : d.shapes[i] # d.shapes[i + 2]

\* Two runs and other teams share one budget, and nobody reserves: when it is
\* overdrawn and all requests have ended, the run that spent last is escalated,
\* unless a hold, which nobody checks, came after its spend.
OverdraftIsHandedOver ==
    (\A r \in Runs : IsAt(r, "idle")) /\ OverLimit =>
        LET last == CHOOSE n \in Outstanding : \A m \in Outstanding : m <= n
        IN  ledger[last].kind = "spend" => run[ledger[last].by].status = "escalated"

\* A revision is worth its while: in the world it was made for, no assumption of a
\* step that is still to come is contradicted.
RevisedPlanIsSound ==
    [][\A r \in Runs :
        Started(r) /\ run[r].plan.version' > run[r].plan.version =>
            \A i \in PendingSteps(run'[r].plan) :
                \A a \in AssumptionsOf(run'[r].plan, i) : ~Broken(a, World)]_adaptiveVars

RunStands(r) ==
    /\ \A i \in Steps : IsDone(run[r].plan, i) =>
            LET before == run[r].plan.steps[i]
                after == run'[r].plan.steps[i]
            IN  after = [before EXCEPT !.watches = after.watches]
    /\ run[r].status # "running" => run'[r] = run[r]

\* A revision never touches what was executed, and once a run is handed to a
\* human, has failed or is completed, its plan and its status stay, whatever
\* events still come.
ExecutedStepsStand == [][\A r \in Runs : Started(r) => RunStands(r)]_adaptiveVars

\* run_to_end() does what its name says, against events that keep coming: it ends
\* because the run has left "running", never because the cycle guard trips.
RunToEndEndsTheRun ==
    \A r \in Runs : request[r].left > 1 ~> Started(r) /\ run[r].status # "running"

-----------------------------------------------------------------------------

\* What the last step reports ("restock confirmed: {qty} units"): a completed run
\* confirms, and has delivered, what it has ordered and from whom.
ConfirmsWhatWasOrdered ==
    \A r \in Runs : run[r].status = "completed" =>
        LET ordered == run[r].plan.steps[PlaceOrder]
        IN  /\ run[r].plan.steps[ConfirmRestock].qty = ordered.qty
            /\ run[r].plan.steps[ScheduleDelivery].supplier = ordered.supplier

=============================================================================
