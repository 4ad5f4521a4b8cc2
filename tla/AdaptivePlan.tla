----------------------------- MODULE AdaptivePlan -----------------------------
(***************************************************************************)
(* The pure core of AdaptiveCore (core/adaptivecore/domain): the five      *)
(* steps of a restock plan and what each assumes, the check of these       *)
(* assumptions against the world, the revision of a plan, and the damping  *)
(* of revisions.  Prices and amounts are integers in units of ten cents.   *)
(* A world is [suppliers, headroom, authority] as _snapshot_world() reads  *)
(* it, with the budget reduced to what is left of it.                      *)
(***************************************************************************)
EXTENDS Integers, Sequences, FiniteSets

CONSTANTS
    Suppliers,      \* supplier names
    Qty,            \* units the mission is to restock
    PriceCap,       \* the mission's price tolerance
    MaxDays,        \* the mission's delivery window
    MaxRevisions    \* DampingState.max_revisions

ASSUME PlanAssumption ==
    /\ Qty \in Nat \ {0}
    /\ PriceCap \in Nat \ {0}
    /\ MaxDays \in Nat
    /\ MaxRevisions \in Nat

NoSupplier == "-"
NoNumber == -1

\* The steps, by their place in a plan.
VerifyPrice == 1
VerifyAuthority == 2
PlaceOrder == 3
ScheduleDelivery == 4
ConfirmRestock == 5
Steps == VerifyPrice .. ConfirmRestock

\* `watches` is the supplier of the step's price assumption, whose cap is always
\* PriceCap: no plan is built for a supplier above it.
Step(supplier, qty, unit, watches) ==
    [status |-> "pending", supplier |-> supplier, qty |-> qty, unit |-> unit,
     watches |-> watches]

\* _fresh_steps(); on a cascade the order, too, defends its price.
FreshSteps(supplier, qty, unit, cascade) ==
    <<Step(supplier, 0, unit, supplier),
      Step(NoSupplier, 0, 0, NoSupplier),
      Step(supplier, qty, unit, IF cascade THEN supplier ELSE NoSupplier),
      Step(supplier, 0, 0, NoSupplier),
      Step(supplier, qty, 0, NoSupplier)>>

Plan(version, steps) == [version |-> version, steps |-> steps]
InitialPlan(supplier, unit) == Plan(1, FreshSteps(supplier, Qty, unit, FALSE))

Total(step) == step.qty * step.unit
IsPending(plan, i) == plan.steps[i].status = "pending"
IsDone(plan, i) == plan.steps[i].status = "done"
PendingSteps(plan) == {i \in Steps : IsPending(plan, i)}

\* The first step that is pending.
NextStep(plan) == CHOOSE i \in PendingSteps(plan) : \A j \in PendingSteps(plan) : i <= j

\* round(qty / 10) goes to the even neighbour of a half.
Tens(qty) ==
    LET q == qty \div 10
        r == qty % 10
    IN  IF r > 5 \/ (r = 5 /\ q % 2 = 1) THEN q + 1 ELSE q

\* choice_signature(): the supplier and the size each step chose.
ChoiceSignature(plan) ==
    [i \in Steps |-> [supplier |-> plan.steps[i].supplier, tens |-> Tens(plan.steps[i].qty)]]

-----------------------------------------------------------------------------
(* Detection (detection.py). *)

Assumption(kind, supplier, need) == [kind |-> kind, supplier |-> supplier, need |-> need]

AssumptionsOf(plan, i) ==
    LET s == plan.steps[i]
        price == IF s.watches = NoSupplier THEN {}
                 ELSE {Assumption("price", s.watches, PriceCap)}
    IN  CASE i = VerifyPrice -> price
          [] i = VerifyAuthority -> {Assumption("authority", NoSupplier, 0)}
          [] i = PlaceOrder ->
                price \cup {Assumption("budget", NoSupplier, Total(s)),
                            Assumption("available", s.supplier, 0),
                            Assumption("authority", NoSupplier, 0),
                            Assumption("better", s.supplier, 0)}
          [] i = ScheduleDelivery -> {Assumption("delivery", s.supplier, MaxDays)}
          [] OTHER -> {}

\* A supplier the mission may order from, and what it could order.
Feasible(world, s) ==
    LET info == world.suppliers[s]
    IN  /\ info.available
        /\ info.days <= MaxDays
        /\ info.price <= PriceCap
        /\ info.price <= world.headroom

\* check_assumption() reports a contradiction.
Broken(a, world) ==
    \/ /\ a.kind = "price"
       /\ world.suppliers[a.supplier].available
       /\ world.suppliers[a.supplier].price > a.need
    \/ a.kind = "available" /\ ~world.suppliers[a.supplier].available
    \/ a.kind = "budget" /\ world.headroom < a.need
    \/ a.kind = "authority" /\ ~world.authority
    \/ a.kind = "delivery" /\ world.suppliers[a.supplier].days > a.need
    \/ /\ a.kind = "better"
       /\ world.suppliers[a.supplier].available
       /\ \E s \in Suppliers :
            /\ Feasible(world, s)
            /\ 100 * world.suppliers[s].price < 98 * world.suppliers[a.supplier].price

\* _observed_number(): a price, or a headroom that is not negative.
ObservedNumber(a, world) ==
    CASE a.kind = "price" -> world.suppliers[a.supplier].price
      [] a.kind = "budget" -> IF world.headroom < 0 THEN NoNumber ELSE world.headroom
      [] OTHER -> NoNumber

\* _relevant(); no event is ever attributed to a better alternative.
Relevant(e, a) ==
    CASE e.kind = "price_changed" -> a.kind = "price" /\ e.supplier = a.supplier
      [] e.kind = "supplier_unavailable" ->
            a.kind \in {"available", "price", "delivery"} /\ e.supplier = a.supplier
      [] e.kind = "delivery_delayed" -> a.kind = "delivery" /\ e.supplier = a.supplier
      [] e.kind \in {"hold_placed", "hold_released"} -> a.kind = "budget"
      [] e.kind = "authority_revoked" -> a.kind = "authority"
      [] OTHER -> FALSE

\* The steps detect_contradictions() looks at.
Verified(plan) ==
    IF PendingSteps(plan) = {} THEN {}
    ELSE {i \in Steps : IsPending(plan, i) \/ IsDone(plan, i)}

\* detect_contradictions(), less those _observe() takes for progress of the run
\* itself: on an executed step only what a fresh event has touched counts.
Contradictions(plan, world, fresh) ==
    LET counts(i, a) == IsPending(plan, i) \/ \E e \in fresh : Relevant(e, a)
    IN  UNION {{[step |-> i, kind |-> a.kind, number |-> ObservedNumber(a, world)] :
                    a \in {b \in AssumptionsOf(plan, i) : Broken(b, world) /\ counts(i, b)}} :
               i \in Verified(plan)}

-----------------------------------------------------------------------------
(* Revision (replan.py). *)

\* Mutant: the order keeps the mission's quantity.
OrderSizeInFull(world, s) == Qty

\* The mission's quantity, or what can be paid of it.
OrderSize(world, s) ==
    LET affordable == world.headroom \div world.suppliers[s].price
    IN  IF affordable < Qty THEN affordable ELSE Qty

Better(x, y) == x.price < y.price \/ (x.price = y.price /\ x.days < y.days)

\* The cheapest feasible supplier, the faster one of two; the one in the plan if
\* none is cheaper.  (The code breaks a tie that is left by name.)
OrderChoices(plan, world) ==
    LET feasible == {s \in Suppliers : Feasible(world, s)}
        info(s) == world.suppliers[s]
        current == plan.steps[PlaceOrder].supplier
    IN  IF current \in feasible /\ \A s \in feasible : info(current).price <= info(s).price
        THEN {current}
        ELSE {s \in feasible : \A t \in feasible : ~Better(info(t), info(s))}

\* A price was contradicted that an executed step had read.
IsCascade(plan, contradictions) ==
    \E c \in contradictions : c.kind = "price" /\ IsDone(plan, c.step)

\* The steps a revision carries over; on a cascade it rewrites what the executed
\* price check watches.  These are the step objects of the plan in force.
Carried(plan, supplier, cascade) ==
    IF cascade /\ IsDone(plan, VerifyPrice)
    THEN [plan.steps EXCEPT ![VerifyPrice].watches = supplier]
    ELSE plan.steps

\* Mutant: an executed step is planned again.
RevisedFromScratch(plan, world, s, cascade) ==
    Plan(plan.version + 1,
         FreshSteps(s, OrderSize(world, s), world.suppliers[s].price, cascade))

\* revise_plan() for supplier s
Revised(plan, world, s, cascade) ==
    LET fresh == FreshSteps(s, OrderSize(world, s), world.suppliers[s].price, cascade)
    IN  Plan(plan.version + 1,
             [i \in Steps |-> IF IsDone(plan, i) THEN Carried(plan, s, cascade)[i] ELSE fresh[i]])

-----------------------------------------------------------------------------
(* Damping (damping.py). *)

DampingInit(plan, cooldownSpan) ==
    [count |-> 0, until |-> 0, shapes |-> <<ChoiceSignature(plan)>>,
     price |-> NoNumber, budget |-> NoNumber, span |-> cooldownSpan]

LastTrigger(d, kind) ==
    CASE kind = "price" -> d.price [] kind = "budget" -> d.budget [] OTHER -> NoNumber

Distance(m, n) == IF m < n THEN n - m ELSE m - n

\* Rule 1: the observed number moved no more than the margin of 2% (and the floor
\* of one cent) since the last trigger of its kind.
Hysteresis(d, c) ==
    LET last == LastTrigger(d, c.kind)
        delta == Distance(c.number, last)
    IN  /\ c.number # NoNumber /\ last # NoNumber
        /\ delta = 0 \/ 50 * delta <= last

Surviving(d, contradictions) == {c \in contradictions : ~Hysteresis(d, c)}

\* Mutant: the candidate is compared with the plan in force.
OscillatesNow(d, shape) == d.shapes[Len(d.shapes)] = shape

\* Rule 3: the candidate repeats the choice of the plan before the one in force.
Oscillates(d, shape) == Len(d.shapes) >= 2 /\ d.shapes[Len(d.shapes) - 1] = shape

\* Mutant: the budget allows one more.
ExhaustedLate(d) == d.count > MaxRevisions

\* Rule 2
Exhausted(d) == d.count >= MaxRevisions

\* evaluate_damping(): the rules in the order of the code.
DampingVerdict(d, contradictions, shape, seq) ==
    IF Oscillates(d, shape) \/ Exhausted(d) THEN "escalate"
    ELSE IF seq <= d.until \/ Surviving(d, contradictions) = {} THEN "damped"
    ELSE "allowed"

\* The number of the last step whose contradiction of this kind survived.
TriggerOf(d, kind, surviving) ==
    LET numbered == {c \in surviving : c.kind = kind /\ c.number # NoNumber}
    IN  IF numbered = {} THEN LastTrigger(d, kind)
        ELSE (CHOOSE c \in numbered : \A o \in numbered : o.step <= c.step).number

\* record_revision()
AfterRevision(d, contradictions, shape, seq) ==
    LET surviving == Surviving(d, contradictions)
    IN  [d EXCEPT !.count = @ + 1,
                  !.until = seq + d.span,
                  !.shapes = Append(@, shape),
                  !.price = TriggerOf(d, "price", surviving),
                  !.budget = TriggerOf(d, "budget", surviving)]

=============================================================================
