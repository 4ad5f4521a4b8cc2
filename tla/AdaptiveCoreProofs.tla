-------------------------- MODULE AdaptiveCoreProofs --------------------------
(***************************************************************************)
(* What holds of AdaptiveCore for any runs, suppliers, scenarios, events   *)
(* and bounds.  The containment of adaptation needs the shape of the run   *)
(* records only, which are therefore first described by their fields;      *)
(* their types, the single payment, the overdraft and the soundness of     *)
(* revisions rest on what is committed being a sum of natural numbers,     *)
(* which FoldLemmas shows.                                                 *)
(***************************************************************************)
EXTENDS AdaptiveCore, FoldLemmas, TLAPS

IsStep(x) ==
    x = [status |-> x.status, supplier |-> x.supplier, qty |-> x.qty, unit |-> x.unit,
         watches |-> x.watches]
PlanFields == {"version", "steps"}
RunFields == {"status", "mode", "plan", "cursor", "damping"}
DampingFields == {"count", "until", "shapes", "price", "budget", "span"}

PlanShaped(p) ==
    /\ DOMAIN p = PlanFields
    /\ DOMAIN p.steps = Steps
    /\ \A i \in Steps : IsStep(p.steps[i])

IsSequence(s) == \E S : s \in Seq(S)
NoneReturns(s) == \A i \in 1 .. Len(s) - 2 : s[i] # s[i + 2]

\* The history of a run's revisions, and where it stands.
DampingShaped(d) ==
    /\ DOMAIN d = DampingFields
    /\ d.count \in Nat
    /\ IsSequence(d.shapes)

Contained(p, d) ==
    /\ p.version = d.count + 1
    /\ d.count <= MaxRevisions
    /\ Len(d.shapes) = d.count + 1
    /\ d.shapes[Len(d.shapes)] = ChoiceSignature(p)
    /\ NoneReturns(d.shapes)

RunShaped(x) ==
    /\ DOMAIN x = RunFields
    /\ PlanShaped(x.plan)
    /\ DampingShaped(x.damping)
    /\ Contained(x.plan, x.damping)

-----------------------------------------------------------------------------
(* Plans. *)

LEMMA StepsAreFive == Steps = {1, 2, 3, 4, 5}
BY DEF Steps, VerifyPrice, ConfirmRestock

LEMMA StatusOfStep ==
    ASSUME NEW x, IsStep(x), NEW s, NEW y, y = [x EXCEPT !.status = s]
    PROVE  IsStep(y) /\ y.supplier = x.supplier /\ y.qty = x.qty
<1>1. DOMAIN x = {"status", "supplier", "qty", "unit", "watches"}
  BY DEF IsStep
<1>2. y = [f \in DOMAIN x |-> IF f = "status" THEN s ELSE x[f]]
  OBVIOUS
<1>3. y.supplier = x.supplier /\ y.qty = x.qty /\ y.unit = x.unit /\ y.watches = x.watches
  BY <1>1, <1>2
<1>4. IsStep(y)
  BY <1>1, <1>2 DEF IsStep
<1> QED BY <1>3, <1>4

LEMMA WatchOfStep ==
    ASSUME NEW x, IsStep(x), NEW w, NEW y, y = [x EXCEPT !.watches = w]
    PROVE  IsStep(y) /\ y.supplier = x.supplier /\ y.qty = x.qty /\ y.watches = w
<1>1. DOMAIN x = {"status", "supplier", "qty", "unit", "watches"}
  BY DEF IsStep
<1>2. y = [f \in DOMAIN x |-> IF f = "watches" THEN w ELSE x[f]]
  OBVIOUS
<1>3. y.supplier = x.supplier /\ y.qty = x.qty /\ y.unit = x.unit /\ y.watches = w
  BY <1>1, <1>2
<1>4. IsStep(y)
  BY <1>1, <1>2 DEF IsStep
<1> QED BY <1>3, <1>4

LEMMA SameStep ==
    ASSUME NEW x, IsStep(x)
    PROVE  x = [x EXCEPT !.watches = x.watches]
<1>1. DOMAIN x = {"status", "supplier", "qty", "unit", "watches"}
  BY DEF IsStep
<1>2. x = [f \in DOMAIN x |-> x[f]]
  BY <1>1 DEF IsStep
<1>3. [x EXCEPT !.watches = x.watches] = [f \in DOMAIN x |-> x[f]]
  OBVIOUS
<1> QED BY <1>2, <1>3

LEMMA SameChoice ==
    ASSUME NEW p, NEW q,
           \A i \in Steps : p.steps[i].supplier = q.steps[i].supplier
                            /\ p.steps[i].qty = q.steps[i].qty
    PROVE  ChoiceSignature(p) = ChoiceSignature(q)
BY DEF ChoiceSignature

\* A status that changes changes no choice.
LEMMA StatusKeepsPlan ==
    ASSUME NEW p, PlanShaped(p), NEW i \in Steps, NEW s, NEW q,
           q = [p EXCEPT !.steps[i].status = s]
    PROVE  /\ PlanShaped(q) /\ q.version = p.version
           /\ ChoiceSignature(q) = ChoiceSignature(p)
           /\ \A j \in Steps \ {i} : q.steps[j] = p.steps[j]
<1>1. /\ DOMAIN q = PlanFields
      /\ q.version = p.version
      /\ q.steps = [p.steps EXCEPT ![i].status = s]
  BY DEF PlanShaped, PlanFields
<1>2. /\ DOMAIN q.steps = Steps
      /\ q.steps[i] = [p.steps[i] EXCEPT !.status = s]
      /\ \A j \in Steps \ {i} : q.steps[j] = p.steps[j]
  BY <1>1 DEF PlanShaped
<1>3. /\ IsStep(q.steps[i])
      /\ q.steps[i].supplier = p.steps[i].supplier
      /\ q.steps[i].qty = p.steps[i].qty
  BY <1>2, StatusOfStep DEF PlanShaped
<1>4. \A j \in Steps : q.steps[j].supplier = p.steps[j].supplier
                     /\ q.steps[j].qty = p.steps[j].qty
  BY <1>2, <1>3
<1>5. ChoiceSignature(q) = ChoiceSignature(p)
  BY <1>4, SameChoice, Zenon
<1> QED BY <1>1, <1>2, <1>3, <1>5 DEF PlanShaped

LEMMA FreshIsShaped ==
    ASSUME NEW supplier, NEW qty, NEW unit, NEW cascade
    PROVE  LET f == FreshSteps(supplier, qty, unit, cascade)
           IN  DOMAIN f = Steps /\ \A i \in Steps : IsStep(f[i])
BY StepsAreFive DEF FreshSteps, Step, IsStep

LEMMA InitialIsShaped ==
    ASSUME NEW supplier, NEW unit
    PROVE  PlanShaped(InitialPlan(supplier, unit)) /\ InitialPlan(supplier, unit).version = 1
BY FreshIsShaped DEF InitialPlan, Plan, PlanShaped, PlanFields

\* A revision is the next version, and what is executed stays, but for what the
\* price check watches.
LEMMA RevisedIsShaped ==
    ASSUME NEW p, PlanShaped(p), NEW world, NEW s, NEW cascade, NEW q,
           q = Revised(p, world, s, cascade)
    PROVE  /\ PlanShaped(q) /\ q.version = p.version + 1
           /\ \A i \in Steps : IsDone(p, i) =>
                q.steps[i] = [p.steps[i] EXCEPT !.watches = q.steps[i].watches]
<1> DEFINE fresh == FreshSteps(s, OrderSize(world, s), world.suppliers[s].price, cascade)
           carried == Carried(p, s, cascade)
<1>1. \A i \in Steps : IsStep(fresh[i])
  BY FreshIsShaped
<1>2. VerifyPrice \in Steps
  BY StepsAreFive DEF VerifyPrice
<1>3. \A i \in Steps : /\ IsStep(carried[i])
                       /\ carried[i] = [p.steps[i] EXCEPT !.watches = carried[i].watches]
  <2>1. CASE carried = p.steps
    <3>1. ASSUME NEW i \in Steps
          PROVE  p.steps[i] = [p.steps[i] EXCEPT !.watches = p.steps[i].watches]
      BY SameStep DEF PlanShaped
    <3> QED BY <2>1, <3>1 DEF PlanShaped
  <2>2. CASE carried = [p.steps EXCEPT ![VerifyPrice].watches = s]
    <3>1. \A i \in Steps \ {VerifyPrice} : carried[i] = p.steps[i]
      BY <2>2 DEF PlanShaped
    <3>2. carried[VerifyPrice] = [p.steps[VerifyPrice] EXCEPT !.watches = s]
      BY <2>2, <1>2 DEF PlanShaped
    <3>3. /\ IsStep(carried[VerifyPrice]) /\ carried[VerifyPrice].watches = s
      BY <3>2, <1>2, WatchOfStep DEF PlanShaped
    <3> QED BY <3>1, <3>2, <3>3, SameStep DEF PlanShaped
  <2> QED BY <2>1, <2>2 DEF Carried
<1>4. /\ DOMAIN q = PlanFields /\ q.version = p.version + 1
      /\ q.steps = [i \in Steps |-> IF IsDone(p, i) THEN carried[i] ELSE fresh[i]]
  BY DEF Revised, Plan, PlanFields
<1> QED BY <1>1, <1>3, <1>4 DEF PlanShaped

LEMMA NextIsPending ==
    ASSUME NEW p, PendingSteps(p) # {}
    PROVE  NextStep(p) \in Steps /\ IsPending(p, NextStep(p))
<1>1. PendingSteps(p) \subseteq {1, 2, 3, 4, 5}
  BY StepsAreFive DEF PendingSteps
<1>2. \E i \in PendingSteps(p) : \A j \in PendingSteps(p) : i <= j
  BY <1>1
<1>3. NextStep(p) \in PendingSteps(p)
  BY <1>2 DEF NextStep
<1> QED BY <1>3 DEF PendingSteps

-----------------------------------------------------------------------------
(* What a step may make of a run. *)

\* What is executed stands.
Stands(p, q) ==
    \A i \in Steps : IsDone(p, i) =>
        q.steps[i] = [p.steps[i] EXCEPT !.watches = q.steps[i].watches]

Follows(x, y) == RunShaped(y) /\ Stands(x.plan, y.plan)

LEMMA SameStands == ASSUME NEW p, PlanShaped(p) PROVE Stands(p, p)
BY SameStep DEF PlanShaped, Stands

LEMMA SameContained ==
    ASSUME NEW p, NEW q, NEW d, Contained(p, d), q.version = p.version,
           ChoiceSignature(q) = ChoiceSignature(p)
    PROVE  Contained(q, d)
BY DEF Contained

LEMMA StatusFollows ==
    ASSUME NEW x, RunShaped(x), NEW s, NEW y, y = [x EXCEPT !.status = s]
    PROVE  Follows(x, y)
<1>1. DOMAIN y = RunFields /\ y.plan = x.plan /\ y.damping = x.damping
  BY DEF RunShaped, RunFields
<1> QED BY <1>1, SameStands DEF RunShaped, Follows

LEMMA ConcludedFollows ==
    ASSUME NEW x, RunShaped(x), NEW i \in Steps, IsPending(x.plan, i), NEW t, NEW s, NEW y,
           y = [x EXCEPT !.plan.steps[i].status = t, !.status = s]
    PROVE  Follows(x, y)
<1> DEFINE q == [x.plan EXCEPT !.steps[i].status = t]
<1>1. DOMAIN y = RunFields /\ y.plan = q /\ y.damping = x.damping
  BY DEF RunShaped, RunFields
<1>2. PlanShaped(x.plan)
  BY DEF RunShaped
<1> HIDE DEF q
<1>3. /\ PlanShaped(q) /\ q.version = x.plan.version
      /\ ChoiceSignature(q) = ChoiceSignature(x.plan)
      /\ \A j \in Steps \ {i} : q.steps[j] = x.plan.steps[j]
  BY <1>2, StatusKeepsPlan DEF q
<1>4. Stands(x.plan, q)
  <2> SUFFICES ASSUME NEW j \in Steps, IsDone(x.plan, j)
               PROVE  q.steps[j] = [x.plan.steps[j] EXCEPT !.watches = q.steps[j].watches]
    BY DEF Stands
  <2>1. j # i
    BY DEF IsDone, IsPending
  <2>2. q.steps[j] = x.plan.steps[j]
    BY <1>3, <2>1
  <2> QED BY <1>2, <2>2, SameStep DEF PlanShaped
<1>5. Contained(q, x.damping)
  BY <1>3, SameContained DEF RunShaped
<1> QED BY <1>1, <1>3, <1>4, <1>5 DEF Follows, RunShaped

\* An observation leaves the plan, or makes its price check watch something else.
LEMMA ObservedFollows ==
    ASSUME NEW x, RunShaped(x), NEW q, NEW w,
           q \in {x.plan, [x.plan EXCEPT !.steps[VerifyPrice].watches = w]},
           NEW y, DOMAIN y = RunFields, y.plan = q, y.damping = x.damping
    PROVE  Follows(x, y)
<1>1. DOMAIN y = RunFields /\ y.plan = q /\ y.damping = x.damping
  OBVIOUS
<1>2. PlanShaped(x.plan) /\ Contained(x.plan, x.damping) /\ DampingShaped(x.damping)
  BY DEF RunShaped
<1>3. CASE q = x.plan
  BY <1>1, <1>2, <1>3, SameStands DEF Follows, RunShaped
<1>4. CASE q = [x.plan EXCEPT !.steps[VerifyPrice].watches = w]
  <2>1. VerifyPrice \in Steps
    BY StepsAreFive DEF VerifyPrice
  <2>2. /\ DOMAIN q = PlanFields /\ q.version = x.plan.version
        /\ q.steps = [x.plan.steps EXCEPT ![VerifyPrice].watches = w]
    BY <1>2, <1>4 DEF PlanShaped, PlanFields
  <2>3. /\ DOMAIN q.steps = Steps
        /\ q.steps[VerifyPrice] = [x.plan.steps[VerifyPrice] EXCEPT !.watches = w]
        /\ \A j \in Steps \ {VerifyPrice} : q.steps[j] = x.plan.steps[j]
    BY <1>2, <2>1, <2>2 DEF PlanShaped
  <2>4. /\ IsStep(q.steps[VerifyPrice]) /\ q.steps[VerifyPrice].watches = w
        /\ q.steps[VerifyPrice].supplier = x.plan.steps[VerifyPrice].supplier
        /\ q.steps[VerifyPrice].qty = x.plan.steps[VerifyPrice].qty
    BY <1>2, <2>1, <2>3, WatchOfStep DEF PlanShaped
  <2>5. PlanShaped(q)
    BY <1>2, <2>2, <2>3, <2>4 DEF PlanShaped
  <2>6. \A j \in Steps : q.steps[j].supplier = x.plan.steps[j].supplier
                       /\ q.steps[j].qty = x.plan.steps[j].qty
    BY <2>3, <2>4
  <2>7. ChoiceSignature(q) = ChoiceSignature(x.plan)
    BY <2>6, SameChoice, Zenon
  <2>8. Stands(x.plan, q)
    <3>1. \A j \in Steps \ {VerifyPrice} :
            q.steps[j] = [x.plan.steps[j] EXCEPT !.watches = q.steps[j].watches]
      BY <1>2, <2>3, SameStep DEF PlanShaped
    <3>2. q.steps[VerifyPrice] =
            [x.plan.steps[VerifyPrice] EXCEPT !.watches = q.steps[VerifyPrice].watches]
      BY <2>3, <2>4
    <3> QED BY <3>1, <3>2 DEF Stands
  <2>9. Contained(q, x.damping)
    BY <1>2, <2>2, <2>7, SameContained
  <2> QED BY <1>1, <1>2, <2>5, <2>8, <2>9 DEF Follows, RunShaped
<1> QED BY <1>3, <1>4

\* One more shape, which is not the one before the last: rule 3.
LEMMA ShapesGrow ==
    ASSUME NEW d, DampingShaped(d), Len(d.shapes) = d.count + 1,
           NoneReturns(d.shapes), NEW shape,
           ~Oscillates(d, shape), NEW t, t = Append(d.shapes, shape)
    PROVE  /\ Len(t) = d.count + 2 /\ t[Len(t)] = shape
           /\ NoneReturns(t) /\ IsSequence(t)
<1>1. PICK S : d.shapes \in Seq(S)
  BY DEF DampingShaped, IsSequence
<1>2. d.shapes \in Seq(S \cup {shape})
  BY <1>1
<1>3. /\ t \in Seq(S \cup {shape}) /\ Len(t) = d.count + 2 /\ t[Len(t)] = shape
      /\ \A i \in 1 .. Len(d.shapes) : t[i] = d.shapes[i]
  BY <1>2 DEF DampingShaped
<1>4. ASSUME NEW i \in 1 .. Len(t) - 2 PROVE t[i] # t[i + 2]
  <2>1. CASE i = Len(t) - 2
    <3>1. i = Len(d.shapes) - 1 /\ i \in 1 .. Len(d.shapes) /\ Len(d.shapes) >= 2
      BY <1>3, <2>1 DEF DampingShaped
    <3>2. t[i] = d.shapes[Len(d.shapes) - 1] /\ t[i + 2] = shape
      BY <1>3, <2>1, <3>1 DEF DampingShaped
    <3> QED BY <3>1, <3>2 DEF Oscillates
  <2>2. CASE i # Len(t) - 2
    <3>1. i \in 1 .. Len(d.shapes) - 2 /\ i \in 1 .. Len(d.shapes) /\ i + 2 \in 1 .. Len(d.shapes)
      BY <1>3, <2>2 DEF DampingShaped
    <3> QED BY <1>3, <3>1 DEF NoneReturns
  <2> QED BY <2>1, <2>2
<1>5. IsSequence(t)
  BY <1>3, Zenon DEF IsSequence
<1> QED BY <1>3, <1>4, <1>5 DEF NoneReturns

LEMMA RevisionFollows ==
    ASSUME NEW x, RunShaped(x), NEW world, NEW supplier, NEW cascade, NEW q,
           q = Revised(x.plan, world, supplier, cascade), NEW found, NEW n, NEW c, NEW y,
           ~Oscillates(x.damping, ChoiceSignature(q)), ~Exhausted(x.damping),
           y = [x EXCEPT !.cursor = c, !.plan = q,
                         !.damping = AfterRevision(@, found, ChoiceSignature(q), n)]
    PROVE  Follows(x, y)
<1> DEFINE d == x.damping
           e == AfterRevision(d, found, ChoiceSignature(q), n)
<1>1. DOMAIN y = RunFields /\ y.plan = q /\ y.damping = e
  BY DEF RunShaped, RunFields
<1>2. PlanShaped(x.plan) /\ DampingShaped(d) /\ Contained(x.plan, d)
  BY DEF RunShaped
<1>3. PlanShaped(q) /\ q.version = x.plan.version + 1 /\ Stands(x.plan, q)
  BY <1>2, RevisedIsShaped DEF Stands
<1>4. /\ DOMAIN e = DampingFields /\ e.count = d.count + 1
      /\ e.shapes = Append(d.shapes, ChoiceSignature(q))
  BY <1>2 DEF AfterRevision, DampingShaped, DampingFields
<1> HIDE DEF d, e
<1>5. d.count + 1 <= MaxRevisions /\ d.count \in Nat
  BY <1>2, PlanAssumption DEF Exhausted, DampingShaped, d
<1>6. ~Oscillates(d, ChoiceSignature(q))
  BY DEF d
<1>7. Len(d.shapes) = d.count + 1 /\ NoneReturns(d.shapes)
  BY <1>2 DEF Contained
<1>8. /\ Len(e.shapes) = d.count + 2 /\ e.shapes[Len(e.shapes)] = ChoiceSignature(q)
      /\ NoneReturns(e.shapes) /\ IsSequence(e.shapes)
  <2> DEFINE shape == ChoiceSignature(q)
  <2> HIDE DEF shape
  <2>1. ~Oscillates(d, shape) /\ e.shapes = Append(d.shapes, shape)
    BY <1>4, <1>6 DEF shape
  <2>2. \A t : t = Append(d.shapes, shape) =>
            /\ Len(t) = d.count + 2 /\ t[Len(t)] = shape
            /\ NoneReturns(t) /\ IsSequence(t)
    BY <1>2, <1>7, <2>1, ShapesGrow
  <2>3. /\ Len(e.shapes) = d.count + 2 /\ e.shapes[Len(e.shapes)] = shape
        /\ NoneReturns(e.shapes) /\ IsSequence(e.shapes)
    BY <2>1, <2>2
  <2> QED BY <2>3 DEF shape
<1>9. DampingShaped(e)
  BY <1>4, <1>5, <1>8 DEF DampingShaped
<1>10. Contained(q, e)
  BY <1>2, <1>3, <1>4, <1>5, <1>8 DEF Contained
<1> QED BY <1>1, <1>3, <1>9, <1>10 DEF Follows, RunShaped, e

\* A run as start_run() makes it.
LEMMA StartIsShaped ==
    ASSUME NEW supplier, NEW unit, NEW mode, NEW cursor, NEW span, NEW x, NEW p,
           p = InitialPlan(supplier, unit),
           x = [status |-> "running", mode |-> mode, plan |-> p, cursor |-> cursor,
                damping |-> DampingInit(p, span)]
    PROVE  RunShaped(x)
<1>1. DOMAIN x = RunFields /\ x.plan = p /\ x.damping = DampingInit(p, span)
  BY DEF RunFields
<1>2. PlanShaped(p) /\ p.version = 1
  BY InitialIsShaped
<1> DEFINE d == DampingInit(p, span)
<1>3. /\ DOMAIN d = DampingFields /\ d.count = 0
      /\ d.shapes = <<ChoiceSignature(p)>>
  BY DEF DampingInit, DampingFields
<1>4. d.shapes \in Seq({ChoiceSignature(p)})
  BY <1>3
<1> HIDE DEF d
<1>5. DampingShaped(d)
  <2>1. IsSequence(d.shapes)
    BY <1>4, Zenon DEF IsSequence
  <2> QED BY <1>3, <2>1 DEF DampingShaped
<1>6. Contained(p, d)
  BY <1>2, <1>3, <1>4, PlanAssumption DEF Contained, NoneReturns
<1> QED BY <1>1, <1>2, <1>5, <1>6 DEF RunShaped, d

-----------------------------------------------------------------------------
(* The state of the service. *)

RunsShaped ==
    /\ DOMAIN run = Runs
    /\ \A r \in Runs : Started(r) => RunShaped(run[r])

OrderStages == {"gate", "decide", "spend", "check"}
RequestType == [Runs -> [at : Stage, left : 0 .. MaxCycles]]

\* A request in flight serves a run that is running, and one that is past the
\* gate's door is there for an order that is pending.
RequestsServe ==
    /\ request \in RequestType
    /\ \A r \in Runs :
        /\ ~IsAt(r, "idle") => run[r].status = "running"
        /\ request[r].at \in OrderStages => IsPending(run[r].plan, PlaceOrder)

ServiceInv == RunsShaped /\ RequestsServe

\* What a step of the request of r may do.
Served(r) ==
    /\ DOMAIN run' = Runs
    /\ \A s \in Runs \ {r} : run'[s] = run[s] /\ request'[s] = request[s]
    /\ request' \in RequestType
    /\ Follows(run[r], run'[r])
    /\ ~IsAt(r, "idle")' => run'[r].status = "running"
    /\ request'[r].at \in OrderStages => IsPending(run'[r].plan, PlaceOrder)

LEMMA GoesAside ==
    ASSUME NEW r \in Runs, request \in RequestType, NEW place \in Stage, Goes(r, place)
    PROVE  /\ request' \in RequestType /\ request'[r].at = place
           /\ \A s \in Runs \ {r} : request'[s] = request[s]
BY DEF Goes, RequestType

LEMMA CycleEndsAside ==
    ASSUME NEW r \in Runs, request \in RequestType, NEW status, CycleEnds(r, status)
    PROVE  /\ request' \in RequestType /\ request'[r].at \in {"idle", "observe"}
           /\ request'[r].at # "idle" => status = "running"
           /\ \A s \in Runs \ {r} : request'[s] = request[s]
<1> DEFINE q == IF status = "running" /\ request[r].left > 1
               THEN Serving("observe", request[r].left - 1) ELSE Idle
<1>1. request' = [request EXCEPT ![r] = q]
  BY DEF CycleEnds
<1>2. request[r].left \in 0 .. MaxCycles /\ MaxCycles \in Nat
  BY AdaptiveAssumption DEF RequestType
<1>3. /\ q \in [at : Stage, left : 0 .. MaxCycles] /\ q.at \in {"idle", "observe"}
      /\ q.at # "idle" => status = "running"
  BY <1>2 DEF Serving, Idle, Stage
<1> QED BY <1>1, <1>3 DEF RequestType

\* The request is somewhere, so its run is running and shaped.
LEMMA ServedRun ==
    ASSUME ServiceInv, NEW r \in Runs, ~IsAt(r, "idle")
    PROVE  /\ run[r].status = "running" /\ RunShaped(run[r])
           /\ DOMAIN run = Runs /\ request \in RequestType
BY DEF ServiceInv, RunsShaped, RequestsServe, Started

\* The run stands, and the request goes on.
LEMMA GoesServed ==
    ASSUME ServiceInv, NEW r \in Runs, ~IsAt(r, "idle"), NEW place \in Stage,
           Goes(r, place), UNCHANGED run,
           place \in OrderStages => IsPending(run[r].plan, PlaceOrder)
    PROVE  Served(r)
<1>1. /\ run[r].status = "running" /\ RunShaped(run[r]) /\ DOMAIN run = Runs
      /\ request \in RequestType
  BY ServedRun
<1>2. Follows(run[r], run'[r])
  BY <1>1, SameStands DEF Follows, RunShaped
<1> QED BY <1>1, <1>2, GoesAside DEF Served, IsAt

LEMMA ConcludedServed ==
    ASSUME ServiceInv, NEW r \in Runs, ~IsAt(r, "idle"), NEW i \in Steps,
           IsPending(run[r].plan, i), NEW t, NEW s, Concluded(r, i, t, s)
    PROVE  Served(r)
<1>1. /\ RunShaped(run[r]) /\ DOMAIN run = Runs /\ request \in RequestType
  BY ServedRun
<1> DEFINE y == [run[r] EXCEPT !.plan.steps[i].status = t, !.status = s]
<1>2. run' = [run EXCEPT ![r] = y] /\ CycleEnds(r, s)
  BY DEF Concluded
<1>3. y.status = s
  BY <1>1 DEF RunShaped, RunFields
<1>4. Follows(run[r], y)
  BY <1>1, ConcludedFollows
<1> HIDE DEF y
<1>5. run'[r] = y /\ DOMAIN run' = Runs /\ \A o \in Runs \ {r} : run'[o] = run[o]
  BY <1>1, <1>2
<1> QED BY <1>1, <1>2, <1>3, <1>4, <1>5, CycleEndsAside DEF Served, IsAt, OrderStages

LEMMA CompleteServed ==
    ASSUME ServiceInv, NEW r \in Runs, ~IsAt(r, "idle"), Complete(r)
    PROVE  Served(r)
<1>1. /\ RunShaped(run[r]) /\ DOMAIN run = Runs /\ request \in RequestType
  BY ServedRun
<1> DEFINE y == [run[r] EXCEPT !.status = "completed"]
<1>2. run' = [run EXCEPT ![r] = y] /\ CycleEnds(r, "completed")
  BY DEF Complete
<1>3. Follows(run[r], y)
  BY <1>1, StatusFollows
<1> HIDE DEF y
<1>4. run'[r] = y /\ DOMAIN run' = Runs /\ \A o \in Runs \ {r} : run'[o] = run[o]
  BY <1>1, <1>2
<1> QED BY <1>1, <1>2, <1>3, <1>4, CycleEndsAside DEF Served, IsAt, OrderStages

\* The plan of an observation that does not revise.
LEMMA InForceIsObserved ==
    ASSUME NEW r, NEW o
    PROVE  InForce(r, o) \in {run[r].plan,
               [run[r].plan EXCEPT
                   !.steps[VerifyPrice].watches = o.candidate.steps[VerifyPrice].watches]}
BY DEF InForce

LEMMA ObservedServed ==
    ASSUME ServiceInv, NEW r \in Runs, ~IsAt(r, "idle"), NEW o, NEW s, Observed(r, o, s),
           \/ s = "running" /\ Goes(r, "execute")
           \/ CycleEnds(r, s)
    PROVE  Served(r)
<1>1. /\ RunShaped(run[r]) /\ DOMAIN run = Runs /\ request \in RequestType
  BY ServedRun
<1> DEFINE y == [run[r] EXCEPT !.cursor = Len(events), !.status = s, !.plan = InForce(r, o)]
<1>2. run' = [run EXCEPT ![r] = y]
  BY DEF Observed
<1>3. y.status = s
  BY <1>1 DEF RunShaped, RunFields
<1>4. Follows(run[r], y)
  <2> DEFINE q == InForce(r, o)
             w == o.candidate.steps[VerifyPrice].watches
  <2>1. q \in {run[r].plan, [run[r].plan EXCEPT !.steps[VerifyPrice].watches = w]}
    BY InForceIsObserved
  <2> HIDE DEF q, w
  <2>2. DOMAIN y = RunFields /\ y.plan = q /\ y.damping = run[r].damping
    BY <1>1 DEF RunShaped, RunFields, q
  <2> HIDE DEF y
  <2> QED BY <1>1, <2>1, <2>2, ObservedFollows
<1> HIDE DEF y
<1>5. run'[r] = y /\ DOMAIN run' = Runs /\ \A x \in Runs \ {r} : run'[x] = run[x]
  BY <1>1, <1>2
<1>6. CASE s = "running" /\ Goes(r, "execute")
  <2>1. "execute" \in Stage \ OrderStages
    BY DEF Stage, OrderStages
  <2> QED BY <1>1, <1>3, <1>4, <1>5, <1>6, <2>1, GoesAside DEF Served, IsAt
<1>7. CASE CycleEnds(r, s)
  BY <1>1, <1>3, <1>4, <1>5, <1>7, CycleEndsAside DEF Served, IsAt, OrderStages
<1> QED BY <1>6, <1>7

\* What an observation lets through has passed rules 2 and 3 of the damping.
LEMMA ReviseIsDamped ==
    ASSUME NEW r, NEW o \in Observations(r), o.verdict = "revise"
    PROVE  /\ \E s :
                o.candidate = Revised(run[r].plan, World, s, IsCascade(run[r].plan, o.found))
           /\ ~Oscillates(run[r].damping, ChoiceSignature(o.candidate))
           /\ ~Exhausted(run[r].damping)
           /\ ShapeOf(o.candidate) = ChoiceSignature(o.candidate)
<1> DEFINE found == Contradictions(run[r].plan, World, Fresh(r))
<1>1. PICK c \in IF found = {} THEN {NoPlan} ELSE Candidates(r, found) :
         o = [found |-> found, candidate |-> c, verdict |-> Verdict(r, found, c)]
  BY DEF Observations
<1> HIDE DEF found
<1>2. o.found = found /\ o.candidate = c /\ Verdict(r, found, c) = "revise"
  BY <1>1
<1>3. found # {} /\ c # NoPlan
      /\ DampingVerdict(run[r].damping, found, ShapeOf(c), Len(events)) = "allowed"
  <2> DEFINE v == DampingVerdict(run[r].damping, found, ShapeOf(c), Len(events))
  <2>1. v \in {"escalate", "damped", "allowed"}
    BY DEF DampingVerdict
  <2>2. "revise" = IF found = {} THEN "calm"
                   ELSE IF v # "allowed" THEN v
                   ELSE IF c = NoPlan THEN "escalate"
                   ELSE IF Activatable(c) THEN "revise" ELSE "block"
    BY <1>2 DEF Verdict
  <2> HIDE DEF v
  <2>3. found # {} /\ c # NoPlan /\ v = "allowed"
    BY <2>1, <2>2
  <2> QED BY <2>3 DEF v
<1>4. ShapeOf(c) = ChoiceSignature(c)
  BY <1>3 DEF ShapeOf
<1>5. ~Oscillates(run[r].damping, ShapeOf(c)) /\ ~Exhausted(run[r].damping)
  BY <1>3 DEF DampingVerdict
<1>6. c \in Candidates(r, found)
  BY <1>1, <1>3
<1>7. \E s :
         c = Revised(run[r].plan, World, s, IsCascade(run[r].plan, found))
  BY <1>3, <1>6 DEF Candidates
<1> QED BY <1>2, <1>4, <1>5, <1>7

LEMMA RevisesServed ==
    ASSUME ServiceInv, NEW r \in Runs, ~IsAt(r, "idle"), NEW o \in Observations(r), Revises(r, o)
    PROVE  Served(r)
<1>1. /\ RunShaped(run[r]) /\ DOMAIN run = Runs /\ request \in RequestType
      /\ run[r].status = "running"
  BY ServedRun
<1>2. o.verdict = "revise" /\ Goes(r, "execute")
  BY DEF Revises
<1>3. PICK s : o.candidate = Revised(run[r].plan, World, s, IsCascade(run[r].plan, o.found))
  BY <1>2, ReviseIsDamped
<1>4. /\ ~Oscillates(run[r].damping, ChoiceSignature(o.candidate))
      /\ ~Exhausted(run[r].damping)
      /\ ShapeOf(o.candidate) = ChoiceSignature(o.candidate)
  BY <1>2, ReviseIsDamped
<1> DEFINE q == o.candidate
           y == [run[r] EXCEPT !.cursor = Len(events), !.plan = q,
                   !.damping = AfterRevision(run[r].damping, o.found, ChoiceSignature(q), Len(events))]
<1>5. run' = [run EXCEPT ![r] = y]
  BY <1>4 DEF Revises
<1>6. y.status = run[r].status
  BY <1>1 DEF RunShaped, RunFields
<1>7. Follows(run[r], y)
  BY <1>1, <1>3, <1>4, RevisionFollows
<1> HIDE DEF y
<1>8. run'[r] = y /\ DOMAIN run' = Runs /\ \A x \in Runs \ {r} : run'[x] = run[x]
  BY <1>1, <1>5
<1>9. "execute" \in Stage \ OrderStages
  BY DEF Stage, OrderStages
<1> QED BY <1>1, <1>2, <1>6, <1>7, <1>8, <1>9, GoesAside DEF Served, IsAt

\* Every step of a request leaves what is executed, and keeps the run contained.
LEMMA ServeServed ==
    ASSUME ServiceInv, NEW r \in Runs, Serve(r)
    PROVE  Served(r) /\ ~IsAt(r, "idle")
<1>1. CASE Observe(r)
  <2>1. ~IsAt(r, "idle")
    BY <1>1 DEF Observe, IsAt
  <2>2. PICK o \in Observations(r) : Keeps(r, o) \/ Escalates(r, o) \/ Blocks(r, o) \/ Revises(r, o)
    BY <1>1 DEF Observe
  <2>3. CASE Keeps(r, o)
    BY <2>1, <2>3, ObservedServed DEF Keeps
  <2>4. CASE Escalates(r, o)
    BY <2>1, <2>4, ObservedServed DEF Escalates
  <2>5. CASE Blocks(r, o)
    BY <2>1, <2>5, ObservedServed DEF Blocks
  <2>6. CASE Revises(r, o)
    BY <2>1, <2>6, RevisesServed
  <2> QED BY <2>1, <2>2, <2>3, <2>4, <2>5, <2>6
<1>2. CASE Execute(r)
  <2>1. ~IsAt(r, "idle")
    BY <1>2 DEF Execute, IsAt
  <2>2. CASE PendingSteps(run[r].plan) = {}
    BY <1>2, <2>1, <2>2, CompleteServed DEF Execute
  <2>3. CASE PendingSteps(run[r].plan) # {}
    <3>1. NextStep(run[r].plan) \in Steps /\ IsPending(run[r].plan, NextStep(run[r].plan))
      BY <2>3, NextIsPending
    <3>2. CASE NextStep(run[r].plan) = PlaceOrder
      <4>1. Goes(r, "gate") /\ UNCHANGED run
        BY <1>2, <2>3, <3>2 DEF Execute
      <4> QED BY <2>1, <3>1, <3>2, <4>1, GoesServed DEF Stage
    <3>3. CASE NextStep(run[r].plan) # PlaceOrder
      <4>1. Concluded(r, NextStep(run[r].plan), "done", "running")
        BY <1>2, <2>3, <3>3 DEF Execute
      <4> QED BY <2>1, <3>1, <4>1, ConcludedServed
    <3> QED BY <3>2, <3>3
  <2> QED BY <2>1, <2>2, <2>3
<1>3. CASE ExecuteBaseline(r)
  <2>1. ~IsAt(r, "idle")
    BY <1>3 DEF ExecuteBaseline, IsAt
  <2>2. CASE PendingSteps(run[r].plan) = {}
    BY <1>3, <2>1, <2>2, CompleteServed DEF ExecuteBaseline
  <2>3. CASE PendingSteps(run[r].plan) # {}
    <3>1. NextStep(run[r].plan) \in Steps /\ IsPending(run[r].plan, NextStep(run[r].plan))
      BY <2>3, NextIsPending
    <3>2. \/ Concluded(r, NextStep(run[r].plan), "done", "running")
          \/ /\ NextStep(run[r].plan) = PlaceOrder
             /\ Concluded(r, PlaceOrder, "failed", "failed") \/ (Goes(r, "decide") /\ UNCHANGED run)
      BY <1>3, <2>3 DEF ExecuteBaseline
    <3>3. CASE Concluded(r, NextStep(run[r].plan), "done", "running")
      BY <2>1, <3>1, <3>3, ConcludedServed
    <3>4. CASE NextStep(run[r].plan) = PlaceOrder /\ Concluded(r, PlaceOrder, "failed", "failed")
      BY <2>1, <3>1, <3>4, ConcludedServed
    <3>5. CASE NextStep(run[r].plan) = PlaceOrder /\ Goes(r, "decide") /\ UNCHANGED run
      BY <2>1, <3>1, <3>5, GoesServed DEF Stage
    <3> QED BY <3>2, <3>3, <3>4, <3>5
  <2> QED BY <2>1, <2>2, <2>3
<1>4. ASSUME request[r].at \in OrderStages
      PROVE  IsPending(run[r].plan, PlaceOrder) /\ ~IsAt(r, "idle") /\ PlaceOrder \in Steps
  BY <1>4, StepsAreFive DEF ServiceInv, RequestsServe, IsAt, OrderStages, PlaceOrder
<1>5. CASE OrderGate(r)
  <2>1. request[r].at \in OrderStages
    BY <1>5 DEF OrderGate, IsAt, OrderStages
  <2>2. \/ Goes(r, "decide") /\ UNCHANGED run
        \/ \E t, s : Concluded(r, PlaceOrder, t, s)
    BY <1>5 DEF OrderGate
  <2> QED BY <1>4, <2>1, <2>2, GoesServed, ConcludedServed DEF Stage
<1>6. CASE OrderDecide(r)
  <2>1. request[r].at \in OrderStages
    BY <1>6 DEF OrderDecide, IsAt, OrderStages
  <2>2. \/ Goes(r, "spend") /\ UNCHANGED run
        \/ \E t, s : Concluded(r, PlaceOrder, t, s)
    BY <1>6 DEF OrderDecide
  <2> QED BY <1>4, <2>1, <2>2, GoesServed, ConcludedServed DEF Stage
<1>7. CASE OrderSpend(r)
  <2>1. request[r].at \in OrderStages
    BY <1>7 DEF OrderSpend, IsAt, OrderStages
  <2>2. Goes(r, "check") /\ UNCHANGED run
    BY <1>7 DEF OrderSpend
  <2> QED BY <1>4, <2>1, <2>2, GoesServed DEF Stage
<1>8. CASE OrderCheck(r)
  <2>1. request[r].at \in OrderStages
    BY <1>8 DEF OrderCheck, IsAt, OrderStages
  <2>2. \E t, s : Concluded(r, PlaceOrder, t, s)
    BY <1>8 DEF OrderCheck
  <2> QED BY <1>4, <2>1, <2>2, ConcludedServed
<1> QED BY <1>1, <1>2, <1>3, <1>5, <1>6, <1>7, <1>8 DEF Serve

\* A step leaves a run, starts it, or serves it.
Moves(r) ==
    \/ run'[r] = run[r]
    \/ ~Started(r) /\ RunShaped(run'[r])
    \/ run[r].status = "running" /\ Follows(run[r], run'[r])

LEMMA ServedKeeps ==
    ASSUME ServiceInv, NEW r \in Runs, Served(r), ~IsAt(r, "idle")
    PROVE  ServiceInv' /\ \A s \in Runs : Moves(s)
<1>1. run[r].status = "running"
  BY ServedRun
<1>2. \A s \in Runs : Moves(s)
  BY <1>1 DEF Served, Moves
<1>3. RunsShaped'
  BY DEF ServiceInv, RunsShaped, Served, Follows, Started
<1>4. RequestsServe'
  BY DEF ServiceInv, RequestsServe, Served, IsAt
<1> QED BY <1>2, <1>3, <1>4 DEF ServiceInv

LEMMA StartKeeps ==
    ASSUME ServiceInv, NEW r \in Runs, StartRun(r)
    PROVE  ServiceInv' /\ \A s \in Runs : Moves(s)
<1>1. PICK scenario \in Starts[r] :
         LET plan == InitialPlan(scenario.primary, scenario.world[scenario.primary].price)
         IN  run' = [run EXCEPT ![r] =
                [status |-> "running", mode |-> scenario.mode, plan |-> plan,
                 cursor |-> Len(events), damping |-> DampingInit(plan, scenario.span)]]
  BY DEF StartRun
<1> DEFINE plan == InitialPlan(scenario.primary, scenario.world[scenario.primary].price)
           y == [status |-> "running", mode |-> scenario.mode, plan |-> plan,
                 cursor |-> Len(events), damping |-> DampingInit(plan, scenario.span)]
<1>2. RunShaped(y)
  BY StartIsShaped
<1>3. run' = [run EXCEPT ![r] = y]
  BY <1>1
<1> HIDE DEF y
<1>4. run[r].status = "none" /\ request' = request /\ DOMAIN run = Runs
  BY DEF StartRun, ServiceInv, RunsShaped
<1>5. run'[r] = y /\ DOMAIN run' = Runs /\ \A s \in Runs \ {r} : run'[s] = run[s]
  BY <1>3, <1>4
<1>6. IsAt(r, "idle")
  BY <1>4 DEF ServiceInv, RequestsServe
<1>7. RequestsServe'
  BY <1>4, <1>5, <1>6 DEF ServiceInv, RequestsServe, IsAt, OrderStages
<1>8. RunsShaped'
  BY <1>2, <1>5 DEF ServiceInv, RunsShaped, Started
<1>9. \A s \in Runs : Moves(s)
  BY <1>2, <1>4, <1>5 DEF Moves, Started
<1> QED BY <1>7, <1>8, <1>9 DEF ServiceInv

LEMMA AdvanceKeeps ==
    ASSUME ServiceInv, NEW r \in Runs, Advance(r)
    PROVE  ServiceInv' /\ \A s \in Runs : Moves(s)
<1>1. PICK left \in Cycles[r] : request' = [request EXCEPT ![r] = Serving("observe", left)]
  BY DEF Advance
<1>2. left \in 0 .. MaxCycles
  BY AdaptiveAssumption
<1>3. run' = run /\ run[r].status = "running" /\ request \in RequestType
  BY DEF Advance, ServiceInv, RequestsServe
<1>4. Serving("observe", left) \in [at : Stage, left : 0 .. MaxCycles]
      /\ Serving("observe", left).at = "observe"
  BY <1>2 DEF Serving, Stage
<1>5. request' \in RequestType /\ request'[r].at = "observe"
      /\ \A s \in Runs \ {r} : request'[s] = request[s]
  BY <1>1, <1>3, <1>4 DEF RequestType
<1>6. RequestsServe'
  BY <1>3, <1>5 DEF ServiceInv, RequestsServe, IsAt, OrderStages
<1> QED BY <1>3, <1>6 DEF ServiceInv, RunsShaped, Moves, Started

LEMMA NextKeeps ==
    ASSUME ServiceInv, [AdaptiveNext]_adaptiveVars
    PROVE  ServiceInv' /\ \A s \in Runs : Moves(s)
<1>1. ASSUME NEW r \in Runs, StartRun(r) PROVE ServiceInv' /\ \A s \in Runs : Moves(s)
  BY <1>1, StartKeeps
<1>2. ASSUME NEW r \in Runs, Advance(r) PROVE ServiceInv' /\ \A s \in Runs : Moves(s)
  BY <1>2, AdvanceKeeps
<1>3. ASSUME NEW r \in Runs, Serve(r) PROVE ServiceInv' /\ \A s \in Runs : Moves(s)
  BY <1>3, ServeServed, ServedKeeps
<1>4. CASE UNCHANGED <<run, request>>
  BY <1>4 DEF ServiceInv, RunsShaped, RequestsServe, Moves, Started, IsAt
<1>5. ASSUME NEW e \in Injections, InjectApply(e) PROVE UNCHANGED <<run, request>>
  BY <1>5 DEF InjectApply
<1>6. CASE InjectAppend
  BY <1>4, <1>6 DEF InjectAppend
<1>7. CASE UNCHANGED adaptiveVars
  BY <1>4, <1>7 DEF adaptiveVars
<1> QED BY <1>1, <1>2, <1>3, <1>4, <1>5, <1>6, <1>7 DEF AdaptiveNext

LEMMA InitServes == AdaptiveInit => ServiceInv
<1> SUFFICES ASSUME AdaptiveInit PROVE ServiceInv
  OBVIOUS
<1>1. RunsShaped
  BY DEF AdaptiveInit, RunsShaped, Started, Unstarted
<1>2. Idle \in [at : Stage, left : 0 .. MaxCycles] /\ Idle.at = "idle"
  BY AdaptiveAssumption DEF Idle, Serving, Stage
<1>3. RequestsServe
  BY <1>2 DEF AdaptiveInit, RequestsServe, RequestType, IsAt, OrderStages
<1> QED BY <1>1, <1>3 DEF ServiceInv

LEMMA ServiceKeepsInv == AdaptiveSpec => []ServiceInv
<1>1. ServiceInv /\ [AdaptiveNext]_adaptiveVars => ServiceInv'
  BY NextKeeps
<1> QED BY InitServes, <1>1, PTL DEF AdaptiveSpec

\* Whatever events come, however runs interleave and whatever they cost, a run is
\* revised at most MaxRevisions times and never goes back to the choice it left.
THEOREM AdaptationStops == AdaptiveSpec => []AdaptationIsContained
<1>1. ServiceInv => AdaptationIsContained
  BY DEF ServiceInv, RunsShaped, RunShaped, Contained, NoneReturns, AdaptationIsContained
<1> QED BY <1>1, ServiceKeepsInv, PTL

\* What a run has executed stays executed as it was, and a run that is not
\* running is as it was left.
THEOREM HistoryStands == AdaptiveSpec => ExecutedStepsStand
<1>1. ASSUME ServiceInv, [AdaptiveNext]_adaptiveVars
      PROVE  \A r \in Runs : Started(r) => RunStands(r)
  <2> SUFFICES ASSUME NEW r \in Runs, Started(r) PROVE RunStands(r)
    OBVIOUS
  <2>1. Moves(r) /\ RunShaped(run[r])
    BY <1>1, NextKeeps DEF ServiceInv, RunsShaped
  <2>2. Stands(run[r].plan, run'[r].plan) /\ (run[r].status # "running" => run'[r] = run[r])
    BY <2>1, SameStands DEF Moves, Follows, RunShaped
  <2> QED BY <2>2 DEF Stands, RunStands
<1>2. ServiceInv /\ [AdaptiveNext]_adaptiveVars
      => [\A r \in Runs : Started(r) => RunStands(r)]_adaptiveVars
  BY <1>1
<1> QED BY <1>2, ServiceKeepsInv, PTL DEF AdaptiveSpec, ExecutedStepsStand


-----------------------------------------------------------------------------
(***************************************************************************)
(* Types.  An order is worth a natural number because a revision only      *)
(* orders what the headroom pays for, and the headroom is an integer       *)
(* because what is committed is a sum of natural numbers.                  *)
(***************************************************************************)

Who == Runs \cup {"other"}
EntryType == [kind : {"spend", "hold", "refund"}, amount : Nat \ {0}, by : Who, of : Nat]
WorldType == [Suppliers -> [price : Nat \ {0}, available : BOOLEAN, days : Nat]]
StepStatus == {"pending", "done", "failed", "blocked", "deferred"}

LEMMA FreshIsTyped ==
    ASSUME NEW supplier \in Suppliers, NEW qty \in Nat, NEW unit \in Nat, NEW cascade
    PROVE  FreshSteps(supplier, qty, unit, cascade) \in [Steps -> StepType]
<1> DEFINE f == FreshSteps(supplier, qty, unit, cascade)
<1>1. DOMAIN f = Steps /\ f = [i \in Steps |-> f[i]]
  BY StepsAreFive DEF FreshSteps
<1>2. \A i \in Steps : f[i] \in StepType
  BY StepsAreFive DEF FreshSteps, Step, StepType
<1> QED BY <1>1, <1>2

LEMMA InitialIsTyped ==
    ASSUME NEW supplier \in Suppliers, NEW unit \in Nat
    PROVE  InitialPlan(supplier, unit) \in PlanType
<1>1. PICK steps \in [Steps -> StepType] : steps = FreshSteps(supplier, Qty, unit, FALSE)
  BY FreshIsTyped, PlanAssumption
<1>2. InitialPlan(supplier, unit) = [version |-> 1, steps |-> steps]
  BY <1>1 DEF InitialPlan, Plan
<1> QED BY <1>2 DEF PlanType

\* A revision orders a number of units that the headroom pays for.
LEMMA OrderSizeIsTyped ==
    ASSUME NEW world, world.suppliers \in WorldType, world.headroom \in Int,
           NEW s \in Suppliers, Feasible(world, s)
    PROVE  OrderSize(world, s) \in Nat /\ OrderSize(world, s) <= Qty
           /\ world.suppliers[s].price \in Nat \ {0}
           /\ OrderSize(world, s) * world.suppliers[s].price <= world.headroom
<1>1. PICK price \in Nat \ {0} : price = world.suppliers[s].price
  BY DEF WorldType
<1>2. PICK headroom \in Int : headroom = world.headroom
  OBVIOUS
<1>3. price <= headroom
  BY <1>1, <1>2 DEF Feasible
<1>4. /\ headroom \div price \in Nat
      /\ (headroom \div price) * price <= headroom
  BY <1>1, <1>2, <1>3
<1>5. OrderSize(world, s) = IF headroom \div price < Qty THEN headroom \div price ELSE Qty
  BY <1>1, <1>2 DEF OrderSize
<1>6. Qty \in Nat
  BY PlanAssumption
<1>7. CASE headroom \div price < Qty
  BY <1>1, <1>2, <1>4, <1>5, <1>6, <1>7
<1>8. CASE ~(headroom \div price < Qty)
  <2>1. OrderSize(world, s) = Qty /\ Qty <= headroom \div price
    BY <1>4, <1>5, <1>6, <1>8
  <2>2. PICK k \in Nat : k = headroom \div price
    BY <1>4
  <2>3. Qty * price <= k * price
    BY <1>1, <1>6, <2>1, <2>2
  <2>4. Qty * price <= headroom
    BY <1>1, <1>2, <1>4, <1>6, <2>2, <2>3
  <2> QED BY <1>1, <1>2, <1>6, <2>1, <2>4
<1> QED BY <1>7, <1>8

LEMMA WatchIsTyped ==
    ASSUME NEW steps \in [Steps -> StepType], NEW w \in Suppliers \cup {NoSupplier}
    PROVE  [steps EXCEPT ![VerifyPrice].watches = w] \in [Steps -> StepType]
<1>1. VerifyPrice \in Steps
  BY StepsAreFive DEF VerifyPrice
<1>2. [steps[VerifyPrice] EXCEPT !.watches = w] \in StepType
  BY <1>1 DEF StepType
<1> QED BY <1>2

LEMMA RevisedIsTyped ==
    ASSUME NEW p \in PlanType, NEW world, world.suppliers \in WorldType, world.headroom \in Int,
           NEW s \in Suppliers, Feasible(world, s), NEW cascade
    PROVE  Revised(p, world, s, cascade) \in PlanType
<1> DEFINE fresh == FreshSteps(s, OrderSize(world, s), world.suppliers[s].price, cascade)
           carried == Carried(p, s, cascade)
<1>1. fresh \in [Steps -> StepType]
  BY OrderSizeIsTyped, FreshIsTyped
<1>2. carried \in [Steps -> StepType]
  BY WatchIsTyped DEF Carried, PlanType
<1>3. Revised(p, world, s, cascade)
        = Plan(p.version + 1, [i \in Steps |-> IF IsDone(p, i) THEN carried[i] ELSE fresh[i]])
  BY DEF Revised
<1> HIDE DEF fresh, carried
<1>4. [i \in Steps |-> IF IsDone(p, i) THEN carried[i] ELSE fresh[i]] \in [Steps -> StepType]
  BY <1>1, <1>2
<1>5. p.version + 1 \in Nat \ {0}
  BY DEF PlanType
<1> QED BY <1>3, <1>4, <1>5 DEF Plan, PlanType

LEMMA TensIsNumber == ASSUME NEW q \in Nat PROVE Tens(q) \in Nat
<1>1. q \div 10 \in Nat /\ q % 10 \in Nat
  OBVIOUS
<1> QED BY <1>1 DEF Tens

LEMMA ShapeIsTyped == ASSUME NEW p \in PlanType PROVE ChoiceSignature(p) \in ShapeType
<1>1. \A i \in Steps : p.steps[i].supplier \in Suppliers \cup {NoSupplier} /\ p.steps[i].qty \in Nat
  BY DEF PlanType, StepType
<1>2. \A i \in Steps : Tens(p.steps[i].qty) \in Nat
  BY <1>1, TensIsNumber
<1> QED BY <1>1, <1>2 DEF ChoiceSignature, ShapeType

\* What is committed is a natural number, so the headroom is an integer.
LEMMA HeadroomIsNumber ==
    ASSUME LedgerTypeOK(Who), suppliers \in WorldType
    PROVE  /\ Len(ledger) \in Nat /\ DOMAIN ledger = 1 .. Len(ledger)
           /\ \A n \in 1 .. Len(ledger) : ledger[n] \in EntryType /\ ledger[n].amount \in Nat
           /\ Committed = AmountSum(ledger, Outstanding) /\ Committed \in Nat
           /\ World.suppliers \in WorldType /\ World.headroom \in Int
<1>1. Len(ledger) \in Nat /\ DOMAIN ledger = 1 .. Len(ledger)
  BY DEF LedgerTypeOK
<1>2. \A n \in 1 .. Len(ledger) : ledger[n] \in EntryType
  <2>1. ledger \in Seq(EntryType)
    BY DEF LedgerTypeOK, EntryType
  <2> HIDE DEF EntryType
  <2> QED BY <1>1, <2>1
<1>3. \A n \in 1 .. Len(ledger) : ledger[n].amount \in Nat
  BY <1>2 DEF EntryType
<1>4. Committed = AmountSum(ledger, Outstanding)
  BY DEF Committed, AmountSum
<1>5. Outstanding \subseteq 1 .. Len(ledger)
  BY <1>1 DEF Outstanding
<1>6. Committed \in Nat
  BY <1>1, <1>3, <1>4, <1>5, SumOfPlaces
<1>7. World.headroom = Limit - Committed /\ World.suppliers = suppliers
  BY DEF World
<1> QED BY <1>1, <1>2, <1>3, <1>4, <1>6, <1>7, LimitAssumption

LEMMA ObservedNumberIsTyped ==
    ASSUME NEW world, world.suppliers \in WorldType, world.headroom \in Int,
           NEW p \in PlanType, NEW i \in Steps, NEW a \in AssumptionsOf(p, i)
    PROVE  ObservedNumber(a, world) \in Int
<1>1. CASE a.kind = "price"
  <2>1. a.supplier \in Suppliers
    <3>1. p.steps[i] \in StepType
      BY DEF PlanType
    <3>2. a \in (IF p.steps[i].watches = NoSupplier THEN {}
                 ELSE {Assumption("price", p.steps[i].watches, PriceCap)})
      BY <1>1 DEF AssumptionsOf, Assumption
    <3>3. p.steps[i].watches \in Suppliers /\ a.supplier = p.steps[i].watches
      BY <3>1, <3>2 DEF StepType, Assumption
    <3> QED BY <3>3
  <2>2. ObservedNumber(a, world) = world.suppliers[a.supplier].price
    BY <1>1 DEF ObservedNumber
  <2> QED BY <2>1, <2>2 DEF WorldType
<1>2. CASE a.kind # "price"
  BY <1>2 DEF ObservedNumber, NoNumber
<1> QED BY <1>1, <1>2

\* A contradiction is one of a step of the plan, with a number.
LEMMA ContradictionsAreTyped ==
    ASSUME NEW world, world.suppliers \in WorldType, world.headroom \in Int,
           NEW p \in PlanType, NEW fresh, NEW c \in Contradictions(p, world, fresh)
    PROVE  c.step \in Steps /\ c.number \in Int
<1>1. PICK i \in Verified(p) : \E a \in AssumptionsOf(p, i) :
         c = [step |-> i, kind |-> a.kind, number |-> ObservedNumber(a, world)]
  BY DEF Contradictions
<1>2. i \in Steps
  BY DEF Verified
<1>3. PICK a \in AssumptionsOf(p, i) :
         c = [step |-> i, kind |-> a.kind, number |-> ObservedNumber(a, world)]
  BY <1>1
<1>4. ObservedNumber(a, world) \in Int
  BY <1>2, ObservedNumberIsTyped
<1> QED BY <1>2, <1>3, <1>4

LEMMA TriggerIsTyped ==
    ASSUME NEW d \in DampingType, NEW kind, NEW found,
           \A c \in found : c.step \in Steps /\ c.number \in Int
    PROVE  TriggerOf(d, kind, found) \in Int
<1> DEFINE numbered == {c \in found : c.kind = kind /\ c.number # NoNumber}
<1>1. CASE numbered = {}
  BY <1>1 DEF TriggerOf, LastTrigger, DampingType, NoNumber
<1>2. CASE numbered # {}
  <2> DEFINE places == {c.step : c \in numbered}
  <2>1. places \subseteq 1 .. 5 /\ places # {}
    BY <1>2, StepsAreFive
  <2> HIDE DEF places
  <2>2. PICK n \in places : \A m \in places : m <= n
    BY <2>1, LastPlace
  <2>3. \E c \in numbered : \A o \in numbered : o.step <= c.step
    BY <2>2 DEF places
  <2>4. (CHOOSE c \in numbered : \A o \in numbered : o.step <= c.step) \in numbered
    BY <2>3
  <2> QED BY <1>2, <2>4 DEF TriggerOf
<1> QED BY <1>1, <1>2

LEMMA DampingIsTyped ==
    ASSUME NEW d \in DampingType, ~Exhausted(d), NEW shape \in ShapeType, NEW n \in Nat,
           NEW found, \A c \in found : c.step \in Steps /\ c.number \in Int
    PROVE  AfterRevision(d, found, shape, n) \in DampingType
<1> DEFINE surviving == Surviving(d, found)
           price == TriggerOf(d, "price", surviving)
           budget == TriggerOf(d, "budget", surviving)
           e == AfterRevision(d, found, shape, n)
<1>1. \A c \in surviving : c.step \in Steps /\ c.number \in Int
  BY DEF Surviving
<1> HIDE DEF surviving
<1>2. price \in Int /\ budget \in Int
  BY <1>1, TriggerIsTyped
<1>3. e = [d EXCEPT !.count = d.count + 1, !.until = n + d.span, !.shapes = Append(d.shapes, shape),
                    !.price = price, !.budget = budget]
  BY DEF AfterRevision, surviving
<1> HIDE DEF price, budget, e
<1>4. d.count + 1 \in 0 .. MaxRevisions
  BY PlanAssumption DEF DampingType, Exhausted
<1>5. n + d.span \in Nat
  BY DEF DampingType
<1>6. Append(d.shapes, shape) \in Seq(ShapeType)
  BY DEF DampingType
<1>7. e \in DampingType
  BY <1>2, <1>3, <1>4, <1>5, <1>6 DEF DampingType
<1> QED BY <1>7 DEF e

LEMMA StatusIsTyped ==
    ASSUME NEW x \in RunType, NEW s \in Status \ {"none"}
    PROVE  [x EXCEPT !.status = s] \in RunType
BY DEF RunType

LEMMA ConcludedIsTyped ==
    ASSUME NEW x \in RunType, NEW i \in Steps, NEW t \in StepStatus, NEW s \in Status \ {"none"}
    PROVE  [x EXCEPT !.plan.steps[i].status = t, !.status = s] \in RunType
<1>1. PICK p \in PlanType : p = x.plan
  BY DEF RunType
<1>2. PICK step \in StepType : step = [p.steps[i] EXCEPT !.status = t]
  BY DEF PlanType, StepType, StepStatus
<1>3. PICK q \in PlanType : q = [p EXCEPT !.steps[i].status = t]
  <2>1. PICK steps \in [Steps -> StepType] : steps = [p.steps EXCEPT ![i] = step]
    BY DEF PlanType
  <2>2. [p EXCEPT !.steps[i].status = t] = [p EXCEPT !.steps = steps]
    BY <1>2, <2>1 DEF PlanType
  <2>3. [p EXCEPT !.steps = steps] \in PlanType
    BY DEF PlanType
  <2> QED BY <2>2, <2>3
<1>4. [x EXCEPT !.plan.steps[i].status = t, !.status = s] = [x EXCEPT !.plan = q, !.status = s]
  BY <1>1, <1>3 DEF RunType
<1>5. [x EXCEPT !.plan = q, !.status = s] \in RunType
  BY DEF RunType
<1> QED BY <1>4, <1>5

LEMMA StartIsTyped ==
    ASSUME NEW supplier \in Suppliers, NEW unit \in Nat, NEW mode \in {"adaptive", "baseline"},
           NEW cursor \in Nat, NEW span \in Nat, NEW p, p = InitialPlan(supplier, unit)
    PROVE  [status |-> "running", mode |-> mode, plan |-> p, cursor |-> cursor,
            damping |-> DampingInit(p, span)] \in RunType
<1>1. p \in PlanType /\ ChoiceSignature(p) \in ShapeType
  BY InitialIsTyped, ShapeIsTyped
<1>2. DampingInit(p, span) \in DampingType
  <2>1. PICK shapes \in Seq(ShapeType) : shapes = <<ChoiceSignature(p)>>
    <3>1. PICK shape \in ShapeType : shape = ChoiceSignature(p)
      BY <1>1
    <3>2. <<shape>> \in Seq(ShapeType)
      OBVIOUS
    <3> QED BY <3>1, <3>2
  <2>2. 0 \in 0 .. MaxRevisions
    BY PlanAssumption
  <2> QED BY <2>1, <2>2 DEF DampingInit, DampingType, NoNumber
<1> QED BY <1>1, <1>2 DEF RunType, Status

\* The candidates are plans for suppliers the mission may order from.
LEMMA CandidateIsTyped ==
    ASSUME NEW p \in PlanType, World.suppliers \in WorldType, World.headroom \in Int,
           NEW r, run[r].plan = p, NEW o \in Observations(r), o.candidate # NoPlan
    PROVE  /\ \E s \in Suppliers :
                /\ Feasible(World, s)
                /\ o.candidate = Revised(p, World, s, IsCascade(p, o.found))
           /\ o.candidate \in PlanType
           /\ \A c \in o.found : c.step \in Steps /\ c.number \in Int
<1> DEFINE found == Contradictions(p, World, Fresh(r))
<1>1. PICK c \in IF found = {} THEN {NoPlan} ELSE Candidates(r, found) :
         o = [found |-> found, candidate |-> c, verdict |-> Verdict(r, found, c)]
  BY DEF Observations
<1>2. \A x \in found : x.step \in Steps /\ x.number \in Int
  BY ContradictionsAreTyped
<1> HIDE DEF found
<1>3. o.found = found /\ o.candidate = c /\ c \in Candidates(r, found)
  BY <1>1
<1>4. PICK s \in OrderChoices(p, World) : c = Revised(p, World, s, IsCascade(p, found))
  BY <1>3 DEF Candidates
<1>5. s \in Suppliers /\ Feasible(World, s)
  BY DEF OrderChoices
<1>6. c \in PlanType
  BY <1>4, <1>5, RevisedIsTyped
<1> QED BY <1>2, <1>3, <1>4, <1>5, <1>6

LEMMA InForceIsTyped ==
    ASSUME NEW p \in PlanType, NEW r, run[r].plan = p, NEW o,
           o.candidate = NoPlan \/ o.candidate \in PlanType
    PROVE  InForce(r, o) \in PlanType
<1>1. CASE InForce(r, o) = p
  BY <1>1
<1>2. CASE InForce(r, o) # p
  <2>1. o.candidate \in PlanType
    BY <1>2 DEF InForce
  <2>2. VerifyPrice \in Steps
    BY StepsAreFive DEF VerifyPrice
  <2>3. PICK w \in Suppliers \cup {NoSupplier} : w = o.candidate.steps[VerifyPrice].watches
    BY <2>1, <2>2 DEF PlanType, StepType
  <2>4. PICK steps \in [Steps -> StepType] : steps = [p.steps EXCEPT ![VerifyPrice].watches = w]
    BY WatchIsTyped DEF PlanType
  <2>5. InForce(r, o) = [p EXCEPT !.steps[VerifyPrice].watches = w]
    BY <1>2, <2>3 DEF InForce
  <2>6. [p EXCEPT !.steps[VerifyPrice].watches = w] = [p EXCEPT !.steps = steps]
    BY <2>4 DEF PlanType
  <2>7. [p EXCEPT !.steps = steps] \in PlanType
    BY DEF PlanType
  <2> QED BY <2>5, <2>6, <2>7
<1> QED BY <1>1, <1>2

\* The records of the runs.
RunsTyped == run \in [Runs -> RunType \cup {Unstarted}]

LEMMA RunIsTyped ==
    ASSUME RunsTyped, NEW r \in Runs, run[r].status = "running"
    PROVE  run[r] \in RunType /\ run[r].plan \in PlanType /\ run[r].damping \in DampingType
BY DEF RunsTyped, RunType, Unstarted

LEMMA ObserveKeepsTypes ==
    ASSUME RunsTyped, LedgerTypeOK(Who), suppliers \in WorldType, events \in Seq(Injections),
           NEW r \in Runs, run[r].status = "running", Observe(r)
    PROVE  RunsTyped'
<1>1. run[r] \in RunType /\ run[r].plan \in PlanType /\ run[r].damping \in DampingType
  BY RunIsTyped
<1>2. World.suppliers \in WorldType /\ World.headroom \in Int
  BY HeadroomIsNumber
<1>3. Len(events) \in Nat
  OBVIOUS
<1>4. PICK o \in Observations(r) : Keeps(r, o) \/ Escalates(r, o) \/ Blocks(r, o) \/ Revises(r, o)
  BY DEF Observe
<1>5. /\ o.candidate = NoPlan \/ o.candidate \in PlanType
      /\ o.candidate # NoPlan => \A c \in o.found : c.step \in Steps /\ c.number \in Int
  BY <1>1, <1>2, CandidateIsTyped
<1>6. ASSUME NEW s \in Status \ {"none"}, Observed(r, o, s) PROVE RunsTyped'
  <2>1. PICK q \in PlanType : q = InForce(r, o)
    BY <1>1, <1>5, InForceIsTyped
  <2>2. run' = [run EXCEPT ![r] = [run[r] EXCEPT !.cursor = Len(events), !.status = s, !.plan = q]]
    BY <1>6, <2>1 DEF Observed, RunsTyped
  <2>3. [run[r] EXCEPT !.cursor = Len(events), !.status = s, !.plan = q] \in RunType
    BY <1>1, <1>3 DEF RunType
  <2> QED BY <2>2, <2>3 DEF RunsTyped
<1>7. CASE Keeps(r, o) \/ Escalates(r, o) \/ Blocks(r, o)
  BY <1>6, <1>7 DEF Keeps, Escalates, Blocks, Status
<1>8. CASE Revises(r, o)
  <2>1. /\ o.verdict = "revise"
        /\ run' = [run EXCEPT ![r] = [@ EXCEPT
            !.cursor = Len(events),
            !.plan = o.candidate,
            !.damping = AfterRevision(run[r].damping, o.found, ShapeOf(o.candidate), Len(events))]]
    BY <1>8 DEF Revises
  <2>2. /\ o.candidate # NoPlan
        /\ ~Exhausted(run[r].damping)
        /\ ShapeOf(o.candidate) = ChoiceSignature(o.candidate)
    <3>1. \E s : o.candidate = Revised(run[r].plan, World, s, IsCascade(run[r].plan, o.found))
      BY <2>1, ReviseIsDamped
    <3>2. o.candidate.version = run[r].plan.version + 1
      BY <3>1 DEF Revised, Plan
    <3>3. NoPlan.version = 0 /\ run[r].plan.version \in Nat \ {0}
      BY <1>1 DEF NoPlan, Plan, PlanType
    <3>4. o.candidate # NoPlan
      BY <3>2, <3>3
    <3> QED BY <2>1, <3>4, ReviseIsDamped
  <2>3. PICK q \in PlanType : q = o.candidate
    BY <1>5, <2>2
  <2>4. ChoiceSignature(q) \in ShapeType
    BY ShapeIsTyped
  <2>5. PICK d \in DampingType :
            d = AfterRevision(run[r].damping, o.found, ShapeOf(o.candidate), Len(events))
    BY <1>1, <1>3, <1>5, <2>2, <2>3, <2>4, DampingIsTyped
  <2>6. run' = [run EXCEPT ![r] = [run[r] EXCEPT !.cursor = Len(events), !.plan = q, !.damping = d]]
    BY <2>1, <2>3, <2>5 DEF RunsTyped
  <2>7. [run[r] EXCEPT !.cursor = Len(events), !.plan = q, !.damping = d] \in RunType
    BY <1>1, <1>3 DEF RunType
  <2> QED BY <2>6, <2>7 DEF RunsTyped
<1> QED BY <1>4, <1>7, <1>8

\* What the runs share.
WorldTyped ==
    /\ LedgerTypeOK(Who)
    /\ suppliers \in WorldType
    /\ granted \in BOOLEAN
    /\ record \in [total : Nat, favorable : Nat]
    /\ events \in Seq(Injections)
    /\ injecting \in Injections \cup {NoEvent}

LEMMA TypeParts == AdaptiveTypeOK <=> WorldTyped /\ RunsTyped /\ request \in RequestType
                                      /\ \A r \in Runs : ~IsAt(r, "idle") => run[r].status = "running"
BY DEF AdaptiveTypeOK, WorldTyped, RunsTyped, RequestType, Who, WorldType

\* An order that is placed is worth a natural number.
LEMMA OrderIsWorth ==
    ASSUME NEW p \in PlanType
    PROVE  Total(p.steps[PlaceOrder]) \in Nat
<1>1. PlaceOrder \in Steps
  BY StepsAreFive DEF PlaceOrder
<1>2. p.steps[PlaceOrder].qty \in Nat /\ p.steps[PlaceOrder].unit \in Nat
  BY <1>1 DEF PlanType, StepType
<1> QED BY <1>2 DEF Total

LEMMA AppendIsTyped ==
    ASSUME LedgerTypeOK(Who), NEW e \in EntryType, ledger' = Append(ledger, e), book' = book
    PROVE  LedgerTypeOK(Who)'
<1>1. ledger \in Seq(EntryType) /\ book \in Nat \ {0}
  BY DEF LedgerTypeOK, EntryType
<1>2. ledger' \in Seq(EntryType)
  BY <1>1
<1> QED BY <1>1, <1>2 DEF LedgerTypeOK, EntryType

\* The ledger grows by a spend, a hold, or a refund of what is in it.
LEMMA EntriesAreTyped ==
    ASSUME LedgerTypeOK(Who), NEW by \in Who
    PROVE  /\ \A amount \in Nat : amount > 0 =>
                /\ Entry("spend", amount, by, NoEntry) \in EntryType
                /\ Entry("hold", amount, by, NoEntry) \in EntryType
           /\ \A n \in DOMAIN ledger : Entry("refund", ledger[n].amount, by, n) \in EntryType
<1>1. Len(ledger) \in Nat /\ DOMAIN ledger = 1 .. Len(ledger)
  BY DEF LedgerTypeOK
<1>2. \A n \in 1 .. Len(ledger) : ledger[n] \in EntryType
  <2>1. ledger \in Seq(EntryType)
    BY DEF LedgerTypeOK, EntryType
  <2> HIDE DEF EntryType
  <2> QED BY <1>1, <2>1
<1> QED BY <1>1, <1>2 DEF Entry, EntryType, NoEntry

LEMMA InjectKeepsTypes ==
    ASSUME WorldTyped, NEW e \in Injections, InjectApply(e)
    PROVE  WorldTyped'
<1>1. /\ injecting' = e /\ UNCHANGED <<record, events>>
  BY DEF InjectApply
<1>2. CASE e.kind \in WorldEvents /\ WorldMoves(e)
  <2>1. /\ e.supplier \in Suppliers /\ e.value \in Nat
        /\ e.kind = "price_changed" => e.value > 0
    BY <1>2, AdaptiveAssumption
  <2>2. suppliers' \in WorldType
    <3>1. CASE e.kind = "price_changed"
      <4>1. suppliers' = [suppliers EXCEPT ![e.supplier].price = e.value]
        BY <1>2, <3>1 DEF WorldMoves
      <4>2. PICK price \in Nat \ {0} : price = e.value
        BY <2>1, <3>1
      <4> QED BY <2>1, <4>1, <4>2 DEF WorldTyped, WorldType
    <3>2. CASE e.kind = "supplier_unavailable"
      BY <1>2, <2>1, <3>2 DEF WorldTyped, WorldMoves, WorldType
    <3>3. CASE e.kind = "delivery_delayed"
      BY <1>2, <2>1, <3>3 DEF WorldTyped, WorldMoves, WorldType
    <3> QED BY <1>2, <3>1, <3>2, <3>3 DEF WorldEvents
  <2>3. LedgerTypeOK(Who)' /\ granted' = granted
    BY <1>2 DEF WorldMoves, WorldTyped, LedgerTypeOK, ledgerVars
  <2> QED BY <1>1, <2>2, <2>3 DEF WorldTyped
<1>3. CASE e.kind \in BudgetEvents /\ BudgetMoves(e)
  <2>0. "other" \in Who /\ e.value \in Nat /\ LedgerTypeOK(Who)
    BY AdaptiveAssumption DEF Who, WorldTyped
  <2>1. CASE PlaceHold(e.value, "other")
    <3>1. e.value > 0 /\ book' = book /\ ledger' = Append(ledger, Entry("hold", e.value, "other", NoEntry))
      BY <2>1 DEF PlaceHold
    <3>2. LedgerTypeOK(Who)'
      BY <2>0, <3>1, EntriesAreTyped, AppendIsTyped
    <3> QED BY <1>1, <1>3, <3>2 DEF BudgetMoves, WorldTyped
  <2>2. CASE \E n \in Outstanding : Refund(n, "other")
    <3>1. PICK n \in Outstanding : Refund(n, "other")
      BY <2>2
    <3>2. /\ n \in DOMAIN ledger /\ book' = book
          /\ ledger' = Append(ledger, Entry("refund", ledger[n].amount, "other", n))
      BY <3>1 DEF Refund, Outstanding
    <3>3. LedgerTypeOK(Who)'
      BY <2>0, <3>2, EntriesAreTyped, AppendIsTyped
    <3> QED BY <1>1, <1>3, <3>3 DEF BudgetMoves, WorldTyped
  <2> QED BY <1>3, <2>1, <2>2 DEF BudgetMoves, Releasable
<1>4. CASE granted' = FALSE /\ UNCHANGED <<ledgerVars, suppliers>>
  BY <1>1, <1>4 DEF WorldTyped, LedgerTypeOK, ledgerVars
<1>5. e.kind \in WorldEvents \cup BudgetEvents \cup {"authority_revoked"}
  BY AdaptiveAssumption
<1> QED BY <1>2, <1>3, <1>4, <1>5 DEF InjectApply, WorldEvents, BudgetEvents

LEMMA ServeKeepsWorldTyped ==
    ASSUME WorldTyped, RunsTyped, NEW r \in Runs, run[r].status = "running", Serve(r)
    PROVE  WorldTyped'
<1>1. CASE OrderSpend(r)
  <2>1. run[r].plan \in PlanType
    BY RunIsTyped
  <2>2. PICK amount \in Nat : amount = Total(run[r].plan.steps[PlaceOrder])
    BY <2>1, OrderIsWorth
  <2>3. amount > 0 /\ book' = book /\ ledger' = Append(ledger, Entry("spend", amount, r, NoEntry))
    BY <1>1, <2>2 DEF OrderSpend, Spend
  <2>4. Entry("spend", amount, r, NoEntry) \in EntryType
    BY <2>3, EntriesAreTyped DEF WorldTyped, Who
  <2>5. LedgerTypeOK(Who)'
    BY <2>3, <2>4, AppendIsTyped DEF WorldTyped
  <2> QED BY <1>1, <2>5 DEF OrderSpend, WorldTyped
<1>2. CASE OrderDecide(r)
  <2>1. record' \in [total : Nat, favorable : Nat]
    BY <1>2 DEF OrderDecide, WorldTyped
  <2> QED BY <1>2, <2>1 DEF OrderDecide, WorldTyped, ledgerVars, LedgerTypeOK
<1>3. CASE Observe(r) \/ Execute(r) \/ ExecuteBaseline(r) \/ OrderGate(r) \/ OrderCheck(r)
  <2>1. UNCHANGED <<ledgerVars, suppliers, granted, record, events, injecting>>
    BY <1>3 DEF Observe, Execute, ExecuteBaseline, OrderGate, OrderCheck
  <2> QED BY <2>1 DEF WorldTyped, ledgerVars, LedgerTypeOK
<1> QED BY <1>1, <1>2, <1>3 DEF Serve

LEMMA ConcludedKeepsTypes ==
    ASSUME RunsTyped, NEW r \in Runs, run[r].status = "running", NEW i \in Steps,
           NEW t \in StepStatus, NEW s \in Status \ {"none"}, Concluded(r, i, t, s)
    PROVE  RunsTyped'
<1>1. PICK y \in RunType : y = [run[r] EXCEPT !.plan.steps[i].status = t, !.status = s]
  BY RunIsTyped, ConcludedIsTyped
<1>2. run' = [run EXCEPT ![r] = y]
  BY <1>1 DEF Concluded, RunsTyped
<1> QED BY <1>2 DEF RunsTyped

LEMMA CompleteKeepsTypes ==
    ASSUME RunsTyped, NEW r \in Runs, run[r].status = "running", Complete(r)
    PROVE  RunsTyped'
<1>1. PICK y \in RunType : y = [run[r] EXCEPT !.status = "completed"]
  BY RunIsTyped, StatusIsTyped DEF Status
<1>2. run' = [run EXCEPT ![r] = y]
  BY <1>1 DEF Complete, RunsTyped
<1> QED BY <1>2 DEF RunsTyped

LEMMA ServeKeepsRunsTyped ==
    ASSUME WorldTyped, RunsTyped, NEW r \in Runs, run[r].status = "running", Serve(r)
    PROVE  RunsTyped'
<1> USE DEF StepStatus, Status
<1>0. PlaceOrder \in Steps
  BY StepsAreFive DEF PlaceOrder
<1>1. PendingSteps(run[r].plan) # {} => NextStep(run[r].plan) \in Steps
  BY NextIsPending
<1>2. CASE UNCHANGED run
  BY <1>2 DEF RunsTyped
<1>3. CASE Observe(r)
  BY <1>3, ObserveKeepsTypes DEF WorldTyped
<1>4. CASE Execute(r)
  <2>1. \/ Complete(r) \/ UNCHANGED run
        \/ PendingSteps(run[r].plan) # {} /\ Concluded(r, NextStep(run[r].plan), "done", "running")
    BY <1>4 DEF Execute
  <2> QED BY <1>1, <1>2, <2>1, CompleteKeepsTypes, ConcludedKeepsTypes
<1>5. CASE ExecuteBaseline(r)
  <2>1. \/ Complete(r) \/ UNCHANGED run \/ Concluded(r, PlaceOrder, "failed", "failed")
        \/ PendingSteps(run[r].plan) # {} /\ Concluded(r, NextStep(run[r].plan), "done", "running")
    BY <1>5 DEF ExecuteBaseline
  <2> QED BY <1>0, <1>1, <1>2, <2>1, CompleteKeepsTypes, ConcludedKeepsTypes
<1>6. CASE OrderGate(r)
  <2>1. \/ UNCHANGED run
        \/ \E t \in {"blocked", "deferred"} : Concluded(r, PlaceOrder, t, "awaiting_human")
    BY <1>6 DEF OrderGate
  <2> QED BY <1>0, <1>2, <2>1, ConcludedKeepsTypes
<1>7. CASE OrderDecide(r)
  <2>1. \/ UNCHANGED run
        \/ \E s \in {"escalated", "failed"} : Concluded(r, PlaceOrder, "failed", s)
    BY <1>7 DEF OrderDecide
  <2> QED BY <1>0, <1>2, <2>1, ConcludedKeepsTypes
<1>8. CASE OrderSpend(r)
  BY <1>2, <1>8 DEF OrderSpend
<1>9. CASE OrderCheck(r)
  <2>1. \/ Concluded(r, PlaceOrder, "failed", "escalated")
        \/ Concluded(r, PlaceOrder, "done", "running")
    BY <1>9 DEF OrderCheck
  <2> QED BY <1>0, <2>1, ConcludedKeepsTypes
<1> QED BY <1>3, <1>4, <1>5, <1>6, <1>7, <1>8, <1>9 DEF Serve

LEMMA StartKeepsTypes ==
    ASSUME WorldTyped, RunsTyped, NEW r \in Runs, StartRun(r)
    PROVE  WorldTyped' /\ RunsTyped'
<1>1. PICK scenario \in Starts[r] :
         LET plan == InitialPlan(scenario.primary, scenario.world[scenario.primary].price)
         IN  /\ suppliers' = scenario.world
             /\ run' = [run EXCEPT ![r] =
                [status |-> "running", mode |-> scenario.mode, plan |-> plan,
                 cursor |-> Len(events), damping |-> DampingInit(plan, scenario.span)]]
  BY DEF StartRun
<1>2. /\ scenario.world \in WorldType /\ scenario.primary \in Suppliers
      /\ scenario.span \in Nat /\ scenario.mode \in {"adaptive", "baseline"}
  BY AdaptiveAssumption DEF WorldType
<1>3. scenario.world[scenario.primary].price \in Nat
  BY <1>2 DEF WorldType
<1> DEFINE plan == InitialPlan(scenario.primary, scenario.world[scenario.primary].price)
           y == [status |-> "running", mode |-> scenario.mode, plan |-> plan,
                 cursor |-> Len(events), damping |-> DampingInit(plan, scenario.span)]
<1>4. Len(events) \in Nat
  BY DEF WorldTyped
<1>5. y \in RunType
  BY <1>2, <1>3, <1>4, StartIsTyped
<1>6. suppliers' = scenario.world /\ run' = [run EXCEPT ![r] = y]
  BY <1>1
<1> HIDE DEF y
<1>7. RunsTyped'
  BY <1>5, <1>6 DEF RunsTyped
<1>8. UNCHANGED <<ledgerVars, granted, record, events, injecting>>
  BY DEF StartRun
<1>9. WorldTyped'
  BY <1>2, <1>6, <1>8 DEF WorldTyped, LedgerTypeOK, ledgerVars
<1> QED BY <1>7, <1>9

\* A step that leaves the runs, and the ledger.
LEMMA AsideKeepsTypes ==
    ASSUME WorldTyped, RunsTyped, UNCHANGED <<ledger, book, suppliers, granted, record, run>>,
           events' \in Seq(Injections), injecting' \in Injections \cup {NoEvent}
    PROVE  WorldTyped' /\ RunsTyped'
<1>1. RunsTyped'
  BY DEF RunsTyped
<1>2. LedgerTypeOK(Who)'
  BY DEF WorldTyped, LedgerTypeOK
<1> QED BY <1>1, <1>2 DEF WorldTyped

LEMMA TypeStep == ServiceInv /\ AdaptiveTypeOK /\ [AdaptiveNext]_adaptiveVars => AdaptiveTypeOK'
<1> SUFFICES ASSUME ServiceInv, AdaptiveTypeOK, [AdaptiveNext]_adaptiveVars PROVE AdaptiveTypeOK'
  OBVIOUS
<1>0. WorldTyped /\ RunsTyped
  BY TypeParts
<1>1. ASSUME NEW r \in Runs, StartRun(r) PROVE WorldTyped' /\ RunsTyped'
  BY <1>0, <1>1, StartKeepsTypes
<1>2. ASSUME NEW r \in Runs, Advance(r) PROVE WorldTyped' /\ RunsTyped'
  BY <1>0, <1>2 DEF Advance, WorldTyped, RunsTyped, LedgerTypeOK, ledgerVars
<1>3. ASSUME NEW r \in Runs, Serve(r) PROVE WorldTyped' /\ RunsTyped'
  <2>1. run[r].status = "running"
    BY <1>3, ServeServed, ServedRun
  <2> QED BY <1>0, <1>3, <2>1, ServeKeepsWorldTyped, ServeKeepsRunsTyped
<1>4. ASSUME NEW e \in Injections, InjectApply(e) PROVE WorldTyped' /\ RunsTyped'
  <2>1. run' = run
    BY <1>4 DEF InjectApply
  <2>2. RunsTyped'
    BY <1>0, <2>1 DEF RunsTyped
  <2> QED BY <1>0, <1>4, <2>2, InjectKeepsTypes
<1>5. ASSUME InjectAppend PROVE WorldTyped' /\ RunsTyped'
  <2>1. /\ events' = Append(events, injecting) /\ injecting' = NoEvent /\ injecting # NoEvent
        /\ UNCHANGED <<ledger, book, suppliers, granted, record, run>>
    BY <1>5 DEF InjectAppend, ledgerVars
  <2>2. events' \in Seq(Injections)
    BY <1>0, <2>1 DEF WorldTyped
  <2> QED BY <1>0, <2>1, <2>2, AsideKeepsTypes
<1>6. ASSUME UNCHANGED adaptiveVars PROVE WorldTyped' /\ RunsTyped'
  <2>1. UNCHANGED <<ledger, book, suppliers, granted, record, events, injecting, run>>
    BY <1>6 DEF adaptiveVars, ledgerVars
  <2>2. events' \in Seq(Injections) /\ injecting' \in Injections \cup {NoEvent}
    BY <1>0, <2>1 DEF WorldTyped
  <2> QED BY <1>0, <2>1, <2>2, AsideKeepsTypes
<1>7. WorldTyped' /\ RunsTyped'
  BY <1>1, <1>2, <1>3, <1>4, <1>5, <1>6 DEF AdaptiveNext
<1>8. ServiceInv'
  BY NextKeeps
<1>9. request' \in RequestType /\ \A r \in Runs : ~IsAt(r, "idle")' => run'[r].status = "running"
  BY <1>8 DEF ServiceInv, RequestsServe
<1> QED BY <1>7, <1>9, TypeParts DEF AdaptiveTypeOK, WorldTyped, RunsTyped, RequestType, Who, WorldType, IsAt

\* The variables hold what the code stores in them, whatever the runs and the events.
THEOREM AdaptiveTypeCorrect == AdaptiveSpec => []AdaptiveTypeOK
<1>1. AdaptiveInit => AdaptiveTypeOK
  <2> SUFFICES ASSUME AdaptiveInit PROVE AdaptiveTypeOK
    OBVIOUS
  <2>1. PICK r \in Runs : \E scenario \in Starts[r] : suppliers = scenario.world
    BY DEF AdaptiveInit
  <2>2. suppliers \in WorldType
    BY <2>1, AdaptiveAssumption DEF WorldType
  <2>3. WorldTyped
    BY <2>2 DEF AdaptiveInit, WorldTyped, LedgerInit, LedgerTypeOK
  <2>4. RunsTyped
    BY DEF AdaptiveInit, RunsTyped
  <2>5. ServiceInv
    BY InitServes
  <2> QED BY <2>3, <2>4, <2>5, TypeParts DEF ServiceInv, RequestsServe
<1>2. ServiceInv /\ AdaptiveTypeOK /\ [AdaptiveNext]_adaptiveVars => AdaptiveTypeOK'
  BY TypeStep
<1> QED BY <1>1, <1>2, ServiceKeepsInv, PTL DEF AdaptiveSpec

-----------------------------------------------------------------------------
(***************************************************************************)
(* OrderedOnce is almost inductive.  What it leaves out is that a run that *)
(* has not started has paid nothing, that a request about to check has     *)
(* paid, and that an order which failed after it was paid for is one of    *)
(* an escalated run: this keeps a revision, which plans failed orders      *)
(* again, away from it, as only running runs are observed.                 *)
(***************************************************************************)

OrderOf(r) == run[r].plan.steps[PlaceOrder]

PaidOnce(r) ==
    /\ SpendsOf(r) # {} =>
        /\ Started(r)
        /\ \/ IsAt(r, "check")
           \/ OrderOf(r).status = "done"
           \/ run[r].status = "escalated" /\ OrderOf(r).status = "failed"
        /\ \A n \in SpendsOf(r) : SpendsOf(r) = {n} /\ ledger[n].amount = Total(OrderOf(r))
    /\ Started(r) /\ (IsAt(r, "check") \/ OrderOf(r).status = "done") => SpendsOf(r) # {}

OrdersPaid == \A r \in Runs : PaidOnce(r)

\* The ledger has the same spends of the run.
SpendsStand(r) ==
    /\ SpendsOf(r)' = SpendsOf(r)
    /\ \A n \in SpendsOf(r) : ledger'[n] = ledger[n]

LEMMA SpendsStandUnlessAdded ==
    ASSUME LedgerTypeOK(Who), NEW r,
           \/ UNCHANGED ledger
           \/ \E e \in EntryType : ledger' = Append(ledger, e) /\ (e.kind # "spend" \/ e.by # r)
    PROVE  SpendsStand(r)
<1>1. CASE UNCHANGED ledger
  BY <1>1 DEF SpendsStand, SpendsOf
<1>2. CASE \E e \in EntryType : ledger' = Append(ledger, e) /\ (e.kind # "spend" \/ e.by # r)
  <2>1. PICK e \in EntryType : ledger' = Append(ledger, e) /\ (e.kind # "spend" \/ e.by # r)
    BY <1>2
  <2>2. ledger \in Seq(EntryType)
    BY DEF LedgerTypeOK, EntryType
  <2> HIDE DEF EntryType
  <2>3. /\ DOMAIN ledger' = DOMAIN ledger \cup {Len(ledger) + 1}
        /\ Len(ledger) + 1 \notin DOMAIN ledger
        /\ ledger'[Len(ledger) + 1] = e
        /\ \A n \in DOMAIN ledger : ledger'[n] = ledger[n]
    BY <2>1, <2>2
  <2> QED BY <2>1, <2>3 DEF SpendsStand, SpendsOf
<1> QED BY <1>1, <1>2

\* A run nobody serves, whose spends stand, is paid as before.
LEMMA OtherIsPaid ==
    ASSUME NEW r, PaidOnce(r), SpendsStand(r), run'[r] = run[r], IsAt(r, "check")' = IsAt(r, "check")
    PROVE  PaidOnce(r)'
BY DEF PaidOnce, SpendsStand, Started, OrderOf

\* A step of a request before the spend or after the check: an order that is done
\* stands, and no other becomes done.
LEMMA ServedIsPaid ==
    ASSUME NEW r, PaidOnce(r), SpendsStand(r), run[r].status = "running", run'[r].status # "none",
           ~IsAt(r, "check"), ~IsAt(r, "check")', Stands(run[r].plan, run'[r].plan),
           PlanShaped(run[r].plan),
           run'[r].plan.steps[PlaceOrder].status = "done" => OrderOf(r).status = "done"
    PROVE  PaidOnce(r)'
<1> DEFINE order == run[r].plan.steps[PlaceOrder]
           after == run'[r].plan.steps[PlaceOrder]
<1>1. PlaceOrder \in Steps
  BY StepsAreFive DEF PlaceOrder
<1>2. order.status = "done" =>
        after.status = "done" /\ after.qty = order.qty /\ after.unit = order.unit
  <2> SUFFICES ASSUME order.status = "done"
               PROVE  after.status = "done" /\ after.qty = order.qty /\ after.unit = order.unit
    OBVIOUS
  <2>1. after = [order EXCEPT !.watches = after.watches]
    BY <1>1 DEF Stands, IsDone
  <2>2. IsStep(order)
    BY <1>1 DEF PlanShaped
  <2> HIDE DEF order, after
  <2>3. DOMAIN order = {"status", "supplier", "qty", "unit", "watches"}
    BY <2>2 DEF IsStep
  <2> QED BY <2>1, <2>3
<1>3. SpendsOf(r) # {} <=> order.status = "done"
  BY DEF PaidOnce, Started, OrderOf
<1>4. order.status = "done" => Total(after) = Total(order)
  BY <1>2 DEF Total
<1>5. SpendsOf(r)' # {} => after.status = "done"
  BY <1>2, <1>3 DEF SpendsStand
<1>6. \A n \in SpendsOf(r)' : SpendsOf(r)' = {n} /\ ledger'[n].amount = Total(after)
  BY <1>3, <1>4 DEF SpendsStand, PaidOnce, OrderOf
<1>7. after.status = "done" => SpendsOf(r)' # {}
  BY <1>3 DEF SpendsStand, OrderOf
<1> QED BY <1>5, <1>6, <1>7 DEF PaidOnce, Started, OrderOf

\* The order of a run after one of its steps is concluded.
LEMMA OrderAfterConclusion ==
    ASSUME RunsShaped, NEW r \in Runs, Started(r), NEW i \in Steps, NEW t, NEW s,
           Concluded(r, i, t, s)
    PROVE  /\ run'[r].status = s
           /\ i # PlaceOrder => run'[r].plan.steps[PlaceOrder] = OrderOf(r)
           /\ i = PlaceOrder => /\ run'[r].plan.steps[PlaceOrder].status = t
                                /\ Total(run'[r].plan.steps[PlaceOrder]) = Total(OrderOf(r))
<1>0. PlaceOrder \in Steps
  BY StepsAreFive DEF PlaceOrder
<1>1. PICK x : x = run[r] /\ RunShaped(x)
  BY DEF RunsShaped
<1>2. PICK p : p = x.plan /\ PlanShaped(p)
  BY <1>1 DEF RunShaped
<1>3. PICK q : q = [p EXCEPT !.steps[i].status = t]
  OBVIOUS
<1>4. run'[r] = [x EXCEPT !.plan = q, !.status = s]
  <2>1. run' = [run EXCEPT ![r] = [@ EXCEPT !.plan.steps[i].status = t, !.status = s]]
    BY DEF Concluded
  <2>2. [x EXCEPT !.plan.steps[i].status = t, !.status = s] = [x EXCEPT !.plan = q, !.status = s]
    BY <1>1, <1>2, <1>3 DEF RunShaped, RunFields
  <2> QED BY <1>1, <2>1, <2>2 DEF RunsShaped
<1>5. run'[r].status = s /\ run'[r].plan = q
  BY <1>1, <1>4 DEF RunShaped, RunFields
<1>6. /\ q.steps[i] = [p.steps[i] EXCEPT !.status = t]
      /\ \A j \in Steps \ {i} : q.steps[j] = p.steps[j]
  BY <1>2, <1>3 DEF PlanShaped, PlanFields
<1>7. DOMAIN p.steps[i] = {"status", "supplier", "qty", "unit", "watches"}
  BY <1>2 DEF PlanShaped, IsStep
<1>8. q.steps[i].status = t /\ q.steps[i].qty = p.steps[i].qty /\ q.steps[i].unit = p.steps[i].unit
  BY <1>6, <1>7
<1> QED BY <1>0, <1>1, <1>2, <1>5, <1>6, <1>8 DEF Total, OrderOf

\* An observation makes no order done.
LEMMA ObserveOrdersNothing ==
    ASSUME ServiceInv, RunsTyped, NEW r \in Runs, Started(r), Observe(r)
    PROVE  run'[r].plan.steps[PlaceOrder].status = "done" => OrderOf(r).status = "done"
<1>0. PlaceOrder \in Steps /\ PlaceOrder # VerifyPrice
  BY StepsAreFive DEF PlaceOrder, VerifyPrice
<1>1. PICK x : x = run[r] /\ RunShaped(x) /\ DOMAIN run = Runs
  BY DEF ServiceInv, RunsShaped
<1>2. PICK p : p = x.plan /\ PlanShaped(p)
  BY <1>1 DEF RunShaped
<1>3. PICK o \in Observations(r) : Keeps(r, o) \/ Escalates(r, o) \/ Blocks(r, o) \/ Revises(r, o)
  BY DEF Observe
<1>4. ASSUME NEW s, Observed(r, o, s)
      PROVE  run'[r].plan.steps[PlaceOrder] = OrderOf(r)
  <2>1. PICK q : q = InForce(r, o)
    OBVIOUS
  <2>2. q.steps[PlaceOrder] = p.steps[PlaceOrder]
    <3>1. PICK w : q \in {p, [p EXCEPT !.steps[VerifyPrice].watches = w]}
      BY <1>1, <1>2, <2>1, InForceIsObserved
    <3>2. [p EXCEPT !.steps[VerifyPrice].watches = w].steps
            = [p.steps EXCEPT ![VerifyPrice].watches = w]
      BY <1>2 DEF PlanShaped, PlanFields
    <3>3. [p.steps EXCEPT ![VerifyPrice].watches = w][PlaceOrder] = p.steps[PlaceOrder]
      BY <1>0, <1>2 DEF PlanShaped
    <3> QED BY <3>1, <3>2, <3>3
  <2>3. run'[r] = [x EXCEPT !.cursor = Len(events), !.status = s, !.plan = q]
    BY <1>1, <1>4, <2>1 DEF Observed
  <2>4. run'[r].plan = q
    BY <1>1, <2>3 DEF RunShaped, RunFields
  <2> QED BY <1>1, <1>2, <2>2, <2>4 DEF OrderOf
<1>5. CASE Keeps(r, o) \/ Escalates(r, o) \/ Blocks(r, o)
  <2>1. \E s : Observed(r, o, s)
    BY <1>5 DEF Keeps, Escalates, Blocks
  <2> QED BY <1>4, <2>1
<1>6. CASE Revises(r, o)
  <2>1. PICK s : o.candidate = Revised(p, World, s, IsCascade(p, o.found))
    BY <1>1, <1>2, <1>6, ReviseIsDamped DEF Revises
  <2>2. run'[r].plan = o.candidate
    <3>1. PICK d : run' = [run EXCEPT ![r] = [@ EXCEPT !.cursor = Len(events), !.plan = o.candidate, !.damping = d]]
      BY <1>6 DEF Revises
    <3>2. run'[r] = [x EXCEPT !.cursor = Len(events), !.plan = o.candidate, !.damping = d]
      BY <1>1, <3>1
    <3> QED BY <1>1, <3>2 DEF RunShaped, RunFields
  <2>3. ASSUME ~IsDone(p, PlaceOrder) PROVE o.candidate.steps[PlaceOrder].status = "pending"
    <3> DEFINE fresh == FreshSteps(s, OrderSize(World, s), World.suppliers[s].price,
                                   IsCascade(p, o.found))
    <3>1. o.candidate.steps[PlaceOrder] = fresh[PlaceOrder]
      BY <1>0, <2>1, <2>3 DEF Revised, Plan
    <3>2. fresh[PlaceOrder].status = "pending"
      BY DEF FreshSteps, Step, PlaceOrder
    <3> QED BY <3>1, <3>2
  <2> QED BY <1>1, <1>2, <2>2, <2>3 DEF IsDone, OrderOf
<1> QED BY <1>3, <1>5, <1>6

\* Where a cycle ends, and where a request goes next.
LEMMA ConcludedLeavesCheck ==
    ASSUME request \in RequestType, NEW r \in Runs, NEW i, NEW t, NEW s, Concluded(r, i, t, s)
    PROVE  ~IsAt(r, "check")'
BY CycleEndsAside DEF Concluded, IsAt

LEMMA CompleteLeavesCheck ==
    ASSUME request \in RequestType, NEW r \in Runs, Complete(r)
    PROVE  ~IsAt(r, "check")'
BY CycleEndsAside DEF Complete, IsAt

\* Before the spend and after the check, no step makes an order done, or checks.
LEMMA ServeOrdersNothing ==
    ASSUME ServiceInv, RunsTyped, NEW r \in Runs, ~IsAt(r, "idle"),
           \/ Observe(r) \/ Execute(r) \/ ExecuteBaseline(r) \/ OrderGate(r) \/ OrderDecide(r)
    PROVE  /\ ~IsAt(r, "check") /\ ~IsAt(r, "check")'
           /\ run'[r].plan.steps[PlaceOrder].status = "done" => OrderOf(r).status = "done"
<1>0. /\ RunShaped(run[r]) /\ RunsShaped /\ request \in RequestType /\ Started(r)
      /\ PlaceOrder \in Steps
  BY ServedRun, StepsAreFive DEF ServiceInv, Started, PlaceOrder
<1>1. ~IsAt(r, "check")
  BY DEF Observe, Execute, ExecuteBaseline, OrderGate, OrderDecide, IsAt
<1>2. PendingSteps(run[r].plan) # {} => NextStep(run[r].plan) \in Steps
  BY NextIsPending
<1>3. ASSUME NEW place \in {"execute", "gate", "decide", "spend"}, Goes(r, place)
      PROVE  ~IsAt(r, "check")'
  BY <1>0, <1>3, GoesAside DEF IsAt, Stage
<1>4. CASE UNCHANGED run /\ \E place \in {"gate", "decide", "spend"} : Goes(r, place)
  BY <1>1, <1>3, <1>4 DEF OrderOf
<1>5. ASSUME NEW i \in Steps, NEW t, NEW s, Concluded(r, i, t, s), i # PlaceOrder \/ t # "done"
      PROVE  /\ ~IsAt(r, "check")'
             /\ run'[r].plan.steps[PlaceOrder].status = "done" => OrderOf(r).status = "done"
  <2>1. ~IsAt(r, "check")'
    BY <1>0, <1>5, ConcludedLeavesCheck
  <2>2. /\ i # PlaceOrder => run'[r].plan.steps[PlaceOrder] = OrderOf(r)
        /\ i = PlaceOrder => run'[r].plan.steps[PlaceOrder].status = t
    BY <1>0, <1>5, OrderAfterConclusion
  <2> QED BY <1>5, <2>1, <2>2
<1>6. CASE Complete(r)
  <2>1. run'[r].plan = run[r].plan
    <3>1. run'[r] = [run[r] EXCEPT !.status = "completed"]
      BY <1>0, <1>6 DEF Complete, RunsShaped
    <3> QED BY <1>0, <3>1 DEF RunShaped, RunFields
  <2> QED BY <1>0, <1>1, <1>6, <2>1, CompleteLeavesCheck DEF OrderOf
<1>7. CASE Observe(r)
  <2>1. PICK o \in Observations(r) : Keeps(r, o) \/ Escalates(r, o) \/ Blocks(r, o) \/ Revises(r, o)
    BY <1>7 DEF Observe
  <2>2. ~IsAt(r, "check")'
    <3>1. Goes(r, "execute") \/ \E s : CycleEnds(r, s)
      BY <2>1 DEF Keeps, Escalates, Blocks, Revises
    <3> QED BY <1>0, <1>3, <3>1, CycleEndsAside DEF IsAt
  <2> QED BY <1>0, <1>1, <1>7, <2>2, ObserveOrdersNothing
<1>8. CASE Execute(r)
  <2>1. \/ Complete(r)
        \/ UNCHANGED run /\ Goes(r, "gate")
        \/ /\ PendingSteps(run[r].plan) # {} /\ NextStep(run[r].plan) # PlaceOrder
           /\ Concluded(r, NextStep(run[r].plan), "done", "running")
    BY <1>8 DEF Execute
  <2>2. CASE /\ PendingSteps(run[r].plan) # {} /\ NextStep(run[r].plan) # PlaceOrder
             /\ Concluded(r, NextStep(run[r].plan), "done", "running")
    <3>1. PICK i \in Steps : i = NextStep(run[r].plan)
      BY <1>2, <2>2
    <3> QED BY <1>1, <1>5, <2>2, <3>1
  <2> QED BY <1>4, <1>6, <2>1, <2>2
<1>9. CASE ExecuteBaseline(r)
  <2>1. \/ Complete(r)
        \/ UNCHANGED run /\ Goes(r, "decide")
        \/ Concluded(r, PlaceOrder, "failed", "failed")
        \/ /\ PendingSteps(run[r].plan) # {} /\ NextStep(run[r].plan) # PlaceOrder
           /\ Concluded(r, NextStep(run[r].plan), "done", "running")
    BY <1>9 DEF ExecuteBaseline
  <2>2. CASE /\ PendingSteps(run[r].plan) # {} /\ NextStep(run[r].plan) # PlaceOrder
             /\ Concluded(r, NextStep(run[r].plan), "done", "running")
    <3>1. PICK i \in Steps : i = NextStep(run[r].plan)
      BY <1>2, <2>2
    <3> QED BY <1>1, <1>5, <2>2, <3>1
  <2>3. CASE Concluded(r, PlaceOrder, "failed", "failed")
    BY <1>0, <1>1, <1>5, <2>3
  <2> QED BY <1>4, <1>6, <2>1, <2>2, <2>3
<1>10. CASE OrderGate(r)
  <2>1. \/ UNCHANGED run /\ Goes(r, "decide")
        \/ \E t \in {"blocked", "deferred"} : Concluded(r, PlaceOrder, t, "awaiting_human")
    BY <1>10 DEF OrderGate
  <2> QED BY <1>0, <1>1, <1>4, <1>5, <2>1
<1>11. CASE OrderDecide(r)
  <2>1. \/ UNCHANGED run /\ Goes(r, "spend")
        \/ \E s : Concluded(r, PlaceOrder, "failed", s)
    BY <1>11 DEF OrderDecide
  <2> QED BY <1>0, <1>1, <1>4, <1>5, <2>1
<1> QED BY <1>7, <1>8, <1>9, <1>10, <1>11

\* The spend: the order is pending, so nothing was paid before.
LEMMA SpendPays ==
    ASSUME ServiceInv, WorldTyped, RunsTyped, NEW r \in Runs, PaidOnce(r), OrderSpend(r)
    PROVE  PaidOnce(r)'
<1>1. /\ ~IsAt(r, "idle") /\ ~IsAt(r, "check") /\ IsPending(run[r].plan, PlaceOrder)
  BY DEF OrderSpend, IsAt, ServiceInv, RequestsServe, OrderStages
<1>2. run[r].status = "running" /\ request \in RequestType
  BY <1>1, ServedRun
<1>3. SpendsOf(r) = {}
  BY <1>1, <1>2 DEF PaidOnce, IsPending, OrderOf
<1>4. PICK amount : amount = Total(OrderOf(r))
  OBVIOUS
<1>5. ledger' = Append(ledger, Entry("spend", amount, r, NoEntry)) /\ run' = run
  BY <1>4 DEF OrderSpend, Spend, OrderOf
<1>6. IsAt(r, "check")'
  BY <1>2, GoesAside DEF OrderSpend, Stage, IsAt
<1>7. PICK e : e = Entry("spend", amount, r, NoEntry)
  OBVIOUS
<1>8. /\ DOMAIN ledger' = DOMAIN ledger \cup {Len(ledger) + 1}
      /\ Len(ledger) + 1 \notin DOMAIN ledger
      /\ ledger'[Len(ledger) + 1] = e
      /\ \A n \in DOMAIN ledger : ledger'[n] = ledger[n]
  <2>1. ledger \in Seq(EntryType \cup {e})
    <3>1. ledger \in Seq(EntryType)
      BY DEF WorldTyped, LedgerTypeOK, EntryType
    <3> HIDE DEF EntryType
    <3> QED BY <3>1
  <2> HIDE DEF EntryType
  <2> QED BY <1>5, <1>7, <2>1
<1>9. e.kind = "spend" /\ e.by = r /\ e.amount = amount
  BY <1>7 DEF Entry
<1>10. SpendsOf(r)' = {Len(ledger) + 1} /\ ledger'[Len(ledger) + 1].amount = amount
  BY <1>3, <1>8, <1>9 DEF SpendsOf
<1> QED BY <1>2, <1>4, <1>5, <1>6, <1>10 DEF PaidOnce, Started, OrderOf

\* The check concludes the order it has paid for.
LEMMA CheckKeepsPaid ==
    ASSUME ServiceInv, WorldTyped, NEW r \in Runs, PaidOnce(r), OrderCheck(r)
    PROVE  PaidOnce(r)'
<1>1. /\ ~IsAt(r, "idle") /\ IsAt(r, "check") /\ UNCHANGED ledger
  BY DEF OrderCheck, IsAt, ledgerVars
<1>2. run[r].status = "running" /\ RunsShaped /\ request \in RequestType /\ Started(r)
  BY <1>1, ServedRun DEF ServiceInv, Started
<1>3. SpendsStand(r)
  BY <1>1, SpendsStandUnlessAdded DEF WorldTyped
<1>4. \/ Concluded(r, PlaceOrder, "failed", "escalated")
      \/ Concluded(r, PlaceOrder, "done", "running")
  BY DEF OrderCheck
<1>5. /\ Total(run'[r].plan.steps[PlaceOrder]) = Total(OrderOf(r))
      /\ \/ run'[r].status = "escalated" /\ run'[r].plan.steps[PlaceOrder].status = "failed"
         \/ run'[r].status = "running" /\ run'[r].plan.steps[PlaceOrder].status = "done"
  BY <1>2, <1>4, OrderAfterConclusion, StepsAreFive DEF PlaceOrder
<1>6. ~IsAt(r, "check")'
  BY <1>2, <1>4, ConcludedLeavesCheck
<1> QED BY <1>1, <1>2, <1>3, <1>5, <1>6 DEF PaidOnce, SpendsStand, Started, OrderOf

\* Only a run that is served may spend.
LEMMA OthersSpendsStand ==
    ASSUME WorldTyped, RunsTyped, NEW r \in Runs, run[r].status = "running", Serve(r), NEW o,
           o # r \/ ~OrderSpend(r)
    PROVE  SpendsStand(o)
<1>0. LedgerTypeOK(Who)
  BY DEF WorldTyped
<1>1. CASE OrderSpend(r)
  <2>1. PICK amount \in Nat : amount = Total(run[r].plan.steps[PlaceOrder])
    BY RunIsTyped, OrderIsWorth
  <2>2. amount > 0 /\ ledger' = Append(ledger, Entry("spend", amount, r, NoEntry))
    BY <1>1, <2>1 DEF OrderSpend, Spend
  <2>3. Entry("spend", amount, r, NoEntry) \in EntryType
    BY <1>0, <2>2, EntriesAreTyped DEF Who
  <2>4. Entry("spend", amount, r, NoEntry).by = r
    BY DEF Entry
  <2> QED BY <1>0, <1>1, <2>2, <2>3, <2>4, SpendsStandUnlessAdded
<1>2. CASE ~OrderSpend(r)
  <2>1. UNCHANGED ledger
    BY <1>2 DEF Serve, Observe, Execute, ExecuteBaseline, OrderGate, OrderDecide, OrderCheck, ledgerVars
  <2> QED BY <1>0, <2>1, SpendsStandUnlessAdded
<1> QED BY <1>1, <1>2

\* An event adds a hold or a refund, by others.
LEMMA InjectedEntry ==
    ASSUME WorldTyped, NEW e \in Injections, InjectApply(e)
    PROVE  \/ UNCHANGED ledger
           \/ \E x \in EntryType : ledger' = Append(ledger, x) /\ x.kind = "hold"
           \/ \E x \in EntryType : /\ ledger' = Append(ledger, x) /\ x.kind = "refund"
                                   /\ x.of \in DOMAIN ledger /\ ledger[x.of].kind = "hold"
<1>0. LedgerTypeOK(Who) /\ "other" \in Who /\ e.value \in Nat
  BY AdaptiveAssumption DEF WorldTyped, Who
<1>1. CASE UNCHANGED ledgerVars
  BY <1>1 DEF ledgerVars
<1>2. CASE PlaceHold(e.value, "other")
  <2>1. PICK x : x = Entry("hold", e.value, "other", NoEntry)
    OBVIOUS
  <2>2. e.value > 0 /\ ledger' = Append(ledger, x)
    BY <1>2, <2>1 DEF PlaceHold
  <2>3. x \in EntryType /\ x.kind = "hold"
    BY <1>0, <2>1, <2>2, EntriesAreTyped DEF Entry
  <2> QED BY <2>2, <2>3
<1>3. CASE \E n \in Releasable(e.value) : Refund(n, "other")
  <2>1. PICK n \in Releasable(e.value) : Refund(n, "other")
    BY <1>3
  <2>2. n \in DOMAIN ledger /\ ledger[n].kind = "hold"
    BY DEF Releasable, Outstanding
  <2>3. PICK x : x = Entry("refund", ledger[n].amount, "other", n)
    OBVIOUS
  <2>4. ledger' = Append(ledger, x)
    BY <2>1, <2>3 DEF Refund
  <2>5. x \in EntryType /\ x.kind = "refund" /\ x.of = n
    BY <1>0, <2>2, <2>3, EntriesAreTyped DEF Entry
  <2> QED BY <2>2, <2>4, <2>5
<1>4. e.kind \in WorldEvents \cup BudgetEvents \cup {"authority_revoked"}
  BY AdaptiveAssumption
<1>5. \/ e.kind \in WorldEvents /\ WorldMoves(e)
      \/ e.kind \in BudgetEvents /\ BudgetMoves(e)
      \/ UNCHANGED ledgerVars
  BY <1>4 DEF InjectApply, WorldEvents, BudgetEvents
<1> QED BY <1>1, <1>2, <1>3, <1>5 DEF WorldMoves, BudgetMoves

\* What a step that serves nobody leaves of the runs.
LEMMA AsideLeavesRuns ==
    ASSUME (\E e \in Injections : InjectApply(e)) \/ InjectAppend \/ UNCHANGED adaptiveVars
    PROVE  run' = run /\ request' = request
BY DEF InjectApply, InjectAppend, adaptiveVars

LEMMA PaidStep == ServiceInv /\ AdaptiveTypeOK /\ OrdersPaid /\ [AdaptiveNext]_adaptiveVars => OrdersPaid'
<1> SUFFICES ASSUME ServiceInv, AdaptiveTypeOK, OrdersPaid, [AdaptiveNext]_adaptiveVars, NEW o \in Runs
             PROVE  PaidOnce(o)'
  BY DEF OrdersPaid
<1>0. /\ WorldTyped /\ RunsTyped /\ LedgerTypeOK(Who) /\ PaidOnce(o)
      /\ RunsShaped /\ request \in RequestType
  BY TypeParts DEF WorldTyped, OrdersPaid, ServiceInv, RequestsServe
<1>1. ASSUME NEW r \in Runs, StartRun(r) PROVE PaidOnce(o)'
  <2>1. SpendsStand(o) /\ request' = request /\ run[r].status = "none"
    BY <1>0, <1>1, SpendsStandUnlessAdded DEF StartRun, ledgerVars
  <2>2. PICK y : run' = [run EXCEPT ![r] = y]
    BY <1>1 DEF StartRun
  <2>3. CASE o # r
    BY <1>0, <2>1, <2>2, <2>3, OtherIsPaid DEF IsAt
  <2>4. CASE o = r
    <3>1. SpendsOf(o) = {}
      BY <1>0, <2>1, <2>4 DEF PaidOnce, Started
    <3>2. ~IsAt(o, "check") /\ ~IsAt(o, "check")'
      BY <2>1, <2>4 DEF ServiceInv, RequestsServe, IsAt
    <3>3. run'[o].plan.steps[PlaceOrder].status # "done"
      <4>1. PICK supplier, unit, p : p = InitialPlan(supplier, unit) /\ run'[o].plan = p
        BY <1>0, <1>1, <2>4 DEF StartRun, RunsShaped
      <4>2. p.steps[PlaceOrder].status = "pending"
        BY <4>1 DEF InitialPlan, Plan, FreshSteps, Step, PlaceOrder
      <4> QED BY <4>1, <4>2
    <3> QED BY <2>1, <3>1, <3>2, <3>3 DEF PaidOnce, SpendsStand, OrderOf
  <2> QED BY <2>3, <2>4
<1>2. ASSUME NEW r \in Runs, Advance(r) PROVE PaidOnce(o)'
  <2>1. SpendsStand(o) /\ run' = run
    BY <1>0, <1>2, SpendsStandUnlessAdded DEF Advance, ledgerVars
  <2>2. IsAt(o, "check")' = IsAt(o, "check")
    <3>1. PICK left : request' = [request EXCEPT ![r] = Serving("observe", left)]
      BY <1>2 DEF Advance
    <3>2. request'[o].at = request[o].at \/ (o = r /\ request'[o].at = "observe")
      BY <1>0, <3>1 DEF RequestType, Serving
    <3> QED BY <1>2, <3>2 DEF Advance, IsAt
  <2> QED BY <1>0, <2>1, <2>2, OtherIsPaid
<1>3. ASSUME NEW r \in Runs, Serve(r) PROVE PaidOnce(o)'
  <2>1. Served(r) /\ ~IsAt(r, "idle") /\ run[r].status = "running"
    BY <1>3, ServeServed, ServedRun
  <2>2. CASE o # r
    BY <1>0, <1>3, <2>1, <2>2, OthersSpendsStand, OtherIsPaid DEF Served, IsAt
  <2>3. CASE o = r /\ OrderSpend(r)
    BY <1>0, <2>3, SpendPays
  <2>4. CASE o = r /\ OrderCheck(r)
    BY <1>0, <2>4, CheckKeepsPaid
  <2>5. CASE o = r /\ ~OrderSpend(r) /\ ~OrderCheck(r)
    <3>1. \/ Observe(r) \/ Execute(r) \/ ExecuteBaseline(r) \/ OrderGate(r) \/ OrderDecide(r)
      BY <1>3, <2>5 DEF Serve
    <3>2. SpendsStand(o)
      BY <1>0, <1>3, <2>1, <2>5, OthersSpendsStand
    <3>3. /\ ~IsAt(r, "check") /\ ~IsAt(r, "check")'
          /\ run'[r].plan.steps[PlaceOrder].status = "done" => OrderOf(r).status = "done"
      BY <1>0, <2>1, <3>1, ServeOrdersNothing
    <3>4. /\ PlanShaped(run[r].plan) /\ Stands(run[r].plan, run'[r].plan)
          /\ run'[r].status # "none"
      <4>1. ServiceInv'
        BY NextKeeps
      <4>2. run'[r].status # "none"
        <5>1. RunsTyped'
          BY <1>0, <1>3, <2>1, ServeKeepsRunsTyped
        <5>2. run'[r] \in RunType \/ run'[r] = Unstarted
          BY <5>1 DEF RunsTyped
        <5>3. run'[r] # Unstarted
          BY <2>1 DEF Served, Follows, RunShaped, Contained, DampingShaped, Unstarted, DampingFields
        <5> QED BY <5>2, <5>3 DEF RunType
      <4> QED BY <2>1, <4>2, ServedRun DEF Served, Follows, RunShaped
    <3> QED BY <1>0, <2>1, <2>5, <3>2, <3>3, <3>4, ServedIsPaid
  <2> QED BY <1>3, <2>2, <2>3, <2>4, <2>5
<1>4. ASSUME NEW e \in Injections, InjectApply(e) PROVE PaidOnce(o)'
  <2>1. run' = run /\ request' = request
    BY <1>4, AsideLeavesRuns
  <2>2. SpendsStand(o)
    <3>1. \/ UNCHANGED ledger
          \/ \E x \in EntryType : ledger' = Append(ledger, x) /\ x.kind # "spend"
      BY <1>0, <1>4, InjectedEntry
    <3> QED BY <1>0, <3>1, SpendsStandUnlessAdded
  <2> QED BY <1>0, <2>1, <2>2, OtherIsPaid DEF IsAt
<1>5. ASSUME InjectAppend \/ UNCHANGED adaptiveVars PROVE PaidOnce(o)'
  <2>1. run' = run /\ request' = request /\ UNCHANGED ledger
    BY <1>5, AsideLeavesRuns DEF InjectAppend, adaptiveVars, ledgerVars
  <2>2. SpendsStand(o)
    BY <1>0, <2>1, SpendsStandUnlessAdded
  <2> QED BY <1>0, <2>1, <2>2, OtherIsPaid DEF IsAt
<1> QED BY <1>1, <1>2, <1>3, <1>4, <1>5 DEF AdaptiveNext

\* However often its plan is revised, a run pays once, and what its plan says.
THEOREM RunsPayOnce == AdaptiveSpec => []OrderedOnce
<1>1. AdaptiveInit => OrdersPaid
  BY DEF AdaptiveInit, LedgerInit, OrdersPaid, PaidOnce, SpendsOf, Started, Unstarted
<1>2. ServiceInv /\ AdaptiveTypeOK /\ OrdersPaid /\ [AdaptiveNext]_adaptiveVars => OrdersPaid'
  BY PaidStep
<1>3. ServiceInv /\ OrdersPaid => OrderedOnce
  <2> SUFFICES ASSUME ServiceInv, OrdersPaid, NEW r \in Runs, Started(r)
               PROVE  LET order == run[r].plan.steps[PlaceOrder]
                          paid == IsAt(r, "check") \/ order.status = "done" \/ run[r].status = "escalated"
                      IN  /\ order.status = "done" => SpendsOf(r) # {}
                          /\ SpendsOf(r) # {} => paid /\ (order.status = "pending" => IsAt(r, "check"))
                          /\ \A n \in SpendsOf(r) : SpendsOf(r) = {n} /\ ledger[n].amount = Total(order)
    BY DEF OrderedOnce
  <2>1. PaidOnce(r)
    BY DEF OrdersPaid
  <2> QED BY <2>1 DEF PaidOnce, OrderOf
<1> QED BY <1>1, <1>2, <1>3, ServiceKeepsInv, AdaptiveTypeCorrect, PTL DEF AdaptiveSpec


-----------------------------------------------------------------------------
(***************************************************************************)
(* OverdraftIsHandedOver speaks of the last commitment, at rest.  What     *)
(* holds always is about every spend: with what was committed before it it *)
(* fits the limit, or its run is escalated, or is about to check.  A sum   *)
(* up to a commitment never grows, as later entries only take out of it.   *)
(***************************************************************************)

UpTo(n) == {m \in Outstanding : m <= n}

Fits(n) == AmountSum(ledger, UpTo(n)) <= Limit
HandedOver(n) == run[ledger[n].by].status = "escalated"
ToCheck(n) == IsAt(ledger[n].by, "check")

SpendsCovered ==
    \A n \in Outstanding : ledger[n].kind = "spend" => Fits(n) \/ HandedOver(n) \/ ToCheck(n)

\* The sum up to a commitment is a number, at most all that is committed.
LEMMA SumUpTo ==
    ASSUME LedgerTypeOK(Who), suppliers \in WorldType, NEW n
    PROVE  AmountSum(ledger, UpTo(n)) \in Nat /\ AmountSum(ledger, UpTo(n)) <= Committed
<1>1. /\ Len(ledger) \in Nat /\ DOMAIN ledger = 1 .. Len(ledger)
      /\ \A m \in 1 .. Len(ledger) : ledger[m].amount \in Nat
      /\ Committed = AmountSum(ledger, Outstanding)
  BY HeadroomIsNumber
<1>2. Outstanding \subseteq 1 .. Len(ledger) /\ UpTo(n) \subseteq Outstanding
  BY <1>1 DEF Outstanding, UpTo
<1> QED BY <1>1, <1>2, SumOfFewer

\* An entry that is appended leaves a commitment what it was, and its sum no larger.
LEMMA AppendCovers ==
    ASSUME LedgerTypeOK(Who), suppliers \in WorldType, NEW e \in EntryType,
           ledger' = Append(ledger, e)
    PROVE  /\ Outstanding' \subseteq Outstanding \cup {Len(ledger) + 1}
           /\ Len(ledger) + 1 \notin Outstanding
           /\ ledger'[Len(ledger) + 1] = e
           /\ \A n \in Outstanding : ledger'[n] = ledger[n] /\ (Fits(n) => Fits(n)')
<1>1. /\ Len(ledger) \in Nat /\ DOMAIN ledger = 1 .. Len(ledger)
      /\ \A m \in 1 .. Len(ledger) : ledger[m].amount \in Nat
  BY HeadroomIsNumber
<1>2. ledger \in Seq(EntryType)
  BY DEF LedgerTypeOK, EntryType
<1> HIDE DEF EntryType
<1>3. /\ DOMAIN ledger' = DOMAIN ledger \cup {Len(ledger) + 1}
      /\ Len(ledger) + 1 \notin DOMAIN ledger
      /\ ledger'[Len(ledger) + 1] = e
      /\ \A m \in DOMAIN ledger : ledger'[m] = ledger[m]
  BY <1>1, <1>2
<1>4. Outstanding \subseteq DOMAIN ledger
  BY DEF Outstanding
<1>5. Outstanding' \subseteq Outstanding \cup {Len(ledger) + 1}
  <2> SUFFICES ASSUME NEW m \in Outstanding', m # Len(ledger) + 1 PROVE m \in Outstanding
    OBVIOUS
  <2>1. m \in DOMAIN ledger /\ IsCommitment(m) /\ RefundsOf(m) \subseteq RefundsOf(m)'
    BY <1>3 DEF Outstanding, IsCommitment, RefundsOf
  <2> QED BY <2>1 DEF Outstanding
<1>6. ASSUME NEW n \in Outstanding, Fits(n) PROVE Fits(n)'
  <2>1. n \in 1 .. Len(ledger) /\ ~(Len(ledger) + 1 <= n)
    BY <1>1, <1>4
  <2>2. UpTo(n)' \subseteq UpTo(n) /\ UpTo(n) \subseteq 1 .. Len(ledger)
    BY <1>1, <1>4, <1>5, <2>1 DEF UpTo
  <2>3. PICK l, R : l = ledger' /\ R = UpTo(n)'
    OBVIOUS
  <2>4. \A m \in R : l[m].amount = ledger[m].amount
    BY <1>1, <1>3, <2>2, <2>3
  <2>5. AmountSum(l, R) \in Nat /\ AmountSum(l, R) <= AmountSum(ledger, UpTo(n))
    BY <1>1, <2>2, <2>3, <2>4, SumOfFewer
  <2>6. AmountSum(ledger, UpTo(n)) \in Nat /\ Limit \in Nat
    BY SumUpTo, LimitAssumption
  <2>7. AmountSum(l, R) <= Limit
    BY <1>6, <2>5, <2>6 DEF Fits
  <2> QED BY <2>3, <2>7 DEF Fits
<1> QED BY <1>3, <1>4, <1>5, <1>6

\* A run that is escalated stays so, and a request that is about to check does so
\* until it checks.
Holds(o) ==
    /\ run[o].status = "escalated" => run'[o].status = "escalated"
    /\ IsAt(o, "check") => IsAt(o, "check")'

LEMMA CoveredUnlessAdded ==
    ASSUME LedgerTypeOK(Who), suppliers \in WorldType, SpendsCovered, \A o \in Runs : Holds(o),
           \A n \in Outstanding : ledger[n].kind = "spend" => ledger[n].by \in Runs,
           \/ UNCHANGED ledger
           \/ \E e \in EntryType : /\ ledger' = Append(ledger, e)
                                   /\ e.kind = "spend" => IsAt(e.by, "check")'
    PROVE  SpendsCovered'
<1>1. CASE UNCHANGED ledger
  <2>1. UNCHANGED <<Outstanding, Limit>> /\ \A n : UpTo(n)' = UpTo(n)
    BY <1>1 DEF Outstanding, IsCommitment, RefundsOf, UpTo
  <2>2. SUFFICES ASSUME NEW n \in Outstanding, ledger[n].kind = "spend"
                 PROVE  Fits(n)' \/ HandedOver(n)' \/ ToCheck(n)'
    BY <1>1, <2>1 DEF SpendsCovered
  <2>3. Fits(n) \/ HandedOver(n) \/ ToCheck(n)
    BY <2>2 DEF SpendsCovered
  <2>4. Holds(ledger[n].by)
    BY <2>2
  <2> QED BY <1>1, <2>1, <2>3, <2>4 DEF Fits, HandedOver, ToCheck, Holds, IsAt
<1>2. CASE \E e \in EntryType : /\ ledger' = Append(ledger, e)
                                /\ e.kind = "spend" => IsAt(e.by, "check")'
  <2>1. PICK e \in EntryType : /\ ledger' = Append(ledger, e)
                               /\ e.kind = "spend" => IsAt(e.by, "check")'
    BY <1>2
  <2>2. /\ Outstanding' \subseteq Outstanding \cup {Len(ledger) + 1}
        /\ ledger'[Len(ledger) + 1] = e
        /\ \A n \in Outstanding : ledger'[n] = ledger[n] /\ (Fits(n) => Fits(n)')
    BY <2>1, AppendCovers
  <2>3. SUFFICES ASSUME NEW n \in Outstanding', ledger'[n].kind = "spend"
                 PROVE  Fits(n)' \/ HandedOver(n)' \/ ToCheck(n)'
    BY DEF SpendsCovered
  <2>4. CASE n = Len(ledger) + 1
    <3>1. ledger'[n] = e
      BY <2>2, <2>4
    <3> QED BY <2>1, <2>3, <3>1 DEF ToCheck, IsAt
  <2>5. CASE n \in Outstanding
    <3>1. ledger'[n] = ledger[n] /\ (Fits(n) => Fits(n)') /\ Holds(ledger[n].by)
      BY <2>2, <2>3, <2>5
    <3>2. Fits(n) \/ HandedOver(n) \/ ToCheck(n)
      BY <2>3, <2>5, <3>1 DEF SpendsCovered
    <3> QED BY <3>1, <3>2 DEF HandedOver, ToCheck, Holds, IsAt
  <2> QED BY <2>2, <2>4, <2>5
<1> QED BY <1>1, <1>2

\* The check: within the limit every sum fits, over it the run is escalated.
LEMMA CheckCovers ==
    ASSUME ServiceInv, WorldTyped, SpendsCovered, NEW r \in Runs, OrderCheck(r),
           \A o \in Runs \ {r} : Holds(o),
           \A n \in Outstanding : ledger[n].kind = "spend" => ledger[n].by \in Runs
    PROVE  SpendsCovered'
<1>1. /\ ~IsAt(r, "idle") /\ UNCHANGED ledger
  BY DEF OrderCheck, IsAt, ledgerVars
<1>2. run[r].status = "running" /\ RunsShaped /\ Started(r) /\ PlaceOrder \in Steps
  BY <1>1, ServedRun, StepsAreFive DEF ServiceInv, Started, PlaceOrder
<1>3. LedgerTypeOK(Who) /\ suppliers \in WorldType
  BY DEF WorldTyped
<1>4. Outstanding' = Outstanding /\ \A n : UpTo(n)' = UpTo(n)
  BY <1>1 DEF Outstanding, IsCommitment, RefundsOf, UpTo
<1>5. \A n : Fits(n)' = Fits(n)
  BY <1>1, <1>4 DEF Fits
<1> SUFFICES ASSUME NEW n \in Outstanding, ledger[n].kind = "spend"
             PROVE  Fits(n)' \/ HandedOver(n)' \/ ToCheck(n)'
  BY <1>1, <1>4 DEF SpendsCovered
<1>6. CASE OverLimit
  <2>1. CASE ledger[n].by = r
    <3>1. Concluded(r, PlaceOrder, "failed", "escalated")
      BY <1>6 DEF OrderCheck
    <3>2. run'[r].status = "escalated"
      BY <1>2, <3>1, OrderAfterConclusion
    <3> QED BY <1>1, <2>1, <3>2 DEF HandedOver
  <2>2. CASE ledger[n].by # r
    <3>1. Holds(ledger[n].by)
      BY <2>2
    <3>2. Fits(n) \/ HandedOver(n) \/ ToCheck(n)
      BY DEF SpendsCovered
    <3> QED BY <1>1, <1>5, <3>1, <3>2 DEF HandedOver, ToCheck, Holds, IsAt
  <2> QED BY <2>1, <2>2
<1>7. CASE ~OverLimit
  <2>1. AmountSum(ledger, UpTo(n)) \in Nat /\ AmountSum(ledger, UpTo(n)) <= Committed
    BY <1>3, SumUpTo
  <2>2. Committed \in Nat
    BY <1>3, HeadroomIsNumber
  <2>3. Fits(n)
    BY <1>7, <2>1, <2>2, LimitAssumption DEF OverLimit, Fits
  <2> QED BY <1>5, <2>3
<1> QED BY <1>6, <1>7

\* Spends are made by runs.
SpendsAreOfRuns == \A n \in DOMAIN ledger : ledger[n].kind = "spend" => ledger[n].by \in Runs

LEMMA SpendersStep ==
    ASSUME LedgerTypeOK(Who), SpendsAreOfRuns,
           \/ UNCHANGED ledger
           \/ \E e \in EntryType : /\ ledger' = Append(ledger, e)
                                   /\ e.kind = "spend" => e.by \in Runs
    PROVE  SpendsAreOfRuns'
<1>1. CASE UNCHANGED ledger
  BY <1>1 DEF SpendsAreOfRuns
<1>2. CASE \E e \in EntryType : ledger' = Append(ledger, e) /\ (e.kind = "spend" => e.by \in Runs)
  <2>1. PICK e \in EntryType : ledger' = Append(ledger, e) /\ (e.kind = "spend" => e.by \in Runs)
    BY <1>2
  <2>2. ledger \in Seq(EntryType)
    BY DEF LedgerTypeOK, EntryType
  <2> HIDE DEF EntryType
  <2>3. /\ DOMAIN ledger' = DOMAIN ledger \cup {Len(ledger) + 1}
        /\ ledger'[Len(ledger) + 1] = e
        /\ \A n \in DOMAIN ledger : ledger'[n] = ledger[n]
    BY <2>1, <2>2
  <2> QED BY <2>1, <2>3 DEF SpendsAreOfRuns
<1> QED BY <1>1, <1>2

CoverInv == SpendsAreOfRuns /\ SpendsCovered

\* What the request of r does but for the spend and the check leaves the ledger.
LEMMA ServeCovers ==
    ASSUME ServiceInv, WorldTyped, RunsTyped, CoverInv, NEW r \in Runs, Serve(r)
    PROVE  CoverInv'
<1>0. /\ LedgerTypeOK(Who) /\ suppliers \in WorldType
      /\ \A n \in Outstanding : ledger[n].kind = "spend" => ledger[n].by \in Runs
  BY DEF WorldTyped, CoverInv, SpendsAreOfRuns, Outstanding
<1>1. Served(r) /\ ~IsAt(r, "idle") /\ run[r].status = "running" /\ request \in RequestType
  BY ServeServed, ServedRun
<1>2. \A o \in Runs \ {r} : Holds(o)
  BY <1>1 DEF Served, Holds, IsAt
<1>3. CASE OrderCheck(r)
  <2>1. UNCHANGED ledger
    BY <1>3 DEF OrderCheck, ledgerVars
  <2> QED BY <1>0, <1>2, <1>3, <2>1, CheckCovers, SpendersStep DEF CoverInv
<1>4. CASE OrderSpend(r)
  <2>1. PICK amount \in Nat : amount = Total(run[r].plan.steps[PlaceOrder])
    BY <1>1, RunIsTyped, OrderIsWorth
  <2>2. amount > 0 /\ ledger' = Append(ledger, Entry("spend", amount, r, NoEntry))
    BY <1>4, <2>1 DEF OrderSpend, Spend
  <2>3. PICK e : e = Entry("spend", amount, r, NoEntry)
    OBVIOUS
  <2>4. e \in EntryType
    BY <1>0, <2>2, <2>3, EntriesAreTyped DEF Who
  <2>5. e.by = r
    BY <2>3 DEF Entry
  <2>6. IsAt(r, "check")'
    BY <1>1, <1>4, GoesAside DEF OrderSpend, Stage, IsAt
  <2>7. Holds(r)
    BY <1>1, <2>6 DEF Holds
  <2>8. \A o \in Runs : Holds(o)
    BY <1>2, <2>7
  <2>9. \E x \in EntryType : /\ ledger' = Append(ledger, x)
                             /\ x.kind = "spend" => (IsAt(x.by, "check")' /\ x.by \in Runs)
    BY <2>2, <2>3, <2>4, <2>5, <2>6 DEF IsAt
  <2>10. SpendsCovered'
    BY <1>0, <2>8, <2>9, CoveredUnlessAdded DEF CoverInv
  <2>11. SpendsAreOfRuns'
    BY <1>0, <2>9, SpendersStep DEF CoverInv
  <2> QED BY <2>10, <2>11 DEF CoverInv
<1>5. CASE Observe(r) \/ Execute(r) \/ ExecuteBaseline(r) \/ OrderGate(r) \/ OrderDecide(r)
  <2>1. UNCHANGED ledger
    BY <1>5 DEF Observe, Execute, ExecuteBaseline, OrderGate, OrderDecide, ledgerVars
  <2>2. ~IsAt(r, "check")
    BY <1>5 DEF Observe, Execute, ExecuteBaseline, OrderGate, OrderDecide, IsAt
  <2>3. \A o \in Runs : Holds(o)
    BY <1>1, <1>2, <2>2 DEF Holds
  <2>4. SpendsCovered'
    BY <1>0, <2>1, <2>3, CoveredUnlessAdded DEF CoverInv
  <2>5. SpendsAreOfRuns'
    BY <1>0, <2>1, SpendersStep DEF CoverInv
  <2> QED BY <2>4, <2>5 DEF CoverInv
<1> QED BY <1>3, <1>4, <1>5 DEF Serve

LEMMA CoverStep == ServiceInv /\ AdaptiveTypeOK /\ CoverInv /\ [AdaptiveNext]_adaptiveVars => CoverInv'
<1> SUFFICES ASSUME ServiceInv, AdaptiveTypeOK, CoverInv, [AdaptiveNext]_adaptiveVars
             PROVE  CoverInv'
  OBVIOUS
<1>0. /\ WorldTyped /\ RunsTyped /\ LedgerTypeOK(Who) /\ suppliers \in WorldType
      /\ RunsShaped /\ request \in RequestType
      /\ \A n \in Outstanding : ledger[n].kind = "spend" => ledger[n].by \in Runs
  BY TypeParts DEF WorldTyped, ServiceInv, RequestsServe, CoverInv, SpendsAreOfRuns, Outstanding
<1>1. ASSUME \/ UNCHANGED ledger
             \/ \E e \in EntryType : ledger' = Append(ledger, e) /\ e.kind # "spend",
             \A o \in Runs : Holds(o)
      PROVE  CoverInv'
  <2>1. SpendsCovered'
    BY <1>0, <1>1, CoveredUnlessAdded DEF CoverInv
  <2>2. SpendsAreOfRuns'
    BY <1>0, <1>1, SpendersStep DEF CoverInv
  <2> QED BY <2>1, <2>2 DEF CoverInv
<1>2. ASSUME NEW r \in Runs, StartRun(r) PROVE CoverInv'
  <2>1. UNCHANGED ledger /\ request' = request /\ run[r].status = "none"
    BY <1>2 DEF StartRun, ledgerVars
  <2>2. PICK y : run' = [run EXCEPT ![r] = y]
    BY <1>2 DEF StartRun
  <2>3. \A o \in Runs : Holds(o)
    BY <1>0, <2>1, <2>2 DEF Holds, IsAt, RunsShaped
  <2> QED BY <1>1, <2>1, <2>3
<1>3. ASSUME NEW r \in Runs, Advance(r) PROVE CoverInv'
  <2>1. UNCHANGED ledger /\ run' = run /\ request[r].at = "idle"
    BY <1>3 DEF Advance, ledgerVars, IsAt
  <2>2. PICK left : request' = [request EXCEPT ![r] = Serving("observe", left)]
    BY <1>3 DEF Advance
  <2>3. \A o \in Runs : Holds(o)
    BY <1>0, <2>1, <2>2 DEF Holds, IsAt, RequestType
  <2> QED BY <1>1, <2>1, <2>3
<1>4. ASSUME NEW r \in Runs, Serve(r) PROVE CoverInv'
  BY <1>0, <1>4, ServeCovers
<1>5. ASSUME NEW e \in Injections, InjectApply(e) PROVE CoverInv'
  <2>1. run' = run /\ request' = request
    BY <1>5, AsideLeavesRuns
  <2>2. \A o \in Runs : Holds(o)
    BY <2>1 DEF Holds, IsAt
  <2>3. \/ UNCHANGED ledger
        \/ \E x \in EntryType : ledger' = Append(ledger, x) /\ x.kind # "spend"
    BY <1>0, <1>5, InjectedEntry
  <2> QED BY <1>1, <2>2, <2>3
<1>6. ASSUME InjectAppend \/ UNCHANGED adaptiveVars PROVE CoverInv'
  <2>1. run' = run /\ request' = request /\ UNCHANGED ledger
    BY <1>6, AsideLeavesRuns DEF InjectAppend, adaptiveVars, ledgerVars
  <2>2. \A o \in Runs : Holds(o)
    BY <2>1 DEF Holds, IsAt
  <2> QED BY <1>1, <2>1, <2>2
<1> QED BY <1>2, <1>3, <1>4, <1>5, <1>6 DEF AdaptiveNext

\* However the runs' requests and the events of others race, an overdraft is handed
\* over: at rest, the run whose spend came last is escalated, unless a hold did.
THEOREM OverdraftsAreHandedOver == AdaptiveSpec => []OverdraftIsHandedOver
<1>1. AdaptiveInit => CoverInv
  BY DEF AdaptiveInit, LedgerInit, CoverInv, SpendsAreOfRuns, SpendsCovered, Outstanding
<1>2. ServiceInv /\ AdaptiveTypeOK /\ CoverInv /\ [AdaptiveNext]_adaptiveVars => CoverInv'
  BY CoverStep
<1>3. AdaptiveTypeOK /\ CoverInv => OverdraftIsHandedOver
  <2> SUFFICES ASSUME AdaptiveTypeOK, CoverInv, \A r \in Runs : IsAt(r, "idle"), OverLimit,
                      NEW last, last = CHOOSE n \in Outstanding : \A m \in Outstanding : m <= n,
                      ledger[last].kind = "spend"
               PROVE  run[ledger[last].by].status = "escalated"
    BY DEF OverdraftIsHandedOver
  <2>0. LedgerTypeOK(Who) /\ suppliers \in WorldType
    BY TypeParts DEF WorldTyped
  <2>1. /\ Len(ledger) \in Nat /\ DOMAIN ledger = 1 .. Len(ledger)
        /\ Committed = AmountSum(ledger, Outstanding) /\ Committed \in Nat
    BY <2>0, HeadroomIsNumber
  <2>2. Outstanding # {}
    <3>1. AmountSum(ledger, {}) = 0
      BY SumOfNone
    <3>2. Committed > Limit /\ Limit \in Nat
      BY LimitAssumption DEF OverLimit
    <3>3. Committed # 0
      BY <2>1, <3>2
    <3> HIDE DEF Outstanding
    <3> QED BY <2>1, <3>1, <3>3
  <2>3. last \in Outstanding /\ \A m \in Outstanding : m <= last
    <3>1. Outstanding \subseteq 1 .. Len(ledger)
      BY <2>1 DEF Outstanding
    <3>2. \E n \in Outstanding : \A m \in Outstanding : m <= n
      BY <2>1, <2>2, <3>1, LastPlace
    <3> QED BY <3>2
  <2>4. UpTo(last) = Outstanding
    BY <2>3 DEF UpTo
  <2>5. ~Fits(last)
    BY <2>1, <2>4, LimitAssumption DEF Fits, OverLimit
  <2>6. ledger[last].by \in Runs
    BY <2>3 DEF CoverInv, SpendsAreOfRuns, Outstanding
  <2>7. ~ToCheck(last)
    BY <2>6 DEF ToCheck, IsAt
  <2> QED BY <2>3, <2>5, <2>7 DEF CoverInv, SpendsCovered, HandedOver
<1> QED BY <1>1, <1>2, <1>3, ServiceKeepsInv, AdaptiveTypeCorrect, PTL DEF AdaptiveSpec


-----------------------------------------------------------------------------
(***************************************************************************)
(* Revisions.  A plan's version is one more than the revisions its damping *)
(* counted, so only a revision raises it; and what a revision plans anew   *)
(* is for a supplier that is feasible, cheapest and paid for.              *)
(***************************************************************************)

\* The supplier of a revision is feasible, and no feasible one is cheaper.
LEMMA ChoiceIsCheapest ==
    ASSUME NEW p, NEW world, world.suppliers \in WorldType, NEW s \in OrderChoices(p, world)
    PROVE  /\ s \in Suppliers /\ Feasible(world, s)
           /\ \A t \in Suppliers : Feasible(world, t) =>
                world.suppliers[s].price <= world.suppliers[t].price
<1> DEFINE feasible == {t \in Suppliers : Feasible(world, t)}
           info(t) == world.suppliers[t]
           current == p.steps[PlaceOrder].supplier
<1>1. OrderChoices(p, world) =
        IF current \in feasible /\ \A t \in feasible : info(current).price <= info(t).price
        THEN {current}
        ELSE {t \in feasible : \A u \in feasible : ~Better(info(u), info(t))}
  BY DEF OrderChoices
<1>2. \A t \in Suppliers : info(t).price \in Nat
  BY DEF WorldType
<1>3. s \in feasible /\ \A t \in feasible : ~(info(t).price < info(s).price)
  <2>1. CASE current \in feasible /\ \A t \in feasible : info(current).price <= info(t).price
    <3>1. s = current
      BY <1>1, <2>1
    <3>2. \A t \in feasible : info(current).price <= info(t).price
      BY <2>1
    <3> HIDE DEF current, info
    <3>3. \A t \in feasible : info(t).price \in Nat /\ info(current).price \in Nat
      BY <1>2, <2>1
    <3>4. \A t \in feasible : ~(info(t).price < info(current).price)
      BY <3>2, <3>3
    <3> QED BY <2>1, <3>1, <3>4
  <2>2. CASE ~(current \in feasible /\ \A t \in feasible : info(current).price <= info(t).price)
    <3>1. s \in feasible /\ \A u \in feasible : ~Better(info(u), info(s))
      BY <1>1, <2>2
    <3> QED BY <3>1 DEF Better
  <2> QED BY <2>1, <2>2
<1>4. \A t \in feasible : info(s).price <= info(t).price
  BY <1>2, <1>3
<1> QED BY <1>3, <1>4

\* What the steps of a fresh plan assume holds in the world it is made for.
LEMMA FreshIsSound ==
    ASSUME NEW p, NEW world, world.suppliers \in WorldType, world.headroom \in Int,
           world.authority, NEW s \in OrderChoices(p, world), NEW cascade, NEW q,
           q.steps = FreshSteps(s, OrderSize(world, s), world.suppliers[s].price, cascade),
           NEW i \in Steps, NEW a \in AssumptionsOf(q, i)
    PROVE  ~Broken(a, world)
<1>1. /\ s \in Suppliers /\ Feasible(world, s)
      /\ \A t \in Suppliers : Feasible(world, t) =>
            world.suppliers[s].price <= world.suppliers[t].price
  BY ChoiceIsCheapest
<1>2. PICK size : size = OrderSize(world, s)
  OBVIOUS
<1>3. PICK info : info = world.suppliers[s]
  OBVIOUS
<1>4. /\ size \in Nat /\ info.price \in Nat \ {0} /\ size * info.price <= world.headroom
  BY <1>1, <1>2, <1>3, OrderSizeIsTyped
<1>5. /\ info.available /\ info.days <= MaxDays /\ info.price <= PriceCap
      /\ info.days \in Nat /\ MaxDays \in Nat /\ PriceCap \in Nat
  BY <1>1, <1>3, PlanAssumption DEF Feasible, WorldType
<1>6. PICK f : f = FreshSteps(s, size, info.price, cascade) /\ q.steps = f
  BY <1>2, <1>3
<1>7. /\ f[1].watches = s /\ f[4].supplier = s
      /\ f[3].supplier = s /\ f[3].qty = size /\ f[3].unit = info.price
      /\ f[3].watches \in {s, NoSupplier}
  BY <1>6 DEF FreshSteps, Step
<1>8. \/ a = Assumption("price", s, PriceCap)
      \/ a = Assumption("authority", NoSupplier, 0)
      \/ a = Assumption("budget", NoSupplier, size * info.price)
      \/ a = Assumption("available", s, 0)
      \/ a = Assumption("better", s, 0)
      \/ a = Assumption("delivery", s, MaxDays)
  <2>1. CASE i = 1
    BY <1>6, <1>7, <2>1 DEF AssumptionsOf, VerifyPrice, VerifyAuthority, PlaceOrder, ScheduleDelivery
  <2>2. CASE i = 2
    BY <2>2 DEF AssumptionsOf, VerifyPrice, VerifyAuthority, PlaceOrder, ScheduleDelivery
  <2>3. CASE i = 3
    <3>1. Total(q.steps[3]) = size * info.price
      BY <1>6, <1>7 DEF Total
    <3> QED BY <1>6, <1>7, <2>3, <3>1 DEF AssumptionsOf, VerifyPrice, VerifyAuthority, PlaceOrder
  <2>4. CASE i = 4
    BY <1>6, <1>7, <2>4 DEF AssumptionsOf, VerifyPrice, VerifyAuthority, PlaceOrder, ScheduleDelivery
  <2>5. CASE i = 5
    BY <2>5 DEF AssumptionsOf, VerifyPrice, VerifyAuthority, PlaceOrder, ScheduleDelivery
  <2> QED BY <2>1, <2>2, <2>3, <2>4, <2>5, StepsAreFive
<1>9. CASE a = Assumption("price", s, PriceCap)
  <2>1. a.kind = "price" /\ a.supplier = s /\ a.need = PriceCap
    BY <1>9 DEF Assumption
  <2> QED BY <1>3, <1>4, <1>5, <2>1 DEF Broken
<1>10. CASE a = Assumption("authority", NoSupplier, 0)
  <2>1. a.kind = "authority"
    BY <1>10 DEF Assumption
  <2> QED BY <2>1 DEF Broken
<1>11. CASE a = Assumption("budget", NoSupplier, size * info.price)
  <2>1. PICK cost \in Nat : cost = size * info.price
    BY <1>4
  <2>2. a.kind = "budget" /\ a.need = cost
    BY <1>11, <2>1 DEF Assumption
  <2>3. ~(world.headroom < cost)
    BY <1>4, <2>1
  <2> QED BY <2>2, <2>3 DEF Broken
<1>12. CASE a = Assumption("available", s, 0)
  <2>1. a.kind = "available" /\ a.supplier = s
    BY <1>12 DEF Assumption
  <2> QED BY <1>3, <1>5, <2>1 DEF Broken
<1>13. CASE a = Assumption("better", s, 0)
  <2>1. a.kind = "better" /\ a.supplier = s
    BY <1>13 DEF Assumption
  <2>2. \A t \in Suppliers : world.suppliers[t].price \in Nat \ {0}
    BY DEF WorldType
  <2>3. \A t \in Suppliers : Feasible(world, t) =>
            ~(100 * world.suppliers[t].price < 98 * info.price)
    <3> SUFFICES ASSUME NEW t \in Suppliers, Feasible(world, t)
                 PROVE  ~(100 * world.suppliers[t].price < 98 * info.price)
      OBVIOUS
    <3>1. PICK other \in Nat : other = world.suppliers[t].price
      BY <2>2
    <3>2. PICK mine \in Nat : mine = info.price
      BY <1>4
    <3>3. mine <= other
      BY <1>1, <1>3, <3>1, <3>2
    <3> QED BY <3>1, <3>2, <3>3
  <2> QED BY <1>3, <2>1, <2>3 DEF Broken
<1>14. CASE a = Assumption("delivery", s, MaxDays)
  <2>1. a.kind = "delivery" /\ a.supplier = s /\ a.need = MaxDays
    BY <1>14 DEF Assumption
  <2> QED BY <1>3, <1>5, <2>1 DEF Broken
<1> QED BY <1>8, <1>9, <1>10, <1>11, <1>12, <1>13, <1>14

\* So does what a revision has still to do.
LEMMA RevisionIsSound ==
    ASSUME NEW p, NEW world, world.suppliers \in WorldType, world.headroom \in Int,
           world.authority, NEW s \in OrderChoices(p, world), NEW cascade, PlanShaped(p),
           NEW q, q = Revised(p, world, s, cascade),
           NEW i \in PendingSteps(q), NEW a \in AssumptionsOf(q, i)
    PROVE  ~Broken(a, world)
<1> DEFINE fresh == FreshSteps(s, OrderSize(world, s), world.suppliers[s].price, cascade)
           carried == Carried(p, s, cascade)
<1>1. q.steps = [j \in Steps |-> IF IsDone(p, j) THEN carried[j] ELSE fresh[j]]
  BY DEF Revised, Plan
<1>2. i \in Steps /\ q.steps[i].status = "pending"
  BY DEF PendingSteps, IsPending
<1>3. ~IsDone(p, i)
  <2> SUFFICES ASSUME IsDone(p, i) PROVE FALSE
    OBVIOUS
  <2>1. q.steps[i] = carried[i]
    BY <1>1, <1>2
  <2>2. carried[i].status = p.steps[i].status
    BY <1>2, WatchOfStep DEF Carried, PlanShaped
  <2> QED BY <1>2, <2>1, <2>2 DEF IsDone
<1>4. PICK f : f = [version |-> q.version, steps |-> fresh]
  OBVIOUS
<1>5. q.steps[i] = f.steps[i] /\ f.steps = fresh
  BY <1>1, <1>2, <1>3, <1>4
<1> HIDE DEF fresh, carried
<1>6. a \in AssumptionsOf(f, i)
  BY <1>5 DEF AssumptionsOf
<1> QED BY <1>2, <1>5, <1>6, FreshIsSound DEF fresh

\* The gate refuses an order without a grant.
LEMMA GateAsksForAuthority ==
    ASSUME NEW amount, ~granted PROVE GateOutcome(amount) = "refuse"
BY DEF GateOutcome, Decision, Resolve

\* A revision that the gate lets pass is for one of the choices, with a grant.
LEMMA ReviseIsChosen ==
    ASSUME NEW r, NEW o \in Observations(r), o.verdict = "revise"
    PROVE  /\ granted
           /\ \E s \in OrderChoices(run[r].plan, World) :
                o.candidate = Revised(run[r].plan, World, s, IsCascade(run[r].plan, o.found))
<1> DEFINE found == Contradictions(run[r].plan, World, Fresh(r))
<1>1. PICK c \in IF found = {} THEN {NoPlan} ELSE Candidates(r, found) :
         o = [found |-> found, candidate |-> c, verdict |-> Verdict(r, found, c)]
  BY DEF Observations
<1> HIDE DEF found
<1>2. o.found = found /\ o.candidate = c /\ Verdict(r, found, c) = "revise"
  BY <1>1
<1>3. found # {} /\ c # NoPlan /\ Activatable(c)
  <2> DEFINE v == DampingVerdict(run[r].damping, found, ShapeOf(c), Len(events))
  <2>1. v \in {"escalate", "damped", "allowed"}
    BY DEF DampingVerdict
  <2>2. "revise" = IF found = {} THEN "calm"
                   ELSE IF v # "allowed" THEN v
                   ELSE IF c = NoPlan THEN "escalate"
                   ELSE IF Activatable(c) THEN "revise" ELSE "block"
    BY <1>2 DEF Verdict
  <2> HIDE DEF v
  <2> QED BY <2>1, <2>2
<1>4. granted
  BY <1>3, GateAsksForAuthority DEF Activatable
<1>5. c \in Candidates(r, found)
  BY <1>1, <1>3
<1>6. \E s \in OrderChoices(run[r].plan, World) :
         c = Revised(run[r].plan, World, s, IsCascade(run[r].plan, found))
  BY <1>3, <1>5 DEF Candidates
<1> QED BY <1>2, <1>4, <1>6

\* Damping is as it was, or a candidate that was let through is now the plan.
Revision(r) ==
    \/ run'[r].damping = run[r].damping
    \/ \E o \in Observations(r) : o.verdict = "revise" /\ run'[r].plan = o.candidate

LEMMA ObserveRevises ==
    ASSUME ServiceInv, NEW r \in Runs, ~IsAt(r, "idle"), Observe(r)
    PROVE  Revision(r)
<1>1. PICK x : x = run[r] /\ DOMAIN x = RunFields /\ DOMAIN run = Runs
  BY ServedRun DEF RunShaped
<1>2. PICK o \in Observations(r) : Keeps(r, o) \/ Escalates(r, o) \/ Blocks(r, o) \/ Revises(r, o)
  BY DEF Observe
<1>3. CASE Revises(r, o)
  <2>1. PICK d : run' = [run EXCEPT ![r] = [@ EXCEPT !.cursor = Len(events), !.plan = o.candidate,
                                                     !.damping = d]]
    BY <1>3 DEF Revises
  <2>2. run'[r] = [x EXCEPT !.cursor = Len(events), !.plan = o.candidate, !.damping = d]
    BY <1>1, <2>1
  <2>3. run'[r].plan = o.candidate
    BY <1>1, <2>2 DEF RunFields
  <2> QED BY <1>3, <2>3 DEF Revises, Revision
<1>4. CASE Keeps(r, o) \/ Escalates(r, o) \/ Blocks(r, o)
  <2>1. PICK s : Observed(r, o, s)
    BY <1>4 DEF Keeps, Escalates, Blocks
  <2>2. PICK q : q = InForce(r, o)
    OBVIOUS
  <2>3. run'[r] = [x EXCEPT !.cursor = Len(events), !.status = s, !.plan = q]
    BY <1>1, <2>1, <2>2 DEF Observed
  <2>4. run'[r].damping = x.damping
    BY <1>1, <2>3 DEF RunFields
  <2> QED BY <1>1, <2>4 DEF Revision
<1> QED BY <1>2, <1>3, <1>4

LEMMA ConcludedKeepsDamping ==
    ASSUME ServiceInv, NEW r \in Runs, ~IsAt(r, "idle"),
           run' = run \/ Complete(r) \/ \E i, t, s : Concluded(r, i, t, s)
    PROVE  Revision(r)
<1>1. PICK x : x = run[r] /\ DOMAIN x = RunFields /\ DOMAIN run = Runs
  BY ServedRun DEF RunShaped
<1>2. CASE run' = run
  BY <1>2 DEF Revision
<1>3. CASE Complete(r)
  <2>1. run'[r] = [x EXCEPT !.status = "completed"]
    BY <1>1, <1>3 DEF Complete
  <2>2. run'[r].damping = x.damping
    BY <1>1, <2>1 DEF RunFields
  <2> QED BY <1>1, <2>2 DEF Revision
<1>4. ASSUME NEW i, NEW t, NEW s, Concluded(r, i, t, s) PROVE Revision(r)
  <2>1. run'[r] = [x EXCEPT !.plan.steps[i].status = t, !.status = s]
    BY <1>1, <1>4 DEF Concluded
  <2>2. run'[r].damping = x.damping
    BY <1>1, <2>1 DEF RunFields
  <2> QED BY <1>1, <2>2 DEF Revision
<1> QED BY <1>2, <1>3, <1>4

\* A step that serves a run revises it or leaves its damping.
LEMMA ServeRevises ==
    ASSUME ServiceInv, NEW r \in Runs, Serve(r)
    PROVE  Revision(r)
<1>1. ~IsAt(r, "idle")
  BY ServeServed
<1>2. CASE Observe(r)
  BY <1>1, <1>2, ObserveRevises
<1>3. CASE ~Observe(r)
  <2>1. run' = run \/ Complete(r) \/ \E i, t, s : Concluded(r, i, t, s)
    <3>1. CASE Execute(r)
      BY <3>1 DEF Execute
    <3>2. CASE ExecuteBaseline(r)
      BY <3>2 DEF ExecuteBaseline
    <3>3. CASE OrderGate(r)
      <4>1. \/ UNCHANGED run
            \/ \E t : Concluded(r, PlaceOrder, t, "awaiting_human")
        BY <3>3 DEF OrderGate
      <4> QED BY <4>1
    <3>4. CASE OrderDecide(r)
      <4>1. UNCHANGED run \/ \E s : Concluded(r, PlaceOrder, "failed", s)
        BY <3>4 DEF OrderDecide
      <4> QED BY <4>1
    <3>5. CASE OrderSpend(r)
      BY <3>5 DEF OrderSpend
    <3>6. CASE OrderCheck(r)
      BY <3>6 DEF OrderCheck
    <3> QED BY <1>3, <3>1, <3>2, <3>3, <3>4, <3>5, <3>6 DEF Serve
  <2> QED BY <1>1, <2>1, ConcludedKeepsDamping
<1> QED BY <1>2, <1>3

\* A revision is worth its while: whatever it plans is sound in its world.
THEOREM RevisionsAreSound == AdaptiveSpec => RevisedPlanIsSound
<1>1. ASSUME ServiceInv, AdaptiveTypeOK, [AdaptiveNext]_adaptiveVars
      PROVE  \A r \in Runs :
                Started(r) /\ run[r].plan.version' > run[r].plan.version =>
                    \A i \in PendingSteps(run'[r].plan) :
                        \A a \in AssumptionsOf(run'[r].plan, i) : ~Broken(a, World)
  <2> SUFFICES ASSUME NEW r \in Runs, Started(r), run'[r].plan.version > run[r].plan.version,
                      NEW i \in PendingSteps(run'[r].plan),
                      NEW a \in AssumptionsOf(run'[r].plan, i)
               PROVE  ~Broken(a, World)
    OBVIOUS
  <2>1. ServiceInv' /\ RunShaped(run[r]) /\ DOMAIN run = Runs
    BY <1>1, NextKeeps DEF ServiceInv, RunsShaped
  <2>2. /\ PlanShaped(run[r].plan) /\ run[r].damping.count \in Nat
        /\ run[r].plan.version = run[r].damping.count + 1
    BY <2>1 DEF RunShaped, Contained, DampingShaped
  <2>3. run'[r].plan # run[r].plan
    BY <2>2
  <2>4. Revision(r) /\ run'[r].damping # run[r].damping
    <3>1. Revision(r) /\ Started(r)'
      <4>1. ASSUME NEW s \in Runs, StartRun(s) PROVE FALSE
        <5>1. PICK y : run' = [run EXCEPT ![s] = y] /\ run[s].status = "none"
          BY <4>1 DEF StartRun
        <5> QED BY <2>1, <2>3, <5>1 DEF Started
      <4>2. ASSUME NEW s \in Runs, Serve(s) PROVE Revision(r) /\ Started(r)'
        <5>1. Served(s) /\ ~IsAt(s, "idle")
          BY <1>1, <4>2, ServeServed
        <5>2. r = s
          BY <2>3, <5>1 DEF Served
        <5>3. Follows(run[r], run'[r])
          BY <5>1, <5>2 DEF Served
        <5>4. Started(r)'
          <6>1. RunsTyped
            BY <1>1, TypeParts
          <6>2. RunsTyped'
            BY <1>1, <4>2, <5>1, <6>1, TypeParts, ServedRun, ServeKeepsRunsTyped
          <6>3. run'[r] \in RunType \/ run'[r] = Unstarted
            BY <6>2 DEF RunsTyped
          <6>4. run'[r] # Unstarted
            BY <5>3 DEF Follows, RunShaped, Contained, DampingShaped, Unstarted, DampingFields
          <6> QED BY <6>3, <6>4 DEF RunType, Started
        <5> QED BY <1>1, <4>2, <5>2, <5>4, ServeRevises
      <4>3. ASSUME NEW s \in Runs, Advance(s) PROVE FALSE
        BY <2>3, <4>3 DEF Advance
      <4>4. ASSUME (\E e \in Injections : InjectApply(e)) \/ InjectAppend \/ UNCHANGED adaptiveVars
            PROVE FALSE
        BY <2>3, <4>4, AsideLeavesRuns
      <4> QED BY <1>1, <4>1, <4>2, <4>3, <4>4 DEF AdaptiveNext
    <3>2. run'[r].plan.version = run'[r].damping.count + 1
      BY <2>1, <3>1 DEF ServiceInv, RunsShaped, RunShaped, Contained
    <3> QED BY <2>2, <3>1, <3>2
  <2>5. PICK o \in Observations(r) : o.verdict = "revise" /\ run'[r].plan = o.candidate
    BY <2>4 DEF Revision
  <2>6. granted
    BY <2>5, ReviseIsChosen
  <2>7. PICK s \in OrderChoices(run[r].plan, World) :
            o.candidate = Revised(run[r].plan, World, s, IsCascade(run[r].plan, o.found))
    BY <2>5, ReviseIsChosen
  <2>8. World.suppliers \in WorldType /\ World.headroom \in Int
    BY <1>1, TypeParts, HeadroomIsNumber DEF WorldTyped
  <2>9. PICK world : world = World
    OBVIOUS
  <2>10. world.authority
    BY <2>6, <2>9 DEF World
  <2> QED BY <2>2, <2>5, <2>7, <2>8, <2>9, <2>10, RevisionIsSound
<1>2. ServiceInv /\ AdaptiveTypeOK /\ [AdaptiveNext]_adaptiveVars
      => [\A r \in Runs :
            Started(r) /\ run[r].plan.version' > run[r].plan.version =>
                \A i \in PendingSteps(run'[r].plan) :
                    \A a \in AssumptionsOf(run'[r].plan, i) : ~Broken(a, World)]_adaptiveVars
  BY <1>1
<1> QED BY <1>2, ServiceKeepsInv, AdaptiveTypeCorrect, PTL DEF AdaptiveSpec, RevisedPlanIsSound

=============================================================================
