# A TLA+ model of builder-league

builder-league is a Python monolith of seven small "cores" behind one FastAPI application
(`src/api/main.py`), with a React front end. Every core keeps its state in memory, and all of them
write receipts to one append-only log. This directory models the cores that hold agents on a leash:
who may act, what is parked for a human, what is spent and paid back, what is remembered, how a plan
adapts, what a human is shown, and how a simulated company keeps its books.

Run it with `tlc -config X.cfg M` for the pairs under *Runs*, and `tlapm M.tla` for the
`*Proofs` modules.

## 1. Inventory

| Component | State | Operations | Used by | In the model |
|---|---|---|---|---|
| TrustCore (`core/trustcore`) | agents, signed credentials, receipts | register, issue, revoke, decide, record_event | everything | `TrustCore` |
| DecisionCore (`core/decisioncore`) | decision log | decide | Tower, SimCore, AdaptiveCore | `DecisionPolicy`, `DecisionCore` |
| SimCore (`core/simcore`) | simulation records, budget ledger | simulate, reject, execute, rollback, hold, reset | Tower, AdaptiveCore, AmbientCore | `BudgetLedger`, `SimCore` |
| TowerCore gate (`domain/gate.py`) | control states, approval queue | pause, resume, kill, request_approval, approve, deny, reset | Tower service | `Leash`, `InterventionGate` |
| TowerCore service (`core/towercore`) | event trail per agent, cost meter, fleet world | seed, advance, interventions, corrupt, restore, reset | API | `Trail`, `Tower` |
| MemoryCore (`core/memorycore`) | facts, tombstones | learn, recall, forget, sweep, reset | CompanyCore, AmbientCore | `MemoryCore` |
| AdaptiveCore (`core/adaptivecore`) | runs, plans, suppliers, event stream, damping | start_run, inject_event, advance, run_to_end | API | `AdaptivePlan`, `AdaptiveCore` |
| CompanyCore (`core/companycore`) | event log, human inbox, day, faults | seed, advance_day, resolve_inbox, replay, cash crunch, rogue sales | API | `CompanyCore` |
| AmbientCore (`core/ambientcore`) | cards | canvas, approve, edit, reject, reset | API | `AmbientCore` |
| HTTP API (`api/main.py`) | wiring | routes | UI | as concurrency only |
| UI, narrators, demos | display | | | not modelled |

**How they interact.** A core calls another one synchronously through a port. There is no message
queue, no background task and no persistence: a crash loses everything, so nothing recovers. What
makes the system hard is elsewhere:

* *Threads.* The handlers are plain `def` functions, which FastAPI runs in a thread pool, and no
  store has a lock. Records are shared mutable dictionaries. Reads that are acted on later
  (`execute`'s status check, `rollback`'s, DecisionCore's history, MemoryCore's claimants, the
  headroom an order was planned for, the fold a card was picked from, the books a role planned on)
  may be stale by then.
* *Two stores, one truth.* The gate and the trail, the simulation record and the ledger, the facts
  and the tombstones, the world and its event stream, the inbox and the company's log are updated
  one after the other.
* *Long legal sequences.* Pauses, verdicts, kills, corruptions and resets in any order; credentials
  that are revoked, expire and are registered again; facts that age, are corroborated and revoked;
  plans that are executed in part, revised, and revised again.
* *Thresholds.* Weighted sums against bars, windows of events, confidence floors and margins,
  revision budgets and cooldowns, days of runway.

PROJECT.json lists the hazards at their lines, with the property that covers each, or why none does.

**What correctness means**, core by core: an agent that is killed stays killed, an agent whose
action is parked does not move, a verdict is final, drift is contained (Tower); what is paid back
was spent, and is paid back no more often than requests overlap, an overspend is noticed, what was
executed can be rolled back (SimCore); an execution is backed by a live grant and a better record
never loses one (DecisionCore); a slot has one answer, and what is revoked is gone with all that was
derived from it (MemoryCore); a run orders once, what it has executed stands, and adaptation ends
(AdaptiveCore); one card at a time, and what is accepted is carried out (AmbientCore); money moves
once, a freeze binds, a replay shows what was (CompanyCore).

Several of these hold for requests that come one after the other and fail for some that overlap,
because no store has a lock. The modules keep those overlaps. A property then does not say that
nothing goes wrong: it names the overlap that it takes (two rollbacks inside `refund()`, a reset
around an execution, a revocation between a check and a record, two `learn` requests about one slot,
two polls of the canvas) and says that nothing else does it, or how far it goes.

## 2. Modules

```
Leash <---refines--- InterventionGate ---> Tower ---> MCTower
                     DecisionPolicy  ----> Tower
                     Trail  ------------->
                     DecisionPolicy  ----> DecisionCore ---> MCDecisionCore
                     TrustCore  --------->
                     BudgetLedger  ------> SimCore ---> MCSimCore
                                           MemoryCore ---> MCMemoryCore
AdaptivePlan, DecisionPolicy, BudgetLedger ---> AdaptiveCore ---> MCAdaptiveCore
InterventionGate -------------------------> AmbientCore
                                           CompanyCore ---> MCCompanyCore
```

**`Leash`** is the abstract promise of the gate: each agent is free, held or dead; what is parked
holds; dead is for ever unless the gate is reset.

**`InterventionGate`** is `gate.py` method by method: `control` and `approvals` are `_states` and
`_approvals`. A method that raises is a disabled action. `CheckedRequest` and
`CheckedRequestContained` are the sequences of gate calls one Tower step makes. The refinement
mapping reads a control state as free, held or dead.

**`Trail`** is one agent's event list, with the cost events in it, and the drift rules of
`anomaly.py` as functions of it. A filtered list is the set of the places that pass the filter, and
a window `[-n:]` of it the places that fewer than n others follow (`Latest`). Costs are in units of $0.00135: a decision costs 4, an execution
3, and the budget of $0.05 is 37 of them. The `CostMeter`'s table is a projection of the trail and
is not kept twice.

**`Tower`** is `TowerService` with its scripted fleet. An action is a whole request: the step, what
it emits, whether it parks its action, the drift check and the containment. `Outcomes` asks
`DecisionPolicy` about the item on the desk; the authority and the history that TrustCore and the
receipts would report are chosen freely from `Gathered`. One request runs at a time here; requests
that interleave on the gate are in the plan.

**`DecisionPolicy`** is the rule table of `resolve.py` with the policies and signals, over integers:
signals in thousandths, as the code rounds them, and weights in hundredths, so that weighted sums
are exact in units of 10^-5.

**`TrustCore`** and **`DecisionCore`**: credentials as copies in a store that are valid, revoked or
expired, receipts as a list, and `decide()` as three steps: it reads the history, verifies authority
on a fork, and later resolves on what it has read and records. Issuing, revoking, expiry,
re-registration and other receipts happen in between; `overtaken` remembers whose actor lost a live
grant between the last two. Signatures are not modelled: a credential whose signature does not verify
and a revoked one fail in the same way. The history is read from the latest `HistoryWindow` receipts,
which are 10,000 in the code.

**`BudgetLedger`** is the append-only ledger with its derived totals. **`SimCore`** is the service
as steps of concurrent workers: each `execute` and `rollback` is cut where it reads or writes a
shared record, the ledger or TrustCore, a refund between its look-up and its append, and a reset
between the ledger and the record store. A record is shared by reference as in the code, and a
reset puts the book aside that requests in flight still hold. `amid` remembers the executions that
took the new ledger of a reset before it had emptied the store.

**`MemoryCore`** is `MemoryService` for one user of one agent. `learn()` is cut between its reading
of the claimants and its writing, and once more in a supersession, between the tombstone and the
save. `sweep()` names what is stale and then writes its tombstones one by one. Several learners may
overlap; `contested` remembers the slots that two of them learnt at once, or that one spelled with
blanks. `forget()` and `reset()` are single steps. Time passes in half-lives of 30 days, so
that decay is a division by a power of two, and confidences are in thousandths. `Paddings` says
whether a request may spell its slot with blanks: `by_slot()` compares the slot as spelled,
`make_fact()` stores it stripped. `recall()` appears as what it decides about one slot (`ReliedOn`);
word matching, ranking and task scopes are left out.

**`AdaptivePlan`** is the domain layer of AdaptiveCore as operators: the five steps of a restock
plan with what each assumes, the check of these assumptions (`Broken`, `Contradictions`), the
revision (`OrderChoices`, `Revised`) and the damping rules in the order of the code. Money is in
units of ten cents. A revision that carries an executed price check over rewrites its assumption
in place, which the code does before it knows whether the revision is allowed; `InForce` keeps that.

**`AdaptiveCore`** is the service over that layer, `BudgetLedger` and `DecisionPolicy`. A run has at
most one request at a time, and a request is cut where it has read what others write: observation,
gate, TrustCore's decision, spend, budget check. `inject_event()` is two actions, the effect and the
append; one injection runs at a time. A request makes as many cycles as `run_to_end()` would, or one. TrustCore is reduced to one
grant that may be revoked and the receipts about the agent, which are its history in `GateOutcome`.

**`AmbientCore`** extends `InterventionGate`: the fleet acts and is ruled as in the tower, but only
what the canvas sees of it is kept (control states, approvals, flags, low stock). Several pollers and
workers serve requests that overlap. A poll is four actions: the fold with its ranking, the look for
an active card, the simulation of a proposal that bears an amount (a restock, or a review of an
action that does), and the save; `alone` remembers that no other poll has saved since the look. A
ruling is three: it reads its card, saves the
ruled one, and carries it out through the gate or SimCore, or teaches MemoryCore a correction.
Approved and edited cards are one state, because the edited action is never looked at.

**`CompanyCore`** is the event-sourced company. The books are a fold of the log (`Posted`, `Books`),
replay a fold of its prefix of days. A day is cut between the intents of its roles; `Posts` is what
a run of `emit()` calls may do: append everything, or lose the race for a number against a
resolution and break the day off. `resolve_inbox()` is cut into the inbox, the reading of the day and
the number, and the append, so that its event may carry a day that is over. What TrustCore says of a
role is a limit and whether its standing is proven; this, and the faults, may change at any moment. What a language model may make the chief of staff do is `DirectiveEffects`.

## 3. Runs

| Run | Bounds | Asks |
|---|---|---|
| `tower_deploybot` | 1 agent, 2 approvals, 26 events, 3 interventions, any gathered facts | types; queue and states agree; drift is contained; the trail tells the control state; no item is settled twice; an unticketed release never deploys; the gate implements `Leash`; kill and verdicts are final |
| `tower_fleet` | 2 agents, 36 events each, no interventions | containment under the drift rules only a long script reaches (over budget) |
| `sim_races` | 2 workers, 2 simulations, 2 books, 1 hold | refunds compensate and are bounded; an overspend is flagged; a spend can be rolled back |
| `sim_double` | same, 1 book | violation: one simulation is executed twice |
| `decision_service` | 1 caller, 2 credentials, 3 receipts, a window of 2, a refund and three deploys | repeatability, monotonicity, low risk, live grants |
| `memory_claims` | 2 learners, 2 slots, with and without blanks, 2 values, 2 sightings, 3 learns, 1 half-life | one claimant per slot; revocation reaches the subtree; a sweep spares what is relied on; the user's word prevails |
| `adaptive_shared` | an adaptive and a baseline run, 2 suppliers, 2 events of 7 kinds, 1 revision | a run orders once; an overdraft reaches a human; a revised plan is sound; what was executed stands |
| `adaptive_to_end` | 1 run by `run_to_end()`, 3 events of 4 kinds, 2 revisions | adaptation stays within its budget and does not swing back; the request ends because the run did |
| `adaptive_delivery` | 1 run, 1 event | violation: a run confirms what it has not ordered |
| `ambient_canvas` | 1 agent, 2 approvals, 2 pollers and 2 workers of which 2 at a time serve a request, 1 simulation, 2 moves of the world | a second card takes an overlapping poll; queue and states agree; an accepted review settles the parked action |
| `ambient_resurfaced` | the same with 1 poller and 1 worker | violation: a ruled card is shown again |
| `company_days` | 3 days of both seeded weeks, 1 change of credentials, 1 resolution per seed | money moves once; frozen means frozen; a replay shows the day; the log agrees with the inbox |

*Why the bounds suffice.* Two approvals and three interventions let an agent be flagged with an
action parked, ruled on, killed and reset, and let a verdict race a second request. 26 events hold
DeployBot's two releases and its corruption, and the 8- and 10-event windows are full by then; 36
events let RestockBot exceed its budget (RefundBot, run beside it, does not). Two workers and two simulations on one
budget of 10 with amounts of 9 make the second execution an overspend, let two rollbacks refund one
commitment, and a second book is what a reset in mid-request needs. Three receipts distinguish no
history from a good and a bad one, and with a window of two the third pushes one out. A second caller
would add one thing only, since a decision writes nothing that a later step of another one reads: the
receipts of two decisions would move the window, as two decisions of one caller do. Of the
deploys two execute with the record for it, one of them over the grant's scope, and one is too
risky. Three learns make
a fact, one derived from it and a rival of either, and two of them may overlap; a half-life takes a
guess, but not the user's word, below both floors, and a TTL of one half-life ends in it. In AdaptiveCore the budget holds one order of 100 units and not two, a hold leaves room
for a part of one, and the prices lie around the tolerance as in the seeded scenarios: two events
contradict what was executed and what is still to come, and three make the price flap (there, back
and there again) against a revision budget of two. Two moves of the world park an action and then
change the agent's state under the card; with two requests at a time two rulings overlap on one card,
two polls leave two cards, and a ruling and a poll meet. Three days are those
on which the seeded weeks differ: the crunch strikes on the third, and what the first two left
unpaid meets it. The refusal streak can reach its limit by then, and one resolution may race any
event of the last days and outlast the day it read. A change of credentials may come between any two
intents; one is enough to take from a role what it had, or to give it, after it has planned.

*Deadlock* is checked, except in SimCore and AdaptiveCore, where the bounds on simulations, books
and events end a behaviour.

*Fairness and liveness.* Every request is one that a human or a script may or may not send, and
nothing runs in the background, so most of the system promises nothing by itself. What the code's
scheduling justifies is that a thread that serves a request runs on: weak fairness of `Serve(r)` in
AdaptiveCore and of `ServeRuling(w)` in AmbientCore, and of nothing else. Nobody has to start a run,
advance it, inject an event, poll or rule. Under it `RunToEndEndsTheRun` says that `run_to_end()`
leaves a run that is over, with the 20 cycles of its guard and events that keep coming, and
`AcceptedIsCarriedOut` that an accepted review settles the parked action.

*Symmetry*: workers and simulations in SimCore, slots, values and learners in MemoryCore, over which
the modules only quantify. No run with a temporal property uses it.

### What the violations show

Each is a behaviour of the code that contradicts a sentence of the repository; PROJECT.json quotes
it.

1. `sim_double`: two overlapping `execute` requests for one simulation both spend.
2. `adaptive_delivery`: the order was placed with one supplier; then a price, a delay or a hold
   contradicts what is still pending, the plan is revised, and the run completes with a delivery
   from another supplier, or the confirmation of a quantity, that it never ordered.
3. `ambient_resurfaced`: a card that was approved comes back under the same id as soon as the canvas
   is polled, while its condition lasts, and can be approved, and bought, again.

### Other observations

These were met while modelling, some of them as counterexamples of properties that no run keeps.

*Tower.* A healthy DeployBot sends both of its releases to a human (one has no ticket, the other
scores below the bar) and is flagged for the burst, although the design note says that healthy
agents never flag. A verdict on a parked entry, a denial too, frees an agent that containment has
just paused. A parked refund or deploy that is approved is not carried out afterwards
(`parked_ticket` is only written). A killed agent's automatic denials leave no `approval_resolved`
receipt. RestockBot's denials lie five meaningful events apart, so `denial_burst` cannot fire for it.

*SimCore.* When the grant lapses between simulation and execution, the live decision refuses, nothing
is bought, and the record reads executed with a post-check that is ok. `rollback` revokes every
valid grant of the requester. Two rollbacks of one simulation that look for an earlier refund before
either appends pay back twice. An execution that takes the new ledger of a reset before the reset
empties the record store leaves a spend that counts, without a record to roll back.

*TrustCore and DecisionCore.* A lapsed credential of another kind turns an over-scope request from a
question of risk into an invalid authority. Registering a signed credential again overwrites its
revoked copy. A grant that is revoked between the authority check and the record leaves an execution
on a dead grant. Every decision writes receipts, so that enough decisions, of anybody, push an
actor's record out of the 10,000 receipts of its history.

*MemoryCore.* A slot spelled with a blank finds no claimant and is stored stripped, as a second one.
Two requests that find a slot empty both store. A fact that is corroborated after the sweeper has
named it is swept all the same. Stating an expired value again
boosts a fact that stays at zero and drops the statement. After a contradiction a slot is empty, so
the next claim, however weak, is stored unchallenged; the user's own correction of a value stated
before, near full confidence, ends that way. The design note says that retrieval reports a conflict;
it answers "unknown".

*AdaptiveCore.* The cooldown is counted in stream positions, so it ends only when events come. A
contradiction of an executed step that is damped is lost, because the cursor has moved past its
event. `start_run` overwrites the suppliers of a run in progress without an event. A plan is
"never mutated once stored", but a revision rewrites the assumptions of its executed price check.
The `better_alternative` assumption never has a triggering event. A hold that arrives after the
purchase, with the delivery still pending, revises or escalates a run that needs no more money.
Requests for one run that overlap would order twice.

*AmbientCore.* A review card describes the oldest request on the trail, and what is approved is the
one that is pending. The amount of an edited card is ignored. A second rejection in other words
contradicts the correction and erases it, so the `manual` state is out of reach. Two polls that rank
different intents first, and both look before either saves, leave two active cards, although
`services.py:71` promises at most one.

*CompanyCore.* The seeded week sells nothing: the larger lead of day 1 is over SalesBot's scope and is
proposed, and refused, every day. The design note calls the inbox a fold of the log; it is a store
of its own, which may know an escalation the log does not. A day that loses the race for a number
ends half done, and the next call starts the next day. A resolution that read the day before the
next one began stands after that day's first events with the day before. Nothing unfreezes spending or restores a
role but a new seed. After the last day of a week its last day repeats, with the same lead ids.
Resolving an escalation does nothing else.

## 4. Proofs

All theorems hold for every value of the constants that the named assumptions allow.

* `InterventionGateProofs`: the invariant has the types, one pending approval per agent, a pending
  approval's agent is awaiting or paused, and an awaiting agent has a pending approval. The safety
  property alone is not inductive: `resume` decides by the queue, and `approve` sets an agent active
  without looking, which is safe only because there is no second entry. From it follow
  `QueueAndStatesAgree`, `KillIsForGood`, `VerdictsAreFinal`, and `GateImplementsLeash`, the
  refinement, action by action.
* `TowerProofs`: each step of the tower is a step of the gate or leaves it alone, so the gate's
  theorems hold in the tower (`TowerQueueAgrees`, `TowerKillIsForGood`, `TowerVerdictsAreFinal`,
  `TowerImplementsLeash`), for any fleet within `FleetAssumption` and anything the other cores may
  answer. The tower's own properties are proved too, from one description of what a request does
  to a trail (`Leaves`): of the events it appends, one tells something, and the rest are idle.
  - `TowerTypeCorrect`: among the types, that a desk is occupied exactly at the steps that need
    what lies on it, and that a queue is the rest of the agent's work.
  - `DriftIsAlwaysContained`: after a step it is the last branch of `AfterStep` that decides; the
    rest of the argument is about what comes after a step. A verdict or a resume is a release, and
    an event that is no verdict on an action, no request, no act and no cost only pushes others
    out of a window, so it can raise no flag (`NeutralKeepsCalm`): that is why an injection cannot
    flag an agent that nobody checks.
  - `TheTrailTellsControl`: a trail with one event more reads as that event on top of the rest
    (`ReadBackAppend`, an induction over the trail by way of the least-number principle), and the
    gate's invariant is needed for the pending approval: `Resume` looks at the queue where the
    reader looks at `parked`.
  - `ItemsAreSettledOnce`: one event settles at most one item (`RecordSettles`), and an item waits
    once as long as it has not been taken, because the names of the work are distinct (`WaitsOnce`).
  - `UnticketedIsNeverDeployed`: the invariant `Ticketed` relates the trail to the queue, the desk
    and the corrupted agents: what was verified waits no more, an injection leaves its mark, and a
    release that was verified after one is incomplete as long as it lies on the desk. That an
    incomplete release is not executed is arithmetic on the policy's weights: with one required
    field of three missing, even a valid grant and a perfect record reach 72.82 of the bar of 75
    (`UnticketedConfidence`).
* `FoldLemmas`: what the folds of the models compute, which the other proofs cite: the sum of the
  amounts at some places of a ledger exists, adds up, grows with its places and loses what is taken
  out. The prover cannot instantiate the library's induction theorems, but it can show that the set
  of numbers without a property has a least member and that this member contradicts the step
  (`LeastNumber`, `SetInduction`), which is induction over data all the same. That a step can be
  repeated any number of times (`IterationExists`) gives powers and cascades their values.
* `SimCoreProofs`: types; `NoLateRefund`: a refund is appended by a request that has found none, so
  the refunds of a commitment and the requests about to append one more are together at most the
  workers (`RefundsAreCovered`): a request that looks after the first refund is refused, and the
  ledger is append-only. `SpendsCanBeRolledBack`: the invariant `StoriesHold` tells, for a simulation
  that one request has executed, where that request is, or what the record, the store and the book
  hold since it has ended; a reset in the middle moves the story to the book nobody reads, and an
  execution that takes its ledger in the middle of a reset is marked (`HalfResetIsMarked`). `OverspendsAreFlagged`:
  the property speaks of moments at rest, so the invariant (`SpendsAreFlagged`) says of every spend
  that counts, at any moment, that what is committed up to it is within the limit, or it has its
  receipt, or a request is about to check or to flag on its behalf. Up to a place the sum never
  grows, since refunds only take away from it, and up to the last spend it is the whole.
* `DecisionCoreProofs`: types; `OnlyLiveGrantsExecute`, from the invariant `Grounded`: an authority
  that was read as valid is backed by a live grant, or one was taken from the actor since;
  `DecisionsAreRepeatable`, for a window of any size (`WindowAssumption`), from the invariant
  `Settled`: a recorded outcome equals `OutcomeOf` the current facts, and what a request has read
  that began since they last changed is what it would read now. A decision's own receipt leaves
  every history as it is unless it pushes an agent's receipt out.
  `ExecutesOnLowRisk` and `ExecutionIsMonotone` are arithmetic: for each of the four policies, any
  amount, any history and any evidence, the weighted sums are bounded, with the rounding of the
  signals and the division in the refusal rate.
* `MemoryCoreProofs`: all of MemoryCore's properties, for any slots, sightings and bounds. Types, with
  the ids that requests in progress hold.
  - `OneClaimantApart` and `UserWordAlwaysPrevails` hold for any number of learners and any spelling,
    in the slots that are not contested. The strengthening (`ClaimInv`) says what a request knows
    between its steps as long as its slot is not contested: no other request has read that slot
    (`Apart`); about to save, the slot is empty; about to resolve, its champion is the only claimant
    (`SlotIsWatched`).
  - `RevocationAlwaysReachesSubtree`: a round of the cascade that is not its last adds
    a fact, so that after as many rounds as the store has facts the cascade is closed under
    derivation (`CascadeIsClosed`), and what is downstream of a fact is in every closed set.
  - `SweepAlwaysSparesRelied`: no fact is learnt in the future (`Dated`), hence every
    confidence is a number of thousandths (`ConfidenceIsBounded`), and the floors are in order. From
    the same bound, 1000 at most however often a fact is corroborated, a user's claim above 900 is
    never turned down, which is what `UserWordAlwaysPrevails` rests on.
* `AdaptiveCoreProofs`: `AdaptationStops` and `HistoryStands`, for any suppliers, runs, scenarios,
  prices and bounds. The invariant `ServiceInv` says that the run's version, its revision count and
  its list of choices move together and end with the choice in force (`RunsShaped`), and that
  a request is only in flight for a run that is running, and at its order's stages only while the
  order is the next step (`RequestsServe`). The second is what keeps a revision away from an order
  that is being placed: without it `Concluded` could mark a step of a newer plan. That a revision
  repeats no choice of two revisions ago is then what damping has just tested. On this invariant
  rest the types (`AdaptiveTypeCorrect`), that a run pays once, for what its order says
  (`RunsPayOnce`), that who overdrew the budget is escalated (`OverdraftsAreHandedOver`, along the
  argument of SimCore, with a run about to check in place of a receipt), and that a revision leaves
  no step to come whose assumption its world contradicts (`RevisionsAreSound`).
* `InterventionGateProofs`, its second part, about AmbientCore: types; `AmbientRunsGate`, each step
  of the canvas, of a ruling and of the fleet is a step of the gate or leaves it alone, so the
  gate's invariant holds (`AmbientQueueAgrees`); and `SecondCardNeedsOverlap` (`CardsInv`), for any
  finite set of pollers (`PollersAssumption`): a poll that goes past its look adds one to the polls
  past it, where there was no active card, and its save turns one of them into one card at most;
  rulings and resets only take active cards away.
* `CompanyCoreProofs`: all of CompanyCore's properties, for any week, opening books, standings and
  bounds. The argument about a step goes by what `Posts` appends, place by place, also where the
  day breaks off.
  - `LogFollowsInbox`: `LogInv` adds what the property leaves out: an item the log resolves is in
    the inbox, and of a resolution in flight the inbox knows and the log does not yet
    (`RulingHolds`); that is why its event can be appended by itself or in the middle of a day, and
    only once.
  - `FreezeIsKept`: the fold of the log is frozen exactly if a freeze is in it, since nothing
    unfreezes; the guard that a role meets when it carries an intent out reads that fold.
  - `MoneyMovesOnce`: what the fold has as payable or receivable was billed or invoiced after it
    last moved (`OwedIsOpen`), and what Finance has yet to settle is still owed, each item once,
    while it works through its plan (`MoneyInv`): nobody else settles anything between its intents.
  - `ReplaysAreStable`: entries other than resolutions carry days that never decrease, a resolution
    carries a day that has begun (`DayRead`), and after `day_ticked` come only later days and events
    of the inbox, which the fold does not look at (`DayInv`). That two folds
    which read the same events agree is an induction over the log (`FoldsAgree`).
  - `CompanyTypeCorrect`: the log is in the order of its days but for resolutions (`DayInv`), and the
    plan in hand, the books read and the resolution in flight are what the code puts there
    (`HoldsInv`).

The assumptions are about data that the code itself provides: `FleetAssumption`, `SimAssumption`,
`EvidenceAssumption` (presented fields are counted), `SightingAssumption` (a sighting is of a kind
that exists, extracted with some confidence), `AdaptiveAssumption` (a starting price is within the
cap, an event is of a kind that exists and names a supplier, no new price is zero),
`CompanyAssumption` (the world brings leads, churn and bills, and the opening books are stock, bills
and invoices, with amounts that are not negative), and that a request's amount is not negative,
which the API's schema demands; `WindowAssumption` and `PollersAssumption` say that the window of the
history is not empty and that requests are finitely many. TLC evaluates every one of them on the instances.

*Only model-checked*: the liveness properties `AcceptedIsCarriedOut` and `RunToEndEndsTheRun`, which
are beyond the prover; every other property of a passing run is a theorem as well. The mutants, the
bounds of the runs and the runs that expect a violation concern TLC alone.

## 5. Not modelled

The registry and replay views of the tower, SimCore's fork and diff, the plan diffs and revision
records of AdaptiveCore and the key figures of the company other than its runway are pure functions
for display. Narrators (LLM text with a deterministic fallback), demo scripts and the UI decide
nothing. Cryptography is taken as given: a signature verifies or it does not. Request signing, CORS
and the event stream of the API are left out. In MemoryCore each user and agent is an instance of its
own; facts scoped to a task compete for the same slots as all others, and only `recall` tells them
apart.

Some interleavings are left out although the thread pool allows them: requests about one tower
agent, two requests for one adaptive run, two `inject_event()` calls, two `advance_day()` calls, two
`resolve_inbox()` calls, and a new seed during a day. Nothing in the code guards against them and
nothing in the repository says what should come of them. Two requests for one run would order twice;
two `resolve_inbox()` calls for one item could both find it pending (`inbox.py:38-40`) and both log
its resolution, so `LogNeverOutrunsInbox` is about one at a time. In MemoryCore the tombstones of one
`forget()`, and the two of a contradiction, are written in one step.

## 6. Plan

1. `TowerThreads`: the gate and the event stream under overlapping requests, where the check and the
   assignment come apart.
2. CompanyCore with two `advance_day()` and two `resolve_inbox()` calls, and AdaptiveCore with two
   requests for one run: which of the properties survive, and with which exceptions.
3. Proofs: that an uncontested slot keeps the stronger claim; what the first two items promise.
4. The composition of AmbientCore with the full tower in place of the gate, and of AdaptiveCore with
   SimCore's requests on the same ledger.
