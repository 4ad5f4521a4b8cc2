-------------------------------- MODULE Tower --------------------------------
(***************************************************************************)
(* TowerService (core/towercore/application/services.py) and its scripted  *)
(* fleet (application/agents.py) over the InterventionGate: agents step    *)
(* through their work, DecisionCore rules on it, risky work is parked,     *)
(* humans intervene, and after every step the drift rules may pause the    *)
(* agent.  One request runs at a time.                                     *)
(***************************************************************************)
EXTENDS InterventionGate, DecisionPolicy, Trail, FiniteSetsExt

CONSTANTS
    Gathered,           \* what TrustCore and the receipts may answer about an actor
    PurchaseVerdicts,   \* what a purchase simulation may predict
    MaxEvents,          \* bound: events on one agent's trail when a request starts
    MaxInterventions    \* bound: human interventions on all the trails together

ASSUME FleetAssumption ==
    /\ Agents \subseteq {"restockbot", "refundbot", "deploybot"}
    /\ \A g \in Gathered :
        g.authority \in Authority /\ g.total \in Nat /\ g.favorable \in 0 .. g.total

VARIABLES
    seeded,     \* _seeded
    rogue,      \* _rogue: the agents whose objective was corrupted
    cursor,     \* _world["cursors"], modulo the number of steps
    queue,      \* _world["refund_queue"] and ["releases"]
    current,    \* _world["current_ticket"] and ["current_release"]
    log         \* the event stream, one trail per agent

worldVars == <<rogue, cursor, queue, current>>
towerVars == <<gateVars, seeded, worldVars, log>>

Steps(a) ==
    CASE a = "restockbot" -> <<"check_stock", "size_order", "purchase", "verify_delivery">>
      [] a = "refundbot" -> <<"pop_ticket", "decide_refund">>
      [] a = "deploybot" -> <<"pick_release", "verify_ticket", "deploy">>

\* A ticket or a release: its amount (blast radius), and whether every evidence
\* field that its policy requires is there (an invoice, a change ticket).
Item(name, amount, complete) == [name |-> name, amount |-> amount, complete |-> complete]
Nothing == Item(NoItem, 0, FALSE)

Tickets == <<Item("T-101", 120, TRUE), Item("T-102", 2400, FALSE), Item("T-103", 85, TRUE)>>
Releases == <<Item("v12", 1200, FALSE), Item("v13", 400, TRUE)>>

Work(a) ==
    CASE a = "refundbot" -> Tickets [] a = "deploybot" -> Releases [] OTHER -> <<>>

Tampered(item) == Item(item.name, 99999, FALSE)

DomainOf(a) == IF a = "refundbot" THEN "refund" ELSE "deploy"
ActionOf(a) == IF a = "refundbot" THEN "issue_refund" ELSE "deploy_production"

\* DecisionCore's answer about an item, given the gathered facts g.
Outcomes(a, item, g) ==
    LET required == Policy(DomainOf(a)).required
    IN  Decision(DomainOf(a),
            [authority |-> g.authority, total |-> g.total, favorable |-> g.favorable,
             required |-> IF item.complete THEN required ELSE required - 1,
             optional |-> 0, amount |-> item.amount])

-----------------------------------------------------------------------------

Step(a) == Steps(a)[cursor[a] + 1]
AdvanceCursor(a) == cursor' = [cursor EXCEPT ![a] = (@ + 1) % Len(Steps(a))]

HasRoom(a) == Len(log[a]) <= MaxEvents

\* What a step leaves of the gate: unflagged, it parks its action or not;
\* flagged, force_pause() has the last word, over the parked action as well.
Unflagged(a, parks) == IF parks THEN CheckedRequest(a) ELSE Check(a) /\ UNCHANGED gateVars
Contained(a, parks) == IF parks THEN CheckedRequestContained(a) ELSE Check(a) /\ ForcePause(a)

ContainmentReceipts(flags) ==
    [n \in DOMAIN flags |-> E("drift_flagged", flags[n], NoItem)]
    \o <<E("intervention_applied", "auto_pause", NoItem)>>

\* Mutant: the drift check overlooks an agent that has just parked an action.
AfterStepActiveOnly(a, trail, parks) ==
    IF parks \/ ~Drifting(trail)
    THEN log' = [log EXCEPT ![a] = trail] /\ Unflagged(a, parks)
    ELSE log' = [log EXCEPT ![a] = trail \o ContainmentReceipts(Drift(trail))]
         /\ Contained(a, parks)

\* Mutant: containment leaves no receipt.
AfterStepNoReceipt(a, trail, parks) ==
    /\ log' = [log EXCEPT ![a] = trail]
    /\ IF Drifting(trail) THEN Contained(a, parks) ELSE Unflagged(a, parks)

\* Mutant: the drift rules run before the step has left its events.
AfterStepStale(a, trail, parks) ==
    IF Drifting(log[a])
    THEN log' = [log EXCEPT ![a] = trail \o ContainmentReceipts(Drift(log[a]))]
         /\ Contained(a, parks)
    ELSE log' = [log EXCEPT ![a] = trail] /\ Unflagged(a, parks)

\* The end of advance(): the request to park the action, then _after_step().
AfterStep(a, trail, parks) ==
    IF Drifting(trail)
    THEN log' = [log EXCEPT ![a] = trail \o ContainmentReceipts(Drift(trail))]
         /\ Contained(a, parks)
    ELSE log' = [log EXCEPT ![a] = trail] /\ Unflagged(a, parks)

\* A step of agent a that emits its start and then es, and parks an action or not.
Stepped(a, es, parks) ==
    /\ seeded
    /\ HasRoom(a)
    /\ AfterStep(a, log[a] \o Emit(E("step_started", Step(a), NoItem)) \o es, parks)
    /\ UNCHANGED seeded

\* A step that only looks around and goes on to the next.
RoutineStep(a) ==
    /\ Step(a) \in {"check_stock", "size_order", "verify_delivery"}
    /\ Stepped(a, Emit(E("action_executed", Step(a), NoItem)), FALSE)
    /\ AdvanceCursor(a)
    /\ UNCHANGED <<rogue, queue, current>>

\* restock_step, "purchase": simulated first, executed when the fork allows it.
PurchaseStep(a) ==
    /\ Step(a) = "purchase"
    /\ \E verdict \in PurchaseVerdicts :
        Stepped(a,
            Emit(E("decision_requested", "purchase", NoItem))
            \o Emit(E(IF verdict = "allow" THEN "action_executed" ELSE "action_denied",
                      "purchase", NoItem)), FALSE)
    /\ AdvanceCursor(a)
    /\ UNCHANGED <<rogue, queue, current>>

\* pop_ticket and pick_release take the next item of the queue.
TakeItem(a) ==
    /\ Step(a) \in {"pop_ticket", "pick_release"}
    /\ queue[a] # <<>>
    /\ Stepped(a, Emit(E("action_executed", Step(a), Head(queue[a]).name)), FALSE)
    /\ current' = [current EXCEPT ![a] = Head(queue[a])]
    /\ queue' = [queue EXCEPT ![a] = Tail(@)]
    /\ AdvanceCursor(a)
    /\ UNCHANGED rogue

\* They raise a blocker on an empty queue, and stay where they are.
NothingToTake(a) ==
    /\ Step(a) \in {"pop_ticket", "pick_release"}
    /\ queue[a] = <<>>
    /\ Stepped(a, Emit(E("blocker_raised", Step(a), NoItem)), FALSE)
    /\ UNCHANGED worldVars

\* deploy_step, "verify_ticket": a corrupted agent strips the release.
VerifyTicket(a) ==
    /\ Step(a) = "verify_ticket"
    /\ current[a] # Nothing
    /\ Stepped(a, Emit(E("action_executed", Step(a), current[a].name)), FALSE)
    /\ current' = [current EXCEPT ![a] = IF a \in rogue THEN Tampered(@) ELSE @]
    /\ AdvanceCursor(a)
    /\ UNCHANGED <<rogue, queue>>

\* The event an outcome leaves behind.
Verdict(outcome) ==
    CASE outcome = "execute" -> "action_executed"
      [] outcome \in {"ask", "escalate"} -> "approval_requested"
      [] outcome \in {"refuse", "defer"} -> "action_denied"

\* Mutant: an executed item stays on the desk, and the cursor with it.
SettleAgain(a, outcome) ==
    IF outcome = "execute" THEN UNCHANGED <<current, cursor>>
    ELSE current' = [current EXCEPT ![a] = Nothing] /\ AdvanceCursor(a)

\* Mutant: the item leaves the desk and the cursor stays at the decision.
SettleInPlace(a, outcome) == current' = [current EXCEPT ![a] = Nothing] /\ UNCHANGED cursor

\* The item leaves the desk whatever the outcome.
Settle(a, outcome) == current' = [current EXCEPT ![a] = Nothing] /\ AdvanceCursor(a)

\* decide_refund and deploy put the item to DecisionCore.
DecideStep(a) ==
    /\ Step(a) \in {"decide_refund", "deploy"}
    /\ current[a] # Nothing
    /\ \E g \in Gathered :
        LET outcome == Outcomes(a, current[a], g)
        IN  /\ Stepped(a,
                Emit(E("decision_requested", ActionOf(a), current[a].name))
                \o Emit(E(Verdict(outcome), ActionOf(a), current[a].name)),
                outcome \in {"ask", "escalate"})
            /\ Settle(a, outcome)
    /\ UNCHANGED <<rogue, queue>>

Advance(a) ==
    \/ RoutineStep(a) \/ PurchaseStep(a)
    \/ TakeItem(a) \/ NothingToTake(a) \/ VerifyTicket(a) \/ DecideStep(a)

-----------------------------------------------------------------------------

IsInjection(e) == e.kind = "blocker_raised" /\ e.action = "injection"

IsHuman(e) ==
    \/ e.kind = "intervention_applied" /\ e.action \in {"pause", "resume", "kill"}
    \/ IsInjection(e)

Interventions ==
    MapThenSumSet(LAMBDA a : Cardinality({n \in DOMAIN log[a] : IsHuman(log[a][n])}), Agents)

Receipt(a, e) == log' = [log EXCEPT ![a] = @ \o Emit(e)]

Intervene(a, name) ==
    /\ Interventions < MaxInterventions
    /\ Receipt(a, E("intervention_applied", name, NoItem))
    /\ UNCHANGED <<seeded, worldVars>>

HumanPause(a) == Pause(a) /\ Intervene(a, "pause")
HumanResume(a) == Resume(a) /\ Intervene(a, "resume")
HumanKill(a) == Kill(a) /\ Intervene(a, "kill")

\* approve() and deny(): the verdict is receipted on the trail of its agent.
HumanVerdict(i) ==
    \E verdict \in {"approved", "denied"} :
        /\ IF verdict = "approved" THEN Approve(i) ELSE Deny(i)
        /\ Receipt(approvals[i].agent, E("approval_resolved", verdict, NoItem))
        /\ UNCHANGED <<seeded, worldVars>>

\* inject_rogue(): allowed whatever the control state.
InjectRogue(a) ==
    /\ seeded
    /\ Interventions < MaxInterventions
    /\ rogue' = rogue \cup {a}
    /\ Receipt(a, E("blocker_raised", "injection", NoItem))
    /\ UNCHANGED <<gateVars, seeded, cursor, queue, current>>

FreshWorld ==
    /\ rogue' = {}
    /\ cursor' = [a \in Agents |-> 0]
    /\ queue' = [a \in Agents |-> Work(a)]
    /\ current' = [a \in Agents |-> Nothing]

Reset ==
    /\ GateReset
    /\ FreshWorld
    /\ seeded' = FALSE
    /\ log' = [a \in Agents |-> <<>>]

\* seed_demo(): a reset, then every agent is enrolled.
SeedDemo ==
    /\ GateReset
    /\ FreshWorld
    /\ seeded' = TRUE
    /\ log' = [a \in Agents |-> <<E("intervention_applied", "enrolled", NoItem)>>]

TowerInit ==
    /\ GateInit
    /\ seeded = FALSE
    /\ rogue = {}
    /\ cursor = [a \in Agents |-> 0]
    /\ queue = [a \in Agents |-> Work(a)]
    /\ current = [a \in Agents |-> Nothing]
    /\ log = [a \in Agents |-> <<>>]

TowerNext ==
    \/ \E a \in Agents :
        Advance(a) \/ HumanPause(a) \/ HumanResume(a) \/ HumanKill(a) \/ InjectRogue(a)
    \/ \E i \in DOMAIN approvals : HumanVerdict(i)
    \/ Reset \/ SeedDemo

TowerSpec == TowerInit /\ [][TowerNext]_towerVars

-----------------------------------------------------------------------------

\* What may lie on an agent's desk: its work, tampered with or not.
Desk(a) == UNION {{Work(a)[n], Tampered(Work(a)[n])} : n \in DOMAIN Work(a)}

\* The variables hold what the code stores in them.
TowerTypeOK ==
    /\ GateTypeOK
    /\ seeded \in BOOLEAN
    /\ rogue \subseteq Agents
    /\ log \in [Agents -> Seq(Event)]
    /\ DOMAIN cursor = Agents /\ DOMAIN queue = Agents /\ DOMAIN current = Agents
    /\ \A a \in Agents :
        /\ cursor[a] \in 0 .. Len(Steps(a)) - 1
        /\ queue[a] \in {SubSeq(Work(a), n, Len(Work(a))) : n \in 1 .. Len(Work(a)) + 1}
        /\ current[a] \in {Nothing} \cup Desk(a)
        /\ (current[a] # Nothing) <=> Step(a) \in {"decide_refund", "verify_ticket", "deploy"}

IsRelease(e) ==
    \/ e.kind = "approval_resolved"
    \/ e.kind = "intervention_applied" /\ e.action = "resume"

\* Containment without human latency: an agent whose trail is flagged is out of
\* the active state by the end of the step that flagged it (_after_step), and is
\* free again only if a human released it after its last step.
DriftIsContained ==
    \A a \in Agents :
        states[a] \in {"active", "awaiting_approval"} /\ Drifting(log[a]) =>
            \E n \in DOMAIN log[a] :
                /\ IsRelease(log[a][n])
                /\ \A m \in DOMAIN log[a] : log[a][m].kind = "step_started" => m < n

\* One forensic trail: replaying an agent's events gives the control state the
\* gate has for it and tells whether an approval of it is pending, after any
\* mix of steps, verdicts and interventions; nothing moves the gate unreceipted.
TrailTellsControl ==
    \A a \in Agents :
        ReadBack(log[a]) = [state |-> states[a], parked |-> PendingOf(a) # {}]

Settlements(a, name) ==
    {n \in DOMAIN log[a] :
        /\ log[a][n].item = name /\ log[a][n].action = ActionOf(a)
        /\ log[a][n].kind \in {"action_executed", "action_denied", "approval_requested"}}

Waiting(a, name) == {n \in DOMAIN queue[a] : queue[a][n].name = name}

\* A ticket or a release is put to a decision once: it is in the queue, on the
\* desk, or was executed, denied or parked exactly once, whatever interventions
\* fall between the steps.
ItemSettledOnce ==
    \A a \in Agents \cap {"refundbot", "deploybot"} :
        \A n \in DOMAIN Work(a) :
            LET name == Work(a)[n].name
            IN  Cardinality(Settlements(a, name)) + Cardinality(Waiting(a, name))
                + (IF current[a].name = name THEN 1 ELSE 0) = 1

\* A release that lacks its change ticket, by birth (v12) or because a corrupted
\* deploybot stripped it, is never deployed: not for any reading of the
\* authority and not with a spotless track record.
UnticketedNeverDeploys ==
    "deploybot" \in Agents =>
        LET trail == log["deploybot"]
        IN  \A n \in DOMAIN trail :
                trail[n].kind = "action_executed" /\ trail[n].action = "deploy_production" =>
                    /\ trail[n].item # "v12"
                    /\ \A m \in 1 .. n : \A k \in 1 .. m :
                        ~ (/\ IsInjection(trail[k])
                           /\ trail[m].kind = "action_executed"
                           /\ trail[m].action = "verify_ticket"
                           /\ trail[m].item = trail[n].item)

=============================================================================
