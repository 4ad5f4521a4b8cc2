-------------------------------- MODULE Trail --------------------------------
(***************************************************************************)
(* The forensic trail of one agent: the events TowerService appends for it *)
(* (core/towercore/domain/events.py, stream.py), the cost events it adds   *)
(* to them, and the drift rules that read them back (domain/anomaly.py).   *)
(*                                                                         *)
(* An event is [kind, action, item].  The sequence number of an event is   *)
(* its place in the trail.  Costs are in units of 1350 millionths of a     *)
(* dollar, of which every metered estimate is a whole number.              *)
(***************************************************************************)
EXTENDS Naturals, Sequences, FiniteSets

E(kind, action, item) == [kind |-> kind, action |-> action, item |-> item]
NoItem == "none"

EventKind == {"step_started", "decision_requested", "action_executed", "action_denied",
              "approval_requested", "approval_resolved", "intervention_applied",
              "cost_recorded", "drift_flagged", "blocker_raised"}

Rules == {"denial_burst", "escalation_burst", "cost_runaway", "oscillation"}
RoutineActions == {"check_stock", "size_order", "verify_delivery",
                   "pop_ticket", "pick_release", "verify_ticket"}

\* What an event may name: an action or step, a metered call, a drift rule, an
\* intervention or a verdict; and a ticket or a release.
ActionName ==
    RoutineActions \cup {"purchase", "decide_refund", "issue_refund", "deploy",
                        "deploy_production", "decide", "execute"}
    \cup Rules \cup {"enrolled", "pause", "auto_pause", "resume", "kill", "injection",
                    "approved", "denied"}
ItemName == {NoItem, "T-101", "T-102", "T-103", "v12", "v13"}

Event == [kind : EventKind, action : ActionName, item : ItemName]

\* A decision is metered at 800/200 tokens, an executed action at 600/150, at
\* $3 and $15 per million tokens: $0.0054 and $0.00405.  Budget: $0.05.
Charge(action) == IF action = "decide" THEN 4 ELSE 3
Budget == 37

\* _emit(): the event, and the cost event of a metered one right behind it.
Emit(e) ==
    CASE e.kind = "decision_requested" -> <<e, E("cost_recorded", "decide", NoItem)>>
      [] e.kind = "action_executed" -> <<e, E("cost_recorded", "execute", NoItem)>>
      [] OTHER -> <<e>>

-----------------------------------------------------------------------------

\* _meaningful(): what the drift rules look at.
IsMeaningful(e) ==
    /\ e.kind \in {"action_executed", "action_denied", "approval_requested",
                   "drift_flagged", "intervention_applied", "blocker_raised",
                   "cost_recorded"}
    /\ ~(e.kind = "action_executed" /\ e.action \in RoutineActions)

Meaningful(es) == {n \in DOMAIN es : IsMeaningful(es[n])}

\* A slice [-n:] of what is found at these places.
Latest(places, n) == {p \in places : Cardinality({q \in places : q > p}) < n}

OfKind(es, places, kind) == {n \in places : es[n].kind = kind}

DenialBurst(es) ==
    Cardinality(OfKind(es, Latest(Meaningful(es), 10), "action_denied")) >= 3

EscalationBurst(es) ==
    Cardinality(OfKind(es, Latest(Meaningful(es), 8), "approval_requested")) >= 2

Metered(es, action) ==
    {n \in OfKind(es, DOMAIN es, "cost_recorded") : es[n].action = action}

Spent(es) ==
    Charge("decide") * Cardinality(Metered(es, "decide"))
    + Charge("execute") * Cardinality(Metered(es, "execute"))

CostRunaway(es) == Spent(es) > Budget

Oscillation(es) ==
    \E p, q, r, s \in Latest(OfKind(es, Meaningful(es), "action_executed"), 4) :
        /\ p < q /\ q < r /\ r < s
        /\ es[p].action = es[r].action /\ es[q].action = es[s].action
        /\ es[p].action # es[q].action

Flagged(rule, es) ==
    CASE rule = "denial_burst" -> DenialBurst(es)
      [] rule = "escalation_burst" -> EscalationBurst(es)
      [] rule = "cost_runaway" -> CostRunaway(es)
      [] rule = "oscillation" -> Oscillation(es)

Raised(rule, es) == IF Flagged(rule, es) THEN <<rule>> ELSE <<>>

\* detect_drift(): the rules that fire, in the order they are evaluated.
Drift(es) ==
    Raised("denial_burst", es) \o Raised("escalation_burst", es)
    \o Raised("cost_runaway", es) \o Raised("oscillation", es)

Drifting(es) == \E rule \in Rules : Flagged(rule, es)

-----------------------------------------------------------------------------

\* What a reader of the trail concludes about the agent, event by event: its
\* control state and whether an action of it waits for a verdict.
Reading(r, e) ==
    CASE e.kind = "approval_requested" -> [state |-> "awaiting_approval", parked |-> TRUE]
      [] e.kind = "approval_resolved" -> [state |-> "active", parked |-> FALSE]
      [] e.kind = "intervention_applied" /\ e.action \in {"pause", "auto_pause"} ->
            [r EXCEPT !.state = "paused"]
      [] e.kind = "intervention_applied" /\ e.action = "resume" ->
            [r EXCEPT !.state = IF r.parked THEN "awaiting_approval" ELSE "active"]
      [] e.kind = "intervention_applied" /\ e.action = "kill" ->
            [state |-> "killed", parked |-> FALSE]
      [] OTHER -> r

ReadBack(es) ==
    LET read[n \in 0 .. Len(es)] ==
            IF n = 0 THEN [state |-> "active", parked |-> FALSE]
            ELSE Reading(read[n - 1], es[n])
    IN  read[Len(es)]

=============================================================================
