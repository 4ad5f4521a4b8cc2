------------------------------ MODULE AmbientCore ------------------------------
(***************************************************************************)
(* AmbientService (core/ambientcore): a canvas that folds what the other   *)
(* cores report into at most one decision card, and the rulings of a human *)
(* on cards, which it carries out through the other cores.                 *)
(*                                                                         *)
(* The fleet is the intervention gate, which lives on by itself.  SimCore  *)
(* and MemoryCore appear as what a card needs of them: the status of the   *)
(* simulation prepared for it, and the live correction of an intent kind.  *)
(* The canvas is polled by several threads; each request is cut where it   *)
(* has picked what to show, where it has found no active card, and where   *)
(* it has prepared the new one.  Rulings are served by several threads     *)
(* too, each cut where it has read its card, and where it has saved the    *)
(* ruled one.                                                              *)
(***************************************************************************)
EXTENDS InterventionGate, Sequences, FiniteSets

CONSTANTS
    Pollers,    \* bound: canvas requests that are served at the same time
    Workers,    \* bound: rulings that are served at the same time
    MaxRequests,    \* bound: requests of either sort at the same time
    MaxSims,    \* bound: simulations prepared for cards
    MaxMoves    \* bound: steps of the world around the canvas

ASSUME PollersAssumption == IsFiniteSet(Pollers)
ASSUME AmbientAssumption == MaxRequests \in Nat /\ MaxSims \in Nat /\ MaxMoves \in Nat

VARIABLES
    flagged,        \* the agents with a drift flag on the trail
    low,            \* the agents whose last stock check found too little
    tight,          \* the ledger is near its limit
    corrections,    \* the kinds with a live correction in MemoryCore
    sims,           \* the status of the simulations prepared for cards
    cards,          \* card id -> card
    moves,          \* the steps the world has made
    canvas,         \* poller -> the canvas request it serves
    ruling          \* worker -> the ruling it serves

observedVars == <<gateVars, flagged, low, tight, moves>>
ambientVars == <<observedVars, corrections, sims, cards, canvas, ruling>>

Fleet == "fleet"
Kinds == {"deploy_needs_review", "drift_contain", "restock_needed", "budget_risk"}

\* A card's id is computed from the kind, the target and the proposed action of its
\* hypothesis; what is proposed for one kind and target is taken to be the same, so
\* the hypothesis is the id here.  All but the budget's are about an agent.
Hypothesis(kind, target) == [kind |-> kind, target |-> target]
Hypotheses ==
    [kind : Kinds \ {"budget_risk"}, target : Agents] \cup {Hypothesis("budget_risk", Fleet)}
NoHypothesis == Hypothesis("none", Fleet)

NoSim == 0
Card(state, sim) == [state |-> state, sim |-> sim]

\* Approved or edited, and rejected or manual, are told apart for display only.
CardState == {"surfaced", "accepted", "declined"}

NoPoll == [at |-> "idle", shows |-> NoHypothesis, sim |-> NoSim, alone |-> FALSE]
Free == [at |-> "free", id |-> NoHypothesis, becomes |-> "none", sim |-> NoSim]

-----------------------------------------------------------------------------
(* The fold and the ranking: weights in thousandths. *)

Weight(kind) ==
    CASE kind = "drift_contain" -> 850
      [] kind = "deploy_needs_review" -> 800
      [] kind = "restock_needed" -> 600
      [] kind = "budget_risk" -> 550

SurfaceThreshold == 550

\* MemoryCore keeps one correction of a kind, so it is halved once at most.
Demoted(kind) == IF kind \in corrections THEN Weight(kind) \div 2 ELSE Weight(kind)

\* fold_intents()
Intents ==
    {Hypothesis("deploy_needs_review", a) : a \in {b \in Agents : states[b] = "awaiting_approval"}}
    \cup {Hypothesis("drift_contain", a) : a \in {b \in flagged : states[b] = "paused"}}
    \cup {Hypothesis("restock_needed", a) : a \in low}
    \cup (IF tight THEN {Hypothesis("budget_risk", Fleet)} ELSE {})

\* rank_next(): the intents that may become a card, and the best of them; of two
\* targets of one kind the code takes the first by name.
Surfaceable == {h \in Intents : Demoted(h.kind) >= SurfaceThreshold}
Best == {h \in Surfaceable : \A g \in Surfaceable : Weight(g.kind) <= Weight(h.kind)}

-----------------------------------------------------------------------------
(* The canvas. *)

ActiveCards == {id \in DOMAIN cards : cards[id].state = "surfaced"}

\* save() replaces a card by its id.
SavedCard(id, card) == [i \in DOMAIN cards \cup {id} |-> IF i = id THEN card ELSE cards[i]]

Busy == {p \in Pollers : canvas[p] # NoPoll}
Ruling == {w \in Workers : ruling[w] # Free}
Admits == Cardinality(Busy) + Cardinality(Ruling) < MaxRequests

\* canvas() reads the fleet, the ledger and the corrections, and ranks the intents ...
CanvasFold(p) ==
    /\ canvas[p] = NoPoll /\ Admits
    /\ \E h \in Best : canvas' = [canvas EXCEPT ![p] = [NoPoll EXCEPT !.at = "check", !.shows = h]]
    /\ UNCHANGED <<observedVars, corrections, sims, cards, ruling>>

\* Mutant: the canvas makes a card whatever is shown already.
CanvasCheckNothing(p) ==
    /\ canvas[p].at = "check"
    /\ canvas' = [canvas EXCEPT ![p] = [@ EXCEPT !.at = "simulate", !.alone = TRUE]]
    /\ UNCHANGED <<observedVars, corrections, sims, cards, ruling>>

\* ... then looks for an active card, and answers with it when there is one.
CanvasCheck(p) ==
    /\ canvas[p].at = "check"
    /\ canvas' = [canvas EXCEPT ![p] =
         IF ActiveCards # {} THEN NoPoll ELSE [@ EXCEPT !.at = "simulate", !.alone = TRUE]]
    /\ UNCHANGED <<observedVars, corrections, sims, cards, ruling>>

\* The kinds whose proposed action may bear an amount; a review proposes the action
\* that was parked.
AmountBearing == {"restock_needed", "deploy_needs_review"}

Prepares(p, sim) == canvas' = [canvas EXCEPT ![p] = [@ EXCEPT !.at = "save", !.sim = sim]]

\* Mutant: the simulation the card will name is not kept.
CanvasSimulateUnkept(p) ==
    /\ canvas[p].at = "simulate"
    /\ \E sim \in IF canvas[p].shows.kind \in AmountBearing THEN {NoSim, Len(sims) + 1} ELSE {NoSim} :
        Prepares(p, sim)
    /\ UNCHANGED <<observedVars, corrections, cards, ruling, sims>>

\* _surface(): what bears an amount is simulated first; without the agent's key, or
\* when the simulation fails, the card comes without one.
CanvasSimulate(p) ==
    /\ canvas[p].at = "simulate"
    /\ \/ /\ canvas[p].shows.kind \in AmountBearing /\ Len(sims) < MaxSims
          /\ sims' = Append(sims, "pending")
          /\ Prepares(p, Len(sims) + 1)
       \/ Prepares(p, NoSim) /\ UNCHANGED sims
    /\ UNCHANGED <<observedVars, corrections, cards, ruling>>

\* The card is saved, whatever was saved since the look: the requests past theirs
\* are not alone from then on.
CanvasSave(p) ==
    /\ canvas[p].at = "save"
    /\ cards' = SavedCard(canvas[p].shows, Card("surfaced", canvas[p].sim))
    /\ canvas' = [q \in Pollers |-> IF q = p THEN NoPoll ELSE [canvas[q] EXCEPT !.alone = FALSE]]
    /\ UNCHANGED <<observedVars, corrections, sims, ruling>>

-----------------------------------------------------------------------------
(* The three verbs. *)

Serves(w, at) == ruling' = [ruling EXCEPT ![w] = [@ EXCEPT !.at = at]]
Done(w) == ruling' = [ruling EXCEPT ![w] = Free]

\* approve(), edit() and reject() read the card and make its successor; a card
\* that is not surfaced any more raises.
BeginRuling(w) ==
    /\ ruling[w] = Free /\ Admits
    /\ \E id \in ActiveCards, verdict \in {"accepted", "declined"} :
        ruling' = [ruling EXCEPT ![w] =
            [at |-> "save", id |-> id, becomes |-> verdict, sim |-> cards[id].sim]]
    /\ UNCHANGED <<observedVars, corrections, sims, cards, canvas>>

\* The successor is saved before anything is done.
SaveRuling(w) ==
    /\ ruling[w].at = "save"
    /\ cards' = SavedCard(ruling[w].id, Card(ruling[w].becomes, ruling[w].sim))
    /\ Serves(w, IF ruling[w].becomes = "accepted" THEN "execute" ELSE "learn")
    /\ UNCHANGED <<observedVars, corrections, sims, canvas>>

Carrying(w, kind) ==
    /\ ruling[w].at = "execute" /\ ruling[w].id.kind = kind
    /\ Done(w)
    /\ UNCHANGED <<flagged, low, tight, moves, corrections, cards, canvas>>

\* Mutant: only an agent that waits is looked up in the queue.
ExecuteReviewWaiting(w) ==
    LET target == ruling[w].id.target
    IN  /\ Carrying(w, "deploy_needs_review")
        /\ IF states[target] # "awaiting_approval" THEN UNCHANGED gateVars
           ELSE \E i \in PendingOf(target) : Approve(i)
        /\ UNCHANGED sims

\* Mutant: any approval of the agent will do.
ExecuteReviewAny(w) ==
    LET target == ruling[w].id.target
        known == {i \in DOMAIN approvals : approvals[i].agent = target}
    IN  /\ Carrying(w, "deploy_needs_review")
        /\ IF known = {} THEN UNCHANGED gateVars
           ELSE /\ \E i \in known : approvals' = [approvals EXCEPT ![i] = Resolved(i, "approved", "human")]
                /\ states' = [states EXCEPT ![target] = "active"]
                /\ UNCHANGED nextId
        /\ UNCHANGED sims

\* _execute() of a review: the first approval of the target that is pending now.
ExecuteReview(w) ==
    LET pending == PendingOf(ruling[w].id.target)
    IN  /\ Carrying(w, "deploy_needs_review")
        /\ IF pending = {} THEN UNCHANGED gateVars
           ELSE \E i \in pending : (\A j \in pending : i <= j) /\ Approve(i)
        /\ UNCHANGED sims

\* ... of a containment
ExecuteContain(w) ==
    LET target == ruling[w].id.target
    IN  /\ Carrying(w, "drift_contain")
        /\ IF states[target] = "active" THEN Pause(target) ELSE UNCHANGED gateVars
        /\ UNCHANGED sims

\* ... of a restock: the simulation the card was prepared with, unless it was
\* settled elsewhere.
ExecuteRestock(w) ==
    LET n == ruling[w].sim
    IN  /\ Carrying(w, "restock_needed")
        /\ IF n # NoSim /\ sims[n] = "pending" THEN sims' = [sims EXCEPT ![n] = "executed"]
           ELSE UNCHANGED sims
        /\ UNCHANGED gateVars

\* ... of a budget risk: nothing to do.
ExecuteReading(w) ==
    /\ Carrying(w, "budget_risk")
    /\ UNCHANGED <<gateVars, sims>>

\* learn() of a rejection: one that says something else at the same confidence
\* contradicts the correction that is there, and both are dropped.
LearnCorrection(w) ==
    LET kind == ruling[w].id.kind
    IN  /\ ruling[w].at = "learn"
        /\ \/ corrections' = corrections \cup {kind}
           \/ kind \in corrections /\ corrections' = corrections \ {kind}
        /\ Done(w)
        /\ UNCHANGED <<observedVars, sims, cards, canvas>>

-----------------------------------------------------------------------------
(* The world around the canvas. *)

Moves == moves < MaxMoves /\ moves' = moves + 1

FleetMoves ==
    /\ Moves
    /\ UNCHANGED <<tight, corrections, sims, cards, canvas, ruling>>

\* What an agent does in a step, and what its step brings upon it.
FleetSteps(a) ==
    /\ Check(a)
    /\ \/ CheckedRequest(a) /\ UNCHANGED <<flagged, low>>
       \/ (CheckedRequestContained(a) \/ ForcePause(a)) /\ flagged' = flagged \cup {a} /\ UNCHANGED low
       \/ low' \in {low \cup {a}, low \ {a}} /\ UNCHANGED <<gateVars, flagged>>
    /\ FleetMoves

\* What operators do in the tower.
FleetIsRuled ==
    /\ \/ \E a \in Agents : Pause(a) \/ Resume(a) \/ Kill(a)
       \/ \E i \in DOMAIN approvals : Approve(i) \/ Deny(i)
    /\ UNCHANGED <<flagged, low>>
    /\ FleetMoves

\* reset() of the tower, its trail included.
FleetReset ==
    /\ GateReset
    /\ flagged' = {} /\ low' = {}
    /\ FleetMoves

\* The ledger moves; a simulation is settled in SimCore; a correction is revoked
\* or swept in MemoryCore.
OthersMove ==
    /\ \/ tight' = ~tight /\ UNCHANGED <<sims, corrections>>
       \/ /\ \E n \in DOMAIN sims : sims[n] = "pending"
                /\ sims' \in {[sims EXCEPT ![n] = s] : s \in {"executed", "rejected"}}
          /\ UNCHANGED <<tight, corrections>>
       \/ /\ \E kind \in corrections : corrections' = corrections \ {kind}
          /\ UNCHANGED <<tight, sims>>
    /\ Moves
    /\ UNCHANGED <<gateVars, flagged, low, cards, canvas, ruling>>

\* reset() forgets the cards; requests in flight go on.
AmbientReset ==
    /\ cards' = [id \in {} |-> Card("surfaced", NoSim)]
    /\ UNCHANGED <<observedVars, corrections, sims, canvas, ruling>>

AmbientInit ==
    /\ GateInit
    /\ flagged = {} /\ low = {} /\ tight = FALSE
    /\ corrections = {}
    /\ sims = <<>>
    /\ cards = [id \in {} |-> Card("surfaced", NoSim)]
    /\ moves = 0
    /\ canvas = [p \in Pollers |-> NoPoll]
    /\ ruling = [w \in Workers |-> Free]

\* What a worker does once it has read the card.
ServeRuling(w) ==
    \/ SaveRuling(w)
    \/ ExecuteReview(w) \/ ExecuteContain(w) \/ ExecuteRestock(w) \/ ExecuteReading(w)
    \/ LearnCorrection(w)

AmbientNext ==
    \/ \E p \in Pollers : CanvasFold(p) \/ CanvasCheck(p) \/ CanvasSimulate(p) \/ CanvasSave(p)
    \/ \E w \in Workers : BeginRuling(w) \/ ServeRuling(w)
    \/ \E a \in Agents : FleetSteps(a)
    \/ FleetIsRuled \/ FleetReset \/ OthersMove
    \/ AmbientReset

\* A thread that serves a ruling runs on; nobody has to poll, rule or act.
AmbientSpec ==
    /\ AmbientInit
    /\ [][AmbientNext]_ambientVars
    /\ \A w \in Workers : WF_ambientVars(ServeRuling(w))

-----------------------------------------------------------------------------

CanvasType ==
    [at : {"idle", "check", "simulate", "save"}, shows : Hypotheses \cup {NoHypothesis},
     sim : 0 .. Len(sims), alone : BOOLEAN]
RulingType ==
    [at : {"free", "save", "execute", "learn"}, id : Hypotheses \cup {NoHypothesis},
     becomes : CardState \cup {"none"}, sim : 0 .. Len(sims)]

\* The variables hold what the code stores in them; no card is shown with a
\* simulation that was never prepared.
AmbientTypeOK ==
    /\ GateTypeOK
    /\ tight \in BOOLEAN
    /\ flagged \subseteq Agents /\ low \subseteq Agents
    /\ corrections \subseteq Kinds
    /\ moves \in 0 .. MaxMoves
    /\ sims \in Seq({"pending", "executed", "rejected"})
    /\ DOMAIN cards \subseteq Hypotheses
    /\ \A id \in DOMAIN cards : cards[id] \in [state : CardState, sim : 0 .. Len(sims)]
    /\ canvas \in [Pollers -> CanvasType]
    /\ \A p \in Pollers : canvas[p].at # "idle" => canvas[p].shows \in Hypotheses
    /\ ruling \in [Workers -> RulingType]
    /\ \A w \in Workers : ruling[w].at # "free" =>
        ruling[w].id \in Hypotheses /\ ruling[w].becomes \in CardState \ {"surfaced"}

\* The canvas requests that have found no active card and have not saved theirs.
Surfacing == {p \in Pollers : canvas[p].at \in {"simulate", "save"}}

\* "At most ONE active card" is what one poller gets.  A request that found no active
\* card is still right when it saves its own, however many rulings were read, stored
\* late or outlived a reset in between, unless another request saved a card after
\* it looked; and requests that overlap so never leave more cards than they are.
OneActiveCard ==
    /\ \A p \in Surfacing : canvas[p].alone => ActiveCards = {}
    /\ Cardinality(ActiveCards) + Cardinality(Surfacing) <= Cardinality(Pollers)

\* A card accepted for an agent with a parked action settles that action, however
\* the agent's control state moves between the ruling and its execution.
AcceptedIsCarriedOut ==
    \A i \in 1 .. MaxApprovalId :
        (\E w \in Workers :
            /\ ruling[w].at = "execute" /\ ruling[w].id.kind = "deploy_needs_review"
            /\ Pending(i) /\ approvals[i].agent = ruling[w].id.target)
        ~> ~Pending(i)

-----------------------------------------------------------------------------

\* What the lifecycle of a card says ("legal transitions: surfaced -> any
\* terminal-ish state; nothing leaves them"): a card that was ruled on stays as it
\* was ruled, until the store is cleared.
RuledCardsStand ==
    [][\A id \in DOMAIN cards \cap DOMAIN cards' :
        cards[id].state # "surfaced" => cards'[id] = cards[id]]_ambientVars

=============================================================================
