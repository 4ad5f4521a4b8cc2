----------------------------- MODULE DecisionCore -----------------------------
(***************************************************************************)
(* DecisionService.decide() (core/decisioncore/application/services.py) on *)
(* top of TrustCore: the actor's history is read from the receipt log, the *)
(* authority is verified on a fork, the rules give an outcome, and the     *)
(* decision is recorded.  The handlers run in a thread pool without locks, *)
(* so credentials and receipts may change between the two reads, and again *)
(* before the outcome that rests on them is recorded.                      *)
(***************************************************************************)
EXTENDS TrustCore, DecisionPolicy, FiniteSets

CONSTANTS
    Callers,    \* threads that serve decision requests
    HistoryWindow,  \* how many of the latest receipts the history is read from (10,000)
    Evidence    \* [required, optional]: how many fields a context may present

\* The action a domain wires in.
ActionOf(d) ==
    CASE d = "refund" -> "issue_refund" [] d = "deploy" -> "deploy_production"
      [] d = "moderation" -> "remove_content" [] d = "purchase" -> "purchase"

Wired(action) == \E d \in Domains : action = ActionOf(d)
DomainOf(action) == CHOOSE d \in Domains : action = ActionOf(d)

\* A request together with the evidence in its context; decide() raises for an
\* action that no domain wires in.
Proposals ==
    {p \in [request : Requests, evidence : Evidence] :
        LET policy == Policy(DomainOf(p.request.action))
        IN  /\ Wired(p.request.action)
            /\ p.evidence.required <= policy.required
            /\ p.evidence.optional <= policy.optional}

ASSUME EvidenceAssumption == Evidence \subseteq [required : Nat, optional : Nat]
ASSUME AuditAssumption == "decisioncore" \notin Actors
ASSUME WindowAssumption == HistoryWindow \in Nat \ {0}

VARIABLES
    deciding,   \* caller -> its decision in progress, with what it has read
    outcome,    \* the outcome of the decision that the last step recorded, or "none"
    settled,    \* history: [proposal, outcome] decided since the facts last changed
    fresh,      \* history: callers that began a decision since then
    overtaken   \* history: callers whose actor lost a grant after its authority was read

decisionVars == <<trustVars, deciding, outcome, settled, fresh, overtaken>>

Idle == [at |-> "idle"]
Deciding(p, total, favorable) ==
    [at |-> "authority", proposal |-> p, authority |-> "unread",
     total |-> total, favorable |-> favorable]

IsIdle(k) == deciding[k].at = "idle"
ActorOf(k) == deciding[k].proposal.request.actor

Recent == {n \in DOMAIN receipts : n + HistoryWindow > Len(receipts)}

\* Mutant: the receipts of DecisionCore are history as well.
MineAndAudits(r) == {n \in Recent : receipts[n].agent \in {r.actor, "decisioncore"}}

\* _history_counts(): the actor's own trust receipts on the action, among the
\* latest; those of DecisionCore have another actor and another action.
Mine(r) == {n \in Recent : receipts[n].agent = r.actor /\ receipts[n].action = r.action}
Total(r) == Cardinality(Mine(r))

\* Mutant: whoever's receipts are favorable.
FavorableToAnyone(r) == Cardinality({n \in DOMAIN receipts : receipts[n].decision = "allow"})

Favorable(r) == Cardinality({n \in Mine(r) : receipts[n].decision = "allow"})

\* _check_authority()
Reading(r) ==
    IF Verdict(r) \in {"allow", "escalate"} THEN "valid"
    ELSE IF Failing(r.actor) # {} THEN "invalid"
    ELSE IF Valid(r.actor, "authority_grant") # {} THEN "valid"
    ELSE "uncertain"

Facts(p, authority, total, favorable) ==
    [authority |-> authority, required |-> p.evidence.required,
     optional |-> p.evidence.optional, amount |-> p.request.amount,
     total |-> total, favorable |-> favorable]

OutcomeOn(p, authority, total, favorable) ==
    Decision(DomainOf(p.request.action), Facts(p, authority, total, favorable))

\* With the authority of now.
OutcomeOf(p, total, favorable) == OutcomeOn(p, Reading(p.request), total, favorable)

\* The grants that are signed, unrevoked and unexpired.
LiveGrants ==
    {c \in Creds : /\ Contents[c].type = "authority_grant"
                   /\ copy[c] = "signed" /\ c \notin expired}
LiveGrantsOf(a) == {c \in LiveGrants : Contents[c].subject = a}

\* This step takes a live grant from a.
TakenFrom(a) == \E c \in LiveGrantsOf(a) : c \notin LiveGrants'

\* One more receipt would push one of an agent's out of the history.
Forgets ==
    /\ Len(receipts) >= HistoryWindow
    /\ receipts[Len(receipts) - HistoryWindow + 1].agent # "decisioncore"

-----------------------------------------------------------------------------

\* The snapshot of the log, taken before the authority is looked at.
DecideBegin(k) ==
    /\ IsIdle(k)
    /\ \E p \in Proposals :
        deciding' = [deciding EXCEPT ![k] =
                        Deciding(p, Total(p.request), Favorable(p.request))]
    /\ fresh' = fresh \cup {k}
    /\ outcome' = "none"
    /\ UNCHANGED <<trustVars, settled, overtaken>>

\* _check_authority(): the credentials as they are now, on a fork that takes the
\* receipt of the check with it.
DecideAuthority(k) ==
    /\ deciding[k].at = "authority"
    /\ deciding' = [deciding EXCEPT ![k].at = "resolve",
                                    ![k].authority = Reading(deciding[k].proposal.request)]
    /\ outcome' = "none"
    /\ UNCHANGED <<trustVars, settled, fresh, overtaken>>

\* The signals and the rules, on what was read, and the receipt of the decision.
\* (For the histories, a receipt that pushes an agent's out of the window changes
\* the facts.)
DecideConclude(k) ==
    LET d == deciding[k]
        o == OutcomeOn(d.proposal, d.authority, d.total, d.favorable)
    IN  /\ d.at = "resolve"
        /\ Record(Receipt("decisioncore", "decision", "allow"))
        /\ outcome' = o
        /\ settled' = IF Forgets THEN {}
                      ELSE IF k \in fresh THEN settled \cup {[proposal |-> d.proposal, is |-> o]}
                      ELSE settled
        /\ deciding' = [deciding EXCEPT ![k] = Idle]
        /\ fresh' = IF Forgets THEN {} ELSE fresh \ {k}
        /\ overtaken' = overtaken \ {k}

\* Another request changes what decisions rest on.
FactsChange ==
    /\ \/ \E c \in Creds : SaveSigned(c) \/ Revoke(c) \/ Expire(c)
       \/ \E r \in Requests : TrustDecide(r)
    /\ settled' = {}
    /\ fresh' = {}
    /\ overtaken' = overtaken \cup
            {k \in Callers : deciding[k].at = "resolve" /\ TakenFrom(ActorOf(k))}
    /\ outcome' = "none"
    /\ UNCHANGED deciding

DecisionInit ==
    /\ TrustInit
    /\ deciding = [k \in Callers |-> Idle]
    /\ outcome = "none"
    /\ settled = {}
    /\ fresh = {}
    /\ overtaken = {}

DecisionNext ==
    \/ \E k \in Callers : DecideBegin(k) \/ DecideAuthority(k) \/ DecideConclude(k)
    \/ FactsChange

DecisionSpec == DecisionInit /\ [][DecisionNext]_decisionVars

-----------------------------------------------------------------------------

ReceiptType ==
    [agent : Actors \cup {"decisioncore"}, action : {r.action : r \in Requests} \cup {"decision"},
     decision : {"allow", "refuse", "escalate"}]
InProgress ==
    {d \in [at : {"authority", "resolve"}, proposal : Proposals,
            authority : Authority \cup {"unread"}, total : Nat, favorable : Nat] :
        /\ d.favorable <= d.total
        /\ d.at = "resolve" => d.authority # "unread"}

\* The variables hold what the code stores in them, and a history that was read is
\* a history: no more favorable receipts than receipts.
DecisionTypeOK ==
    /\ copy \in [Creds -> Copy]
    /\ expired \subseteq Creds
    /\ receipts \in Seq(ReceiptType)
    /\ deciding \in [Callers -> {Idle} \cup InProgress]
    /\ outcome \in Outcome \cup {"none"}
    /\ settled \subseteq [proposal : Proposals, is : Outcome]
    /\ fresh \subseteq {k \in Callers : ~IsIdle(k)}
    /\ overtaken \subseteq {k \in Callers : deciding[k].at = "resolve"}

\* Deciding leaves no trace in what decisions rest on: as long as no credential
\* changes, and no trust receipt is written or pushed out of the window that the
\* history is read from, the same proposal gets the same outcome, however many
\* decisions are recorded in between.
Repeatable == \A x, y \in settled : x.proposal = y.proposal => x.is = y.is

Executes(p, total, favorable) == OutcomeOf(p, total, favorable) = "execute"

\* q asks for no more than p and shows no less evidence.
NoBolder(q, p) ==
    /\ q.request.actor = p.request.actor
    /\ q.request.action = p.request.action
    /\ q.request.amount # None /\ q.request.amount <= p.request.amount
    /\ q.evidence.required >= p.evidence.required
    /\ q.evidence.optional >= p.evidence.optional

\* Nothing good costs an execution: what executes, on the history that a request has
\* read and the authority that it finds now, would also execute with one more favorable
\* receipt, or if one refusal had not been written, and so would whatever is no bolder.
\* Signals, weights, bars and the order of the rules agree on this through TrustCore's
\* scope check.
ExecuteIsMonotone ==
    \A k \in Callers : deciding[k].at = "authority" =>
        LET p == deciding[k].proposal
            t == deciding[k].total
            f == deciding[k].favorable
        IN  /\ Executes(p, t, f) => Executes(p, t + 1, f + 1)
            /\ Executes(p, t + 1, f) => Executes(p, t, f)
            /\ Executes(p, t, f) =>
                    \A q \in Proposals : NoBolder(q, p) => Executes(q, t, f)

\* The reason of rule 6 claims "risk < risk_bar", which the rule does not test:
\* for the wired policies it is true all the same of every request that has read its
\* history, and executes on the authority that it finds now.
ExecuteMeansLowRisk ==
    \A k \in Callers : deciding[k].at = "authority" =>
        LET p == deciding[k].proposal
            policy == Policy(DomainOf(p.request.action))
            t == deciding[k].total
            f == deciding[k].favorable
        IN  Executes(p, t, f) => Risk(policy, Facts(p, Reading(p.request), t, f)) < Bar(policy.riskBar)

\* An execution is backed by a grant that is signed, unrevoked and unexpired when
\* the decision is recorded, whatever changed since it began; or it was overtaken:
\* the actor lost a live grant after the authority had been read and before the
\* record.  A revocation that comes before the check is never overlooked.
ExecutesOnLiveGrant ==
    [][\A k \in Callers :
        ~IsIdle(k) /\ IsIdle(k)' /\ outcome' = "execute" =>
            k \in overtaken \/ LiveGrantsOf(ActorOf(k)) # {}]_decisionVars

=============================================================================
