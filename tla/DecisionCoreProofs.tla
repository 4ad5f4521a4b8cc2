-------------------------- MODULE DecisionCoreProofs --------------------------
(***************************************************************************)
(* Theorems about DecisionCore, for any agents, credentials, requests and  *)
(* callers.  The first three do not look into the policies' numbers; the   *)
(* last two bound the weighted sums of the four policies.                  *)
(***************************************************************************)
EXTENDS DecisionCore, FiniteSetTheorems, TLAPS

\* resolve() answers with an outcome, and executes on a valid authority only.
LEMMA Resolved ==
    ASSUME NEW p, NEW confidence, NEW risk, NEW authority, NEW missing
    PROVE  /\ Resolve(p, confidence, risk, authority, missing) \in Outcome
           /\ Resolve(p, confidence, risk, authority, missing) = "execute"
                => authority \notin {"invalid", "uncertain"}
BY DEF Resolve, Outcome

LEMMA DecidedOutcome ==
    ASSUME NEW p, NEW authority, NEW total, NEW favorable
    PROVE  /\ OutcomeOn(p, authority, total, favorable) \in Outcome
           /\ OutcomeOn(p, authority, total, favorable) = "execute"
                => authority \notin {"invalid", "uncertain"}
<1> DEFINE d == DomainOf(p.request.action)
           x == Facts(p, authority, total, favorable)
<1>1. x.authority = authority
  BY DEF Facts
<1>2. OutcomeOn(p, authority, total, favorable)
        = Resolve(Policy(d), Confidence(Policy(d), x), Risk(Policy(d), x), authority,
                  x.required < Policy(d).required)
  BY <1>1, Zenon DEF OutcomeOn, Decision
<1> HIDE DEF d, x
<1> QED BY <1>2, Resolved, Zenon

LEMMA ReadingTyped == \A r : Reading(r) \in Authority
BY DEF Reading, Authority

\* What would execute now has a valid authority.
LEMMA ExecutesValid ==
    ASSUME NEW p, NEW total, NEW favorable, OutcomeOf(p, total, favorable) = "execute"
    PROVE  Reading(p.request) = "valid"
<1>1. PICK a : a = Reading(p.request)
  OBVIOUS
<1>2. a \in Authority
  BY <1>1, ReadingTyped
<1>3. OutcomeOn(p, a, total, favorable) = "execute"
  BY <1>1 DEF OutcomeOf
<1>4. a \notin {"invalid", "uncertain"}
  BY <1>3, DecidedOutcome
<1> QED BY <1>1, <1>2, <1>4 DEF Authority

\* An authority reads valid only on a grant that verifies.
LEMMA ValidReading ==
    ASSUME DecisionTypeOK, NEW r, Reading(r) = "valid"
    PROVE  LiveGrantsOf(r.actor) # {}
<1> copy \in [Creds -> Copy]
  BY DEF DecisionTypeOK
<1> QED BY DEF Reading, Verdict, Valid, HeldBy, Failing, Verifies, LiveGrants, LiveGrantsOf, Copy

-----------------------------------------------------------------------------

\* The history is a count of receipts, and favorable ones are among them.
LEMMA HistoryTyped ==
    ASSUME receipts \in Seq(ReceiptType), NEW r
    PROVE  Total(r) \in Nat /\ Favorable(r) \in Nat /\ Favorable(r) <= Total(r)
<1> DEFINE F == {n \in Mine(r) : receipts[n].decision = "allow"}
<1>1. Len(receipts) \in Nat /\ DOMAIN receipts = 1 .. Len(receipts)
  OBVIOUS
<1>2. IsFiniteSet(DOMAIN receipts)
  BY <1>1, FS_Interval
<1>3. IsFiniteSet(Mine(r)) /\ F \subseteq Mine(r)
  BY <1>2, FS_Subset DEF Mine, Recent
<1>4. IsFiniteSet(F) /\ Cardinality(F) <= Cardinality(Mine(r))
  BY <1>3, FS_Subset
<1>5. Cardinality(F) \in Nat /\ Cardinality(Mine(r)) \in Nat
  BY <1>3, <1>4, FS_CardinalityType
<1> QED BY <1>4, <1>5 DEF Total, Favorable

LEMMA TrustStepTyped ==
    ASSUME TrustAssumption, DecisionTypeOK,
           \/ \E c \in Creds : SaveSigned(c) \/ Revoke(c) \/ Expire(c)
           \/ \E r \in Requests : TrustDecide(r)
           \/ Record(Receipt("decisioncore", "decision", "allow"))
           \/ UNCHANGED trustVars
    PROVE  /\ copy' \in [Creds -> Copy]
           /\ expired' \subseteq Creds
           /\ receipts' \in Seq(ReceiptType)
<1> USE DEF DecisionTypeOK
<1>1. ASSUME NEW c \in Creds, SaveSigned(c) \/ Revoke(c) \/ Expire(c)
      PROVE  /\ copy' \in [Creds -> Copy]
             /\ expired' \subseteq Creds
             /\ receipts' \in Seq(ReceiptType)
  BY <1>1 DEF SaveSigned, Revoke, Expire, Copy
<1>2. ASSUME NEW e \in ReceiptType, Record(e)
      PROVE  /\ copy' \in [Creds -> Copy]
             /\ expired' \subseteq Creds
             /\ receipts' \in Seq(ReceiptType)
  BY <1>2 DEF Record
<1>3. ASSUME NEW r \in Requests
      PROVE  Receipt(r.actor, r.action, Verdict(r)) \in ReceiptType
  <2>1. Verdict(r) \in {"allow", "refuse", "escalate"}
    BY DEF Verdict
  <2>2. r.actor \in Actors
    BY TrustAssumption DEF TrustAssumption
  <2> QED BY <2>1, <2>2 DEF Receipt, ReceiptType
<1>4. Receipt("decisioncore", "decision", "allow") \in ReceiptType
  BY DEF Receipt, ReceiptType
<1>5. ASSUME UNCHANGED trustVars
      PROVE  /\ copy' \in [Creds -> Copy]
             /\ expired' \subseteq Creds
             /\ receipts' \in Seq(ReceiptType)
  BY <1>5 DEF trustVars
<1> QED BY <1>1, <1>2, <1>3, <1>4, <1>5 DEF TrustDecide

LEMMA TypeInit == DecisionInit => DecisionTypeOK
BY DEF DecisionInit, TrustInit, DecisionTypeOK, Copy, IsIdle

LEMMA TypeStep == DecisionTypeOK /\ [DecisionNext]_decisionVars => DecisionTypeOK'
<1> SUFFICES ASSUME DecisionTypeOK, [DecisionNext]_decisionVars PROVE DecisionTypeOK'
  OBVIOUS
<1>1. /\ copy' \in [Creds -> Copy]
      /\ expired' \subseteq Creds
      /\ receipts' \in Seq(ReceiptType)
  <2>1. \/ \E c \in Creds : SaveSigned(c) \/ Revoke(c) \/ Expire(c)
        \/ \E r \in Requests : TrustDecide(r)
        \/ Record(Receipt("decisioncore", "decision", "allow"))
        \/ UNCHANGED trustVars
    BY DEF DecisionNext, DecideBegin, DecideAuthority, DecideConclude, FactsChange, decisionVars
  <2> QED BY <2>1, TrustStepTyped, TrustAssumption
<1>2. ASSUME NEW k \in Callers, DecideBegin(k) PROVE DecisionTypeOK'
  <2>1. PICK p \in Proposals :
            deciding' = [deciding EXCEPT ![k] =
                            Deciding(p, Total(p.request), Favorable(p.request))]
    BY <1>2 DEF DecideBegin
  <2>2. /\ Total(p.request) \in Nat
        /\ Favorable(p.request) \in Nat
        /\ Favorable(p.request) <= Total(p.request)
    BY HistoryTyped DEF DecisionTypeOK
  <2> DEFINE d == Deciding(p, Total(p.request), Favorable(p.request))
  <2>3. d \in InProgress /\ d.at # "idle"
    BY <2>2 DEF Deciding, InProgress
  <2> HIDE DEF d
  <2>4. /\ deciding' \in [Callers -> {Idle} \cup InProgress]
        /\ deciding'[k].at # "idle"
        /\ \A j \in Callers : j # k => deciding'[j] = deciding[j]
    BY <2>1, <2>3 DEF DecisionTypeOK, d
  <2>5. overtaken' \subseteq {j \in Callers : deciding'[j].at = "resolve"}
    BY <1>2, <2>4 DEF DecideBegin, DecisionTypeOK, IsIdle
  <2> QED BY <1>1, <1>2, <2>4, <2>5 DEF DecideBegin, DecisionTypeOK, IsIdle
<1>3. ASSUME NEW k \in Callers, DecideConclude(k) PROVE DecisionTypeOK'
  <2>1. PICK d, o : /\ d = deciding[k]
                    /\ o = OutcomeOn(d.proposal, d.authority, d.total, d.favorable)
    OBVIOUS
  <2>2. o \in Outcome
    BY <2>1, DecidedOutcome
  <2>3. /\ deciding' = [deciding EXCEPT ![k] = Idle]
        /\ settled' \subseteq settled \cup {[proposal |-> d.proposal, is |-> o]}
        /\ fresh' \subseteq fresh \ {k} /\ overtaken' = overtaken \ {k} /\ outcome' = o
        /\ d.at = "resolve"
    BY <1>3, <2>1 DEF DecideConclude
  <2>4. /\ deciding' \in [Callers -> {Idle} \cup InProgress]
        /\ \A j \in Callers : j # k => deciding'[j] = deciding[j]
    BY <2>3 DEF DecisionTypeOK
  <2>5. d.proposal \in Proposals
    BY <2>1, <2>3 DEF DecisionTypeOK, InProgress, Idle
  <2>6. settled' \subseteq [proposal : Proposals, is : Outcome]
    BY <2>2, <2>3, <2>5 DEF DecisionTypeOK
  <2>7. fresh' \subseteq {j \in Callers : ~IsIdle(j)}'
    BY <2>3, <2>4 DEF DecisionTypeOK, IsIdle
  <2>8. overtaken' \subseteq {j \in Callers : deciding'[j].at = "resolve"}
    BY <2>3, <2>4 DEF DecisionTypeOK
  <2> QED BY <1>1, <2>2, <2>3, <2>4, <2>6, <2>7, <2>8 DEF DecisionTypeOK
<1>4. ASSUME NEW k \in Callers, DecideAuthority(k) PROVE DecisionTypeOK'
  <2>1. PICK a \in Authority :
            deciding' = [deciding EXCEPT ![k].at = "resolve", ![k].authority = a]
    BY <1>4, ReadingTyped DEF DecideAuthority
  <2>2. deciding[k] \in InProgress
    BY <1>4 DEF DecideAuthority, DecisionTypeOK, Idle
  <2>3. PICK d : d = [deciding[k] EXCEPT !.at = "resolve", !.authority = a]
    OBVIOUS
  <2>4. d \in InProgress /\ d.at = "resolve"
    BY <2>2, <2>3 DEF InProgress, Authority
  <2>5. deciding' = [deciding EXCEPT ![k] = d]
    BY <2>1, <2>3 DEF DecisionTypeOK
  <2>6. /\ deciding' \in [Callers -> {Idle} \cup InProgress]
        /\ deciding'[k].at = "resolve"
        /\ \A j \in Callers : j # k => deciding'[j] = deciding[j]
    BY <2>4, <2>5 DEF DecisionTypeOK
  <2>7. /\ fresh' \subseteq {j \in Callers : ~IsIdle(j)}'
        /\ overtaken' \subseteq {j \in Callers : deciding'[j].at = "resolve"}
    BY <1>4, <2>6 DEF DecideAuthority, DecisionTypeOK, IsIdle
  <2> QED BY <1>1, <1>4, <2>6, <2>7 DEF DecideAuthority, DecisionTypeOK
<1>5. CASE FactsChange
  BY <1>1, <1>5 DEF FactsChange, DecisionTypeOK, IsIdle
<1>6. CASE UNCHANGED decisionVars
  BY <1>6 DEF decisionVars, trustVars, DecisionTypeOK, IsIdle
<1> QED BY <1>2, <1>3, <1>4, <1>5, <1>6 DEF DecisionNext

\* DecisionCore's variables always hold what the code stores in them; in
\* particular no history ever counts more favorable receipts than receipts.
THEOREM DecisionTypeCorrect == DecisionSpec => []DecisionTypeOK
<1> QED BY TypeInit, TypeStep, PTL DEF DecisionSpec

-----------------------------------------------------------------------------

\* A valid reading was right, unless the decision has been overtaken since.
Grounded ==
    \A k \in Callers :
        deciding[k].at = "resolve" /\ deciding[k].authority = "valid" =>
            k \in overtaken \/ LiveGrantsOf(ActorOf(k)) # {}

LEMMA GroundedStep == DecisionTypeOK /\ Grounded /\ [DecisionNext]_decisionVars => Grounded'
<1> SUFFICES ASSUME DecisionTypeOK, Grounded, [DecisionNext]_decisionVars,
                    NEW k \in Callers,
                    deciding'[k].at = "resolve", deciding'[k].authority = "valid"
             PROVE  k \in overtaken' \/ LiveGrantsOf(ActorOf(k))' # {}
  BY DEF Grounded
<1>1. ASSUME deciding'[k] = deciding[k], UNCHANGED <<overtaken, copy, expired>>
      PROVE  k \in overtaken' \/ LiveGrantsOf(ActorOf(k))' # {}
  <2>1. PICK a : a = ActorOf(k) /\ a = ActorOf(k)'
    BY <1>1 DEF ActorOf
  <2>2. k \in overtaken \/ LiveGrantsOf(a) # {}
    BY <1>1, <2>1 DEF Grounded
  <2>3. LiveGrantsOf(a)' = LiveGrantsOf(a)
    BY <1>1 DEF LiveGrantsOf, LiveGrants
  <2>4. LiveGrantsOf(ActorOf(k))' = LiveGrantsOf(a)'
    BY <2>1 DEF LiveGrantsOf
  <2> QED BY <1>1, <2>2, <2>3, <2>4
<1>2. ASSUME NEW j \in Callers, DecideBegin(j)
      PROVE  k \in overtaken' \/ LiveGrantsOf(ActorOf(k))' # {}
  <2>1. PICK d : deciding' = [deciding EXCEPT ![j] = d] /\ d.at = "authority"
    <3>1. PICK p \in Proposals :
              deciding' = [deciding EXCEPT ![j] =
                              Deciding(p, Total(p.request), Favorable(p.request))]
      BY <1>2 DEF DecideBegin
    <3>2. Deciding(p, Total(p.request), Favorable(p.request)).at = "authority"
      BY DEF Deciding
    <3> QED BY <3>1, <3>2
  <2>2. deciding'[k] = deciding[k]
    BY <2>1 DEF DecisionTypeOK
  <2> QED BY <1>1, <1>2, <2>2 DEF DecideBegin, trustVars
<1>3. ASSUME NEW j \in Callers, DecideAuthority(j)
      PROVE  k \in overtaken' \/ LiveGrantsOf(ActorOf(k))' # {}
  <2>1. PICK a : /\ a = Reading(deciding[j].proposal.request)
                 /\ deciding' = [deciding EXCEPT ![j].at = "resolve", ![j].authority = a]
    BY <1>3 DEF DecideAuthority
  <2>2. CASE j # k
    <3>1. deciding'[k] = deciding[k]
      BY <2>1, <2>2 DEF DecisionTypeOK
    <3> QED BY <1>1, <1>3, <3>1 DEF DecideAuthority, trustVars
  <2>3. CASE j = k
    <3>1. deciding[k] \in InProgress
      BY <1>3, <2>3 DEF DecideAuthority, DecisionTypeOK, Idle
    <3>2. a = "valid" /\ deciding'[k].proposal = deciding[k].proposal
      BY <2>1, <2>3, <3>1 DEF DecisionTypeOK, InProgress
    <3>3. LiveGrantsOf(ActorOf(k)) # {}
      BY <2>1, <2>3, <3>2, ValidReading DEF ActorOf
    <3> QED BY <1>3, <3>2, <3>3 DEF DecideAuthority, trustVars, LiveGrantsOf, LiveGrants, ActorOf
  <2> QED BY <2>2, <2>3
<1>4. ASSUME NEW j \in Callers, DecideConclude(j)
      PROVE  k \in overtaken' \/ LiveGrantsOf(ActorOf(k))' # {}
  <2>1. deciding' = [deciding EXCEPT ![j] = Idle] /\ overtaken' = overtaken \ {j}
    BY <1>4 DEF DecideConclude
  <2>2. j # k
    BY <2>1 DEF DecisionTypeOK, Idle
  <2>3. deciding'[k] = deciding[k]
    BY <2>1, <2>2 DEF DecisionTypeOK
  <2>4. UNCHANGED <<copy, expired>>
    BY <1>4 DEF DecideConclude, Record
  <2> QED BY <2>1, <2>2, <2>3, <2>4 DEF Grounded, LiveGrantsOf, LiveGrants, ActorOf
<1>5. CASE FactsChange
  <2>1. /\ deciding' = deciding
        /\ overtaken' = overtaken \cup
              {j \in Callers : deciding[j].at = "resolve" /\ TakenFrom(ActorOf(j))}
    BY <1>5 DEF FactsChange
  <2>2. k \in overtaken \/ LiveGrantsOf(ActorOf(k)) # {}
    BY <2>1 DEF Grounded
  <2>3. CASE TakenFrom(ActorOf(k))
    BY <2>1, <2>3
  <2>4. CASE ~TakenFrom(ActorOf(k))
    <3>1. PICK a : a = ActorOf(k) /\ a = ActorOf(k)'
      BY <2>1 DEF ActorOf
    <3>2. LiveGrantsOf(a) \subseteq LiveGrantsOf(a)'
      BY <2>4, <3>1 DEF TakenFrom, LiveGrantsOf
    <3>3. LiveGrantsOf(a)' = LiveGrantsOf(ActorOf(k))'
      BY <3>1 DEF LiveGrantsOf
    <3> QED BY <2>1, <2>2, <3>1, <3>2, <3>3
  <2> QED BY <2>3, <2>4
<1>6. CASE UNCHANGED decisionVars
  BY <1>1, <1>6 DEF decisionVars, trustVars
<1> QED BY <1>2, <1>3, <1>4, <1>5, <1>6 DEF DecisionNext

LEMMA ExecuteStep ==
    ASSUME DecisionTypeOK, Grounded, DecisionNext, NEW k \in Callers,
           ~IsIdle(k), IsIdle(k)', outcome' = "execute"
    PROVE  k \in overtaken \/ LiveGrantsOf(ActorOf(k)) # {}
<1>1. DecideConclude(k)
  <2>1. ASSUME NEW j \in Callers, DecideBegin(j) \/ DecideAuthority(j) PROVE FALSE
    BY <2>1 DEF DecideBegin, DecideAuthority
  <2>2. ASSUME NEW j \in Callers, DecideConclude(j), j # k PROVE FALSE
    BY <2>2 DEF DecideConclude, DecisionTypeOK, IsIdle
  <2>3. ~FactsChange
    BY DEF FactsChange, IsIdle
  <2> QED BY <2>1, <2>2, <2>3 DEF DecisionNext
<1>2. PICK d : /\ d = deciding[k] /\ d.at = "resolve"
               /\ OutcomeOn(d.proposal, d.authority, d.total, d.favorable) = "execute"
  BY <1>1 DEF DecideConclude
<1>3. d.authority \notin {"invalid", "uncertain"}
  BY <1>2, DecidedOutcome
<1>4. d.authority = "valid"
  BY <1>2, <1>3 DEF DecisionTypeOK, InProgress, Idle, Authority
<1> QED BY <1>2, <1>4 DEF Grounded

\* Whatever changes while a decision is made, and by however many requests, an
\* execution rests on a grant that is signed, unrevoked and unexpired when the
\* decision is recorded, unless the actor lost one between the check of the
\* authority and the record.
THEOREM OnlyLiveGrantsExecute == DecisionSpec => ExecutesOnLiveGrant
<1>1. DecisionTypeOK /\ Grounded /\ [DecisionNext]_decisionVars =>
        [\A k \in Callers :
            ~IsIdle(k) /\ IsIdle(k)' /\ outcome' = "execute" =>
                k \in overtaken \/ LiveGrantsOf(ActorOf(k)) # {}]_decisionVars
  BY ExecuteStep
<1>2. DecisionInit => Grounded
  BY DEF DecisionInit, Grounded, Idle
<1> QED BY <1>1, <1>2, GroundedStep, DecisionTypeCorrect, PTL DEF DecisionSpec, ExecutesOnLiveGrant

-----------------------------------------------------------------------------

\* What the decisions since the last change of the facts rest on: the history
\* and the authority are those of now.
Settled ==
    /\ \A x \in settled :
        x.is = OutcomeOf(x.proposal, Total(x.proposal.request), Favorable(x.proposal.request))
    /\ \A k \in fresh :
        LET r == deciding[k].proposal.request
        IN  /\ deciding[k].total = Total(r) /\ deciding[k].favorable = Favorable(r)
            /\ deciding[k].at = "resolve" => deciding[k].authority = Reading(r)

LEMMA ReadingRests ==
    ASSUME UNCHANGED <<copy, expired>>, NEW r
    PROVE  Reading(r)' = Reading(r)
BY DEF Reading, Verdict, Valid, HeldBy, Failing, Verifies

LEMMA OutcomeRests ==
    ASSUME UNCHANGED <<copy, expired>>, NEW p, NEW total, NEW favorable
    PROVE  OutcomeOf(p, total, favorable)' = OutcomeOf(p, total, favorable)
<1>1. PICK r : r = p.request
  OBVIOUS
<1>2. Reading(r)' = Reading(r)
  BY ReadingRests
<1>3. Reading(p.request)' = Reading(p.request)
  BY <1>1, <1>2
<1> QED BY <1>3, Zenon DEF OutcomeOf

\* The receipt of a decision is nobody's history, and as long as it pushes nobody's
\* receipt out of the window, it leaves every history as it was.
LEMMA HistoryRests ==
    ASSUME receipts \in Seq(ReceiptType), NEW r \in Requests,
           \/ UNCHANGED receipts
           \/ /\ receipts' = Append(receipts, Receipt("decisioncore", "decision", "allow"))
              /\ ~Forgets
    PROVE  Total(r)' = Total(r) /\ Favorable(r)' = Favorable(r)
<1> DEFINE e == Receipt("decisioncore", "decision", "allow")
<1>1. r.actor # "decisioncore" /\ e.agent = "decisioncore" /\ e \in ReceiptType
  BY TrustAssumption, AuditAssumption DEF Receipt, ReceiptType
<1> HIDE DEF e
<1>2. CASE receipts' = Append(receipts, e) /\ ~Forgets
  <2>1. /\ DOMAIN receipts = 1 .. Len(receipts)
        /\ DOMAIN receipts' = 1 .. Len(receipts) + 1
        /\ Len(receipts) \in Nat
        /\ Len(receipts') = Len(receipts) + 1
        /\ receipts'[Len(receipts) + 1] = e
        /\ \A n \in DOMAIN receipts : receipts'[n] = receipts[n]
    BY <1>1, <1>2
  <2>2. ASSUME NEW n \in DOMAIN receipts, receipts[n].agent = r.actor
        PROVE  n \in Recent <=> n \in Recent'
    <3>1. PICK l \in Nat, w \in Nat \ {0} : l = Len(receipts) /\ w = HistoryWindow
      BY <2>1, WindowAssumption
    <3>2. CASE n = l - w + 1
      <4>1. l >= w
        BY <2>1, <3>1, <3>2
      <4>2. receipts[n].agent = "decisioncore"
        BY <1>2, <3>1, <3>2, <4>1 DEF Forgets
      <4> QED BY <1>1, <2>2, <4>2
    <3>3. CASE n # l - w + 1
      <4>1. n + w > l <=> n + w > l + 1
        BY <2>1, <3>1, <3>3
      <4>2. n \in DOMAIN receipts'
        BY <2>1
      <4> QED BY <2>1, <3>1, <4>1, <4>2 DEF Recent
    <3> QED BY <3>2, <3>3
  <2>3. ASSUME NEW n \in Recent', receipts'[n].agent = r.actor
        PROVE  n \in DOMAIN receipts
    BY <1>1, <2>1, <2>3 DEF Recent
  <2>4. Mine(r)' = Mine(r)
    <3>1. Mine(r)' \subseteq Mine(r)
      BY <2>1, <2>2, <2>3 DEF Mine
    <3>2. Mine(r) \subseteq Mine(r)'
      BY <2>1, <2>2 DEF Mine, Recent
    <3> QED BY <3>1, <3>2
  <2>5. {n \in Mine(r) : receipts[n].decision = "allow"}'
          = {n \in Mine(r) : receipts[n].decision = "allow"}
    BY <2>1, <2>4 DEF Mine, Recent
  <2> QED BY <2>4, <2>5, Zenon DEF Total, Favorable
<1>3. CASE UNCHANGED receipts
  BY <1>3 DEF Total, Favorable, Mine, Recent
<1> QED BY <1>2, <1>3 DEF e

LEMMA SettledStep == DecisionTypeOK /\ Settled /\ [DecisionNext]_decisionVars => Settled'
<1> SUFFICES ASSUME DecisionTypeOK, Settled, [DecisionNext]_decisionVars PROVE Settled'
  OBVIOUS
<1>1. ASSUME NEW p \in Proposals PROVE p.request \in Requests
  BY DEF Proposals
<1>2. ASSUME UNCHANGED <<copy, expired>>, NEW x \in settled,
             \/ UNCHANGED receipts
             \/ /\ receipts' = Append(receipts, Receipt("decisioncore", "decision", "allow"))
                /\ ~Forgets
      PROVE  x.is = OutcomeOf(x.proposal, Total(x.proposal.request),
                              Favorable(x.proposal.request))'
  <2>1. x.proposal.request \in Requests
    BY <1>1 DEF DecisionTypeOK
  <2>2. /\ Total(x.proposal.request)' = Total(x.proposal.request)
        /\ Favorable(x.proposal.request)' = Favorable(x.proposal.request)
    BY <1>2, <2>1, HistoryRests DEF DecisionTypeOK
  <2>3. OutcomeOf(x.proposal, Total(x.proposal.request), Favorable(x.proposal.request))'
          = OutcomeOf(x.proposal, Total(x.proposal.request), Favorable(x.proposal.request))
    BY <1>2, <2>2, OutcomeRests
  <2> QED BY <2>3 DEF Settled
<1>3. ASSUME NEW k \in fresh
      PROVE  /\ deciding[k].at # "idle" /\ deciding[k].proposal.request \in Requests
             /\ deciding[k] \in InProgress
  BY <1>1, <1>3 DEF DecisionTypeOK, IsIdle, InProgress, Idle
\* A caller whose decision and whose facts a step leaves alone.
<1>4. ASSUME NEW j \in fresh, deciding'[j] = deciding[j], UNCHANGED <<copy, expired>>,
             \/ UNCHANGED receipts
             \/ /\ receipts' = Append(receipts, Receipt("decisioncore", "decision", "allow"))
                /\ ~Forgets
      PROVE  /\ (deciding[j].total = Total(deciding[j].proposal.request))'
             /\ (deciding[j].favorable = Favorable(deciding[j].proposal.request))'
             /\ (deciding[j].at = "resolve"
                    => deciding[j].authority = Reading(deciding[j].proposal.request))'
  <2>1. PICK r : r = deciding[j].proposal.request
    OBVIOUS
  <2>2. /\ r \in Requests /\ deciding[j].total = Total(r) /\ deciding[j].favorable = Favorable(r)
        /\ deciding[j].at = "resolve" => deciding[j].authority = Reading(r)
    BY <1>3, <1>4, <2>1 DEF Settled
  <2>3. Total(r)' = Total(r) /\ Favorable(r)' = Favorable(r)
    BY <1>4, <2>2, HistoryRests DEF DecisionTypeOK
  <2>4. Reading(r)' = Reading(r)
    BY <1>4, ReadingRests
  <2>5. deciding'[j].proposal.request = r
    BY <1>4, <2>1
  <2>6. /\ Total(deciding[j].proposal.request)' = Total(r)
        /\ Favorable(deciding[j].proposal.request)' = Favorable(r)
    BY <2>3, <2>5
  <2>7. Reading(deciding[j].proposal.request)' = Reading(r)
    BY <2>4, <2>5
  <2> QED BY <1>4, <2>2, <2>6, <2>7
<1>5. ASSUME NEW k \in Callers, DecideBegin(k) PROVE Settled'
  <2>1. PICK p \in Proposals :
            deciding' = [deciding EXCEPT ![k] =
                            Deciding(p, Total(p.request), Favorable(p.request))]
    BY <1>5 DEF DecideBegin
  <2>2. /\ UNCHANGED <<copy, expired, receipts, settled>>
        /\ fresh' = fresh \cup {k}
    BY <1>5 DEF DecideBegin, trustVars
  <2>3. \A r : Total(r)' = Total(r) /\ Favorable(r)' = Favorable(r)
    BY <2>2 DEF Total, Favorable, Mine, Recent
  <2>4. /\ deciding'[k] = Deciding(p, Total(p.request), Favorable(p.request))
        /\ \A j \in fresh : j # k => deciding'[j] = deciding[j]
    BY <2>1 DEF DecisionTypeOK
  <2>5. ASSUME NEW j \in fresh'
        PROVE  /\ (deciding[j].total = Total(deciding[j].proposal.request))'
               /\ (deciding[j].favorable = Favorable(deciding[j].proposal.request))'
               /\ (deciding[j].at = "resolve"
                    => deciding[j].authority = Reading(deciding[j].proposal.request))'
    <3>1. CASE j # k
      BY <1>4, <2>2, <2>4, <2>5, <3>1
    <3>2. CASE j = k
      BY <2>3, <2>4, <3>2 DEF Deciding
    <3> QED BY <3>1, <3>2
  <2> QED BY <1>2, <2>2, <2>5 DEF Settled
<1>6. ASSUME NEW k \in Callers, DecideAuthority(k) PROVE Settled'
  <2>1. PICK a : /\ a = Reading(deciding[k].proposal.request)
                 /\ deciding' = [deciding EXCEPT ![k].at = "resolve", ![k].authority = a]
    BY <1>6 DEF DecideAuthority
  <2>2. UNCHANGED <<copy, expired, receipts, settled, fresh>>
    BY <1>6 DEF DecideAuthority, trustVars
  <2>3. ASSUME NEW j \in fresh'
        PROVE  /\ (deciding[j].total = Total(deciding[j].proposal.request))'
               /\ (deciding[j].favorable = Favorable(deciding[j].proposal.request))'
               /\ (deciding[j].at = "resolve"
                    => deciding[j].authority = Reading(deciding[j].proposal.request))'
    <3>1. CASE j # k
      <4>1. deciding'[j] = deciding[j] /\ j \in fresh
        BY <2>1, <2>2, <2>3, <3>1 DEF DecisionTypeOK
      <4> QED BY <1>4, <2>2, <4>1
    <3>2. CASE j = k
      <4>1. k \in fresh /\ deciding[k] \in InProgress
        BY <1>3, <2>2, <2>3, <3>2
      <4>2. /\ deciding'[k].total = deciding[k].total
            /\ deciding'[k].favorable = deciding[k].favorable
            /\ deciding'[k].proposal = deciding[k].proposal
            /\ deciding'[k].authority = a
        BY <2>1, <4>1 DEF DecisionTypeOK, InProgress
      <4>3. PICK r : r = deciding[k].proposal.request
        OBVIOUS
      <4>4. deciding[k].total = Total(r) /\ deciding[k].favorable = Favorable(r)
        BY <4>1, <4>3 DEF Settled
      <4>5. Total(r)' = Total(r) /\ Favorable(r)' = Favorable(r) /\ Reading(r)' = Reading(r)
        BY <2>2, ReadingRests DEF Total, Favorable, Mine, Recent
      <4>6. deciding'[k].proposal.request = r
        BY <4>2, <4>3
      <4>7. /\ Total(deciding[k].proposal.request)' = Total(r)
            /\ Favorable(deciding[k].proposal.request)' = Favorable(r)
            /\ Reading(deciding[k].proposal.request)' = Reading(r)
        BY <4>5, <4>6
      <4> QED BY <2>1, <3>2, <4>2, <4>3, <4>4, <4>7
    <3> QED BY <3>1, <3>2
  <2> QED BY <1>2, <2>2, <2>3 DEF Settled
<1>7. ASSUME NEW k \in Callers, DecideConclude(k) PROVE Settled'
  <2>0. CASE Forgets
    <3>1. settled' = {} /\ fresh' = {}
      BY <1>7, <2>0 DEF DecideConclude
    <3> QED BY <3>1 DEF Settled
  <2> SUFFICES ASSUME ~Forgets PROVE Settled'
    BY <2>0
  <2>1. PICK p, a, o :
            /\ p = deciding[k].proposal /\ a = deciding[k].authority
            /\ o = OutcomeOn(p, a, deciding[k].total, deciding[k].favorable)
    OBVIOUS
  <2>2. /\ settled' = IF k \in fresh THEN settled \cup {[proposal |-> p, is |-> o]} ELSE settled
        /\ fresh' = fresh \ {k}
        /\ deciding' = [deciding EXCEPT ![k] = Idle]
        /\ receipts' = Append(receipts, Receipt("decisioncore", "decision", "allow"))
        /\ UNCHANGED <<copy, expired>>
        /\ deciding[k].at = "resolve"
    BY <1>7, <2>1 DEF DecideConclude, Record
  <2>3. ASSUME k \in fresh
        PROVE  o = OutcomeOf(p, Total(p.request), Favorable(p.request))'
    <3>1. o = OutcomeOf(p, Total(p.request), Favorable(p.request))
      BY <2>1, <2>2, <2>3 DEF Settled, OutcomeOf
    <3>2. Total(p.request)' = Total(p.request) /\ Favorable(p.request)' = Favorable(p.request)
      BY <1>3, <2>1, <2>2, <2>3, HistoryRests DEF DecisionTypeOK
    <3>3. OutcomeOf(p, Total(p.request), Favorable(p.request))'
            = OutcomeOf(p, Total(p.request), Favorable(p.request))
      BY <2>2, <3>2, OutcomeRests
    <3> QED BY <3>1, <3>3
  <2>4. \A x \in settled' :
            x.is = OutcomeOf(x.proposal, Total(x.proposal.request),
                             Favorable(x.proposal.request))'
    <3>1. ASSUME NEW x \in settled', x \notin settled
          PROVE  k \in fresh /\ x = [proposal |-> p, is |-> o]
      BY <2>2, <3>1
    <3> QED BY <1>2, <2>2, <2>3, <3>1
  <2>5. ASSUME NEW j \in fresh'
        PROVE  /\ (deciding[j].total = Total(deciding[j].proposal.request))'
               /\ (deciding[j].favorable = Favorable(deciding[j].proposal.request))'
               /\ (deciding[j].at = "resolve"
                    => deciding[j].authority = Reading(deciding[j].proposal.request))'
    <3>1. j \in fresh /\ deciding'[j] = deciding[j]
      BY <2>2, <2>5 DEF DecisionTypeOK
    <3> QED BY <1>4, <2>2, <3>1
  <2> QED BY <2>4, <2>5 DEF Settled
<1>8. CASE FactsChange
  BY <1>8 DEF FactsChange, Settled
<1>9. CASE UNCHANGED decisionVars
  <2>1. UNCHANGED <<copy, expired, receipts, settled, deciding, fresh>>
    BY <1>9 DEF decisionVars, trustVars
  <2> QED BY <1>2, <1>4, <2>1 DEF Settled
<1> QED BY <1>5, <1>6, <1>7, <1>8, <1>9 DEF DecisionNext

\* Deciding leaves no trace: as long as no credential changes and the agents'
\* receipts in the window stay the same, so does the outcome of a proposal, for any
\* window and any number of decisions, by whichever caller.
THEOREM DecisionsAreRepeatable == DecisionSpec => []Repeatable
<1>1. DecisionInit => Settled
  BY DEF DecisionInit, Settled
<1>2. Settled => Repeatable
  BY DEF Settled, Repeatable
<1> QED BY <1>1, <1>2, SettledStep, DecisionTypeCorrect, PTL DEF DecisionSpec

-----------------------------------------------------------------------------
(***************************************************************************)
(* The numbers of the policies.  What follows looks into them: the weights *)
(* are natural numbers, so confidence grows with each of its signals and   *)
(* risk with each of its own, and the rules execute on enough of the one   *)
(* and little enough of the other.                                         *)
(***************************************************************************)

\* The rules' answer, as one condition.
LEMMA ExecutesWhen ==
    ASSUME NEW p, NEW confidence, NEW risk, NEW authority, NEW missing
    PROVE  Resolve(p, confidence, risk, authority, missing) = "execute" <=>
             /\ authority \notin {"invalid", "uncertain"}
             /\ ~(confidence < Bar(p.floor))
             /\ risk >= Bar(p.riskBar) => Reversible(p.compensation) /\ ~missing
             /\ confidence >= Bar(p.executeBar)
BY DEF Resolve

\* More confidence, less risk and nothing more missing execute as well.
LEMMA ExecutesMore ==
    ASSUME NEW p, p.floor \in Int, p.riskBar \in Int, p.executeBar \in Int,
           NEW confidence \in Int, NEW risk \in Int, NEW authority, NEW missing,
           Resolve(p, confidence, risk, authority, missing) = "execute",
           NEW higher \in Int, higher >= confidence, NEW lower \in Int, lower <= risk,
           NEW lacking, lacking => missing
    PROVE  Resolve(p, higher, lower, authority, lacking) = "execute"
<1>1. PICK floor \in Int, riskBar \in Int, executeBar \in Int :
        floor = Bar(p.floor) /\ riskBar = Bar(p.riskBar) /\ executeBar = Bar(p.executeBar)
  BY DEF Bar
<1>2. /\ authority \notin {"invalid", "uncertain"}
      /\ ~(confidence < floor) /\ confidence >= executeBar
      /\ risk >= riskBar => Reversible(p.compensation) /\ ~missing
  BY <1>1, ExecutesWhen
<1>3. ~(higher < floor) /\ higher >= executeBar /\ (lower >= riskBar => risk >= riskBar)
  BY <1>2
<1> QED BY <1>1, <1>2, <1>3, ExecutesWhen

LEMMA DomainIsWired ==
    ASSUME NEW action, Wired(action)
    PROVE  DomainOf(action) \in Domains
BY DEF Wired, DomainOf

Weights == [authority : Nat, reversibility : Nat, evidence : Nat, history : Nat]
Risks == [cost : Nat, reversibility : Nat, authority : Nat]

LEMMA PolicyNumbers ==
    ASSUME NEW d \in Domains
    PROVE  /\ Policy(d).confidence \in Weights /\ Policy(d).risk \in Risks
           /\ Policy(d).floor \in Int /\ Policy(d).riskBar \in Int /\ Policy(d).executeBar \in Int
           /\ Policy(d).required \in Nat \ {0} /\ Policy(d).optional \in Nat \ {0}
           /\ Policy(d).costThreshold \in Nat \ {0}
           /\ ReversibilityScore(Policy(d).compensation) \in Nat
<1>1. CASE d = "refund"
  BY <1>1 DEF Policy, Weights, Risks, ReversibilityScore
<1>2. CASE d = "purchase"
  BY <1>2 DEF Policy, Weights, Risks, ReversibilityScore
<1>3. CASE d = "deploy"
  BY <1>3 DEF Policy, Weights, Risks, ReversibilityScore
<1>4. CASE d = "moderation"
  BY <1>4 DEF Policy, Weights, Risks, ReversibilityScore
<1> QED BY <1>1, <1>2, <1>3, <1>4 DEF Domains

-----------------------------------------------------------------------------
(* Signals. *)

\* What a rounded quotient is.
LEMMA QuotientIs ==
    ASSUME NEW n \in Int, NEW d \in Nat \ {0}
    PROVE  /\ Rounded(n, d) \in Int
           /\ 2 * d * Rounded(n, d) <= 2 * n + d
           /\ \A k \in Int : 2 * d * k <= 2 * n + d => k <= Rounded(n, d)
<1>1. PICK c \in Nat \ {0} : c = 2 * d
  OBVIOUS
<1>2. PICK m \in Int : m = 2 * n + d
  OBVIOUS
<1>3. Rounded(n, d) = m \div c
  BY <1>1, <1>2 DEF Rounded
<1>4. PICK q \in Int : q = m \div c /\ c * q <= m /\ m < c * (q + 1)
  OBVIOUS
<1>5. ASSUME NEW k \in Int, c * k <= m PROVE k <= q
  <2> SUFFICES ASSUME ~(k <= q) PROVE FALSE
    OBVIOUS
  <2>1. k >= q + 1
    BY <1>4
  <2>2. c * k >= c * (q + 1)
    BY <2>1, <1>4
  <2> QED BY <1>4, <1>5, <2>2
<1> QED BY <1>1, <1>2, <1>3, <1>4, <1>5

\* Rounding keeps the order.
LEMMA QuotientGrows ==
    ASSUME NEW m \in Int, NEW n \in Int, m <= n, NEW d \in Nat \ {0}
    PROVE  Rounded(m, d) <= Rounded(n, d)
<1>1. PICK k \in Int : k = Rounded(m, d) /\ 2 * d * k <= 2 * m + d
  BY QuotientIs
<1>2. 2 * d * k <= 2 * n + d
  BY <1>1
<1> QED BY <1>1, <1>2, QuotientIs

\* One more favorable receipt, or one refusal less, never lowers the history.
LEMMA HistoryGrows ==
    ASSUME NEW t \in Nat, NEW f \in Nat, f <= t
    PROVE  /\ HistoryValue(t, f) \in Int /\ HistoryValue(t + 1, f) \in Int
           /\ HistoryValue(t + 1, f + 1) \in Int
           /\ HistoryValue(t, f) <= HistoryValue(t + 1, f + 1)
           /\ HistoryValue(t + 1, f) <= HistoryValue(t, f)
<1>0. PICK s \in Nat \ {0}, a \in Nat, b \in Nat : s = t + 1 /\ a = 1000 * f /\ b = 1000 * (f + 1)
  OBVIOUS
<1>1. PICK up : /\ up = Rounded(b, s) /\ up \in Int
                /\ \A k \in Int : 2 * s * k <= 2 * b + s => k <= up
  BY QuotientIs
<1>2. PICK down : /\ down = Rounded(a, s) /\ down \in Int /\ 2 * s * down <= 2 * a + s
  BY QuotientIs
<1>3. HistoryValue(t + 1, f) = down /\ HistoryValue(t + 1, f + 1) = up
  BY <1>0, <1>1, <1>2 DEF HistoryValue
<1>4. CASE t = 0
  <2>1. f = 0 /\ HistoryValue(t, f) = 300
    BY <1>4 DEF HistoryValue
  <2>2. 300 <= up
    BY <1>0, <1>1, <1>4, <2>1
  <2>3. down <= 300
    BY <1>0, <1>2, <1>4, <2>1
  <2> QED BY <1>1, <1>2, <1>3, <2>1, <2>2, <2>3
<1>5. CASE t # 0
  <2>1. t \in Nat \ {0}
    BY <1>5
  <2>2. PICK now : /\ now = Rounded(a, t) /\ now \in Int /\ 2 * t * now <= 2 * a + t
                   /\ \A k \in Int : 2 * t * k <= 2 * a + t => k <= now
    BY <2>1, QuotientIs
  <2>3. HistoryValue(t, f) = now
    BY <1>0, <1>5, <2>2 DEF HistoryValue
  <2>4. now <= up
    <3>1. now <= 1000
      <4> SUFFICES ASSUME now >= 1001 PROVE FALSE
        BY <2>2
      <4>1. t * now >= t * 1001
        BY <2>1, <2>2
      <4> QED BY <1>0, <2>1, <2>2, <4>1
    <3>2. 2 * s * now = 2 * t * now + 2 * now
      BY <1>0, <2>2
    <3>3. 2 * s * now <= 2 * b + s
      BY <1>0, <2>2, <3>1, <3>2
    <3> QED BY <1>1, <2>2, <3>3
  <2>5. down <= now
    <3>1. 2 * s * down = 2 * t * down + 2 * down
      BY <1>0, <1>2
    <3>2. CASE down >= 1
      <4>1. 2 * t * down <= 2 * a + t
        BY <1>0, <1>2, <3>1, <3>2
      <4> QED BY <1>2, <2>2, <4>1
    <3>3. CASE ~(down >= 1)
      <4>1. t * down <= 0
        BY <1>2, <3>3
      <4>2. 2 * t * down <= 2 * a + t
        BY <1>0, <1>2, <4>1
      <4> QED BY <1>2, <2>2, <4>2
    <3> QED BY <3>2, <3>3
  <2> QED BY <1>1, <1>2, <1>3, <2>2, <2>3, <2>4, <2>5
<1> QED BY <1>4, <1>5

\* So does more evidence.
LEMMA EvidenceGrows ==
    ASSUME NEW d \in Domains, NEW i \in Nat, NEW j \in Nat, NEW k \in Nat, NEW l \in Nat,
           i <= j, k <= l
    PROVE  /\ EvidenceValue(Policy(d), i, k) \in Int /\ EvidenceValue(Policy(d), j, l) \in Int
           /\ EvidenceValue(Policy(d), i, k) <= EvidenceValue(Policy(d), j, l)
<1>1. PICK r \in Nat \ {0}, o \in Nat \ {0} : r = Policy(d).required /\ o = Policy(d).optional
  BY PolicyNumbers
<1>2. PICK n \in Int, m \in Int : n = 800 * i * o + 200 * k * r /\ m = 800 * j * o + 200 * l * r
  OBVIOUS
<1>3. n <= m
  <2>1. i * o <= j * o /\ k * r <= l * r
    OBVIOUS
  <2>2. PICK a \in Int, b \in Int, c \in Int, e \in Int :
            a = i * o /\ b = j * o /\ c = k * r /\ e = l * r
    OBVIOUS
  <2>3. n = 800 * a + 200 * c /\ m = 800 * b + 200 * e
    BY <1>2, <2>2
  <2> QED BY <2>1, <2>2, <2>3
<1>4. r * o \in Nat \ {0}
  OBVIOUS
<1>5. Rounded(n, r * o) \in Int /\ Rounded(m, r * o) \in Int /\ Rounded(n, r * o) <= Rounded(m, r * o)
  BY <1>3, <1>4, QuotientIs, QuotientGrows
<1>6. EvidenceValue(Policy(d), i, k) = AtMost(Rounded(n, r * o), 1000)
  BY <1>1, <1>2 DEF EvidenceValue
<1>7. EvidenceValue(Policy(d), j, l) = AtMost(Rounded(m, r * o), 1000)
  BY <1>1, <1>2 DEF EvidenceValue
<1> QED BY <1>5, <1>6, <1>7 DEF AtMost

\* The cost of being wrong is at most 1000, and grows with the amount.
LEMMA CostGrows ==
    ASSUME NEW d \in Domains, NEW a \in Nat \cup {NoAmount}
    PROVE  /\ CostOfWrong(Policy(d), a) \in Int /\ CostOfWrong(Policy(d), a) <= 1000
           /\ \A b \in Nat : b <= a => CostOfWrong(Policy(d), b) <= CostOfWrong(Policy(d), a)
<1>1. PICK c \in Nat \ {0} : c = Policy(d).costThreshold
  BY PolicyNumbers
<1>2. ASSUME NEW b \in Nat
      PROVE  /\ CostOfWrong(Policy(d), b) = AtMost(Rounded(500 * b, c), 1000)
             /\ Rounded(500 * b, c) \in Int
  <2>1. PICK n \in Int : n = 500 * b
    OBVIOUS
  <2>2. Rounded(n, c) \in Int
    BY QuotientIs
  <2>3. b # NoAmount
    BY DEF NoAmount
  <2> QED BY <1>1, <2>1, <2>2, <2>3 DEF CostOfWrong
<1>3. CASE a = NoAmount
  BY <1>3 DEF CostOfWrong, NoAmount
<1>4. CASE a \in Nat
  <2>1. \A b \in Nat : b <= a => Rounded(500 * b, c) <= Rounded(500 * a, c)
    BY <1>4, QuotientGrows
  <2> QED BY <1>2, <1>4, <2>1 DEF AtMost
<1> QED BY <1>3, <1>4

-----------------------------------------------------------------------------
(* Proposals. *)

\* What the sums are made of, on a valid authority.
Sure(d, required, optional, total, favorable) ==
    LET w == Policy(d).confidence
    IN  w.authority * 1000 + w.reversibility * ReversibilityScore(Policy(d).compensation)
        + w.evidence * EvidenceValue(Policy(d), required, optional)
        + w.history * HistoryValue(total, favorable)

AtStake(d, amount) ==
    Policy(d).risk.cost * CostOfWrong(Policy(d), amount)
    + Policy(d).risk.reversibility * (1000 - ReversibilityScore(Policy(d).compensation))

LEMMA ProposalTyped ==
    ASSUME NEW p \in Proposals
    PROVE  /\ DomainOf(p.request.action) \in Domains
           /\ p.evidence.required \in Nat /\ p.evidence.optional \in Nat
           /\ p.request.amount \in Nat \cup {NoAmount}
<1>1. p.request \in Requests /\ p.evidence \in Evidence /\ Wired(p.request.action)
  BY DEF Proposals
<1> QED BY <1>1, DomainIsWired, TrustAssumption, EvidenceAssumption DEF None, NoAmount

\* The sums are numbers, and grow and shrink as they should.
LEMMA SureGrows ==
    ASSUME NEW d \in Domains, NEW i \in Nat, NEW j \in Nat, NEW k \in Nat, NEW l \in Nat,
           i <= j, k <= l, NEW t \in Nat, NEW f \in Nat, f <= t
    PROVE  /\ Sure(d, i, k, t, f) \in Int /\ Sure(d, j, l, t, f) \in Int
           /\ Sure(d, i, k, t + 1, f) \in Int /\ Sure(d, i, k, t + 1, f + 1) \in Int
           /\ Sure(d, i, k, t, f) <= Sure(d, j, l, t, f)
           /\ Sure(d, i, k, t, f) <= Sure(d, i, k, t + 1, f + 1)
           /\ Sure(d, i, k, t + 1, f) <= Sure(d, i, k, t, f)
<1>1. PICK w \in Weights, s \in Nat :
        w = Policy(d).confidence /\ s = ReversibilityScore(Policy(d).compensation)
  BY PolicyNumbers
<1>2. PICK we \in Nat, wh \in Nat, base \in Int :
        we = w.evidence /\ wh = w.history /\ base = w.authority * 1000 + w.reversibility * s
  BY DEF Weights
<1>3. PICK e \in Int, more \in Int :
        /\ e = EvidenceValue(Policy(d), i, k) /\ more = EvidenceValue(Policy(d), j, l)
        /\ e <= more
  BY EvidenceGrows
<1>4. PICK h, better, worse :
        /\ h = HistoryValue(t, f) /\ better = HistoryValue(t + 1, f + 1)
        /\ worse = HistoryValue(t + 1, f) /\ h <= better /\ worse <= h
        /\ h \in Int /\ better \in Int /\ worse \in Int
  BY HistoryGrows
<1>5. /\ Sure(d, i, k, t, f) = base + we * e + wh * h
      /\ Sure(d, j, l, t, f) = base + we * more + wh * h
      /\ Sure(d, i, k, t + 1, f) = base + we * e + wh * worse
      /\ Sure(d, i, k, t + 1, f + 1) = base + we * e + wh * better
  BY <1>1, <1>2, <1>3, <1>4 DEF Sure
<1>6. we * e <= we * more /\ wh * h <= wh * better /\ wh * worse <= wh * h
  BY <1>3, <1>4
<1>7. PICK a, b, x, y, z :
        /\ a = we * e /\ b = we * more /\ x = wh * h /\ y = wh * better /\ z = wh * worse
        /\ a \in Int /\ b \in Int /\ x \in Int /\ y \in Int /\ z \in Int
  BY <1>4
<1> QED BY <1>5, <1>6, <1>7

LEMMA StakeGrows ==
    ASSUME NEW d \in Domains, NEW a \in Nat \cup {NoAmount}
    PROVE  /\ AtStake(d, a) \in Int
           /\ \A b \in Nat : b <= a => AtStake(d, b) \in Int /\ AtStake(d, b) <= AtStake(d, a)
<1>1. PICK w \in Risks, s \in Nat :
        w = Policy(d).risk /\ s = ReversibilityScore(Policy(d).compensation)
  BY PolicyNumbers
<1>2. PICK wc \in Nat, rest \in Int :
        wc = w.cost /\ rest = w.reversibility * (1000 - s)
  BY DEF Risks
<1>3. PICK c \in Int : c = CostOfWrong(Policy(d), a)
  BY CostGrows
<1>4. AtStake(d, a) = wc * c + rest
  BY <1>1, <1>2, <1>3 DEF AtStake
<1>5. ASSUME NEW b \in Nat, b <= a PROVE AtStake(d, b) \in Int /\ AtStake(d, b) <= AtStake(d, a)
  <2>1. PICK o \in Int : o = CostOfWrong(Policy(d), b) /\ o <= c
    BY <1>3, <1>5, CostGrows
  <2>2. AtStake(d, b) = wc * o + rest
    BY <1>1, <1>2, <2>1 DEF AtStake
  <2>3. wc * o <= wc * c
    BY <2>1
  <2>4. PICK x \in Int, y \in Int : x = wc * o /\ y = wc * c
    OBVIOUS
  <2> QED BY <1>4, <2>2, <2>3, <2>4
<1> QED BY <1>4, <1>5

\* A decision that executes is one of the rules on these sums.
LEMMA ExecutesOn ==
    ASSUME NEW p \in Proposals, NEW t, NEW f, Reading(p.request) = "valid",
           NEW d, d = DomainOf(p.request.action)
    PROVE  /\ OutcomeOf(p, t, f) =
                Resolve(Policy(d), Sure(d, p.evidence.required, p.evidence.optional, t, f),
                        AtStake(d, p.request.amount), "valid",
                        p.evidence.required < Policy(d).required)
           /\ Risk(Policy(d), Facts(p, "valid", t, f)) = AtStake(d, p.request.amount)
<1>1. PICK x : x = Facts(p, "valid", t, f)
  OBVIOUS
<1>2. /\ x.authority = "valid" /\ x.required = p.evidence.required
      /\ x.optional = p.evidence.optional /\ x.amount = p.request.amount
      /\ x.total = t /\ x.favorable = f
  BY <1>1 DEF Facts
<1>3. d \in Domains
  BY ProposalTyped
<1>4. Confidence(Policy(d), x) = Sure(d, x.required, x.optional, x.total, x.favorable)
  BY <1>2 DEF Confidence, Sure, AuthorityValue
<1>5. Risk(Policy(d), x) = AtStake(d, x.amount)
  <2>1. PICK w \in Risks : w = Policy(d).risk
    BY <1>3, PolicyNumbers
  <2>2. AuthorityRisk(x.authority) = 0 /\ w.authority * 0 = 0
    BY <1>2 DEF AuthorityRisk, Risks
  <2>3. AtStake(d, x.amount) \in Int
    BY <1>2, <1>3, ProposalTyped, StakeGrows
  <2>4. Risk(Policy(d), x) = AtStake(d, x.amount) + 0
    BY <2>1, <2>2 DEF Risk, AtStake
  <2> QED BY <2>3, <2>4
<1>6. OutcomeOf(p, t, f) =
        Resolve(Policy(d), Confidence(Policy(d), x), Risk(Policy(d), x), x.authority,
                x.required < Policy(d).required)
  BY <1>1, Zenon DEF OutcomeOf, OutcomeOn, Decision
<1> QED BY <1>1, <1>2, <1>4, <1>5, <1>6, Zenon

\* A valid authority and a compensating action that is worth something bound the risk.
LEMMA ReversibleIsLow ==
    ASSUME NEW d \in Domains, NEW a \in Nat \cup {NoAmount}, Reversible(Policy(d).compensation)
    PROVE  AtStake(d, a) < Bar(Policy(d).riskBar)
<1>1. PICK c \in Int : c = CostOfWrong(Policy(d), a) /\ c <= 1000
  BY CostGrows
<1>2. CASE d \in {"refund", "purchase"}
  BY <1>1, <1>2 DEF AtStake, Policy, ReversibilityScore, Bar
<1>3. CASE d = "moderation"
  BY <1>1, <1>3 DEF AtStake, Policy, ReversibilityScore, Bar
<1>4. d # "deploy"
  BY DEF Reversible, Policy
<1> QED BY <1>2, <1>3, <1>4 DEF Domains

\* A request that looks at its authority next asks for something that is wired in, and
\* has read a history.
LEMMA AsksProperly ==
    ASSUME DecisionTypeOK, NEW k \in Callers, deciding[k].at = "authority"
    PROVE  /\ deciding[k].proposal \in Proposals
           /\ deciding[k].total \in Nat /\ deciding[k].favorable \in Nat
           /\ deciding[k].favorable <= deciding[k].total
<1>1. deciding[k] \in {Idle} \cup InProgress
  BY DEF DecisionTypeOK
<1>2. deciding[k] \in InProgress
  BY <1>1 DEF Idle
<1> QED BY <1>2 DEF InProgress

\* What executes has a risk below the bar, although the rule that executes it does
\* not look: for any amounts and evidence, and any track record.
THEOREM ExecutesOnLowRisk == DecisionSpec => []ExecuteMeansLowRisk
<1>1. DecisionTypeOK => ExecuteMeansLowRisk
  <2> SUFFICES ASSUME NEW p \in Proposals, NEW t, NEW f, Executes(p, t, f),
                      NEW d, d = DomainOf(p.request.action)
               PROVE  Risk(Policy(d), Facts(p, Reading(p.request), t, f)) < Bar(Policy(d).riskBar)
    BY AsksProperly DEF ExecuteMeansLowRisk
  <2>1. OutcomeOf(p, t, f) = "execute" /\ Reading(p.request) = "valid"
    BY ExecutesValid DEF Executes
  <2>2. PICK risk : risk = AtStake(d, p.request.amount)
    OBVIOUS
  <2>3. risk >= Bar(Policy(d).riskBar) => Reversible(Policy(d).compensation)
    BY <2>1, <2>2, ExecutesOn, ExecutesWhen
  <2>4. d \in Domains /\ risk \in Int /\ Bar(Policy(d).riskBar) \in Int
    <3>1. d \in Domains
      BY ProposalTyped
    <3>2. risk \in Int
      BY <2>2, <3>1, ProposalTyped, StakeGrows
    <3>3. Policy(d).riskBar \in Int
      BY <3>1, PolicyNumbers
    <3> QED BY <3>1, <3>2, <3>3 DEF Bar
  <2>5. risk < Bar(Policy(d).riskBar)
    <3>1. Reversible(Policy(d).compensation) => risk < Bar(Policy(d).riskBar)
      BY <2>2, <2>4, ProposalTyped, ReversibleIsLow
    <3> QED BY <2>3, <2>4, <3>1
  <2> QED BY <2>1, <2>2, <2>5, ExecutesOn
<1> QED BY <1>1, DecisionTypeCorrect, PTL

-----------------------------------------------------------------------------
(* Monotony. *)

\* A proposal that is no bolder reads the same authority.
LEMMA NoBolderReadsValid ==
    ASSUME NEW p \in Proposals, NEW q \in Proposals, NoBolder(q, p), Reading(p.request) = "valid"
    PROVE  Reading(q.request) = "valid"
<1>1. PICK a, action : /\ a = p.request.actor /\ a = q.request.actor
                       /\ action = p.request.action /\ action = q.request.action
  BY DEF NoBolder
<1>2. PICK m, n : /\ m = q.request.amount /\ n = p.request.amount
                  /\ m \in Nat /\ n \in Nat /\ m <= n
  BY ProposalTyped DEF NoBolder, None, NoAmount
<1>3. CASE Verdict(p.request) \in {"allow", "escalate"}
  <2>1. PICK c \in Valid(a, "authority_grant") : Covers(c, action, n)
    BY <1>1, <1>2, <1>3 DEF Verdict
  <2>2. c \in Creds /\ Contents[c].max \in Int
    BY TrustAssumption DEF Valid, HeldBy
  <2>3. Covers(c, action, m)
    BY <1>2, <2>1, <2>2 DEF Covers, None
  <2>4. Verdict(q.request) \in {"allow", "escalate"}
    BY <1>1, <1>2, <2>1, <2>3 DEF Verdict
  <2> QED BY <2>4 DEF Reading
<1>4. CASE Verdict(p.request) \notin {"allow", "escalate"}
  <2>1. Failing(a) = {} /\ Valid(a, "authority_grant") # {}
    BY <1>1, <1>4 DEF Reading
  <2> QED BY <1>1, <2>1 DEF Reading
<1> QED BY <1>3, <1>4

\* The same rules on sums that are no worse.
LEMMA MonotoneOn ==
    ASSUME NEW p \in Proposals, NEW q \in Proposals, NEW t, NEW f, NEW u, NEW g,
           Executes(p, t, f), Reading(q.request) = "valid",
           NEW d, d = DomainOf(p.request.action), d = DomainOf(q.request.action),
           NEW sure \in Int, NEW surer \in Int, sure <= surer,
           sure = Sure(d, p.evidence.required, p.evidence.optional, t, f),
           surer = Sure(d, q.evidence.required, q.evidence.optional, u, g),
           NEW risk \in Int, NEW lower \in Int, lower <= risk,
           risk = AtStake(d, p.request.amount), lower = AtStake(d, q.request.amount),
           p.evidence.required <= q.evidence.required
    PROVE  Executes(q, u, g)
<1>1. d \in Domains /\ p.evidence.required \in Nat /\ q.evidence.required \in Nat
  BY ProposalTyped
<1>2. PICK pol : /\ pol = Policy(d)
                 /\ pol.floor \in Int /\ pol.riskBar \in Int /\ pol.executeBar \in Int
                 /\ pol.required \in Nat
  BY <1>1, PolicyNumbers
<1>3. PICK missing, lacking : /\ missing = (p.evidence.required < pol.required)
                              /\ lacking = (q.evidence.required < pol.required)
  OBVIOUS
<1>4. lacking => missing
  <2>1. q.evidence.required < pol.required => p.evidence.required < pol.required
    BY <1>1, <1>2
  <2> QED BY <1>3, <2>1, Zenon
<1>5. Reading(p.request) = "valid" /\ OutcomeOf(p, t, f) = "execute"
  BY ExecutesValid DEF Executes
<1>6. Resolve(pol, sure, risk, "valid", missing) = "execute"
  <2>1. OutcomeOf(p, t, f) = Resolve(Policy(d), sure, risk, "valid",
                                     p.evidence.required < Policy(d).required)
    BY <1>5, ExecutesOn, ZenonT(30)
  <2> QED BY <1>2, <1>3, <1>5, <2>1
<1>7. Resolve(pol, surer, lower, "valid", lacking) = "execute"
  BY <1>2, <1>4, <1>6, ExecutesMore
<1>8. OutcomeOf(q, u, g) = "execute"
  BY <1>2, <1>3, <1>7, ExecutesOn
<1> QED BY <1>8 DEF Executes

\* Nothing good costs an execution: one more favorable receipt, one refusal less,
\* a smaller amount or more evidence never turns it into anything else, whatever
\* the grants, the amounts and the history are.
THEOREM ExecutionIsMonotone == DecisionSpec => []ExecuteIsMonotone
<1>1. DecisionTypeOK => ExecuteIsMonotone
  <2> SUFFICES ASSUME NEW p \in Proposals, NEW t \in Nat, NEW f \in Nat, f <= t
               PROVE  /\ Executes(p, t, f) => Executes(p, t + 1, f + 1)
                      /\ Executes(p, t + 1, f) => Executes(p, t, f)
                      /\ Executes(p, t, f) =>
                            \A q \in Proposals : NoBolder(q, p) => Executes(q, t, f)
    BY AsksProperly DEF ExecuteIsMonotone
  <2>1. t \in Nat /\ f \in Nat /\ f <= t
    OBVIOUS
  <2>2. PICK d : d = DomainOf(p.request.action) /\ d \in Domains
    BY ProposalTyped
  <2>3. PICK i \in Nat, k \in Nat : i = p.evidence.required /\ k = p.evidence.optional
    BY ProposalTyped
  <2>4. PICK risk \in Int : risk = AtStake(d, p.request.amount)
    BY <2>2, ProposalTyped, StakeGrows
  <2>5. PICK s, up, down : /\ s = Sure(d, i, k, t, f) /\ up = Sure(d, i, k, t + 1, f + 1)
                           /\ down = Sure(d, i, k, t + 1, f)
                           /\ s \in Int /\ up \in Int /\ down \in Int
                           /\ s <= up /\ down <= s
    <3>1. i <= i /\ k <= k
      OBVIOUS
    <3>2. /\ Sure(d, i, k, t, f) \in Int /\ Sure(d, i, k, t + 1, f) \in Int
          /\ Sure(d, i, k, t + 1, f + 1) \in Int
          /\ Sure(d, i, k, t, f) <= Sure(d, i, k, t + 1, f + 1)
          /\ Sure(d, i, k, t + 1, f) <= Sure(d, i, k, t, f)
      BY <2>1, <2>2, <3>1, SureGrows, ZenonT(30)
    <3> QED BY <3>2
  <2>6. \A u, g : Executes(p, u, g) => Reading(p.request) = "valid"
    BY ExecutesValid DEF Executes
  <2>7. Executes(p, t, f) => Executes(p, t + 1, f + 1)
    BY <2>2, <2>3, <2>4, <2>5, <2>6, MonotoneOn
  <2>8. Executes(p, t + 1, f) => Executes(p, t, f)
    BY <2>2, <2>3, <2>4, <2>5, <2>6, MonotoneOn
  <2>9. ASSUME NEW q \in Proposals, NoBolder(q, p), Executes(p, t, f) PROVE Executes(q, t, f)
    <3>1. Reading(q.request) = "valid"
      BY <2>6, <2>9, NoBolderReadsValid
    <3>2. d = DomainOf(q.request.action)
      BY <2>2, <2>9 DEF NoBolder
    <3>3. PICK j \in Nat, l \in Nat : j = q.evidence.required /\ l = q.evidence.optional
      BY ProposalTyped
    <3>4. i <= j /\ k <= l
      BY <2>3, <2>9, <3>3 DEF NoBolder
    <3>5. PICK surer : surer = Sure(d, j, l, t, f) /\ surer \in Int /\ s <= surer
      <4>1. Sure(d, j, l, t, f) \in Int /\ Sure(d, i, k, t, f) <= Sure(d, j, l, t, f)
        BY <2>1, <2>2, <3>4, SureGrows
      <4> QED BY <2>5, <4>1
    <3>6. PICK lower \in Int : lower = AtStake(d, q.request.amount) /\ lower <= risk
      <4>1. q.request.amount \in Nat /\ q.request.amount <= p.request.amount
        BY <2>9, ProposalTyped DEF NoBolder, None, NoAmount
      <4> QED BY <2>2, <2>4, <4>1, ProposalTyped, StakeGrows
    <3> QED BY <2>2, <2>3, <2>4, <2>5, <2>9, <3>1, <3>2, <3>3, <3>4, <3>5, <3>6, MonotoneOn
  <2> QED BY <2>7, <2>8, <2>9
<1> QED BY <1>1, DecisionTypeCorrect, PTL

=============================================================================
