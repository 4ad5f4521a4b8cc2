--------------------------- MODULE DecisionPolicy ---------------------------
(***************************************************************************)
(* The pure core of DecisionCore: the domain policies, the five weighted   *)
(* signals and the ordered rule table that turns (confidence, risk, facts) *)
(* into one of five outcomes (core/decisioncore/domain).                   *)
(*                                                                         *)
(* Numbers are integers. A signal value is in thousandths (the code rounds *)
(* it to three digits), a weight in hundredths, so a weighted sum is in    *)
(* units of 10^-5; every policy's weights add up to 1, so the weighted     *)
(* mean is the sum. An amount is in whole dollars.                         *)
(***************************************************************************)
EXTENDS Integers

Authority == {"valid", "uncertain", "invalid"}
Outcome == {"execute", "ask", "defer", "escalate", "refuse"}
NoAmount == -1   \* amount=None

Domains == {"refund", "deploy", "moderation", "purchase"}

\* REFUND, DEPLOY, MODERATION and PURCHASE: how many evidence fields are
\* required and optional, the cost threshold, the two weight tables, the
\* compensating action and the three bars.
Policy(d) ==
    CASE d \in {"refund", "purchase"} ->
        [required |-> 2, optional |-> IF d = "refund" THEN 2 ELSE 1,
         costThreshold |-> 500,
         confidence |-> [authority |-> 30, reversibility |-> 15,
                         evidence |-> 30, history |-> 25],
         risk |-> [cost |-> 50, reversibility |-> 30, authority |-> 20],
         compensation |-> [exists |-> TRUE, cost |-> "low", partial |-> FALSE],
         floor |-> 55, executeBar |-> 70, riskBar |-> 60]
      [] d = "deploy" ->
        [required |-> 3, optional |-> 2, costThreshold |-> 2000,
         confidence |-> [authority |-> 25, reversibility |-> 10,
                         evidence |-> 40, history |-> 25],
         risk |-> [cost |-> 45, reversibility |-> 40, authority |-> 15],
         compensation |-> [exists |-> TRUE, cost |-> "high", partial |-> TRUE],
         floor |-> 60, executeBar |-> 75, riskBar |-> 55]
      [] d = "moderation" ->
        [required |-> 2, optional |-> 2, costThreshold |-> 100,
         confidence |-> [authority |-> 30, reversibility |-> 20,
                         evidence |-> 30, history |-> 20],
         risk |-> [cost |-> 40, reversibility |-> 35, authority |-> 25],
         compensation |-> [exists |-> TRUE, cost |-> "low", partial |-> FALSE],
         floor |-> 50, executeBar |-> 65, riskBar |-> 60]

-----------------------------------------------------------------------------

AtMost(x, cap) == IF x < cap THEN x ELSE cap
Rounded(n, d) == (2 * n + d) \div (2 * d)   \* n / d to the nearest integer

\* Compensation.reversibility_score()
ReversibilityScore(c) ==
    LET base == [low |-> 1000, medium |-> 600, high |-> 300]
    IN  IF ~c.exists THEN 0
        ELSE IF c.partial THEN base[c.cost] \div 2 ELSE base[c.cost]

\* Mutant: any compensating action will do.
ReversibleSomehow(c) == c.exists

\* The service's `reversible` fact: a compensating action that is not both
\* partial and expensive.
Reversible(c) == c.exists /\ ~(c.partial /\ c.cost = "high")

\* authority_signal() and its mirror on the risk side
AuthorityValue(a) == CASE a = "valid" -> 1000 [] a = "uncertain" -> 350 [] a = "invalid" -> 0
AuthorityRisk(a) == CASE a = "valid" -> 0 [] a = "uncertain" -> 600 [] a = "invalid" -> 1000

\* evidence_signal(): req and opt fields are present of those the policy lists
EvidenceValue(p, req, opt) ==
    AtMost(Rounded(800 * req * p.optional + 200 * opt * p.required,
                   p.required * p.optional), 1000)

\* cost_of_wrong_signal()
CostOfWrong(p, amount) ==
    IF amount = NoAmount THEN 300
    ELSE AtMost(Rounded(500 * amount, p.costThreshold), 1000)

\* Mutant: the rate of refusals is taken.
RefusalRate(total, favorable) ==
    IF total = 0 THEN 300 ELSE Rounded(1000 * (total - favorable), total)

\* history_signal(): no record on file reads as 0.3
HistoryValue(total, favorable) ==
    IF total = 0 THEN 300 ELSE Rounded(1000 * favorable, total)

Confidence(p, x) ==
    p.confidence.authority * AuthorityValue(x.authority)
    + p.confidence.reversibility * ReversibilityScore(p.compensation)
    + p.confidence.evidence * EvidenceValue(p, x.required, x.optional)
    + p.confidence.history * HistoryValue(x.total, x.favorable)

Risk(p, x) ==
    p.risk.cost * CostOfWrong(p, x.amount)
    + p.risk.reversibility * (1000 - ReversibilityScore(p.compensation))
    + p.risk.authority * AuthorityRisk(x.authority)

\* The bars in the units of Confidence and Risk.
Bar(percent) == percent * 1000

\* Mutant: the confidence floor is taken for the bar of execution.
ResolveAtFloor(p, confidence, risk, authority, missing) ==
    CASE authority = "invalid" -> "refuse"
      [] authority = "uncertain" -> "escalate"
      [] OTHER -> IF confidence < Bar(p.floor) THEN "ask" ELSE "execute"

\* resolve(): ordered rules, the first that matches wins.
Resolve(p, confidence, risk, authority, missing) ==
    LET high == risk >= Bar(p.riskBar)
    IN  IF authority = "invalid" THEN "refuse"
        ELSE IF authority = "uncertain" THEN "escalate"
        ELSE IF confidence < Bar(p.floor) THEN "ask"
        ELSE IF high /\ ~Reversible(p.compensation) THEN "escalate"
        ELSE IF high /\ missing THEN "defer"
        ELSE IF confidence >= Bar(p.executeBar) THEN "execute"
        ELSE "ask"

\* The numeric half of DecisionService.decide(): x holds the gathered facts
\* [authority, required, optional, amount, total, favorable].
Decision(d, x) ==
    LET p == Policy(d)
    IN  Resolve(p, Confidence(p, x), Risk(p, x), x.authority, x.required < p.required)

=============================================================================
