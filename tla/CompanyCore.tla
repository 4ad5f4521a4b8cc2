------------------------------ MODULE CompanyCore ------------------------------
(***************************************************************************)
(* CompanyService (core/companycore): a company whose roles act day by day *)
(* on one event log.  Its books are a fold of the log, and so is a replay. *)
(* The human inbox is a second store, although its changes are logged too. *)
(*                                                                         *)
(* One advance_day() runs at a time, cut between the intents of its roles. *)
(* Meanwhile a human resolves escalations, operators arm the faults, and   *)
(* credentials change in TrustCore.  emit() takes a number and appends in  *)
(* two calls: of two requests that emit at the same moment one fails.  It  *)
(* reads the day before either.                                            *)
(***************************************************************************)
EXTENDS Integers, Sequences, FiniteSets, SequencesExt

CONSTANTS
    Weeks,      \* scenario -> its days -> what the world emits
    Opening,    \* the opening books: the first events
    Standings,  \* role -> how TrustCore may see it: [limit, proven], or NoGrant
    Seeded,     \* role -> its standing after seed_company()
    MaxDay,     \* bound: days
    MaxGrants,  \* bound: changes of credentials
    MaxRulings  \* bound: escalations that are resolved

Roles == <<"salesbot", "opsbot", "financebot">>
RoleNames == {Roles[n] : n \in DOMAIN Roles}
Scenarios == {"normal", "cash_crunch"}

InboxKinds == {"escalation_raised", "escalation_resolved"}

\* The events a world tick may bring, and those the books open with.
WorldKinds == {"lead_arrived", "deal_lost", "bill_received", "bill_paid"}
OpeningKinds == {"po_received", "bill_received", "invoice_issued", "invoice_collected"}
Listed(s) == s \in Seq({s[n] : n \in DOMAIN s})
Given(es, kinds) ==
    /\ Listed(es)
    /\ \A n \in DOMAIN es : /\ es[n].kind \in kinds /\ es[n].by = "world"
                            /\ es[n].amount \in Nat /\ es[n].units \in Nat

ASSUME CompanyAssumption ==
    /\ MaxDay \in Nat /\ MaxGrants \in Nat /\ MaxRulings \in Nat
    /\ DOMAIN Weeks = Scenarios
    /\ \A s \in Scenarios :
        /\ Listed(Weeks[s]) /\ Len(Weeks[s]) > 0
        /\ \A d \in DOMAIN Weeks[s] : Given(Weeks[s][d], WorldKinds)
    /\ Given(Opening, OpeningKinds)
    /\ DOMAIN Seeded = RoleNames /\ \A r \in RoleNames : Seeded[r] \in Standings[r]

VARIABLES
    log,        \* the events; the seq of an event is its place
    day,
    scenario,
    rogue,      \* inject_rogue_sales() was called
    streak,     \* the refusals since the seed
    inbox,      \* the escalations: resolved or not
    standing,   \* what TrustCore says of a role
    grants,     \* the changes of credentials so far
    work,       \* the advance_day() in flight: where it is and what it has to do
    human       \* the resolve_inbox() in flight

companyVars == <<log, day, scenario, rogue, streak, inbox, standing, grants, work, human>>

\* Prices in dollars: 200 a unit, with a margin of 1.4; runway in days of 1200.
UnitCost == 200
QuoteOf(units) == units * 280
DailyBurn == 1200
RunwayFreeze == 21
RogueLimit == 3

\* ref names what an event is about, <<>> for the company; an invoice has the ref of
\* its lead and a supplier's bill that of its order.
Event(kind, ref, amount, units, due) ==
    [kind |-> kind, ref |-> ref, amount |-> amount, units |-> units, due |-> due, by |-> "world"]
Plain(kind, ref) == Event(kind, ref, 0, 0, 0)
By(role, e) == [e EXCEPT !.by = role]
On(d, e) == [day |-> d, e |-> e]

-----------------------------------------------------------------------------
(* The books (ledger.py). *)

EmptyBooks ==
    [cash |-> 0, inventory |-> 0, pipeline |-> {}, ar |-> {}, ap |-> {}, frozen |-> FALSE,
     paused |-> {}]

Without(entries, ref) == {x \in entries : x.ref # ref}
With(entries, x) == Without(entries, x.ref) \cup {x}

Quoted(leads, ref) == {[x EXCEPT !.quoted = x.quoted \/ x.ref = ref] : x \in leads}

Lead(e) == [ref |-> e.ref, units |-> e.units, quoted |-> FALSE]
Due(e) == [ref |-> e.ref, amount |-> e.amount, due |-> e.due]

\* Mutant: a paid bill stays payable.
PostedKeepsBills(b, e) ==
    CASE e.kind = "lead_arrived" -> [b EXCEPT !.pipeline = With(@, Lead(e))]
      [] e.kind = "quote_sent" -> [b EXCEPT !.pipeline = Quoted(@, e.ref)]
      [] e.kind = "deal_won" ->
            [b EXCEPT !.pipeline = Without(@, e.ref), !.inventory = @ - e.units]
      [] e.kind = "deal_lost" -> [b EXCEPT !.pipeline = Without(@, e.ref)]
      [] e.kind = "invoice_issued" -> [b EXCEPT !.ar = With(@, Due(e))]
      [] e.kind = "invoice_collected" ->
            [b EXCEPT !.cash = @ + e.amount, !.ar = Without(@, e.ref)]
      [] e.kind = "po_received" ->
            [b EXCEPT !.inventory = @ + e.units, !.ap = With(@, Due(e))]
      [] e.kind = "bill_received" -> [b EXCEPT !.ap = With(@, Due(e))]
      [] e.kind = "bill_paid" -> [b EXCEPT !.cash = @ - e.amount]
      [] e.kind = "spend_frozen" -> [b EXCEPT !.frozen = TRUE]
      [] e.kind = "role_paused" -> [b EXCEPT !.paused = @ \cup {e.ref}]
      [] OTHER -> b

\* One event of fold_state(); the others do not move the books, and no operation
\* emits spend_unfrozen or role_restored.
Posted(b, e) ==
    CASE e.kind = "lead_arrived" -> [b EXCEPT !.pipeline = With(@, Lead(e))]
      [] e.kind = "quote_sent" -> [b EXCEPT !.pipeline = Quoted(@, e.ref)]
      [] e.kind = "deal_won" ->
            [b EXCEPT !.pipeline = Without(@, e.ref), !.inventory = @ - e.units]
      [] e.kind = "deal_lost" -> [b EXCEPT !.pipeline = Without(@, e.ref)]
      [] e.kind = "invoice_issued" -> [b EXCEPT !.ar = With(@, Due(e))]
      [] e.kind = "invoice_collected" ->
            [b EXCEPT !.cash = @ + e.amount, !.ar = Without(@, e.ref)]
      [] e.kind = "po_received" ->
            [b EXCEPT !.inventory = @ + e.units, !.ap = With(@, Due(e))]
      [] e.kind = "bill_received" -> [b EXCEPT !.ap = With(@, Due(e))]
      [] e.kind = "bill_paid" -> [b EXCEPT !.cash = @ - e.amount, !.ap = Without(@, e.ref)]
      [] e.kind = "spend_frozen" -> [b EXCEPT !.frozen = TRUE]
      [] e.kind = "role_paused" -> [b EXCEPT !.paused = @ \cup {e.ref}]
      [] OTHER -> b

\* fold_state() of the entries at the places that count.
Folded(entries, counts) ==
    LET fold[n \in 0..Len(entries)] ==
            IF n = 0 THEN EmptyBooks
            ELSE IF n \in counts THEN Posted(fold[n - 1], entries[n].e) ELSE fold[n - 1]
    IN  fold[Len(entries)]

Books(entries) == Folded(entries, DOMAIN entries)

\* Mutant: the day itself is left out.
ReplayBefore(d) == Folded(log, {n \in DOMAIN log : log[n].day < d})

\* replay_day()
Replay(d) == Folded(log, {n \in DOMAIN log : log[n].day <= d})

\* runway_days < RUNWAY_FREEZE; the code rounds the runway to a tenth of a day first.
RunwayBreached(b) == 20 * b.cash < (20 * RunwayFreeze - 1) * DailyBurn

-----------------------------------------------------------------------------
(* What the roles propose (roles.py). *)

Intent(action, ref, amount, units) ==
    [action |-> action, ref |-> ref, amount |-> amount, units |-> units]

\* The most valuable lead that is not quoted; of equals the code takes the oldest.
SalesIntents(b) ==
    LET open == {x \in b.pipeline : ~x.quoted}
    IN  IF <<"salesbot">> \in b.paused \/ open = {} THEN {<<>>}
        ELSE {<<Intent("quote", x.ref, QuoteOf(x.units) * (IF rogue THEN 3 ELSE 1), x.units)>> :
                x \in {y \in open : \A z \in open : z.units <= y.units}}

Backlog(leads) == MapThenSumSet(LAMBDA x : x.units, leads)

OpsIntents(b) ==
    LET shortfall == (3 * Backlog(b.pipeline)) \div 2 - b.inventory
    IN  IF shortfall <= 0 THEN {<<>>}
        ELSE {<<Intent("purchase_order", <<"P", day, Len(log)>>, shortfall * UnitCost, shortfall)>>}

\* What is due is collected, then paid unless spending is frozen, and a breached
\* runway freezes it.
FinanceIntents(b) ==
    LET due(entries) == SetToSeq({x \in entries : x.due <= day})
        all(action, entries) ==
            [n \in DOMAIN due(entries) |-> Intent(action, due(entries)[n].ref, due(entries)[n].amount, 0)]
    IN  {all("collect", b.ar)
            \o (IF b.frozen THEN <<>> ELSE all("pay", b.ap))
            \o (IF RunwayBreached(b) /\ ~b.frozen THEN <<Intent("freeze_spend", <<>>, 0, 0)>> ELSE <<>>)}

Intents(role) ==
    LET b == Books(log)
    IN  CASE role = "salesbot" -> SalesIntents(b)
          [] role = "opsbot" -> OpsIntents(b)
          [] role = "financebot" -> FinanceIntents(b)

\* trust.decide() on what the role holds; a freeze has no amount.
NoGrant == [limit |-> -1, proven |-> FALSE]
Verdict(role, intent) ==
    IF intent.amount > standing[role].limit THEN "refuse"
    ELSE IF standing[role].proven THEN "allow" ELSE "escalate"

\* _apply(): the events of an intent that was allowed.
Effects(role, i) ==
    LET es == CASE i.action = "quote" ->
                    <<Plain("quote_sent", i.ref), Event("deal_won", i.ref, i.amount, i.units, 0),
                      Event("invoice_issued", i.ref, i.amount, i.units, day + 2)>>
                [] i.action = "purchase_order" ->
                    <<Plain("po_raised", i.ref), Event("po_received", i.ref, i.amount, i.units, day + 14)>>
                [] i.action = "collect" -> <<Event("invoice_collected", i.ref, i.amount, 0, 0)>>
                [] i.action = "pay" -> <<Event("bill_paid", i.ref, i.amount, 0, 0)>>
                [] i.action = "freeze_spend" -> <<Plain("spend_frozen", <<>>)>>
                [] OTHER -> <<>>
    IN  [n \in DOMAIN es |-> By(role, es[n])]

-----------------------------------------------------------------------------
(* Emitting. *)

Work(at, todo) == [at |-> at, todo |-> todo]
AtRest == Work("rest", <<>>)
Nobody == [at |-> "rest", id |-> 0, seq |-> 0, day |-> 0]

Resolution(id, d) == On(d, By("human", Plain("escalation_resolved", <<id>>)))

\* The resolution in flight appends, under the day it has read, at the number the day
\* has taken for the k-th of its next events.
Overtakes(k, d) ==
    \/ human.at = "marked" /\ human.day <= d
    \/ human.at = "numbered" /\ human.day = d /\ human.seq = Len(log) /\ k = 1

\* The day emits these events and goes on; or a resolution takes the number of one
\* of them between next_seq() and append(), and the day ends there with an error.
Posts(es, next) ==
    LET entries == [n \in DOMAIN es |-> On(day, es[n])]
    IN  \/ /\ log' = log \o entries
           /\ work' = next
           /\ UNCHANGED human
        \/ /\ \E k \in DOMAIN es, d \in 0 .. day :
                /\ Overtakes(k, d)
                /\ log' = Append(log \o SubSeq(entries, 1, k - 1), Resolution(human.id, d))
           /\ work' = AtRest
           /\ human' = Nobody

-----------------------------------------------------------------------------
(* advance_day() *)

BeginDay ==
    /\ work = AtRest /\ day < MaxDay
    /\ day' = day + 1
    /\ work' = Work("world", <<>>)
    /\ UNCHANGED <<log, scenario, rogue, streak, inbox, standing, grants, human>>

\* The world tick; the last day of the week repeats.
WorldTick ==
    LET week == Weeks[scenario]
    IN  /\ work.at = "world"
        /\ Posts(week[IF day <= Len(week) THEN day ELSE Len(week)], Work("salesbot", <<>>))
        /\ UNCHANGED <<day, scenario, rogue, streak, inbox, standing, grants>>

\* The place after a role.
After(role) ==
    CASE role = "salesbot" -> Work("opsbot", <<>>)
      [] role = "opsbot" -> Work("financebot", <<>>)
      [] role = "financebot" -> Work("refreeze", <<>>)

\* A role reads the books and proposes.
PlanRole(role) ==
    /\ work = Work(role, <<>>)
    /\ \E todo \in Intents(role) :
        work' = IF todo = <<>> THEN After(role) ELSE Work(role, todo)
    /\ UNCHANGED <<log, day, scenario, rogue, streak, inbox, standing, grants, human>>

\* What is left of the role's intents, then the next role.
Onward(role) == IF Len(work.todo) = 1 THEN After(role) ELSE Work(role, Tail(work.todo))
Acting(role) == work.at = role /\ work.todo # <<>>

\* Mutant: an order is placed whatever the books say now.
SkippedPaymentsOnly(i) == i.action \in {"pay", "freeze_spend"} /\ Books(log).frozen

\* Spending, and freezing it again, is skipped when it is frozen by now.
Skipped(i) == i.action \in {"pay", "purchase_order", "freeze_spend"} /\ Books(log).frozen

SkipIntent(role) ==
    /\ Acting(role) /\ Skipped(Head(work.todo))
    /\ work' = Onward(role)
    /\ UNCHANGED <<log, day, scenario, rogue, streak, inbox, standing, grants, human>>

\* The refusals of all roles make one streak; the third pauses a rogue SalesBot.
RefuseIntent(role) ==
    LET pause == rogue /\ role = "salesbot" /\ streak + 1 >= RogueLimit
    IN  /\ Acting(role) /\ ~Skipped(Head(work.todo))
        /\ Verdict(role, Head(work.todo)) = "refuse"
        /\ streak' = streak + 1
        /\ Posts(IF pause THEN <<By("tower", Plain("role_paused", <<role>>))>> ELSE <<>>, Onward(role))
        /\ UNCHANGED <<day, scenario, rogue, inbox, standing, grants>>

\* The inbox first, then the event.
EscalateIntent(role) ==
    /\ Acting(role) /\ ~Skipped(Head(work.todo))
    /\ Verdict(role, Head(work.todo)) = "escalate"
    /\ inbox' = Append(inbox, "pending")
    /\ Posts(<<By(role, Plain("escalation_raised", <<Len(inbox) + 1>>))>>, Onward(role))
    /\ UNCHANGED <<day, scenario, rogue, streak, standing, grants>>

ApplyIntent(role) ==
    /\ Acting(role) /\ ~Skipped(Head(work.todo))
    /\ Verdict(role, Head(work.todo)) = "allow"
    /\ Posts(Effects(role, Head(work.todo)), Onward(role))
    /\ UNCHANGED <<day, scenario, rogue, streak, inbox, standing, grants>>

\* Finance looks again at what it has changed; nothing gates this freeze.
FreezeAgain ==
    LET b == Books(log)
    IN  /\ work.at = "refreeze"
        /\ Posts(IF RunwayBreached(b) /\ ~b.frozen
                 THEN <<By("financebot", Plain("spend_frozen", <<>>))>> ELSE <<>>,
                 Work("chief", <<>>))
        /\ UNCHANGED <<day, scenario, rogue, streak, inbox, standing, grants>>

\* parse_directive(), of whatever the model wrote: of what it lets pass only a
\* freeze moves the books.
DirectiveEffects == {<<>>, <<By("chiefofstaff", Plain("spend_frozen", <<>>))>>}

\* The chief rules, and the day is over.
ChiefAndTick ==
    /\ work.at = "chief"
    /\ \E freeze \in DirectiveEffects :
        Posts(<<By("chiefofstaff", Plain("directive_proposed", <<>>))>> \o freeze
              \o <<By("chiefofstaff", Plain("directive_ruled", <<>>)), By("system", Plain("day_ticked", <<>>))>>,
              AtRest)
    /\ UNCHANGED <<day, scenario, rogue, streak, inbox, standing, grants>>

-----------------------------------------------------------------------------
(* resolve_inbox() *)

Rulings == Cardinality({id \in DOMAIN inbox : inbox[id] = "resolved"})

\* Mutant: it is not asked whether the escalation is resolved already.
ResolveMarkAgain ==
    /\ human = Nobody
    /\ \E id \in DOMAIN inbox :
        /\ inbox' = [inbox EXCEPT ![id] = "resolved"]
        /\ human' = [at |-> "marked", id |-> id, seq |-> 0, day |-> day]
    /\ UNCHANGED <<log, day, scenario, rogue, streak, standing, grants, work>>

\* Mutant: the inbox is left as it was.
ResolveMarkLogOnly ==
    /\ human = Nobody /\ Rulings < MaxRulings
    /\ \E id \in DOMAIN inbox :
        /\ inbox[id] = "pending"
        /\ human' = [at |-> "marked", id |-> id, seq |-> 0, day |-> day]
    /\ UNCHANGED <<log, day, scenario, rogue, streak, inbox, standing, grants, work>>

\* The item is resolved in the inbox ...
ResolveMark ==
    /\ human = Nobody /\ Rulings < MaxRulings
    /\ \E id \in DOMAIN inbox :
        /\ inbox[id] = "pending"
        /\ inbox' = [inbox EXCEPT ![id] = "resolved"]
        /\ human' = [at |-> "marked", id |-> id, seq |-> 0, day |-> day]
    /\ UNCHANGED <<log, day, scenario, rogue, streak, standing, grants, work>>

\* ... the event gets the day, as it was read at any moment since, and its number ...
ResolveNumber ==
    /\ human.at = "marked"
    /\ \E d \in human.day .. day :
        human' = [human EXCEPT !.at = "numbered", !.seq = Len(log), !.day = d]
    /\ UNCHANGED <<log, day, scenario, rogue, streak, inbox, standing, grants, work>>

\* ... and is appended, unless the number is taken: then the request fails, and the
\* log never hears of the resolution.
ResolveAppend ==
    /\ human.at = "numbered"
    /\ log' = IF human.seq = Len(log) THEN Append(log, Resolution(human.id, human.day)) ELSE log
    /\ human' = Nobody
    /\ UNCHANGED <<day, scenario, rogue, streak, inbox, standing, grants, work>>

-----------------------------------------------------------------------------
(* Operators. *)

\* run_cash_crunch() and inject_rogue_sales()
Arm ==
    /\ \/ scenario' = "cash_crunch" /\ UNCHANGED rogue
       \/ rogue' = TRUE /\ UNCHANGED scenario
    /\ UNCHANGED <<log, day, streak, inbox, standing, grants, work, human>>

\* Credentials of a role are issued or revoked in TrustCore.
Regrant(role) ==
    /\ grants < MaxGrants
    /\ grants' = grants + 1
    /\ \E s \in Standings[role] \ {standing[role]} : standing' = [standing EXCEPT ![role] = s]
    /\ UNCHANGED <<log, day, scenario, rogue, streak, inbox, work, human>>

\* seed_demo(), which resets first, while nothing else is in flight.
Seed ==
    /\ work = AtRest /\ human = Nobody
    /\ log' = [n \in DOMAIN Opening |-> On(0, Opening[n])]
    /\ day' = 0
    /\ scenario' \in Scenarios
    /\ rogue' = FALSE /\ streak' = 0
    /\ inbox' = <<>>
    /\ standing' = Seeded
    /\ UNCHANGED <<grants, work, human>>

CompanyInit ==
    /\ log = [n \in DOMAIN Opening |-> On(0, Opening[n])]
    /\ day = 0
    /\ scenario \in Scenarios
    /\ rogue = FALSE /\ streak = 0
    /\ inbox = <<>>
    /\ standing = Seeded
    /\ grants = 0
    /\ work = AtRest
    /\ human = Nobody

CompanyNext ==
    \/ BeginDay \/ WorldTick \/ FreezeAgain \/ ChiefAndTick
    \/ \E role \in RoleNames :
        \/ PlanRole(role) \/ SkipIntent(role) \/ RefuseIntent(role)
        \/ EscalateIntent(role) \/ ApplyIntent(role) \/ Regrant(role)
    \/ ResolveMark \/ ResolveNumber \/ ResolveAppend
    \/ Arm \/ Seed

CompanySpec == CompanyInit /\ [][CompanyNext]_companyVars

-----------------------------------------------------------------------------

EventKind ==
    {"lead_arrived", "quote_sent", "deal_won", "deal_lost", "invoice_issued", "invoice_collected",
     "po_raised", "po_received", "bill_received", "bill_paid", "spend_frozen", "role_paused",
     "escalation_raised", "escalation_resolved", "directive_proposed", "directive_ruled",
     "day_ticked"}
Emitters == RoleNames \cup {"world", "human", "tower", "chiefofstaff", "system"}
Places == RoleNames \cup {"rest", "world", "refreeze", "chief"}

\* The variables hold what the code stores in them: the log is in the order of its
\* days but for the resolutions, which may come late; only a role has intents left
\* to carry out, and a resolution in flight is in the inbox before it is in the log.
CompanyTypeOK ==
    /\ \A n \in DOMAIN log :
        /\ log[n].day \in 0 .. day
        /\ \A m \in DOMAIN log : m < n /\ log[n].e.kind # "escalation_resolved" => log[m].day <= log[n].day
        /\ log[n].e.kind \in EventKind /\ log[n].e.by \in Emitters
        /\ log[n].e.amount \in Nat /\ log[n].e.units \in Nat
    /\ day \in 0 .. MaxDay /\ grants \in 0 .. MaxGrants /\ streak \in Nat
    /\ scenario \in Scenarios /\ rogue \in BOOLEAN
    /\ inbox \in Seq({"pending", "resolved"})
    /\ \A r \in RoleNames : standing[r] \in Standings[r]
    /\ work.at \in Places /\ (work.todo # <<>> => work.at \in RoleNames)
    /\ human.at \in {"rest", "marked", "numbered"}
    /\ human.at # "rest" => human.id \in DOMAIN inbox /\ inbox[human.id] = "resolved"
    /\ human.day \in 0 .. day

KindAt(n) == log[n].e.kind
Of(kinds) == {n \in DOMAIN log : KindAt(n) \in kinds}

\* What makes a payment or a collection due.
DueBy == [bill_paid |-> {"po_received", "bill_received"}, invoice_collected |-> {"invoice_issued"}]

\* Money moves once: what the company pays or collects was billed, or invoiced, anew
\* since it last moved, also when a day has broken off after some of its events.
SettledOnce ==
    \A m, n \in Of(DOMAIN DueBy) :
        m < n /\ log[n].e.by # "world" /\ KindAt(m) = KindAt(n) /\ log[m].e.ref = log[n].e.ref =>
            \E k \in Of(DueBy[KindAt(n)]) : m < k /\ k < n /\ log[k].e.ref = log[n].e.ref

\* Frozen means frozen: after a freeze, whoever declared it and whenever the other
\* roles made their plans, the company orders nothing and pays nothing; the world
\* may still take its money.
FrozenMeansFrozen ==
    \A m \in Of({"spend_frozen"}), n \in Of({"po_raised", "po_received", "bill_paid"}) :
        m < n => KindAt(n) = "bill_paid" /\ log[n].e.by = "world"

\* A replay shows the day as it ended: what is emitted after a day was over, by a
\* human or by a day that broke off, never changes what its replay shows.
ReplayShowsTheDay ==
    \A n \in Of({"day_ticked"}) : Replay(log[n].day) = Books(SubSeq(log, 1, n))

\* The log says nothing of the inbox that is not so, and nothing twice.  (The
\* converse does not hold: an item may be raised or resolved and never logged.)
LogNeverOutrunsInbox ==
    LET item(n) == log[n].e.ref[1]
    IN  /\ \A n \in Of({"escalation_raised"}) : item(n) \in DOMAIN inbox
        /\ \A n \in Of({"escalation_resolved"}) : inbox[item(n)] = "resolved"
        /\ \A m, n \in Of(InboxKinds) :
            KindAt(m) = KindAt(n) /\ item(m) = item(n) => m = n

=============================================================================
