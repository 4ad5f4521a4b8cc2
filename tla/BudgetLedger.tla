---------------------------- MODULE BudgetLedger ----------------------------
(***************************************************************************)
(* The shared budget of SimCore: core/simcore/domain/ledger.py.  Spends,   *)
(* holds and refunds are appended; a refund reverses one spend or hold;    *)
(* what is committed is derived from the entries.  An entry is known by    *)
(* its place in the ledger; resetting the store starts a new book.  The     *)
(* service takes no lock: a refund looks and appends in two steps.          *)
(***************************************************************************)
EXTENDS Naturals, Sequences, FiniteSetsExt

CONSTANT Limit      \* the budget's limit

ASSUME LimitAssumption == Limit \in Nat \ {0}

VARIABLES
    ledger,     \* BudgetLedger.entries of the current book
    book        \* which book the ledger store holds: a reset starts another

ledgerVars == <<ledger, book>>

NoEntry == 0

\* `of` is the place of the entry that a refund compensates.
Entry(kind, amount, by, of) == [kind |-> kind, amount |-> amount, by |-> by, of |-> of]

LedgerTypeOK(who) ==
    /\ ledger \in Seq([kind : {"spend", "hold", "refund"}, amount : Nat \ {0},
                       by : who, of : Nat])
    /\ book \in Nat \ {0}

IsCommitment(n) == n \in DOMAIN ledger /\ ledger[n].kind \in {"spend", "hold"}
RefundsOf(n) == {m \in DOMAIN ledger : ledger[m].kind = "refund" /\ ledger[m].of = n}
Outstanding == {n \in DOMAIN ledger : IsCommitment(n) /\ RefundsOf(n) = {}}

\* projected_balance(): spent_total() + active_holds_total()
Committed == MapThenSumSet(LAMBDA n : ledger[n].amount, Outstanding)

\* invariant_violations() is not empty.
OverLimit == Committed > Limit

LedgerInit == ledger = <<>> /\ book = 1

Spend(amount, by) ==
    /\ amount > 0
    /\ ledger' = Append(ledger, Entry("spend", amount, by, NoEntry))
    /\ UNCHANGED book

PlaceHold(amount, by) ==
    /\ amount > 0
    /\ ledger' = Append(ledger, Entry("hold", amount, by, NoEntry))
    /\ UNCHANGED book

\* Mutant: a refund does not look for an earlier refund of the same entry.
RefundableAgain(n) == IsCommitment(n)

\* What refund() looks for first: it raises for an unknown entry, for a refund,
\* and for an entry that it finds refunded already.
Refundable(n) == IsCommitment(n) /\ RefundsOf(n) = {}

\* What it does then, without a lock and whatever has been appended meanwhile.
Refund(n, by) ==
    /\ ledger' = Append(ledger, Entry("refund", ledger[n].amount, by, n))
    /\ UNCHANGED book

\* A fresh BudgetLedger in the store.
NewBook == ledger' = <<>> /\ book' = book + 1

=============================================================================
