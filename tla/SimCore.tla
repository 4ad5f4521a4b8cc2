------------------------------- MODULE SimCore -------------------------------
(***************************************************************************)
(* SimService (core/simcore/application/services.py): simulate a purchase  *)
(* on a fork, execute it on the live stores, re-check the budget, escalate *)
(* and roll back.                                                          *)
(*                                                                         *)
(* The handlers of api/main.py are plain functions that the server runs in *)
(* a thread pool, and the service takes no lock.  So each request is run   *)
(* by a worker in several steps, and the steps of different workers        *)
(* interleave.  A step ends where the request calls another component (the *)
(* trust service, the ledger, the simulation store); such a call is one    *)
(* atomic step.  A record is a mutable object that its store and all the   *)
(* requests share, so what one request writes the others see at once.      *)
(***************************************************************************)
EXTENDS BudgetLedger

CONSTANTS
    Workers,    \* threads that serve requests
    Sims,       \* bound: the simulation ids
    Amounts,    \* the amounts that are proposed
    HoldAmount, \* the amount of a hold by another actor
    MaxHolds,   \* bound: holds on one book
    MaxBooks    \* bound: books, that is resets + 1

\* The API takes amounts above zero only.
ASSUME SimAssumption ==
    /\ IsFiniteSet(Workers)
    /\ Amounts \subseteq Nat \ {0}
    /\ HoldAmount \in Nat \ {0}
    /\ MaxBooks \in Nat \ {0}

VARIABLES
    record,     \* sim id -> the record object
    stored,     \* the ids that the simulation store knows
    granted,    \* the requester has a valid purchase grant (TrustCore)
    audit,      \* the receipts of _audit() that name a simulation (TrustCore)
    request,    \* worker -> the request it serves
    begun,      \* history: sim id -> how many execute requests found it pending
    amid        \* history: the simulations executed on a ledger that a reset had
                \* just put in place, its record store still to be emptied

history == <<begun, amid>>
simVars == <<ledgerVars, record, stored, granted, audit, request, begun, amid>>

Status == {"none", "pending", "rejected", "executed", "escalated", "rolled_back"}

\* executed_entry: a place in a book, or nothing spent.
At(b, n) == [book |-> b, place |-> n]
Unspent == At(0, NoEntry)

NoRecord == [status |-> "none", amount |-> 0, spent |-> Unspent]

Receipt(action, s) == [action |-> action, sim |-> s]

\* What a request holds in hand between its steps.
Serving(at, s, b, entry) ==
    [at |-> at, sim |-> s, book |-> b, decision |-> "none", entry |-> entry, post |-> "none"]

Idle == Serving("idle", "none", 0, Unspent)

IsAt(w, place) == request[w].at = place
Goes(w, place) == request' = [request EXCEPT ![w].at = place]
Ends(w) == request' = [request EXCEPT ![w] = Idle]

\* TrustService.decide() on a purchase: the grant covers every proposed amount
\* and the requester has completed tasks on record.
Decide == IF granted THEN "allow" ELSE "refuse"

-----------------------------------------------------------------------------

\* simulate(): the pipeline on a fork; only the record is new, and what it
\* predicts is for display.
Simulate(w) ==
    /\ IsAt(w, "idle")
    /\ \E s \in Sims, amount \in Amounts :
        /\ record[s].status = "none"
        /\ record' = [record EXCEPT ![s] =
                [status |-> "pending", amount |-> amount, spent |-> Unspent]]
        /\ stored' = stored \cup {s}
    /\ UNCHANGED <<ledgerVars, granted, audit, request, history>>

\* Mutant: a rejected record is cleared but stays in the store.
RejectCleared(w) ==
    /\ IsAt(w, "idle")
    /\ \E s \in stored :
        /\ record[s].status = "pending"
        /\ record' = [record EXCEPT ![s] = NoRecord]
    /\ UNCHANGED <<ledgerVars, stored, granted, audit, request, history>>

\* reject()
Reject(w) ==
    /\ IsAt(w, "idle")
    /\ \E s \in stored :
        /\ record[s].status = "pending"
        /\ record' = [record EXCEPT ![s].status = "rejected"]
    /\ UNCHANGED <<ledgerVars, stored, granted, audit, request, history>>

\* execute(): the record must be pending ...
ExecuteBegin(w) ==
    /\ IsAt(w, "idle")
    /\ \E s \in stored :
        /\ record[s].status = "pending"
        /\ request' = [request EXCEPT ![w] = Serving("take", s, 0, Unspent)]
        /\ begun' = [begun EXCEPT ![s] = @ + 1]
    /\ UNCHANGED <<ledgerVars, record, stored, granted, audit, amid>>

\* A reset has replaced the ledger and not yet emptied the store.
HalfReset == \E w \in Workers : IsAt(w, "resetStore")

\* ... and the ledger object is the one that the ledger store holds by now.
ExecuteTake(w) ==
    /\ IsAt(w, "take")
    /\ request' = [request EXCEPT ![w] = [@ EXCEPT !.at = "decide", !.book = book]]
    /\ amid' = IF HalfReset THEN amid \cup {request[w].sim} ELSE amid
    /\ UNCHANGED <<ledgerVars, record, stored, granted, audit, begun>>

\* run_purchase(): the live decision ...
ExecuteDecide(w) ==
    /\ IsAt(w, "decide")
    /\ request' = [request EXCEPT ![w] =
            [@ EXCEPT !.at = "spend", !.decision = Decide]]
    /\ UNCHANGED <<ledgerVars, record, stored, granted, audit, history>>

\* ... and, only on allow, the spend; on a book that a reset has put aside it is
\* an entry nobody can see.
ExecuteSpend(w) ==
    LET r == request[w]
    IN  /\ IsAt(w, "spend")
        /\ IF r.decision = "allow" /\ r.book = book
           THEN Spend(record[r.sim].amount, r.sim)
           ELSE UNCHANGED ledgerVars
        /\ request' = [request EXCEPT ![w] = [@ EXCEPT !.at = "check",
                !.entry = IF r.decision # "allow" THEN Unspent
                          ELSE IF r.book = book THEN At(book, Len(ledger) + 1)
                          ELSE At(r.book, NoEntry)]]
        /\ UNCHANGED <<record, stored, granted, audit, history>>

\* The entry is noted on the record and the live budget is re-checked.
ExecuteCheck(w) ==
    LET r == request[w]
    IN  /\ IsAt(w, "check")
        /\ record' = [record EXCEPT ![r.sim].spent = r.entry]
        /\ request' = [request EXCEPT ![w] =
                [@ EXCEPT !.at = "conclude", !.post = IF OverLimit THEN "violated" ELSE "ok"]]
        /\ UNCHANGED <<ledgerVars, stored, granted, audit, history>>

\* Mutant: a breach is left for the next check to see.
ExecuteConcludeQuiet(w) ==
    LET r == request[w]
    IN  /\ IsAt(w, "conclude")
        /\ record' = [record EXCEPT ![r.sim].status = "executed"]
        /\ stored' = stored \cup {r.sim}
        /\ Ends(w)
        /\ UNCHANGED <<ledgerVars, granted, audit, history>>

\* The status is set and the record saved, whatever it has become meanwhile.
ExecuteConclude(w) ==
    LET r == request[w]
    IN  /\ IsAt(w, "conclude")
        /\ record' = [record EXCEPT ![r.sim].status =
                        IF r.post = "violated" THEN "escalated" ELSE "executed"]
        /\ audit' = IF r.post = "violated" THEN audit \cup {Receipt("escalate", r.sim)} ELSE audit
        /\ stored' = stored \cup {r.sim}
        /\ Ends(w)
        /\ UNCHANGED <<ledgerVars, granted, history>>

\* rollback(): something must have been executed; its entry is read here.
RollbackBegin(w) ==
    /\ IsAt(w, "idle")
    /\ \E s \in stored :
        /\ record[s].status \in {"executed", "escalated"}
        /\ request' = [request EXCEPT ![w] =
                Serving("refund", s, 0, record[s].spent)]
    /\ UNCHANGED <<ledgerVars, record, stored, granted, audit, history>>

Refunds(w) == request' = [request EXCEPT ![w] = [@ EXCEPT !.at = "append", !.book = book]]

\* Mutant: only a breach is paid back.
RollbackLookupEscalated(w) ==
    LET r == request[w]
    IN  /\ IsAt(w, "refund")
        /\ IF r.entry = Unspent \/ record[r.sim].status = "executed" THEN Goes(w, "revoke")
           ELSE IF r.entry.book = book /\ Refundable(r.entry.place) THEN Refunds(w)
           ELSE Ends(w)
        /\ UNCHANGED <<ledgerVars, record, stored, granted, audit, history>>

\* refund() looks the entry up in the live ledger; when the ledger refuses it the
\* request fails, the record as it is.
RollbackLookup(w) ==
    LET r == request[w]
    IN  /\ IsAt(w, "refund")
        /\ IF r.entry = Unspent THEN Goes(w, "revoke")
           ELSE IF r.entry.book = book /\ Refundable(r.entry.place) THEN Refunds(w)
           ELSE Ends(w)
        /\ UNCHANGED <<ledgerVars, record, stored, granted, audit, history>>

\* The refund is appended to the ledger that was looked at, which a reset may have
\* put aside since.
RollbackAppend(w) ==
    LET r == request[w]
    IN  /\ IsAt(w, "append")
        /\ IF r.book = book THEN Refund(r.entry.place, r.sim) ELSE UNCHANGED ledgerVars
        /\ Goes(w, "revoke")
        /\ UNCHANGED <<record, stored, granted, audit, history>>

\* Every valid grant of the requester is revoked.
RollbackRevoke(w) ==
    /\ IsAt(w, "revoke")
    /\ granted' = FALSE
    /\ Goes(w, "concludeRollback")
    /\ UNCHANGED <<ledgerVars, record, stored, audit, history>>

RollbackConclude(w) ==
    /\ IsAt(w, "concludeRollback")
    /\ record' = [record EXCEPT ![request[w].sim].status = "rolled_back"]
    /\ audit' = audit \cup {Receipt("rollback", request[w].sim)}
    /\ stored' = stored \cup {request[w].sim}
    /\ Ends(w)
    /\ UNCHANGED <<ledgerVars, granted, history>>

\* place_hold(): another actor's hold on the shared budget, not checked.
Hold(w) ==
    /\ IsAt(w, "idle")
    /\ Cardinality({n \in DOMAIN ledger : ledger[n].kind = "hold"}) < MaxHolds
    /\ PlaceHold(HoldAmount, "other")
    /\ UNCHANGED <<record, stored, granted, audit, request, history>>

\* reset(): a fresh ledger ...
ResetLedger(w) ==
    /\ IsAt(w, "idle")
    /\ book < MaxBooks
    /\ NewBook
    /\ request' = [request EXCEPT ![w] = Serving("resetStore", "none", 0, Unspent)]
    /\ UNCHANGED <<record, stored, granted, audit, history>>

\* ... and then an empty record store; requests in flight keep what they hold.
ResetStore(w) ==
    /\ IsAt(w, "resetStore")
    /\ stored' = {}
    /\ Ends(w)
    /\ UNCHANGED <<ledgerVars, record, granted, audit, history>>

\* An issuer grants the requester a new authority (bound: not in the last book).
Grant ==
    /\ ~granted
    /\ book < MaxBooks
    /\ granted' = TRUE
    /\ UNCHANGED <<ledgerVars, record, stored, audit, request, history>>

SimInit ==
    /\ LedgerInit
    /\ record = [s \in Sims |-> NoRecord]
    /\ stored = {}
    /\ granted = TRUE
    /\ audit = {}
    /\ request = [w \in Workers |-> Idle]
    /\ begun = [s \in Sims |-> 0]
    /\ amid = {}

SimNext ==
    \/ \E w \in Workers :
        \/ Simulate(w) \/ Reject(w) \/ Hold(w) \/ ResetLedger(w) \/ ResetStore(w)
        \/ ExecuteBegin(w) \/ ExecuteTake(w) \/ ExecuteDecide(w) \/ ExecuteSpend(w)
        \/ ExecuteCheck(w) \/ ExecuteConclude(w)
        \/ RollbackBegin(w) \/ RollbackLookup(w) \/ RollbackAppend(w)
        \/ RollbackRevoke(w) \/ RollbackConclude(w)
    \/ Grant

SimSpec == SimInit /\ [][SimNext]_simVars

-----------------------------------------------------------------------------

Place == [book : 0 .. MaxBooks, place : Nat]
Record == [status : Status, amount : Nat, spent : Place]
Executing == {"take", "decide", "spend", "check", "conclude"}
RollingBack == {"refund", "append", "revoke", "concludeRollback"}
Stage == {"idle", "resetStore"} \cup Executing \cup RollingBack
Request == [at : Stage, sim : Sims \cup {"none"}, book : 0 .. MaxBooks,
            decision : {"none", "allow", "refuse"}, entry : Place,
            post : {"none", "ok", "violated"}]

OnSim(w) == request[w].at \in Executing \cup RollingBack

\* The variables hold what the code stores in them; a request that executes or
\* rolls back has a simulation in hand, one that is about to refund has found a
\* commitment, and the store knows proposed simulations only.
SimTypeOK ==
    /\ LedgerTypeOK(Sims \cup {"other"})
    /\ book <= MaxBooks
    /\ record \in [Sims -> Record]
    /\ stored \subseteq Sims
    /\ granted \in BOOLEAN
    /\ audit \subseteq [action : {"escalate", "rollback"}, sim : Sims]
    /\ request \in [Workers -> Request]
    /\ amid \subseteq Sims
    /\ \A w \in Workers :
        /\ OnSim(w) => request[w].sim \in Sims
        /\ request[w].book <= book
        /\ IsAt(w, "append") /\ request[w].book = book =>
                IsCommitment(request[w].entry.place)
    /\ \A s \in stored : record[s].status # "none"

AtRest == \A w \in Workers : IsAt(w, "idle")

SpendsOf(s) == {n \in DOMAIN ledger : ledger[n].kind = "spend" /\ ledger[n].by = s}

\* Nothing is given back that was not committed: a refund compensates an earlier
\* spend or hold with exactly its amount.  And a commitment is not given back
\* again and again: refund() looks and appends without a lock, so rollbacks that
\* are under way at once may each append one, but who looks after the first is
\* refused, however often the simulation has been executed or rolled back.  So
\* the refunds of one commitment are as many as there are workers, at most.
RefundsAreBounded ==
    /\ \A n \in DOMAIN ledger :
        ledger[n].kind = "refund" =>
            /\ IsCommitment(ledger[n].of)
            /\ ledger[n].of < n
            /\ ledger[n].amount = ledger[ledger[n].of].amount
    /\ \A n \in DOMAIN ledger : Cardinality(RefundsOf(n)) <= Cardinality(Workers)

\* The safety net holds under races: when no request is in flight and the budget
\* is over its limit, there is an escalation receipt for the spend that came
\* last, unless a hold, which nobody checks, came after it.  (The status of the
\* record is no witness: a second execution may overwrite "escalated".)
OverspendIsFlagged ==
    AtRest /\ OverLimit =>
        LET last == CHOOSE n \in Outstanding : \A m \in Outstanding : m <= n
        IN  ledger[last].kind = "spend" =>
                Receipt("escalate", ledger[last].by) \in audit

\* Nothing is spent for good by accident: when no request is in flight, a spend
\* that counts against the budget and was executed by one request only is the
\* executed entry of a record that rollback() accepts, and the store knows the
\* record; once rolled back it counts no more.  The exception is an execution
\* that a reset overtakes: it spends in the new ledger, and the record is wiped
\* when the reset comes to the store.
SpendCanBeRolledBack ==
    AtRest =>
        \A s \in Sims : begun[s] = 1 =>
            \A n \in SpendsOf(s) \cap Outstanding :
                /\ s \in stored \/ s \in amid
                /\ record[s].status \in {"executed", "escalated"}
                /\ record[s].spent = At(book, n)

-----------------------------------------------------------------------------

\* What the tests say of execute ("double execute rejected"): a simulation is
\* spent at most once.
ExecutedAtMostOnce == \A s \in Sims : Cardinality(SpendsOf(s)) <= 1

=============================================================================
