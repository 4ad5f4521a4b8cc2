---------------------------- MODULE SimCoreProofs ----------------------------
(***************************************************************************)
(* Theorems about SimCore, for any number of workers, simulations, amounts *)
(* and resets; no order of the steps of racing requests is assumed.        *)
(* RefundsAreBounded counts the refunds of a commitment together with the  *)
(* requests that are about to append one (RefundsAreCovered).              *)
(* SpendCanBeRolledBack rests on the story of each simulation that one     *)
(* request executed (StoriesHold) and on what a reset that is half done    *)
(* finds in the new ledger (HalfResetIsMarked), and OverspendIsFlagged on  *)
(* an invariant that puts a flag, or a request about to flag, behind every *)
(* spend that overdrew the budget (SpendsAreFlagged).                      *)
(***************************************************************************)
EXTENDS SimCore, FoldLemmas, TLAPS

Who == Sims \cup {"other"}
EntryType == [kind : {"spend", "hold", "refund"}, amount : Nat \ {0}, by : Who, of : Nat]

\* What one step may do to the ledger.
LedgerStep ==
    \/ \E amount \in Nat \ {0}, by \in Sims : Spend(amount, by)
    \/ PlaceHold(HoldAmount, "other")
    \/ \E n \in Nat, by \in Sims : IsCommitment(n) /\ Refund(n, by)
    \/ NewBook /\ book < MaxBooks
    \/ UNCHANGED ledgerVars

-----------------------------------------------------------------------------

\* A step of the ledger keeps its types.
LEMMA TypedLedgerStep ==
    ASSUME LedgerTypeOK(Who), book <= MaxBooks, LedgerStep
    PROVE  LedgerTypeOK(Who)' /\ book' <= MaxBooks
<1> USE SimAssumption DEF LedgerTypeOK
<1>1. ASSUME NEW amount \in Nat \ {0}, NEW by \in Sims, Spend(amount, by)
      PROVE  LedgerTypeOK(Who)' /\ book' <= MaxBooks
  BY <1>1 DEF Spend, Entry, NoEntry, Who
<1>2. CASE PlaceHold(HoldAmount, "other")
  BY <1>2 DEF PlaceHold, Entry, NoEntry, Who
<1>3. ASSUME NEW n \in Nat, NEW by \in Sims, IsCommitment(n), Refund(n, by)
      PROVE  LedgerTypeOK(Who)' /\ book' <= MaxBooks
  <2>1. n \in DOMAIN ledger /\ ledger' = Append(ledger, Entry("refund", ledger[n].amount, by, n))
    BY <1>3 DEF Refund, IsCommitment
  <2>2. ledger \in Seq(EntryType)
    BY DEF EntryType
  <2>3. ledger[n] \in EntryType
    BY <2>1, <2>2
  <2>4. Entry("refund", ledger[n].amount, by, n) \in EntryType
    BY <2>3 DEF Entry, EntryType, Who
  <2>5. ledger' \in Seq(EntryType)
    BY <2>1, <2>2, <2>4
  <2> QED BY <1>3, <2>5 DEF Refund, EntryType
<1>4. CASE NewBook /\ book < MaxBooks
  BY <1>4 DEF NewBook
<1>5. CASE UNCHANGED ledgerVars
  BY <1>5 DEF ledgerVars
<1> QED BY <1>1, <1>2, <1>3, <1>4, <1>5 DEF LedgerStep

-----------------------------------------------------------------------------

\* The part of the type invariant that the ledger does not settle.
RequestTypeOK ==
    /\ record \in [Sims -> Record]
    /\ stored \subseteq Sims
    /\ granted \in BOOLEAN
    /\ audit \subseteq [action : {"escalate", "rollback"}, sim : Sims]
    /\ request \in [Workers -> Request]
    /\ amid \subseteq Sims
    /\ \A w \in Workers : OnSim(w) => request[w].sim \in Sims
    /\ \A s \in stored : record[s].status # "none"

\* What each step of the service does to the ledger.
LEMMA StepMovesLedger ==
    ASSUME SimTypeOK, [SimNext]_simVars
    PROVE  LedgerStep
<1> USE SimAssumption
<1>1. ASSUME NEW w \in Workers, ExecuteSpend(w) PROVE LedgerStep
  <2>1. request[w].sim \in Sims
    BY <1>1 DEF ExecuteSpend, SimTypeOK, IsAt, OnSim, Executing
  <2>2. record[request[w].sim].amount \in Nat
    BY <2>1 DEF SimTypeOK, Record
  <2> QED BY <1>1, <2>1, <2>2 DEF ExecuteSpend, LedgerStep, Spend
<1>2. ASSUME NEW w \in Workers, RollbackAppend(w) PROVE LedgerStep
  <2>1. request[w].sim \in Sims
    BY <1>2 DEF RollbackAppend, SimTypeOK, IsAt, OnSim, RollingBack
  <2>2. request[w].entry.place \in Nat
    BY DEF SimTypeOK, Request, Place
  <2>3. request[w].book = book => IsCommitment(request[w].entry.place)
    BY <1>2 DEF SimTypeOK, RollbackAppend
  <2> QED BY <1>2, <2>1, <2>2, <2>3 DEF RollbackAppend, LedgerStep
<1>3. ASSUME NEW w \in Workers, Hold(w) PROVE LedgerStep
  BY <1>3 DEF Hold, LedgerStep
<1>4. ASSUME NEW w \in Workers, ResetLedger(w) PROVE LedgerStep
  BY <1>4 DEF ResetLedger, LedgerStep
<1>5. ASSUME NEW w \in Workers,
             \/ Simulate(w) \/ Reject(w) \/ ExecuteBegin(w) \/ ExecuteTake(w) \/ ExecuteDecide(w)
             \/ ExecuteCheck(w) \/ ExecuteConclude(w) \/ RollbackBegin(w) \/ RollbackLookup(w)
             \/ RollbackRevoke(w) \/ RollbackConclude(w) \/ ResetStore(w)
      PROVE  LedgerStep
  BY <1>5 DEF Simulate, Reject, ExecuteBegin, ExecuteTake, ExecuteDecide, ExecuteCheck,
              ExecuteConclude, RollbackBegin, RollbackLookup, RollbackRevoke, RollbackConclude,
              ResetStore, LedgerStep
<1>6. CASE Grant \/ UNCHANGED simVars
  BY <1>6 DEF Grant, simVars, LedgerStep
<1> QED BY <1>1, <1>2, <1>3, <1>4, <1>5, <1>6 DEF SimNext

\* Replacing one request keeps all of them requests.
LEMMA OneRequestMoves ==
    ASSUME request \in [Workers -> Request],
           \A v \in Workers : OnSim(v) => request[v].sim \in Sims,
           NEW w \in Workers, NEW q \in Request,
           q.at \in Executing \cup RollingBack => q.sim \in Sims,
           request' = [request EXCEPT ![w] = q]
    PROVE  /\ request' \in [Workers -> Request]
           /\ \A v \in Workers : OnSim(v)' => request'[v].sim \in Sims
<1> HIDE DEF Request, Executing, RollingBack
<1> QED BY DEF OnSim

\* A step of a request keeps the types.
LEMMA TypedRequestStep ==
    ASSUME SimTypeOK, [SimNext]_simVars
    PROVE  RequestTypeOK'
<1> USE SimAssumption DEF SimTypeOK, RequestTypeOK
<1>a. book \in 0 .. MaxBooks
  BY DEF LedgerTypeOK
<1>b. Idle \in Request /\ Unspent \in Place /\ ~(Idle.at \in Executing \cup RollingBack)
  BY DEF Idle, Serving, Request, Unspent, At, NoEntry, Place, Stage, Executing, RollingBack
<1>c. Len(ledger) \in Nat
  BY DEF LedgerTypeOK
<1>1. ASSUME NEW w \in Workers, Simulate(w) PROVE RequestTypeOK'
  <2>1. PICK s \in Sims, amount \in Amounts :
            /\ record' = [record EXCEPT ![s] =
                  [status |-> "pending", amount |-> amount, spent |-> Unspent]]
            /\ stored' = stored \cup {s}
    BY <1>1 DEF Simulate
  <2>2. [status |-> "pending", amount |-> amount, spent |-> Unspent] \in Record
    BY <1>b DEF Record, Status
  <2> QED BY <1>1, <2>1, <2>2 DEF Simulate, OnSim, history
<1>2. ASSUME NEW w \in Workers, Reject(w) PROVE RequestTypeOK'
  BY <1>2 DEF Reject, Record, Status, OnSim, history
<1>3. ASSUME NEW w \in Workers, ExecuteBegin(w) PROVE RequestTypeOK'
  <2>1. PICK s \in stored :
            request' = [request EXCEPT ![w] = Serving("take", s, 0, Unspent)]
    BY <1>3 DEF ExecuteBegin
  <2>2. /\ Serving("take", s, 0, Unspent) \in Request
        /\ Serving("take", s, 0, Unspent).sim \in Sims
    BY <1>b DEF Serving, Request, Stage, Executing
  <2>3. /\ request' \in [Workers -> Request]
        /\ \A v \in Workers : OnSim(v)' => request'[v].sim \in Sims
    BY <2>1, <2>2, OneRequestMoves
  <2> QED BY <1>3, <2>3 DEF ExecuteBegin
<1>4. ASSUME NEW w \in Workers, ExecuteTake(w) PROVE RequestTypeOK'
  <2> DEFINE q == [request[w] EXCEPT !.at = "decide", !.book = book]
  <2>1. request[w] \in Request /\ request[w].sim \in Sims
    BY <1>4 DEF ExecuteTake, IsAt, OnSim, Executing
  <2>2. q \in Request /\ q.sim = request[w].sim
    BY <1>a, <2>1 DEF Request, Stage, Executing
  <2>3. request' = [request EXCEPT ![w] = q]
    BY <1>4 DEF ExecuteTake
  <2> HIDE DEF q
  <2>4. /\ request' \in [Workers -> Request]
        /\ \A v \in Workers : OnSim(v)' => request'[v].sim \in Sims
    BY <2>1, <2>2, <2>3, OneRequestMoves
  <2>5. UNCHANGED <<record, stored, granted, audit>> /\ amid' \subseteq Sims
    BY <1>4, <2>1 DEF ExecuteTake
  <2> QED BY <2>4, <2>5
<1>5. ASSUME NEW w \in Workers, ExecuteDecide(w) PROVE RequestTypeOK'
  <2> DEFINE q == [request[w] EXCEPT !.at = "spend", !.decision = Decide]
  <2>1. Decide \in {"allow", "refuse"} /\ "spend" \in Stage
    BY DEF Decide, Stage, Executing
  <2>2. request[w] \in Request /\ request[w].sim \in Sims
    BY <1>5 DEF ExecuteDecide, IsAt, OnSim, Executing
  <2>3. q \in Request /\ q.sim = request[w].sim
    BY <2>1, <2>2 DEF Request
  <2>4. request' = [request EXCEPT ![w] = q]
    BY <1>5 DEF ExecuteDecide
  <2> HIDE DEF q
  <2>5. /\ request' \in [Workers -> Request]
        /\ \A v \in Workers : OnSim(v)' => request'[v].sim \in Sims
    BY <2>2, <2>3, <2>4, OneRequestMoves
  <2> QED BY <1>5, <2>5 DEF ExecuteDecide, history
<1>6. ASSUME NEW w \in Workers, ExecuteSpend(w) PROVE RequestTypeOK'
  <2> DEFINE r == request[w]
             e == IF r.decision # "allow" THEN Unspent
                  ELSE IF r.book = book THEN At(book, Len(ledger) + 1)
                  ELSE At(r.book, NoEntry)
             q == [r EXCEPT !.at = "check", !.entry = e]
  <2>1. r \in Request /\ r.sim \in Sims
    BY <1>6 DEF ExecuteSpend, IsAt, OnSim, Executing
  <2>2. r.book \in 0 .. MaxBooks
    BY <2>1 DEF Request
  <2>3. At(book, Len(ledger) + 1) \in Place /\ At(r.book, NoEntry) \in Place
    BY <1>a, <1>c, <2>2 DEF At, Place, NoEntry
  <2>4. e \in Place
    BY <1>b, <2>3
  <2>5. request' = [request EXCEPT ![w] = q]
    BY <1>6 DEF ExecuteSpend
  <2> HIDE DEF e
  <2>6. q \in Request /\ q.sim = r.sim
    BY <2>1, <2>4 DEF Request, Stage, Executing
  <2> HIDE DEF q
  <2>7. /\ request' \in [Workers -> Request]
        /\ \A v \in Workers : OnSim(v)' => request'[v].sim \in Sims
    BY <2>1, <2>5, <2>6, OneRequestMoves
  <2> QED BY <1>6, <2>7 DEF ExecuteSpend, history
<1>7. ASSUME NEW w \in Workers, ExecuteCheck(w) PROVE RequestTypeOK'
  <2> DEFINE r == request[w]
             c == IF OverLimit THEN "violated" ELSE "ok"
             q == [r EXCEPT !.at = "conclude", !.post = c]
  <2>1. r \in Request /\ r.sim \in Sims /\ r.entry \in Place
    BY <1>7 DEF ExecuteCheck, IsAt, Request, OnSim, Executing
  <2>2. c \in {"ok", "violated"}
    OBVIOUS
  <2>3. /\ request' = [request EXCEPT ![w] = q]
        /\ record' = [record EXCEPT ![r.sim].spent = r.entry]
    BY <1>7 DEF ExecuteCheck
  <2> HIDE DEF c
  <2>4. q \in Request /\ q.sim = r.sim
    BY <2>1, <2>2 DEF Request, Stage, Executing
  <2> HIDE DEF q
  <2>5. /\ request' \in [Workers -> Request]
        /\ \A v \in Workers : OnSim(v)' => request'[v].sim \in Sims
    BY <2>1, <2>3, <2>4, OneRequestMoves
  <2>6. record' \in [Sims -> Record] /\ \A s \in Sims : record'[s].status = record[s].status
    BY <2>1, <2>3 DEF Record
  <2> QED BY <1>7, <2>5, <2>6 DEF ExecuteCheck, history
<1>8. ASSUME NEW w \in Workers, RollbackBegin(w) PROVE RequestTypeOK'
  <2>1. PICK s \in stored :
            request' = [request EXCEPT ![w] = Serving("refund", s, 0, record[s].spent)]
    BY <1>8 DEF RollbackBegin
  <2>2. record[s].spent \in Place
    BY DEF Record
  <2>3. /\ Serving("refund", s, 0, record[s].spent) \in Request
        /\ Serving("refund", s, 0, record[s].spent).sim \in Sims
    BY <2>2 DEF Serving, Request, Stage, RollingBack
  <2>4. /\ request' \in [Workers -> Request]
        /\ \A v \in Workers : OnSim(v)' => request'[v].sim \in Sims
    BY <2>1, <2>3, OneRequestMoves
  <2> QED BY <1>8, <2>4 DEF RollbackBegin, history
<1>9. ASSUME NEW w \in Workers, RollbackLookup(w) \/ RollbackAppend(w) \/ RollbackRevoke(w)
      PROVE  RequestTypeOK'
  <2>1. request[w] \in Request /\ request[w].sim \in Sims
    BY <1>9 DEF RollbackLookup, RollbackAppend, RollbackRevoke, IsAt, OnSim, RollingBack
  <2>2. PICK q \in Request : /\ q.at \in Executing \cup RollingBack => q.sim \in Sims
                             /\ request' = [request EXCEPT ![w] = q]
    <3>1. \/ request' = [request EXCEPT ![w] = Idle]
          \/ \E place \in RollingBack : request' = [request EXCEPT ![w].at = place]
          \/ request' = [request EXCEPT ![w] = [@ EXCEPT !.at = "append", !.book = book]]
      BY <1>9 DEF RollbackLookup, RollbackAppend, RollbackRevoke, Goes, Ends, Refunds, RollingBack
    <3>2. \A place \in RollingBack : /\ [request[w] EXCEPT !.at = place] \in Request
                                     /\ [request[w] EXCEPT !.at = place].sim \in Sims
      BY <2>1 DEF Request, Stage
    <3>3. /\ [request[w] EXCEPT !.at = "append", !.book = book] \in Request
          /\ [request[w] EXCEPT !.at = "append", !.book = book].sim \in Sims
      BY <1>a, <2>1 DEF Request, Stage, RollingBack
    <3> QED BY <1>b, <3>1, <3>2, <3>3
  <2>3. /\ request' \in [Workers -> Request]
        /\ \A v \in Workers : OnSim(v)' => request'[v].sim \in Sims
    BY <2>2, OneRequestMoves
  <2> QED BY <1>9, <2>3 DEF RollbackLookup, RollbackAppend, RollbackRevoke, history
<1>10. ASSUME NEW w \in Workers,
              \/ ExecuteConclude(w) \/ RollbackConclude(w) \/ ResetLedger(w) \/ ResetStore(w)
       PROVE  RequestTypeOK'
  <2>1. PICK q \in Request : /\ q.at \in Executing \cup RollingBack => q.sim \in Sims
                             /\ request' = [request EXCEPT ![w] = q]
    <3>1. LET q == Serving("resetStore", "none", 0, Unspent)
          IN  q \in Request /\ ~(q.at \in Executing \cup RollingBack)
      BY <1>b DEF Serving, Request, Stage, Executing, RollingBack
    <3> QED BY <1>10, <1>b, <3>1 DEF ExecuteConclude, RollbackConclude, ResetLedger, ResetStore, Ends
  <2>2. /\ request' \in [Workers -> Request]
        /\ \A v \in Workers : OnSim(v)' => request'[v].sim \in Sims
    BY <2>1, OneRequestMoves
  <2>3. CASE ExecuteConclude(w) \/ RollbackConclude(w)
    <3>1. request[w].sim \in Sims
      BY <2>3 DEF ExecuteConclude, RollbackConclude, IsAt, OnSim, Executing, RollingBack
    <3> QED BY <2>2, <2>3, <3>1
            DEF ExecuteConclude, RollbackConclude, Record, Status, Receipt, history
  <2>4. CASE ResetLedger(w) \/ ResetStore(w)
    BY <2>2, <2>4 DEF ResetLedger, ResetStore, history
  <2> QED BY <1>10, <2>3, <2>4
<1>11. CASE (\E w \in Workers : Hold(w)) \/ Grant \/ UNCHANGED simVars
  BY <1>11 DEF Hold, Grant, simVars, OnSim, history
<1> QED BY <1>1, <1>2, <1>3, <1>4, <1>5, <1>6, <1>7, <1>8, <1>9, <1>10, <1>11 DEF SimNext

\* What a request holds of the ledger: the book it took is not newer than the
\* current one, and what it is about to refund is a commitment.
Holds(w) ==
    /\ request[w].book <= book
    /\ IsAt(w, "append") /\ request[w].book = book => IsCommitment(request[w].entry.place)

\* A commitment stays one as long as the book is the same.
LEMMA CommitmentsStay ==
    ASSUME LedgerTypeOK(Who), LedgerStep
    PROVE  /\ book' \in Nat /\ book <= book'
           /\ book' = book => \A n \in Nat : IsCommitment(n) => IsCommitment(n)'
<1>0. Len(ledger) \in Nat /\ DOMAIN ledger = 1 .. Len(ledger) /\ book \in Nat
  BY DEF LedgerTypeOK
<1>1. ASSUME NEW e, ledger' = Append(ledger, e), book' = book
      PROVE  /\ book' \in Nat /\ book <= book'
             /\ book' = book => \A n \in Nat : IsCommitment(n) => IsCommitment(n)'
  <2>1. DOMAIN ledger' = 1 .. Len(ledger) + 1 /\ \A n \in DOMAIN ledger : ledger'[n] = ledger[n]
    BY <1>0, <1>1 DEF LedgerTypeOK
  <2> QED BY <1>0, <1>1, <2>1 DEF IsCommitment
<1>2. CASE NewBook
  BY <1>0, <1>2 DEF NewBook
<1>3. CASE UNCHANGED ledgerVars
  BY <1>0, <1>3 DEF ledgerVars, IsCommitment
<1> QED BY <1>1, <1>2, <1>3 DEF LedgerStep, Spend, PlaceHold, Refund

\* A step keeps what the requests hold.
LEMMA HoldsStep ==
    ASSUME SimTypeOK, [SimNext]_simVars
    PROVE  \A v \in Workers : Holds(v)'
<1>0. /\ LedgerStep /\ LedgerTypeOK(Who) /\ request \in [Workers -> Request]
      /\ book \in Nat
  BY StepMovesLedger DEF SimTypeOK, Who, LedgerTypeOK
<1>1. /\ book' \in Nat /\ book <= book'
      /\ book' = book => \A n \in Nat : IsCommitment(n) => IsCommitment(n)'
  BY <1>0, CommitmentsStay
<1>2. \A v \in Workers : /\ Holds(v)
                         /\ request[v].book \in Nat /\ request[v].entry.place \in Nat
  BY <1>0, SimAssumption DEF SimTypeOK, Holds, Request, Place
<1>3. \A v \in Workers : request'[v] = request[v] => Holds(v)'
  BY <1>0, <1>1, <1>2 DEF Holds, IsAt
<1>4. ASSUME NEW w \in Workers, \A v \in Workers \ {w} : request'[v] = request[v],
             request'[w].book <= book', request'[w].at # "append"
      PROVE  \A v \in Workers : Holds(v)'
  BY <1>3, <1>4 DEF Holds, IsAt
<1>5. ASSUME NEW w \in Workers,
             \/ ExecuteBegin(w) \/ ExecuteConclude(w) \/ RollbackBegin(w) \/ RollbackConclude(w)
             \/ ResetLedger(w) \/ ResetStore(w)
      PROVE  \A v \in Workers : Holds(v)'
  <2>1. PICK at, s, e : at # "append" /\ request' = [request EXCEPT ![w] = Serving(at, s, 0, e)]
    BY <1>5 DEF ExecuteBegin, ExecuteConclude, RollbackBegin, RollbackConclude, ResetLedger, ResetStore,
                Ends, Idle, Stage, Executing, RollingBack
  <2>2. request'[w] = Serving(at, s, 0, e) /\ \A v \in Workers \ {w} : request'[v] = request[v]
    BY <1>0, <2>1
  <2>3. request'[w].book = 0 /\ request'[w].at # "append"
    BY <2>1, <2>2 DEF Serving
  <2>4. request'[w].book <= book'
    BY <1>1, <2>3
  <2> QED BY <1>4, <2>2, <2>3, <2>4
<1>6. ASSUME NEW w \in Workers,
             \/ ExecuteTake(w) \/ ExecuteDecide(w) \/ ExecuteSpend(w) \/ ExecuteCheck(w)
             \/ RollbackAppend(w) \/ RollbackRevoke(w)
      PROVE  \A v \in Workers : Holds(v)'
  <2>1. /\ \A v \in Workers \ {w} : request'[v] = request[v]
        /\ request'[w].book \in {book, request[w].book} /\ request'[w].at # "append"
    <3>1. request[w] \in Request
      BY <1>0
    <3>2. CASE ExecuteTake(w)
      BY <1>0, <3>1, <3>2 DEF ExecuteTake, Request
    <3>6. CASE ExecuteDecide(w)
      BY <1>0, <3>1, <3>6 DEF ExecuteDecide, Request
    <3>3. CASE ExecuteSpend(w)
      <4>1. PICK e : request' = [request EXCEPT ![w] = [@ EXCEPT !.at = "check", !.entry = e]]
        BY <3>3 DEF ExecuteSpend
      <4> QED BY <1>0, <3>1, <4>1 DEF Request
    <3>4. CASE ExecuteCheck(w)
      <4>1. PICK c : request' = [request EXCEPT ![w] = [@ EXCEPT !.at = "conclude", !.post = c]]
        BY <3>4 DEF ExecuteCheck
      <4> QED BY <1>0, <3>1, <4>1 DEF Request
    <3>5. CASE RollbackAppend(w) \/ RollbackRevoke(w)
      BY <1>0, <3>1, <3>5 DEF RollbackAppend, RollbackRevoke, Goes, Request
    <3> QED BY <1>6, <3>2, <3>3, <3>4, <3>5, <3>6
  <2>2. request'[w].book <= book'
    BY <1>0, <1>1, <1>2, <2>1 DEF Holds
  <2> QED BY <1>4, <2>1, <2>2
<1>7. ASSUME NEW w \in Workers, RollbackLookup(w) PROVE \A v \in Workers : Holds(v)'
  <2>0. request[w] \in Request /\ UNCHANGED <<ledger, book>>
    BY <1>0, <1>7 DEF RollbackLookup, ledgerVars
  <2>1. CASE Refunds(w) /\ IsCommitment(request[w].entry.place)
    <3>1. /\ \A v \in Workers \ {w} : request'[v] = request[v]
          /\ request'[w].book = book /\ request'[w].entry = request[w].entry
      BY <1>0, <2>0, <2>1 DEF Refunds, Request
    <3>2. IsCommitment(request[w].entry.place)'
      BY <2>0, <2>1, <3>1 DEF IsCommitment
    <3>3. Holds(w)'
      BY <1>0, <2>0, <3>1, <3>2 DEF Holds
    <3> QED BY <1>3, <3>1, <3>3
  <2>2. CASE Goes(w, "revoke") \/ Ends(w)
    <3>1. /\ \A v \in Workers \ {w} : request'[v] = request[v]
          /\ request'[w].book \in {0, request[w].book} /\ request'[w].at # "append"
      BY <1>0, <2>0, <2>2 DEF Goes, Ends, Idle, Serving, Request
    <3>2. request'[w].book <= book'
      BY <1>0, <1>1, <1>2, <3>1 DEF Holds
    <3> QED BY <1>4, <3>1, <3>2
  <2> QED BY <1>7, <2>1, <2>2 DEF RollbackLookup, Refundable
<1>8. ASSUME NEW w \in Workers, Simulate(w) \/ Reject(w) \/ Hold(w)
      PROVE  \A v \in Workers : Holds(v)'
  BY <1>3, <1>8 DEF Simulate, Reject, Hold
<1>9. CASE Grant \/ UNCHANGED simVars
  BY <1>3, <1>9 DEF Grant, simVars
<1> QED BY <1>5, <1>6, <1>7, <1>8, <1>9 DEF SimNext

\* The types hold at first ...
LEMMA SimTypeInit == SimInit => SimTypeOK
<1> SUFFICES ASSUME SimInit PROVE SimTypeOK
  OBVIOUS
<1>1. /\ NoRecord \in Record /\ Idle \in Request /\ Idle.at = "idle" /\ Idle.book = 0
      /\ "idle" \notin Executing \cup RollingBack
  BY SimAssumption DEF NoRecord, Record, Status, Unspent, At, NoEntry, Place, Idle,
                       Serving, Request, Stage, Executing, RollingBack
<1> QED BY <1>1, SimAssumption DEF SimInit, SimTypeOK, LedgerInit, LedgerTypeOK, IsAt, OnSim

\* ... and after every step.
LEMMA SimTypeStep == SimTypeOK /\ [SimNext]_simVars => SimTypeOK'
<1> SUFFICES ASSUME SimTypeOK, [SimNext]_simVars PROVE SimTypeOK'
  OBVIOUS
<1>1. LedgerTypeOK(Who)' /\ book' <= MaxBooks
  BY StepMovesLedger, TypedLedgerStep DEF SimTypeOK, Who
<1>2. RequestTypeOK'
  BY TypedRequestStep
<1>3. \A w \in Workers : Holds(w)'
  BY HoldsStep
<1> QED BY <1>1, <1>2, <1>3 DEF SimTypeOK, RequestTypeOK, Holds, Who

\* SimCore's variables always hold what the code stores in them; in particular a
\* request in flight always has a simulation in hand.
THEOREM SimTypeCorrect == SimSpec => []SimTypeOK
<1>1. SimInit => SimTypeOK BY SimTypeInit
<1>2. SimTypeOK /\ [SimNext]_simVars => SimTypeOK' BY SimTypeStep
<1> QED BY <1>1, <1>2, PTL DEF SimSpec

-----------------------------------------------------------------------------

(***************************************************************************)
(* RefundsAreBounded is not inductive: a request that has looked may append *)
(* later.  So the requests that are about to append a refund of an entry    *)
(* are counted with the refunds it has; a request joins them only as long   *)
(* as there is no refund, and leaves them when it appends one.              *)
(***************************************************************************)

RefundsCompensate ==
    \A n \in DOMAIN ledger :
        ledger[n].kind = "refund" =>
            /\ IsCommitment(ledger[n].of)
            /\ ledger[n].of < n
            /\ ledger[n].amount = ledger[ledger[n].of].amount

Appending(n) ==
    {w \in Workers : IsAt(w, "append") /\ request[w].book = book /\ request[w].entry.place = n}

Covered(n) == Cardinality(RefundsOf(n)) + Cardinality(Appending(n)) <= Cardinality(Workers)

RefundsAreCovered == RefundsCompensate /\ \A n \in DOMAIN ledger : Covered(n)

\* Where nothing has been refunded there is room for everybody; and where fewer
\* are about to append there is no more than before.
LEMMA RoomForAll ==
    ASSUME NEW R, NEW A, NEW B, IsFiniteSet(R), A \subseteq Workers, B \subseteq Workers,
           Cardinality(R) + Cardinality(A) <= Cardinality(Workers),
           R = {} \/ B \subseteq A
    PROVE  Cardinality(R) + Cardinality(B) <= Cardinality(Workers)
<1>1. /\ IsFiniteSet(A) /\ IsFiniteSet(B)
      /\ Cardinality(A) \in Nat /\ Cardinality(B) \in Nat /\ Cardinality(R) \in Nat
      /\ Cardinality(B) <= Cardinality(Workers) /\ Cardinality(Workers) \in Nat
  BY SimAssumption, FS_Subset, FS_CardinalityType
<1>2. CASE R = {}
  BY <1>1, <1>2, FS_EmptySet
<1>3. CASE B \subseteq A
  <2>1. Cardinality(B) <= Cardinality(A)
    BY <1>1, <1>3, FS_Subset
  <2> QED BY <1>1, <2>1
<1> QED BY <1>2, <1>3

\* One who was about to append does: one refund more, one request less.
LEMMA OneAppends ==
    ASSUME NEW R, NEW A, NEW x, NEW w \in A, IsFiniteSet(R), A \subseteq Workers,
           Cardinality(R) + Cardinality(A) <= Cardinality(Workers)
    PROVE  Cardinality(R \cup {x}) + Cardinality(A \ {w}) <= Cardinality(Workers)
<1>1. /\ IsFiniteSet(A) /\ Cardinality(A) \in Nat /\ Cardinality(R) \in Nat
      /\ Cardinality(Workers) \in Nat
  BY SimAssumption, FS_Subset, FS_CardinalityType
<1>2. Cardinality(A \ {w}) = Cardinality(A) - 1
  BY <1>1, FS_RemoveElement
<1>3. Cardinality(R \cup {x}) \in {Cardinality(R), Cardinality(R) + 1}
  BY FS_AddElement
<1> QED BY <1>1, <1>2, <1>3

\* The refunds of an entry are finitely many places of the ledger.
LEMMA RefundsAreFinite ==
    ASSUME LedgerTypeOK(Who), NEW n
    PROVE  IsFiniteSet(RefundsOf(n)) /\ RefundsOf(n) \subseteq DOMAIN ledger
<1>1. Len(ledger) \in Nat /\ DOMAIN ledger = 1 .. Len(ledger) /\ 1 \in Int /\ Len(ledger) \in Int
  BY DEF LedgerTypeOK
<1>2. IsFiniteSet(1 .. Len(ledger))
  BY <1>1, FS_Interval
<1> QED BY <1>1, <1>2, FS_Subset DEF RefundsOf

\* A step of the ledger that appends no refund: the refunds of an entry are as
\* before, and a new entry has none.
LEMMA OthersKeepRefunds ==
    ASSUME LedgerTypeOK(Who), RefundsCompensate,
           NEW e \in EntryType, e.kind # "refund", ledger' = Append(ledger, e)
    PROVE  /\ RefundsCompensate'
           /\ \A n \in DOMAIN ledger : RefundsOf(n)' = RefundsOf(n)
           /\ \A n \in DOMAIN ledger' : n \notin DOMAIN ledger => RefundsOf(n)' = {}
<1>1. Len(ledger) \in Nat /\ DOMAIN ledger = 1 .. Len(ledger)
  BY DEF LedgerTypeOK
<1>2. /\ DOMAIN ledger' = 1 .. Len(ledger) + 1
      /\ ledger'[Len(ledger) + 1] = e
      /\ \A n \in DOMAIN ledger : ledger'[n] = ledger[n]
  BY DEF LedgerTypeOK, EntryType
<1>3. \A n \in Nat : RefundsOf(n)' = RefundsOf(n)
  BY <1>1, <1>2 DEF RefundsOf
<1>4. \A n \in DOMAIN ledger' : ledger'[n].kind = "refund" => n \in DOMAIN ledger
  BY <1>1, <1>2
<1>5. ASSUME NEW n \in DOMAIN ledger', ledger'[n].kind = "refund",
             NEW k, k = ledger'[n].of
      PROVE  IsCommitment(k)' /\ k < n /\ ledger'[n].amount = ledger'[k].amount
  <2>1. n \in DOMAIN ledger /\ ledger'[n] = ledger[n]
    BY <1>2, <1>4, <1>5
  <2>2. IsCommitment(k) /\ k < n /\ ledger[n].amount = ledger[k].amount
    BY <1>5, <2>1 DEF RefundsCompensate
  <2>3. k \in DOMAIN ledger
    BY <2>2 DEF IsCommitment
  <2> QED BY <1>1, <1>2, <2>1, <2>2, <2>3 DEF IsCommitment
<1>6. RefundsCompensate'
  BY <1>5 DEF RefundsCompensate, IsCommitment
<1>7. RefundsOf(Len(ledger) + 1) = {}
  <2> SUFFICES ASSUME NEW m \in DOMAIN ledger, ledger[m].kind = "refund",
                      ledger[m].of = Len(ledger) + 1
               PROVE  FALSE
    BY DEF RefundsOf
  <2>1. Len(ledger) + 1 \in DOMAIN ledger
    BY DEF RefundsCompensate, IsCommitment
  <2> QED BY <1>1, <2>1
<1> QED BY <1>1, <1>2, <1>3, <1>6, <1>7

\* A refund of a commitment adds itself to the refunds of that one.
LEMMA RefundAddsOne ==
    ASSUME LedgerTypeOK(Who), RefundsCompensate,
           NEW n \in Nat, NEW by \in Sims, IsCommitment(n), Refund(n, by)
    PROVE  /\ RefundsCompensate'
           /\ DOMAIN ledger' = DOMAIN ledger \cup {Len(ledger) + 1}
           /\ RefundsOf(n)' = RefundsOf(n) \cup {Len(ledger) + 1}
           /\ \A m \in DOMAIN ledger \ {n} : RefundsOf(m)' = RefundsOf(m)
           /\ \A m \in DOMAIN ledger' : m \notin DOMAIN ledger => RefundsOf(m)' = {}
<1> DEFINE e == Entry("refund", ledger[n].amount, by, n)
<1>0. PICK last : last = Len(ledger) + 1
  OBVIOUS
<1>1. Len(ledger) \in Nat /\ DOMAIN ledger = 1 .. Len(ledger)
  BY DEF LedgerTypeOK
<1>2. /\ n \in DOMAIN ledger
      /\ ledger[n].kind \in {"spend", "hold"}
      /\ ledger' = Append(ledger, e)
  BY DEF Refund, IsCommitment
<1>3. /\ DOMAIN ledger' = 1 .. last
      /\ ledger'[last] = e
      /\ \A m \in DOMAIN ledger : ledger'[m] = ledger[m]
  BY <1>0, <1>1, <1>2 DEF LedgerTypeOK
<1>4. e.kind = "refund" /\ e.of = n /\ e.amount = ledger[n].amount
  BY DEF Entry
<1>5. \A m \in Nat : RefundsOf(m)' = RefundsOf(m) \cup (IF m = n THEN {last} ELSE {})
  BY <1>0, <1>1, <1>3, <1>4 DEF RefundsOf
<1>6. RefundsOf(last) = {} /\ last # n /\ last \in Nat
  <2>1. last # n /\ last \in Nat
    BY <1>0, <1>1, <1>2
  <2> SUFFICES ASSUME NEW m \in DOMAIN ledger, ledger[m].kind = "refund", ledger[m].of = last
               PROVE  FALSE
    BY <2>1 DEF RefundsOf
  <2>2. last \in DOMAIN ledger
    BY DEF RefundsCompensate, IsCommitment
  <2> QED BY <1>0, <1>1, <2>2
<1> HIDE DEF e
<1>7. ASSUME NEW m \in DOMAIN ledger', ledger'[m].kind = "refund",
             NEW k, k = ledger'[m].of
      PROVE  IsCommitment(k)' /\ k < m /\ ledger'[m].amount = ledger'[k].amount
  <2>1. CASE m = last
    BY <1>0, <1>1, <1>2, <1>3, <1>4, <1>7, <2>1 DEF IsCommitment
  <2>2. CASE m # last
    <3>1. m \in DOMAIN ledger /\ ledger'[m] = ledger[m]
      BY <1>0, <1>1, <1>3, <2>2
    <3>2. IsCommitment(k) /\ k < m /\ ledger[m].amount = ledger[k].amount
      BY <1>7, <3>1 DEF RefundsCompensate
    <3>3. k \in DOMAIN ledger
      BY <3>2 DEF IsCommitment
    <3> QED BY <1>0, <1>1, <1>3, <3>1, <3>2, <3>3 DEF IsCommitment
  <2> QED BY <2>1, <2>2
<1>8. RefundsCompensate'
  BY <1>7 DEF RefundsCompensate, IsCommitment
<1>9. RefundsOf(n)' = RefundsOf(n) \cup {Len(ledger) + 1}
  BY <1>0, <1>5
<1>10. \A m \in DOMAIN ledger' : m \notin DOMAIN ledger => RefundsOf(m)' = {}
  <2> SUFFICES ASSUME NEW m \in DOMAIN ledger', m \notin DOMAIN ledger PROVE RefundsOf(m)' = {}
    OBVIOUS
  <2>1. m = last
    BY <1>0, <1>1, <1>3
  <2> QED BY <1>5, <1>6, <2>1
<1>11. DOMAIN ledger' = DOMAIN ledger \cup {Len(ledger) + 1}
  BY <1>0, <1>1, <1>3
<1>12. ASSUME NEW m \in DOMAIN ledger \ {n} PROVE RefundsOf(m)' = RefundsOf(m)
  <2>1. m \in Nat /\ m # n
    BY <1>1, <1>12
  <2>2. RefundsOf(m)' = RefundsOf(m) \cup {}
    BY <1>5, <2>1
  <2> QED BY <2>2
<1> QED BY <1>8, <1>9, <1>10, <1>11, <1>12

\* Whoever does not append, and joins those about to append only where nothing
\* has been refunded, keeps every entry covered.
LEMMA StillCovered ==
    ASSUME SimTypeOK, RefundsAreCovered, RefundsCompensate',
           \A n \in DOMAIN ledger' :
               \/ RefundsOf(n)' = {}
               \/ /\ n \in DOMAIN ledger /\ RefundsOf(n)' = RefundsOf(n)
                  /\ Appending(n)' \subseteq Appending(n)
    PROVE  RefundsAreCovered'
<1>0. LedgerTypeOK(Who) /\ Cardinality(Workers) \in Nat
  BY SimAssumption, FS_CardinalityType DEF SimTypeOK, Who
<1>1. ASSUME NEW n \in DOMAIN ledger' PROVE Covered(n)'
  <2>1. PICK R, B : R = RefundsOf(n)' /\ B = Appending(n)'
    OBVIOUS
  <2>2. B \subseteq Workers
    BY <2>1 DEF Appending
  <2>3. CASE R = {}
    <3>1. Cardinality(B) <= Cardinality(Workers) /\ Cardinality(R) = 0 /\ Cardinality(B) \in Nat
      BY <2>2, <2>3, SimAssumption, FS_Subset, FS_EmptySet, FS_CardinalityType
    <3> QED BY <1>0, <2>1, <3>1 DEF Covered
  <2>4. CASE n \in DOMAIN ledger /\ RefundsOf(n)' = RefundsOf(n) /\ Appending(n)' \subseteq Appending(n)
    <3>1. IsFiniteSet(R) /\ R = RefundsOf(n)
      BY <1>0, <2>1, <2>4, RefundsAreFinite
    <3>2. PICK A : A = Appending(n)
      OBVIOUS
    <3>3. Cardinality(R) + Cardinality(A) <= Cardinality(Workers) /\ A \subseteq Workers
      BY <2>4, <3>1, <3>2 DEF RefundsAreCovered, Covered, Appending
    <3>4. Cardinality(R) + Cardinality(B) <= Cardinality(Workers)
      BY <2>1, <2>2, <2>4, <3>1, <3>2, <3>3, RoomForAll
    <3> QED BY <2>1, <3>4 DEF Covered
  <2> QED BY <1>1, <2>1, <2>3, <2>4
<1> QED BY <1>1 DEF RefundsAreCovered

\* The append itself.
LEMMA AppendIsCovered ==
    ASSUME SimTypeOK, RefundsAreCovered, NEW w \in Workers, RollbackAppend(w)
    PROVE  RefundsAreCovered'
<1>0. /\ LedgerTypeOK(Who) /\ request \in [Workers -> Request] /\ RefundsCompensate
      /\ Len(ledger) \in Nat /\ DOMAIN ledger = 1 .. Len(ledger)
  BY DEF SimTypeOK, Who, LedgerTypeOK, RefundsAreCovered
<1>1. /\ IsAt(w, "append") /\ request'[w].at = "revoke" /\ book' = book
      /\ \A v \in Workers \ {w} : request'[v] = request[v]
      /\ request[w].sim \in Sims /\ request[w].entry.place \in Nat
  <2>1. request[w] \in Request /\ request[w].sim \in Sims
    BY <1>0 DEF SimTypeOK, RollbackAppend, IsAt, OnSim, RollingBack
  <2> QED BY <1>0, <2>1 DEF RollbackAppend, Goes, Refund, ledgerVars, Request, Place
<1>2. \A n : Appending(n)' = Appending(n) \ {w}
  BY <1>1 DEF Appending, IsAt
<1>3. CASE request[w].book # book
  <2>1. UNCHANGED ledger
    BY <1>3 DEF RollbackAppend, ledgerVars
  <2>2. RefundsCompensate' /\ \A n : RefundsOf(n)' = RefundsOf(n)
    BY <1>0, <2>1 DEF RefundsCompensate, IsCommitment, RefundsOf
  <2> QED BY <1>2, <2>1, <2>2, StillCovered
<1>4. CASE request[w].book = book
  <2>1. PICK p \in Nat : p = request[w].entry.place
    BY <1>1
  <2>2. IsCommitment(p) /\ Refund(p, request[w].sim) /\ p \in DOMAIN ledger
    BY <1>1, <1>4, <2>1 DEF RollbackAppend, SimTypeOK, IsCommitment
  <2>3. PICK last : last = Len(ledger) + 1
    OBVIOUS
  <2>4. /\ RefundsCompensate'
        /\ DOMAIN ledger' = DOMAIN ledger \cup {last}
        /\ RefundsOf(p)' = RefundsOf(p) \cup {last}
        /\ \A m \in DOMAIN ledger \ {p} : RefundsOf(m)' = RefundsOf(m)
        /\ \A m \in DOMAIN ledger' : m \notin DOMAIN ledger => RefundsOf(m)' = {}
    <3>1. PICK by \in Sims : by = request[w].sim
      BY <1>1
    <3>2. Refund(p, by)
      BY <2>2, <3>1
    <3> QED BY <1>0, <2>2, <2>3, <3>2, RefundAddsOne
  <2>5. Covered(p)'
    <3>1. PICK R, A : R = RefundsOf(p) /\ A = Appending(p)
      OBVIOUS
    <3>2. IsFiniteSet(R) /\ w \in A /\ A \subseteq Workers
      BY <1>0, <1>1, <1>4, <2>1, <3>1, RefundsAreFinite DEF Appending
    <3>3. Cardinality(R) + Cardinality(A) <= Cardinality(Workers)
      BY <2>2, <3>1 DEF RefundsAreCovered, Covered
    <3>4. Cardinality(R \cup {last}) + Cardinality(A \ {w}) <= Cardinality(Workers)
      BY <3>2, <3>3, OneAppends
    <3> QED BY <1>2, <2>4, <3>1, <3>4 DEF Covered
  <2>6. ASSUME NEW n \in DOMAIN ledger', n # p PROVE Covered(n)'
    <3>1. PICK R, A, B : R = RefundsOf(n)' /\ A = Appending(n) /\ B = Appending(n)'
      OBVIOUS
    <3>2. A \subseteq Workers /\ B \subseteq A
      BY <1>2, <3>1 DEF Appending
    <3>3. CASE R = {}
      <4>1. Cardinality(B) <= Cardinality(Workers) /\ Cardinality(R) = 0 /\ Cardinality(B) \in Nat
        BY <3>2, <3>3, SimAssumption, FS_Subset, FS_EmptySet, FS_CardinalityType
      <4>2. Cardinality(Workers) \in Nat
        BY SimAssumption, FS_CardinalityType
      <4> QED BY <3>1, <4>1, <4>2 DEF Covered
    <3>4. CASE R # {}
      <4>1. n \in DOMAIN ledger /\ R = RefundsOf(n)
        BY <2>4, <2>6, <3>1, <3>4
      <4>2. IsFiniteSet(R) /\ Cardinality(R) + Cardinality(A) <= Cardinality(Workers)
        BY <1>0, <3>1, <4>1, RefundsAreFinite DEF RefundsAreCovered, Covered
      <4>3. Cardinality(R) + Cardinality(B) <= Cardinality(Workers)
        BY <3>2, <4>2, RoomForAll
      <4> QED BY <3>1, <4>3 DEF Covered
    <3> QED BY <3>3, <3>4
  <2> QED BY <2>4, <2>5, <2>6 DEF RefundsAreCovered
<1> QED BY <1>3, <1>4

\* Every step keeps the refunds covered.
LEMMA CoveredStep ==
    ASSUME SimTypeOK, RefundsAreCovered, [SimNext]_simVars
    PROVE  RefundsAreCovered'
<1>0. /\ LedgerTypeOK(Who) /\ request \in [Workers -> Request] /\ RefundsCompensate
      /\ Len(ledger) \in Nat /\ DOMAIN ledger = 1 .. Len(ledger)
  BY DEF SimTypeOK, Who, LedgerTypeOK, RefundsAreCovered
<1>1. ASSUME NEW w \in Workers, RollbackAppend(w) PROVE RefundsAreCovered'
  BY <1>1, AppendIsCovered
<1>2. ASSUME NEW w \in Workers, RollbackLookup(w) PROVE RefundsAreCovered'
  <2>1. UNCHANGED <<ledger, book>> /\ \A v \in Workers \ {w} : request'[v] = request[v]
    BY <1>0, <1>2 DEF RollbackLookup, ledgerVars, Goes, Ends, Refunds
  <2>2. RefundsCompensate' /\ \A n : RefundsOf(n)' = RefundsOf(n)
    BY <1>0, <2>1 DEF RefundsCompensate, IsCommitment, RefundsOf
  <2>3. IsAt(w, "append")' => /\ Refundable(request[w].entry.place)
                              /\ request'[w].entry = request[w].entry
    <3>1. request[w] \in Request
      BY <1>0
    <3>2. CASE Goes(w, "revoke") \/ Ends(w)
      BY <1>0, <3>1, <3>2 DEF Goes, Ends, IsAt, Idle, Serving, Request
    <3>3. CASE Refunds(w) /\ Refundable(request[w].entry.place)
      BY <1>0, <3>1, <3>3 DEF Refunds, Request
    <3> QED BY <1>2, <3>2, <3>3 DEF RollbackLookup
  <2>4. ASSUME NEW n \in DOMAIN ledger, RefundsOf(n) # {} PROVE Appending(n)' \subseteq Appending(n)
    BY <2>1, <2>3, <2>4 DEF Appending, IsAt, Refundable
  <2> QED BY <2>1, <2>2, <2>4, StillCovered
<1>3. ASSUME UNCHANGED <<ledger, book>>,
             \A v \in Workers : request'[v] = request[v] \/ ~IsAt(v, "append")'
      PROVE  RefundsAreCovered'
  <2>1. RefundsCompensate' /\ \A n : RefundsOf(n)' = RefundsOf(n)
    BY <1>0, <1>3 DEF RefundsCompensate, IsCommitment, RefundsOf
  <2>2. \A n : Appending(n)' \subseteq Appending(n)
    BY <1>3 DEF Appending, IsAt
  <2> QED BY <1>3, <2>1, <2>2, StillCovered
<1>4. ASSUME NEW e \in EntryType, e.kind # "refund", ledger' = Append(ledger, e), book' = book,
             \A v \in Workers : request'[v] = request[v] \/ ~IsAt(v, "append")'
      PROVE  RefundsAreCovered'
  <2>1. /\ RefundsCompensate'
        /\ \A n \in DOMAIN ledger : RefundsOf(n)' = RefundsOf(n)
        /\ \A n \in DOMAIN ledger' : n \notin DOMAIN ledger => RefundsOf(n)' = {}
    BY <1>0, <1>4, OthersKeepRefunds
  <2>2. \A n : Appending(n)' \subseteq Appending(n)
    BY <1>4 DEF Appending, IsAt
  <2> QED BY <2>1, <2>2, StillCovered
<1>5. ASSUME NEW w \in Workers,
             \/ ExecuteBegin(w) \/ ExecuteTake(w) \/ ExecuteDecide(w) \/ ExecuteSpend(w)
             \/ ExecuteCheck(w) \/ ExecuteConclude(w) \/ RollbackBegin(w) \/ RollbackRevoke(w)
             \/ RollbackConclude(w) \/ ResetLedger(w) \/ ResetStore(w)
      PROVE  \A v \in Workers : request'[v] = request[v] \/ ~IsAt(v, "append")'
  <2>1. PICK q : request' = [request EXCEPT ![w] = q] /\ q.at # "append"
    <3>1. request[w] \in Request
      BY <1>0
    <3>2. CASE ExecuteTake(w) \/ ExecuteDecide(w) \/ ExecuteSpend(w) \/ ExecuteCheck(w) \/ RollbackRevoke(w)
      <4>1. PICK q : request' = [request EXCEPT ![w] = q]
        BY <3>2 DEF ExecuteTake, ExecuteDecide, ExecuteSpend, ExecuteCheck, RollbackRevoke, Goes
      <4>2. request'[w] = q
        BY <1>0, <4>1
      <4>3. CASE ExecuteTake(w) \/ ExecuteDecide(w) \/ RollbackRevoke(w)
        <5>1. request'[w].at \in {"decide", "spend", "concludeRollback"}
          BY <1>0, <3>1, <4>3 DEF ExecuteTake, ExecuteDecide, RollbackRevoke, Goes, Request
        <5> QED BY <4>1, <4>2, <5>1
      <4>4. CASE ExecuteSpend(w)
        <5>1. PICK e : request' = [request EXCEPT ![w] = [@ EXCEPT !.at = "check", !.entry = e]]
          BY <4>4 DEF ExecuteSpend
        <5>2. request'[w].at = "check"
          BY <1>0, <3>1, <5>1 DEF Request
        <5> QED BY <4>1, <4>2, <5>2
      <4>5. CASE ExecuteCheck(w)
        <5>1. PICK c : request' = [request EXCEPT ![w] = [@ EXCEPT !.at = "conclude", !.post = c]]
          BY <4>5 DEF ExecuteCheck
        <5>2. request'[w].at = "conclude"
          BY <1>0, <3>1, <5>1 DEF Request
        <5> QED BY <4>1, <4>2, <5>2
      <4> QED BY <3>2, <4>3, <4>4, <4>5
    <3>3. CASE \/ ExecuteBegin(w) \/ ExecuteConclude(w) \/ RollbackBegin(w) \/ RollbackConclude(w)
               \/ ResetLedger(w) \/ ResetStore(w)
      <4>1. PICK at, s, e : at # "append" /\ request' = [request EXCEPT ![w] = Serving(at, s, 0, e)]
        BY <3>3 DEF ExecuteBegin, ExecuteConclude, RollbackBegin, RollbackConclude, ResetLedger,
                    ResetStore, Ends, Idle
      <4>2. Serving(at, s, 0, e).at # "append"
        BY <4>1 DEF Serving
      <4> QED BY <4>1, <4>2
    <3> QED BY <1>5, <3>2, <3>3
  <2> QED BY <1>0, <2>1 DEF IsAt
<1>6. ASSUME NEW w \in Workers,
             \/ ExecuteBegin(w) \/ ExecuteTake(w) \/ ExecuteDecide(w) \/ ExecuteCheck(w)
             \/ ExecuteConclude(w) \/ RollbackBegin(w) \/ RollbackRevoke(w)
             \/ RollbackConclude(w) \/ ResetStore(w)
      PROVE  RefundsAreCovered'
  <2>1. UNCHANGED <<ledger, book>>
    BY <1>6 DEF ExecuteBegin, ExecuteTake, ExecuteDecide, ExecuteCheck, ExecuteConclude, RollbackBegin,
                RollbackRevoke, RollbackConclude, ResetStore, ledgerVars
  <2> QED BY <1>3, <1>5, <1>6, <2>1
<1>7. ASSUME NEW w \in Workers, ExecuteSpend(w) PROVE RefundsAreCovered'
  <2>1. CASE UNCHANGED ledgerVars
    BY <1>3, <1>5, <1>7, <2>1 DEF ledgerVars
  <2>2. CASE Spend(record[request[w].sim].amount, request[w].sim)
    <3>1. request[w].sim \in Sims
      BY <1>7 DEF ExecuteSpend, SimTypeOK, IsAt, OnSim, Executing
    <3>2. record[request[w].sim].amount \in Nat
      BY <3>1 DEF SimTypeOK, Record
    <3>3. PICK e : e = Entry("spend", record[request[w].sim].amount, request[w].sim, NoEntry)
      OBVIOUS
    <3>4. e \in EntryType /\ e.kind # "refund" /\ ledger' = Append(ledger, e) /\ book' = book
      BY <2>2, <3>1, <3>2, <3>3 DEF Spend, Entry, EntryType, Who, NoEntry
    <3> QED BY <1>4, <1>5, <1>7, <3>4
  <2> QED BY <1>7, <2>1, <2>2 DEF ExecuteSpend
<1>8. ASSUME NEW w \in Workers, Hold(w) PROVE RefundsAreCovered'
  <2>1. PICK e : e = Entry("hold", HoldAmount, "other", NoEntry)
    OBVIOUS
  <2>2. /\ e \in EntryType /\ e.kind # "refund" /\ ledger' = Append(ledger, e) /\ book' = book
        /\ request' = request
    BY <1>8, <2>1, SimAssumption DEF Hold, PlaceHold, Entry, EntryType, Who, NoEntry
  <2> QED BY <1>4, <2>2
<1>9. ASSUME NEW w \in Workers, ResetLedger(w) PROVE RefundsAreCovered'
  BY <1>9 DEF ResetLedger, NewBook, RefundsAreCovered, RefundsCompensate
<1>10. CASE (\E w \in Workers : Simulate(w) \/ Reject(w)) \/ Grant \/ UNCHANGED simVars
  <2>1. UNCHANGED <<ledger, book, request>>
    BY <1>10 DEF Simulate, Reject, Grant, simVars, ledgerVars
  <2> QED BY <1>3, <2>1
<1> QED BY <1>1, <1>2, <1>6, <1>7, <1>8, <1>9, <1>10 DEF SimNext

\* However many requests race, look and append apart, a commitment is refunded
\* with its own amount and by no more requests than there are workers.
THEOREM NoLateRefund == SimSpec => []RefundsAreBounded
<1>1. SimInit => RefundsAreCovered
  BY DEF SimInit, LedgerInit, RefundsAreCovered, RefundsCompensate
<1>2. SimTypeOK /\ RefundsAreCovered /\ [SimNext]_simVars => RefundsAreCovered'
  BY CoveredStep
<1>3. SimTypeOK /\ RefundsAreCovered => RefundsAreBounded
  <2> SUFFICES ASSUME SimTypeOK, RefundsAreCovered, NEW n \in DOMAIN ledger
               PROVE  Cardinality(RefundsOf(n)) <= Cardinality(Workers)
    BY DEF RefundsAreBounded, RefundsAreCovered, RefundsCompensate
  <2>1. LedgerTypeOK(Who)
    BY DEF SimTypeOK, Who
  <2>2. IsFiniteSet(RefundsOf(n)) /\ IsFiniteSet(Appending(n))
    BY <2>1, SimAssumption, RefundsAreFinite, FS_Subset DEF Appending
  <2>3. /\ Cardinality(RefundsOf(n)) \in Nat /\ Cardinality(Appending(n)) \in Nat
        /\ Cardinality(Workers) \in Nat
    BY <2>2, SimAssumption, FS_CardinalityType
  <2>4. Cardinality(RefundsOf(n)) + Cardinality(Appending(n)) <= Cardinality(Workers)
    BY DEF RefundsAreCovered, Covered
  <2> QED BY <2>3, <2>4
<1> QED BY <1>1, <1>2, <1>3, SimTypeCorrect, PTL DEF SimSpec

-----------------------------------------------------------------------------

(***************************************************************************)
(* SpendCanBeRolledBack speaks of a moment when no request is in flight.   *)
(* What makes it inductive is the story of a simulation that one execute   *)
(* request began: nobody has touched it, or that request has it in hand    *)
(* and knows what it spent, or it is concluded and the record knows.       *)
(***************************************************************************)

Busy(v, s) == OnSim(v) /\ request[v].sim = s

\* What was spent for the simulation has been given back, or never was.
Settled(s) == SpendsOf(s) \cap Outstanding = {}

Untouched(s) ==
    /\ SpendsOf(s) = {}
    /\ \A v \in Workers : ~Busy(v, s)
    /\ record[s].status \in {"none", "pending", "rejected"}

InHand(w, s) ==
    /\ \A v \in Workers : Busy(v, s) <=> v = w
    /\ request[w].at \in Executing
    /\ record[s].status \in {"pending", "rejected"}
    /\ request[w].at \in {"take", "decide", "spend"} => SpendsOf(s) = {}
    /\ request[w].at = "check" => \A n \in SpendsOf(s) : request[w].entry = At(book, n)
    /\ request[w].at = "conclude" => \A n \in SpendsOf(s) : record[s].spent = At(book, n)

Concluded(s) ==
    /\ record[s].status \in {"executed", "escalated", "rolled_back"}
    /\ \A n \in SpendsOf(s) : s \in stored \cup amid /\ record[s].spent = At(book, n)
    /\ record[s].status = "rolled_back" => Settled(s)
    /\ \A v \in Workers : Busy(v, s) =>
        \/ request[v].at = "refund" /\ request[v].entry = record[s].spent
        \/ /\ request[v].at = "append" /\ request[v].entry = record[s].spent
           /\ request[v].book = request[v].entry.book
        \/ request[v].at \in {"revoke", "concludeRollback"} /\ Settled(s)

Story(s) ==
    /\ begun[s] \in Nat
    /\ begun[s] = 0 => Untouched(s)
    /\ begun[s] = 1 => (\E w \in Workers : InHand(w, s)) \/ Concluded(s)

StoriesHold == begun \in [Sims -> Nat] /\ \A s \in Sims : Story(s)

\* As long as a reset has not come to the store, what is spent in its ledger, or
\* is about to be, is spent by executions that it overtook.
HalfResetIsMarked ==
    HalfReset =>
        /\ \A s \in Sims : SpendsOf(s) # {} => s \in amid
        /\ \A w \in Workers :
            (IsAt(w, "decide") \/ IsAt(w, "spend")) /\ request[w].book = book =>
                request[w].sim \in amid

\* The spends of a simulation after a step of the ledger that is not its own
\* spend: none is added, and what was given back stays given back.
LEMMA OthersLeaveSpends ==
    ASSUME LedgerTypeOK(Who), LedgerStep, NEW s \in Sims,
           ~\E amount \in Nat : Spend(amount, s)
    PROVE  /\ \A n \in SpendsOf(s)' : n \in SpendsOf(s) /\ book' = book
           /\ Settled(s) => Settled(s)'
<1> USE DEF LedgerTypeOK
<1>0. Len(ledger) \in Nat /\ DOMAIN ledger = 1 .. Len(ledger) /\ ledger \in Seq(EntryType)
  BY DEF EntryType
<1>1. ASSUME NEW e \in EntryType, ledger' = Append(ledger, e), book' = book,
             e.kind # "spend" \/ e.by # s
      PROVE  /\ \A n \in SpendsOf(s)' : n \in SpendsOf(s) /\ book' = book
             /\ Settled(s) => Settled(s)'
  <2>1. /\ DOMAIN ledger' = 1 .. Len(ledger) + 1
        /\ ledger'[Len(ledger) + 1] = e
        /\ \A n \in DOMAIN ledger : ledger'[n] = ledger[n]
    BY <1>0, <1>1
  <2>2. SpendsOf(s)' = SpendsOf(s)
    BY <1>0, <1>1, <2>1 DEF SpendsOf
  <2>3. \A n \in DOMAIN ledger : n \in Outstanding' => n \in Outstanding
    BY <1>0, <2>1 DEF Outstanding, IsCommitment, RefundsOf
  <2>4. SpendsOf(s) \subseteq DOMAIN ledger
    BY DEF SpendsOf
  <2> QED BY <1>1, <2>2, <2>3, <2>4 DEF Settled
<1>2. ASSUME NEW amount \in Nat \ {0}, NEW by \in Sims, Spend(amount, by)
      PROVE  /\ \A n \in SpendsOf(s)' : n \in SpendsOf(s) /\ book' = book
             /\ Settled(s) => Settled(s)'
  <2>1. by # s
    BY <1>2
  <2>2. Entry("spend", amount, by, NoEntry) \in EntryType
    BY DEF Entry, EntryType, Who, NoEntry
  <2>3. Entry("spend", amount, by, NoEntry).by = by
    BY DEF Entry
  <2> QED BY <1>1, <1>2, <2>1, <2>2, <2>3 DEF Spend
<1>3. CASE PlaceHold(HoldAmount, "other")
  <2>1. /\ Entry("hold", HoldAmount, "other", NoEntry) \in EntryType
        /\ Entry("hold", HoldAmount, "other", NoEntry).kind = "hold"
    BY SimAssumption DEF Entry, EntryType, Who, NoEntry
  <2> QED BY <1>1, <1>3, <2>1 DEF PlaceHold
<1>4. ASSUME NEW n \in Nat, NEW by \in Sims, IsCommitment(n), Refund(n, by)
      PROVE  /\ \A m \in SpendsOf(s)' : m \in SpendsOf(s) /\ book' = book
             /\ Settled(s) => Settled(s)'
  <2>1. n \in DOMAIN ledger /\ ledger[n] \in EntryType
    BY <1>0, <1>4 DEF Refund, IsCommitment
  <2>2. /\ Entry("refund", ledger[n].amount, by, n) \in EntryType
        /\ Entry("refund", ledger[n].amount, by, n).kind = "refund"
    BY <2>1 DEF Entry, EntryType, Who
  <2> QED BY <1>1, <1>4, <2>2 DEF Refund
<1>5. CASE NewBook
  BY <1>5 DEF NewBook, SpendsOf, Settled
<1>6. CASE UNCHANGED ledgerVars
  BY <1>6 DEF ledgerVars, SpendsOf, Settled, Outstanding, IsCommitment, RefundsOf
<1> QED BY <1>2, <1>3, <1>4, <1>5, <1>6 DEF LedgerStep

\* No other operation of the ledger is mistaken for a spend.
LEMMA NoSpendElse ==
    ASSUME LedgerTypeOK(Who),
           \/ UNCHANGED ledger \/ ledger' = <<>>
           \/ PlaceHold(HoldAmount, "other") \/ \E n, by : Refund(n, by)
    PROVE  ~\E amount \in Nat, s \in Sims : Spend(amount, s)
<1> SUFFICES ASSUME NEW amount \in Nat, NEW s \in Sims, Spend(amount, s) PROVE FALSE
  OBVIOUS
<1>0. Len(ledger) \in Nat
  BY DEF LedgerTypeOK
<1>1. Len(ledger') = Len(ledger) + 1 /\ ledger'[Len(ledger) + 1].kind = "spend"
  BY DEF Spend, Entry, LedgerTypeOK
<1>2. Len(ledger') # Len(ledger) /\ ledger' # <<>>
  BY <1>0, <1>1
<1>3. CASE PlaceHold(HoldAmount, "other")
  BY <1>1, <1>3 DEF PlaceHold, Entry, LedgerTypeOK
<1>4. CASE \E n, by : Refund(n, by)
  BY <1>1, <1>4 DEF Refund, Entry, LedgerTypeOK
<1> QED BY <1>2, <1>3, <1>4

\* A step that is not about a simulation leaves its story as it is.
LEMMA OthersLeaveStory ==
    ASSUME LedgerTypeOK(Who), LedgerStep, NEW s \in Sims,
           ~\E amount \in Nat : Spend(amount, s),
           Story(s), begun'[s] = begun[s], record'[s] = record[s],
           s \in stored \cup amid /\ SpendsOf(s) # {} => s \in stored' \cup amid' \/ book' # book,
           \A v \in Workers : request'[v] = request[v] \/ (~Busy(v, s) /\ ~Busy(v, s)')
    PROVE  Story(s)'
<1>1. /\ \A n \in SpendsOf(s)' : n \in SpendsOf(s) /\ book' = book
      /\ Settled(s) => Settled(s)'
  BY OthersLeaveSpends
<1>2. \A v \in Workers : /\ Busy(v, s)' <=> Busy(v, s)
                         /\ Busy(v, s) => request'[v] = request[v]
  BY DEF Busy, OnSim
<1>3. begun[s] = 0 => Untouched(s)'
  BY <1>1, <1>2 DEF Story, Untouched
<1>4. ASSUME NEW w \in Workers, InHand(w, s) PROVE InHand(w, s)'
  BY <1>1, <1>2, <1>4 DEF InHand
<1>5. Concluded(s) => Concluded(s)'
  BY <1>1, <1>2 DEF Concluded
<1> QED BY <1>3, <1>4, <1>5 DEF Story

\* Who works on a simulation is the one who has it in hand, or rolls it back.
LEMMA StoryOfBusy ==
    ASSUME NEW s \in Sims, Story(s), NEW w \in Workers, Busy(w, s), begun[s] \in {0, 1}
    PROVE  /\ begun[s] = 1
           /\ InHand(w, s) \/ Concluded(s)
           /\ request[w].at \in Executing => InHand(w, s)
           /\ request[w].at \in RollingBack => Concluded(s)
<1>1. begun[s] = 1 /\ (InHand(w, s) \/ Concluded(s))
  BY DEF Story, Untouched, InHand
<1> QED BY <1>1 DEF InHand, Concluded, Busy, Executing, RollingBack

\* No simulation has a story yet.
LEMMA StoriesInit == SimInit => StoriesHold
BY DEF SimInit, LedgerInit, StoriesHold, Story, Untouched, SpendsOf, Busy, OnSim, Executing,
       RollingBack, Idle, Serving, NoRecord

\* Simulating, rejecting and beginning to execute.
LEMMA StoryOfIntake ==
    ASSUME SimTypeOK, StoriesHold, LedgerStep, NEW w \in Workers,
           Simulate(w) \/ Reject(w) \/ ExecuteBegin(w)
    PROVE  StoriesHold'
<1>0. LedgerTypeOK(Who) /\ book \in Nat /\ record \in [Sims -> Record] /\ stored \subseteq Sims
      /\ request \in [Workers -> Request] /\ begun \in [Sims -> Nat]
  BY DEF SimTypeOK, Who, LedgerTypeOK, StoriesHold
<1>1. UNCHANGED ledgerVars
  BY DEF Simulate, Reject, ExecuteBegin
<1>2. \A s \in Sims : /\ SpendsOf(s)' = SpendsOf(s)
                      /\ ~\E amount \in Nat : Spend(amount, s)
  <2>1. \A s \in Sims : SpendsOf(s)' = SpendsOf(s)
    BY <1>1 DEF ledgerVars, SpendsOf
  <2>2. ASSUME NEW s \in Sims, NEW amount \in Nat, Spend(amount, s) PROVE FALSE
    BY <1>0, <1>1, <2>2 DEF Spend, ledgerVars, Entry, LedgerTypeOK
  <2> QED BY <2>1, <2>2
<1>3. CASE Simulate(w) \/ Reject(w)
  <2>1. PICK s \in Sims : /\ record[s].status \in {"none", "pending"}
                          /\ record'[s].status \in {"pending", "rejected"}
                          /\ \A t \in Sims \ {s} : record'[t] = record[t]
    BY <1>0, <1>3 DEF Simulate, Reject, Record
  <2>2. UNCHANGED <<begun, amid, request>> /\ stored \subseteq stored'
    BY <1>3 DEF Simulate, Reject, history
  <2>3. \A t \in Sims \ {s} : Story(t)'
    BY <1>0, <1>2, <2>1, <2>2, OthersLeaveStory DEF StoriesHold
  <2>4. Story(s) => Story(s)'
    <3>1. Untouched(s) => Untouched(s)'
      BY <1>2, <2>1, <2>2 DEF Untouched, Busy, OnSim
    <3>2. ~Concluded(s)
      BY <2>1 DEF Concluded
    <3>3. ASSUME NEW v \in Workers, InHand(v, s) PROVE InHand(v, s)'
      <4>1. record[s].status = "pending"
        BY <2>1, <3>3 DEF InHand
      <4>2. record'[s].spent = record[s].spent
        BY <1>0, <1>3, <2>1, <4>1 DEF Simulate, Reject, Record
      <4> QED BY <1>1, <1>2, <2>1, <2>2, <3>3, <4>2 DEF InHand, Busy, OnSim, ledgerVars
    <3> QED BY <2>2, <3>1, <3>2, <3>3 DEF Story
  <2> QED BY <1>0, <2>2, <2>3, <2>4 DEF StoriesHold
<1>4. CASE ExecuteBegin(w)
  <2>1. PICK s \in stored : /\ record[s].status = "pending"
                            /\ request' = [request EXCEPT ![w] = Serving("take", s, 0, Unspent)]
                            /\ begun' = [begun EXCEPT ![s] = @ + 1]
    BY <1>4 DEF ExecuteBegin
  <2>2. s \in Sims /\ UNCHANGED <<record, stored, amid>> /\ request[w].at = "idle"
    BY <1>0, <1>4 DEF ExecuteBegin, IsAt
  <2>3. /\ request'[w].at = "take" /\ request'[w].sim = s
        /\ \A v \in Workers \ {w} : request'[v] = request[v]
    BY <1>0, <2>1 DEF Serving
  <2>4. /\ begun' \in [Sims -> Nat]
        /\ begun'[s] = begun[s] + 1
        /\ \A t \in Sims \ {s} : begun'[t] = begun[t]
    BY <1>0, <2>1, <2>2
  <2>5. ASSUME NEW t \in Sims \ {s} PROVE Story(t)'
    <3>1. \A v \in Workers : request'[v] = request[v] \/ (~Busy(v, t) /\ ~Busy(v, t)')
      BY <2>2, <2>3 DEF Busy, OnSim, Executing, RollingBack
    <3> QED BY <1>0, <1>2, <2>2, <2>4, <3>1, OthersLeaveStory DEF StoriesHold
  <2>6. Untouched(s) => InHand(w, s)'
    BY <1>2, <2>1, <2>2, <2>3 DEF Untouched, InHand, Busy, OnSim, Executing, RollingBack
  <2>7. Story(s)'
    BY <1>0, <2>2, <2>4, <2>6 DEF Story, StoriesHold
  <2> QED BY <2>4, <2>5, <2>7 DEF StoriesHold
<1> QED BY <1>3, <1>4

\* What a step of a request leaves as it was for the simulations it is not about.
LEMMA OtherStories ==
    ASSUME SimTypeOK, StoriesHold, LedgerStep, NEW w \in Workers, NEW s \in Sims,
           Busy(w, s) \/ request[w].at = "idle",
           UNCHANGED begun,
           stored \subseteq stored', amid \subseteq amid',
           \A t \in Sims \ {s} : record'[t] = record[t] /\ ~\E amount \in Nat : Spend(amount, t),
           \A v \in Workers \ {w} : request'[v] = request[v],
           request'[w].at = "idle" \/ request'[w].sim = s
    PROVE  \A t \in Sims \ {s} : Story(t)'
<1> TAKE t \in Sims \ {s}
<1>1. LedgerTypeOK(Who)
  BY DEF SimTypeOK, Who
<1>2. \A v \in Workers : request'[v] = request[v] \/ (~Busy(v, t) /\ ~Busy(v, t)')
  BY DEF Busy, OnSim, Executing, RollingBack
<1> QED BY <1>1, <1>2, OthersLeaveStory DEF StoriesHold

\* A request in flight that executes.
LEMMA StoryOfExecution ==
    ASSUME SimTypeOK, StoriesHold, LedgerStep, NEW w \in Workers,
           \/ ExecuteTake(w) \/ ExecuteDecide(w) \/ ExecuteSpend(w)
           \/ ExecuteCheck(w) \/ ExecuteConclude(w)
    PROVE  StoriesHold'
<1>0. /\ LedgerTypeOK(Who) /\ book \in Nat \ {0}
      /\ record \in [Sims -> Record] /\ stored \subseteq Sims
      /\ request \in [Workers -> Request] /\ begun \in [Sims -> Nat]
  BY DEF SimTypeOK, Who, LedgerTypeOK, StoriesHold
<1>1. PICK s \in Sims : s = request[w].sim
  BY DEF SimTypeOK, ExecuteTake, ExecuteDecide, ExecuteSpend, ExecuteCheck, ExecuteConclude, IsAt,
         OnSim, Executing
<1>2. Busy(w, s) /\ request[w].at \in Executing
  BY <1>1 DEF ExecuteTake, ExecuteDecide, ExecuteSpend, ExecuteCheck, ExecuteConclude, IsAt, Busy,
              OnSim, Executing
<1>3. begun[s] # 0 /\ (begun[s] = 1 => InHand(w, s))
  BY <1>2, StoryOfBusy DEF StoriesHold, Story, Untouched
<1>4. /\ UNCHANGED begun /\ stored \subseteq stored' /\ amid \subseteq amid'
      /\ record' \in [Sims -> Record]
      /\ \A t \in Sims \ {s} : record'[t] = record[t]
      /\ \A v \in Workers \ {w} : request'[v] = request[v]
  <2>1. RequestTypeOK'
    BY TypedRequestStep DEF SimNext
  <2> QED BY <1>0, <1>1, <2>1 DEF ExecuteTake, ExecuteDecide, ExecuteSpend, ExecuteCheck,
                                  ExecuteConclude, Ends, RequestTypeOK, history
<1>5. \A t \in Sims \ {s} : ~\E amount \in Nat : Spend(amount, t)
  <2> SUFFICES ASSUME NEW t \in Sims \ {s}, NEW amount \in Nat, Spend(amount, t) PROVE FALSE
    OBVIOUS
  <2>1. /\ ledger' = Append(ledger, Entry("spend", amount, t, NoEntry))
        /\ ledger # ledger' /\ ledger'[Len(ledger) + 1].by = t
    BY <1>0 DEF Spend, Entry, LedgerTypeOK
  <2>2. Spend(record[s].amount, s)
    BY <1>1, <2>1 DEF ExecuteTake, ExecuteDecide, ExecuteSpend, ExecuteCheck, ExecuteConclude, ledgerVars
  <2>3. ledger'[Len(ledger) + 1].by = s
    BY <1>0, <2>2 DEF Spend, Entry, LedgerTypeOK
  <2> QED BY <2>1, <2>3
<1>6. request'[w].at = "idle" \/ request'[w].sim = s
  <2>1. request[w] \in Request
    BY <1>0
  <2>2. \A at, b, d, e, p : /\ [request[w] EXCEPT !.at = at, !.book = b].sim = request[w].sim
                         /\ [request[w] EXCEPT !.at = at, !.decision = d].sim = request[w].sim
                         /\ [request[w] EXCEPT !.at = at, !.entry = e].sim = request[w].sim
                         /\ [request[w] EXCEPT !.at = at, !.post = p].sim = request[w].sim
    BY <2>1 DEF Request
  <2>3. CASE ExecuteConclude(w)
    BY <1>0, <2>3 DEF ExecuteConclude, Ends, Idle, Serving
  <2>4. CASE ExecuteTake(w) \/ ExecuteDecide(w)
    <3>1. CASE ExecuteTake(w)
      BY <1>0, <1>1, <2>2, <2>4, <3>1 DEF ExecuteTake
    <3>2. CASE ExecuteDecide(w)
      BY <1>0, <1>1, <2>2, <2>4, <3>2 DEF ExecuteDecide
    <3> QED BY <2>4, <3>1, <3>2
  <2>5. CASE ExecuteSpend(w)
    <3>1. PICK e : request' = [request EXCEPT ![w] = [@ EXCEPT !.at = "check", !.entry = e]]
      BY <2>5 DEF ExecuteSpend
    <3> QED BY <1>0, <1>1, <2>2, <3>1
  <2>6. CASE ExecuteCheck(w)
    <3>1. PICK p : request' = [request EXCEPT ![w] = [@ EXCEPT !.at = "conclude", !.post = p]]
      BY <2>6 DEF ExecuteCheck
    <3> QED BY <1>0, <1>1, <2>2, <3>1
  <2> QED BY <2>3, <2>4, <2>5, <2>6
<1>7. \A t \in Sims \ {s} : Story(t)'
  BY <1>2, <1>4, <1>5, <1>6, OtherStories
<1>8. \A v \in Workers \ {w} : Busy(v, s)' <=> Busy(v, s)
  BY <1>4 DEF Busy, OnSim
<1>9. InHand(w, s) => InHand(w, s)' \/ Concluded(s)'
  <2> SUFFICES ASSUME InHand(w, s) PROVE InHand(w, s)' \/ Concluded(s)'
    OBVIOUS
  <2>0. \A v \in Workers \ {w} : ~Busy(v, s)'
    BY <1>8 DEF InHand
  <2>5. CASE ExecuteTake(w)
    <3>1. /\ request'[w].at = "decide" /\ request'[w].sim = s
          /\ UNCHANGED record /\ SpendsOf(s)' = SpendsOf(s)
      BY <1>0, <1>1, <2>5 DEF ExecuteTake, Request, ledgerVars, SpendsOf
    <3>2. SpendsOf(s) = {}
      BY <2>5 DEF InHand, ExecuteTake, IsAt
    <3> QED BY <2>0, <3>1, <3>2 DEF InHand, Busy, OnSim, Executing
  <2>1. CASE ExecuteDecide(w)
    <3>1. /\ request'[w].at = "spend" /\ request'[w].sim = s
          /\ UNCHANGED record /\ SpendsOf(s)' = SpendsOf(s)
      BY <1>0, <1>1, <2>1 DEF ExecuteDecide, Request, ledgerVars, SpendsOf
    <3>2. SpendsOf(s) = {}
      BY <2>1 DEF InHand, ExecuteDecide, IsAt
    <3> QED BY <2>0, <3>1, <3>2 DEF InHand, Busy, OnSim, Executing
  <2>2. CASE ExecuteSpend(w)
    <3>1. request'[w].at = "check" /\ request'[w].sim = s /\ UNCHANGED <<record, book>>
      BY <1>0, <1>1, <2>2 DEF ExecuteSpend, Request, Spend, ledgerVars
    <3>2. SpendsOf(s) = {}
      BY <2>2 DEF InHand, ExecuteSpend, IsAt
    <3>3. \A n \in SpendsOf(s)' : request'[w].entry = At(book', n)
      <4>1. CASE UNCHANGED ledgerVars
        BY <3>2, <4>1 DEF SpendsOf, ledgerVars
      <4>2. CASE ~UNCHANGED ledgerVars
        <5>1. /\ request[w].decision = "allow" /\ request[w].book = book
              /\ Spend(record[s].amount, s)
          BY <1>1, <2>2, <4>2 DEF ExecuteSpend
        <5>2. request'[w].entry = At(book, Len(ledger) + 1)
          BY <1>0, <2>2, <5>1 DEF ExecuteSpend, Request
        <5>3. SpendsOf(s)' \subseteq {Len(ledger) + 1}
          BY <1>0, <3>2, <5>1 DEF Spend, Entry, SpendsOf, LedgerTypeOK
        <5> QED BY <3>1, <5>2, <5>3
      <4> QED BY <4>1, <4>2
    <3> QED BY <2>0, <3>1, <3>3 DEF InHand, Busy, OnSim, Executing
  <2>3. CASE ExecuteCheck(w)
    <3>1. /\ request'[w].at = "conclude" /\ request'[w].sim = s
          /\ record'[s].spent = request[w].entry /\ record'[s].status = record[s].status
          /\ SpendsOf(s)' = SpendsOf(s) /\ book' = book
      BY <1>0, <1>1, <2>3 DEF ExecuteCheck, Request, Record, ledgerVars, SpendsOf
    <3>2. \A n \in SpendsOf(s) : request[w].entry = At(book, n)
      BY <2>3 DEF InHand, ExecuteCheck, IsAt
    <3> QED BY <2>0, <3>1, <3>2 DEF InHand, Busy, OnSim, Executing
  <2>4. CASE ExecuteConclude(w)
    <3>1. /\ request'[w].at = "idle"
          /\ record'[s].spent = record[s].spent /\ record'[s].status \in {"executed", "escalated"}
          /\ s \in stored'
          /\ SpendsOf(s)' = SpendsOf(s) /\ book' = book
      BY <1>0, <1>1, <2>4 DEF ExecuteConclude, Request, Record, ledgerVars, SpendsOf, Ends, Idle, Serving
    <3>2. \A n \in SpendsOf(s) : record[s].spent = At(book, n)
      BY <2>4 DEF InHand, ExecuteConclude, IsAt
    <3> QED BY <2>0, <3>1, <3>2 DEF Concluded, Busy, OnSim, Executing, RollingBack
  <2> QED BY <2>1, <2>2, <2>3, <2>4, <2>5
<1>10. Story(s)'
  BY <1>0, <1>3, <1>4, <1>9 DEF Story
<1> QED BY <1>0, <1>4, <1>7, <1>10 DEF StoriesHold

\* A request in flight that rolls back.
LEMMA StoryOfRollback ==
    ASSUME SimTypeOK, StoriesHold, LedgerStep, NEW w \in Workers,
           \/ RollbackBegin(w) \/ RollbackLookup(w) \/ RollbackAppend(w)
           \/ RollbackRevoke(w) \/ RollbackConclude(w)
    PROVE  StoriesHold'
<1>0. /\ LedgerTypeOK(Who) /\ book \in Nat \ {0}
      /\ record \in [Sims -> Record] /\ stored \subseteq Sims
      /\ request \in [Workers -> Request] /\ begun \in [Sims -> Nat]
  BY DEF SimTypeOK, Who, LedgerTypeOK, StoriesHold
<1>1. PICK s \in Sims :
        \/ /\ Busy(w, s) /\ request[w].at \in RollingBack
           /\ RollbackLookup(w) \/ RollbackAppend(w) \/ RollbackRevoke(w) \/ RollbackConclude(w)
        \/ /\ request[w].at = "idle" /\ record[s].status \in {"executed", "escalated"}
           /\ request' = [request EXCEPT ![w] = Serving("refund", s, 0, record[s].spent)]
           /\ RollbackBegin(w)
  BY <1>0 DEF SimTypeOK, RollbackBegin, RollbackLookup, RollbackAppend, RollbackRevoke,
              RollbackConclude, IsAt, Busy, OnSim, RollingBack
<1>2. begun[s] # 0 /\ (begun[s] = 1 => Concluded(s))
  BY <1>1, StoryOfBusy DEF StoriesHold, Story, Untouched, Concluded, InHand
<1>3. /\ UNCHANGED <<begun, amid>> /\ stored \subseteq stored'
      /\ record' \in [Sims -> Record]
      /\ \A t \in Sims \ {s} : record'[t] = record[t]
      /\ \A v \in Workers \ {w} : request'[v] = request[v]
  <2>1. RequestTypeOK'
    BY TypedRequestStep DEF SimNext
  <2> QED BY <1>0, <1>1, <2>1
          DEF RollbackBegin, RollbackLookup, RollbackAppend, RollbackRevoke, RollbackConclude,
              Goes, Ends, Refunds, RequestTypeOK, Busy, history
<1>4. \A t \in Sims : ~\E amount \in Nat : Spend(amount, t)
  <2>1. UNCHANGED ledger \/ \E n, by : Refund(n, by)
    BY DEF RollbackBegin, RollbackLookup, RollbackAppend, RollbackRevoke, RollbackConclude, ledgerVars
  <2> QED BY <1>0, <2>1, NoSpendElse
<1>5. request'[w].at = "idle" \/ request'[w].sim = s
  <2>1. request[w] \in Request
    BY <1>0
  <2>2. CASE RollbackBegin(w)
    <3>1. request'[w].sim = s
      BY <1>0, <1>1, <2>2 DEF RollbackBegin, RollbackLookup, RollbackAppend, RollbackRevoke,
                              RollbackConclude, IsAt, RollingBack, Serving
    <3> QED BY <3>1
  <2>3. CASE ~RollbackBegin(w)
    <3>1. request[w].sim = s
      BY <1>1, <2>3 DEF Busy
    <3>2. Ends(w) \/ Refunds(w) \/ \E place : Goes(w, place)
      BY <2>3 DEF RollbackLookup, RollbackAppend, RollbackRevoke, RollbackConclude
    <3>3. CASE Ends(w)
      BY <1>0, <3>3 DEF Ends, Idle, Serving
    <3>4. CASE Refunds(w)
      BY <1>0, <2>1, <3>1, <3>4 DEF Refunds, Request
    <3>5. CASE \E place : Goes(w, place)
      BY <1>0, <2>1, <3>1, <3>5 DEF Goes, Request
    <3> QED BY <3>2, <3>3, <3>4, <3>5
  <2> QED BY <2>2, <2>3
<1>6. \A t \in Sims \ {s} : Story(t)'
  BY <1>1, <1>3, <1>4, <1>5, OtherStories
<1>7. \A v \in Workers \ {w} : /\ Busy(v, s)' <=> Busy(v, s)
                               /\ request'[v] = request[v]
  BY <1>3 DEF Busy, OnSim
<1>8. /\ \A n \in SpendsOf(s)' : n \in SpendsOf(s) /\ book' = book
      /\ Settled(s) => Settled(s)'
  BY <1>0, <1>4, OthersLeaveSpends
<1>9. Concluded(s) => Concluded(s)'
  <2> SUFFICES ASSUME Concluded(s) PROVE Concluded(s)'
    OBVIOUS
  <2>1. CASE RollbackBegin(w)
    <3>1. /\ request'[w].at = "refund" /\ request'[w].entry = record[s].spent
          /\ UNCHANGED <<record, stored>> /\ record[s].status \in {"executed", "escalated"}
      BY <1>0, <1>1, <2>1 DEF RollbackBegin, RollbackLookup, RollbackAppend, RollbackRevoke,
                              RollbackConclude, Serving, IsAt
    <3> QED BY <1>3, <1>7, <1>8, <3>1 DEF Concluded, Busy, OnSim
  <2>2. CASE RollbackLookup(w)
    <3>1. /\ request[w].entry = record[s].spent /\ request[w].at = "refund"
          /\ UNCHANGED <<record, stored>> /\ request[w] \in Request
      BY <1>0, <1>1, <2>2 DEF Concluded, RollbackLookup, RollbackBegin, IsAt, Busy
    <3>2. CASE Ends(w)
      <4>1. ~Busy(w, s)'
        BY <1>0, <3>2 DEF Ends, Idle, Serving, Busy, OnSim, Executing, RollingBack
      <4> QED BY <1>3, <1>7, <1>8, <3>1, <4>1 DEF Concluded
    <3>3. CASE Refunds(w) /\ request[w].entry.book = book
      <4>1. /\ request'[w].at = "append" /\ request'[w].entry = record[s].spent
            /\ request'[w].book = request'[w].entry.book
        BY <1>0, <3>1, <3>3 DEF Refunds, Request
      <4> QED BY <1>3, <1>7, <1>8, <3>1, <4>1 DEF Concluded, Busy, OnSim
    <3>4. CASE Goes(w, "revoke") /\ request[w].entry = Unspent
      <4>1. request'[w].at = "revoke"
        BY <1>0, <3>1, <3>4 DEF Goes, Request
      <4>2. SpendsOf(s) = {}
        <5> SUFFICES ASSUME NEW n \in SpendsOf(s) PROVE FALSE
          OBVIOUS
        <5>1. At(book, n) = At(0, NoEntry)
          BY <3>1, <3>4 DEF Concluded, Unspent
        <5> QED BY <1>0, <5>1 DEF At
      <4> QED BY <1>3, <1>7, <1>8, <3>1, <4>1, <4>2 DEF Concluded, Busy, Settled
    <3> QED BY <2>2, <3>2, <3>3, <3>4 DEF RollbackLookup
  <2>5. CASE RollbackAppend(w)
    <3>1. /\ request[w].entry = record[s].spent /\ request[w].at = "append"
          /\ request[w].book = request[w].entry.book
          /\ UNCHANGED <<record, stored>> /\ request[w] \in Request
      BY <1>0, <1>1, <2>5 DEF Concluded, RollbackAppend, RollbackBegin, IsAt, Busy
    <3>2. request'[w].at = "revoke"
      BY <1>0, <2>5, <3>1 DEF RollbackAppend, Goes, Request
    <3>3. ASSUME NEW n \in SpendsOf(s) PROVE n = request[w].entry.place /\ request[w].book = book
      <4>1. request[w].entry = At(book, n)
        BY <3>1, <3>3 DEF Concluded
      <4> QED BY <3>1, <4>1 DEF At
    <3>4. \A n \in SpendsOf(s) : n \notin Outstanding'
      <4> SUFFICES ASSUME NEW n \in SpendsOf(s) PROVE RefundsOf(n)' # {}
        BY DEF Outstanding
      <4>1. /\ ledger' = Append(ledger, Entry("refund", ledger[n].amount, request[w].sim, n))
        BY <2>5, <3>3 DEF RollbackAppend, Refund
      <4>2. Len(ledger) + 1 \in DOMAIN ledger' /\ ledger'[Len(ledger) + 1].kind = "refund"
            /\ ledger'[Len(ledger) + 1].of = n
        BY <1>0, <4>1 DEF Entry, LedgerTypeOK
      <4> QED BY <4>2 DEF RefundsOf
    <3>5. Settled(s)'
      BY <1>8, <3>4 DEF Settled
    <3> QED BY <1>3, <1>7, <1>8, <3>1, <3>2, <3>5 DEF Concluded, Busy, OnSim
  <2>3. CASE RollbackRevoke(w)
    <3>1. /\ request'[w].at = "concludeRollback" /\ Settled(s) /\ UNCHANGED <<record, stored>>
      BY <1>0, <1>1, <2>3 DEF Concluded, RollbackRevoke, RollbackBegin, IsAt, Busy, Goes, Request
    <3> QED BY <1>3, <1>7, <1>8, <3>1 DEF Concluded, Busy, OnSim
  <2>4. CASE RollbackConclude(w)
    <3>1. /\ Settled(s) /\ s \in stored' /\ request'[w].at = "idle"
          /\ record'[s].status = "rolled_back" /\ record'[s].spent = record[s].spent
      BY <1>0, <1>1, <2>4 DEF Concluded, RollbackConclude, RollbackBegin, IsAt, Busy, Ends, Idle, Serving, Record
    <3> QED BY <1>3, <1>7, <1>8, <3>1 DEF Concluded, Busy, OnSim, Executing, RollingBack
  <2> QED BY <2>1, <2>2, <2>3, <2>4, <2>5
<1>10. Story(s)'
  BY <1>0, <1>2, <1>3, <1>9 DEF Story
<1> QED BY <1>0, <1>3, <1>6, <1>10 DEF StoriesHold

\* Holds, resets and grants are about no simulation; what the store loses to a
\* reset was spent in an older ledger, or overtaken.
LEMMA StoryOfOthers ==
    ASSUME SimTypeOK, StoriesHold, HalfResetIsMarked, LedgerStep,
           \/ \E w \in Workers : Hold(w) \/ ResetLedger(w) \/ ResetStore(w)
           \/ Grant \/ UNCHANGED simVars
    PROVE  StoriesHold'
<1>0. LedgerTypeOK(Who) /\ book \in Nat /\ request \in [Workers -> Request]
  BY DEF SimTypeOK, Who, LedgerTypeOK
<1>1. /\ UNCHANGED <<begun, amid, record>>
      /\ \A s \in Sims : s \in stored \cup amid /\ SpendsOf(s) # {} => s \in stored' \cup amid'
      /\ \A s \in Sims, v \in Workers : request'[v] = request[v] \/ (~Busy(v, s) /\ ~Busy(v, s)')
  <2>1. CASE (\E w \in Workers : Hold(w)) \/ Grant \/ UNCHANGED simVars
    BY <2>1 DEF Hold, Grant, simVars, history
  <2>2. ASSUME NEW w \in Workers, ResetLedger(w) \/ ResetStore(w)
        PROVE  /\ \A v \in Workers \ {w} : request'[v] = request[v]
               /\ ~OnSim(w) /\ ~OnSim(w)'
    <3>1. request[w].at \in {"idle", "resetStore"} /\ request'[w].at \in {"idle", "resetStore"}
      BY <1>0, <2>2 DEF ResetLedger, ResetStore, IsAt, Ends, Idle, Serving
    <3>2. \A v \in Workers \ {w} : request'[v] = request[v]
      BY <1>0, <2>2 DEF ResetLedger, ResetStore, Ends
    <3> QED BY <3>1, <3>2 DEF OnSim, Executing, RollingBack
  <2>3. ASSUME NEW w \in Workers, ResetLedger(w) PROVE UNCHANGED <<begun, amid, record, stored>>
    BY <2>3 DEF ResetLedger, history
  <2>4. ASSUME NEW w \in Workers, ResetStore(w)
        PROVE  /\ UNCHANGED <<begun, amid, record>>
               /\ \A s \in Sims : SpendsOf(s) # {} => s \in amid
    BY <2>4 DEF ResetStore, history, HalfResetIsMarked, HalfReset
  <2> QED BY <2>1, <2>2, <2>3, <2>4 DEF Busy
<1>2. \A t \in Sims : ~\E amount \in Nat : Spend(amount, t)
  <2>1. UNCHANGED ledger \/ ledger' = <<>> \/ PlaceHold(HoldAmount, "other")
    BY DEF Hold, ResetLedger, ResetStore, Grant, simVars, ledgerVars, NewBook
  <2> QED BY <1>0, <2>1, NoSpendElse
<1>3. ASSUME NEW s \in Sims PROVE Story(s)'
  BY <1>0, <1>1, <1>2, OthersLeaveStory DEF StoriesHold
<1> QED BY <1>1, <1>3 DEF StoriesHold

\* Every step continues the stories.
LEMMA StoriesStep ==
    SimTypeOK /\ StoriesHold /\ HalfResetIsMarked /\ [SimNext]_simVars => StoriesHold'
<1> SUFFICES ASSUME SimTypeOK, StoriesHold, HalfResetIsMarked, [SimNext]_simVars PROVE StoriesHold'
  OBVIOUS
<1>1. LedgerStep
  BY StepMovesLedger
<1> QED BY <1>1, StoryOfIntake, StoryOfExecution, StoryOfRollback, StoryOfOthers DEF SimNext

\* Whoever executes in the ledger of a reset that is half done is marked.
LEMMA MarksStep ==
    SimTypeOK /\ HalfResetIsMarked /\ [SimNext]_simVars => HalfResetIsMarked'
<1> SUFFICES ASSUME SimTypeOK, HalfResetIsMarked, [SimNext]_simVars PROVE HalfResetIsMarked'
  OBVIOUS
<1>0. /\ LedgerTypeOK(Who) /\ LedgerStep /\ book \in Nat /\ request \in [Workers -> Request]
      /\ \A v \in Workers : request[v].book \in Nat /\ request[v].book <= book
  BY StepMovesLedger, SimAssumption DEF SimTypeOK, Who, LedgerTypeOK, Request
<1>1. ASSUME HalfReset' => HalfReset, amid \subseteq amid', book' = book,
             \A s \in Sims : SpendsOf(s)' # {} => SpendsOf(s) # {} \/ (HalfReset => s \in amid'),
             \A v \in Workers : (IsAt(v, "decide") \/ IsAt(v, "spend"))' =>
                \/ /\ IsAt(v, "decide") \/ IsAt(v, "spend")
                   /\ request'[v].book = request[v].book /\ request'[v].sim = request[v].sim
                \/ HalfReset => request'[v].sim \in amid'
      PROVE  HalfResetIsMarked'
  BY <1>1 DEF HalfResetIsMarked
<1>2. ASSUME ~\E amount \in Nat, s \in Sims : Spend(amount, s)
      PROVE  \A s \in Sims : SpendsOf(s)' # {} => SpendsOf(s) # {}
  BY <1>0, <1>2, OthersLeaveSpends
<1>3. ASSUME NEW w \in Workers, ResetLedger(w) PROVE HalfResetIsMarked'
  <2>1. book' = book + 1 /\ ledger' = <<>> /\ \A v \in Workers \ {w} : request'[v] = request[v]
    BY <1>0, <1>3 DEF ResetLedger, NewBook
  <2>2. request'[w].at = "resetStore"
    BY <1>0, <1>3 DEF ResetLedger, Serving
  <2>3. \A s \in Sims : SpendsOf(s)' = {}
    BY <2>1 DEF SpendsOf
  <2>4. \A v \in Workers : (IsAt(v, "decide") \/ IsAt(v, "spend"))' => request'[v].book # book'
    BY <1>0, <2>1, <2>2 DEF IsAt
  <2> QED BY <2>3, <2>4 DEF HalfResetIsMarked
<1>4. ASSUME NEW w \in Workers, ExecuteTake(w) PROVE HalfResetIsMarked'
  <2>1. /\ request'[w].sim = request[w].sim /\ request'[w].at = "decide"
        /\ \A v \in Workers \ {w} : request'[v] = request[v]
        /\ UNCHANGED <<ledger, book>>
        /\ amid' = IF HalfReset THEN amid \cup {request[w].sim} ELSE amid
    <3>1. request[w] \in Request
      BY <1>0
    <3> QED BY <1>0, <1>4, <3>1 DEF ExecuteTake, Request, ledgerVars
  <2>2. HalfReset' => HalfReset
    BY <2>1 DEF HalfReset, IsAt
  <2>3. \A s \in Sims : SpendsOf(s)' # {} => SpendsOf(s) # {}
    BY <2>1 DEF SpendsOf
  <2> QED BY <1>1, <2>1, <2>2, <2>3 DEF IsAt
<1>5. ASSUME NEW w \in Workers, ExecuteDecide(w) PROVE HalfResetIsMarked'
  <2>1. /\ request'[w].sim = request[w].sim /\ request'[w].book = request[w].book
        /\ request[w].at = "decide" /\ request'[w].at = "spend"
        /\ \A v \in Workers \ {w} : request'[v] = request[v]
        /\ UNCHANGED <<ledger, book, amid>>
    <3>1. request[w] \in Request
      BY <1>0
    <3> QED BY <1>0, <1>5, <3>1 DEF ExecuteDecide, Request, ledgerVars, IsAt, history
  <2>2. HalfReset' => HalfReset
    BY <2>1 DEF HalfReset, IsAt
  <2>3. \A s \in Sims : SpendsOf(s)' # {} => SpendsOf(s) # {}
    BY <2>1 DEF SpendsOf
  <2> QED BY <1>1, <2>1, <2>2, <2>3 DEF IsAt
<1>6. ASSUME NEW w \in Workers, ExecuteSpend(w) PROVE HalfResetIsMarked'
  <2>1. PICK s \in Sims : s = request[w].sim
    BY <1>6 DEF SimTypeOK, ExecuteSpend, IsAt, OnSim, Executing
  <2>2. /\ request[w].at = "spend" /\ request'[w].at = "check" /\ amid' = amid /\ book' = book
        /\ \A v \in Workers \ {w} : request'[v] = request[v]
    <3>1. request[w] \in Request
      BY <1>0
    <3>2. PICK e : request' = [request EXCEPT ![w] = [@ EXCEPT !.at = "check", !.entry = e]]
      BY <1>6 DEF ExecuteSpend
    <3> QED BY <1>0, <1>6, <3>1, <3>2 DEF ExecuteSpend, Request, IsAt, history, Spend, ledgerVars
  <2>3. HalfReset' => HalfReset
    BY <2>2 DEF HalfReset, IsAt
  <2>4. \/ UNCHANGED ledger
        \/ request[w].book = book /\ Spend(record[s].amount, s)
    BY <1>6, <2>1 DEF ExecuteSpend, ledgerVars
  <2>5. \A t \in Sims : SpendsOf(t)' # {} => SpendsOf(t) # {} \/ (HalfReset => t \in amid')
    <3>1. CASE UNCHANGED ledger
      BY <3>1 DEF SpendsOf
    <3>2. CASE request[w].book = book /\ Spend(record[s].amount, s)
      <4>1. HalfReset => s \in amid'
        BY <2>1, <2>2, <3>2 DEF HalfResetIsMarked, IsAt
      <4>2. \A t \in Sims \ {s} : SpendsOf(t)' \subseteq SpendsOf(t)
        BY <1>0, <3>2 DEF Spend, Entry, SpendsOf, LedgerTypeOK
      <4> QED BY <4>1, <4>2
    <3> QED BY <2>4, <3>1, <3>2
  <2> QED BY <1>1, <2>2, <2>3, <2>5 DEF IsAt
<1>7. ASSUME NEW w \in Workers,
             \/ ExecuteBegin(w) \/ ExecuteCheck(w) \/ ExecuteConclude(w) \/ RollbackBegin(w)
             \/ RollbackLookup(w) \/ RollbackAppend(w) \/ RollbackRevoke(w) \/ RollbackConclude(w)
             \/ ResetStore(w)
      PROVE  HalfResetIsMarked'
  <2>1. /\ \A v \in Workers \ {w} : request'[v] = request[v]
        /\ request'[w].at \in Stage \ {"decide", "spend", "resetStore"}
    <3>1. request[w] \in Request
      BY <1>0
    <3>2. CASE RollbackLookup(w) \/ RollbackAppend(w) \/ RollbackRevoke(w)
      <4>1. Ends(w) \/ Refunds(w) \/ Goes(w, "revoke") \/ Goes(w, "concludeRollback")
        BY <3>2 DEF RollbackLookup, RollbackAppend, RollbackRevoke
      <4>2. request'[w].at \in {"idle", "append", "revoke", "concludeRollback"}
        <5>1. CASE Ends(w)
          BY <1>0, <5>1 DEF Ends, Idle, Serving
        <5>2. CASE Refunds(w)
          BY <1>0, <3>1, <5>2 DEF Refunds, Request
        <5>3. CASE Goes(w, "revoke") \/ Goes(w, "concludeRollback")
          BY <1>0, <3>1, <5>3 DEF Goes, Request
        <5> QED BY <4>1, <5>1, <5>2, <5>3
      <4>3. \A v \in Workers \ {w} : request'[v] = request[v]
        BY <1>0, <4>1 DEF Ends, Refunds, Goes
      <4> QED BY <4>2, <4>3 DEF Stage, RollingBack
    <3>3. CASE ExecuteCheck(w)
      <4>1. PICK c : request' = [request EXCEPT ![w] = [@ EXCEPT !.at = "conclude", !.post = c]]
        BY <3>3 DEF ExecuteCheck
      <4> QED BY <1>0, <3>1, <4>1 DEF Request, Stage, Executing
    <3>4. CASE \/ ExecuteBegin(w) \/ ExecuteConclude(w) \/ RollbackBegin(w) \/ RollbackConclude(w)
               \/ ResetStore(w)
      <4>1. PICK at, s, e : /\ at \in {"take", "refund", "idle"}
                            /\ request' = [request EXCEPT ![w] = Serving(at, s, 0, e)]
        BY <3>4 DEF ExecuteBegin, ExecuteConclude, RollbackBegin, RollbackConclude, ResetStore, Ends, Idle
      <4> QED BY <1>0, <4>1 DEF Serving, Stage, Executing, RollingBack
    <3> QED BY <1>7, <3>2, <3>3, <3>4
  <2>2. amid' = amid /\ book' = book
    BY <1>7 DEF ExecuteBegin, ExecuteCheck, ExecuteConclude, RollbackBegin, RollbackLookup,
                RollbackAppend, RollbackRevoke, RollbackConclude, ResetStore, ledgerVars, history, Refund
  <2>3. UNCHANGED ledger \/ \E n, by : Refund(n, by)
    BY <1>7 DEF ExecuteBegin, ExecuteCheck, ExecuteConclude, RollbackBegin, RollbackLookup,
                RollbackAppend, RollbackRevoke, RollbackConclude, ResetStore, ledgerVars
  <2>4. ~\E amount \in Nat, s \in Sims : Spend(amount, s)
    BY <1>0, <2>3, NoSpendElse
  <2>5. HalfReset' => HalfReset
    BY <2>1 DEF HalfReset, IsAt
  <2> QED BY <1>1, <1>2, <2>1, <2>2, <2>4, <2>5 DEF IsAt
<1>8. CASE (\E w \in Workers : Simulate(w) \/ Reject(w) \/ Hold(w)) \/ Grant \/ UNCHANGED simVars
  <2>1. UNCHANGED <<request, amid, book>>
    BY <1>8 DEF Simulate, Reject, Hold, Grant, simVars, ledgerVars, history, PlaceHold
  <2>2. UNCHANGED ledger \/ PlaceHold(HoldAmount, "other")
    BY <1>8 DEF Simulate, Reject, Hold, Grant, simVars, ledgerVars
  <2>3. ~\E amount \in Nat, s \in Sims : Spend(amount, s)
    BY <1>0, <2>2, NoSpendElse
  <2> QED BY <1>1, <1>2, <2>1, <2>3 DEF HalfReset, IsAt
<1> QED BY <1>3, <1>4, <1>5, <1>6, <1>7, <1>8 DEF SimNext

\* However the requests race, what one execute request spent can be given back:
\* the record knows the entry, the store knows the record unless a reset overtook
\* the request, and a record that is rolled back has nothing of it outstanding.
THEOREM SpendsCanBeRolledBack == SimSpec => []SpendCanBeRolledBack
<1>1. StoriesHold => SpendCanBeRolledBack
  <2> SUFFICES ASSUME StoriesHold, AtRest, NEW s \in Sims, begun[s] = 1,
                      NEW n \in SpendsOf(s) \cap Outstanding
               PROVE  /\ s \in stored \/ s \in amid
                      /\ record[s].status \in {"executed", "escalated"}
                      /\ record[s].spent = At(book, n)
    BY DEF SpendCanBeRolledBack
  <2>1. Concluded(s)
    BY DEF StoriesHold, Story, InHand, AtRest, IsAt, Executing
  <2> QED BY <2>1 DEF Concluded, Settled
<1>2. SimInit => HalfResetIsMarked
  BY DEF SimInit, HalfResetIsMarked, HalfReset, IsAt, Idle, Serving
<1>3. /\ SimTypeOK /\ StoriesHold /\ HalfResetIsMarked /\ [SimNext]_simVars => StoriesHold'
      /\ SimTypeOK /\ HalfResetIsMarked /\ [SimNext]_simVars => HalfResetIsMarked'
  BY StoriesStep, MarksStep
<1> QED BY <1>1, <1>2, <1>3, StoriesInit, SimTypeCorrect, PTL DEF SimSpec


-----------------------------------------------------------------------------

(***************************************************************************)
(* OverspendIsFlagged looks at the last commitment only, and only at rest. *)
(* The invariant behind it is about every outstanding spend: what was      *)
(* committed up to it is within the limit, or its simulation has its       *)
(* receipt, or the request that made it is about to see the breach.  The   *)
(* first case is stable because what is outstanding up to a place of the   *)
(* ledger only shrinks, and so does its sum.                               *)
(***************************************************************************)

UpTo(n) == {m \in Outstanding : m <= n}

AboutToFlag(w, n) ==
    /\ request[w].sim = ledger[n].by
    /\ \/ request[w].at = "check" /\ request[w].entry = At(book, n)
       \/ request[w].at = "conclude" /\ request[w].post = "violated"

Flagged(n) ==
    \/ AmountSum(ledger, UpTo(n)) <= Limit
    \/ Receipt("escalate", ledger[n].by) \in audit
    \/ \E w \in Workers : AboutToFlag(w, n)

SpendsAreFlagged == \A n \in Outstanding : ledger[n].kind = "spend" => Flagged(n)

\* What is outstanding is finite, and its amounts are natural numbers.
LEMMA OutstandingIsFinite ==
    ASSUME LedgerTypeOK(Who)
    PROVE  /\ Outstanding \subseteq 1 .. Len(ledger) /\ Len(ledger) \in Nat
           /\ IsFiniteSet(1 .. Len(ledger)) /\ IsFiniteSet(Outstanding)
           /\ \A n \in 1 .. Len(ledger) : ledger[n].amount \in Nat
           /\ Committed \in Nat
           /\ Committed = AmountSum(ledger, Outstanding)
<1>1. Len(ledger) \in Nat /\ DOMAIN ledger = 1 .. Len(ledger)
  BY DEF LedgerTypeOK
<1>2. Outstanding \subseteq 1 .. Len(ledger)
  BY <1>1 DEF Outstanding
<1>3. IsFiniteSet(1 .. Len(ledger)) /\ IsFiniteSet(Outstanding)
  <2>1. 1 \in Int /\ Len(ledger) \in Int
    BY <1>1
  <2>2. IsFiniteSet(1 .. Len(ledger))
    BY <2>1, FS_Interval
  <2> QED BY <1>2, <2>2, FS_Subset
<1>4. \A n \in 1 .. Len(ledger) : ledger[n].amount \in Nat
  <2>1. \A n \in 1 .. Len(ledger) : ledger[n] \in EntryType
    <3>1. ledger \in Seq(EntryType)
      BY DEF LedgerTypeOK, EntryType
    <3> HIDE DEF EntryType
    <3> QED BY <1>1, <3>1
  <2> QED BY <2>1 DEF EntryType
<1>5. Committed = AmountSum(ledger, Outstanding)
  BY DEF Committed, AmountSum
<1>6. Committed \in Nat
  BY <1>2, <1>3, <1>4, <1>5, SumTakesOut
<1> QED BY <1>1, <1>2, <1>3, <1>4, <1>5, <1>6

\* Appending an entry takes nothing back: the sum up to an earlier place does not grow.
LEMMA SumUpToShrinks ==
    ASSUME LedgerTypeOK(Who), NEW e \in EntryType, ledger' = Append(ledger, e),
           NEW n \in DOMAIN ledger
    PROVE  /\ ledger'[n] = ledger[n]
           /\ n \in Outstanding' => n \in Outstanding
           /\ AmountSum(ledger, UpTo(n)) <= Limit => AmountSum(ledger', UpTo(n)') <= Limit
<1>0. Len(ledger) \in Nat /\ DOMAIN ledger = 1 .. Len(ledger) /\ ledger \in Seq(EntryType)
  BY DEF LedgerTypeOK, EntryType
<1>1. /\ DOMAIN ledger' = 1 .. Len(ledger) + 1
      /\ \A m \in DOMAIN ledger : ledger'[m] = ledger[m]
  BY <1>0
<1>2. \A m \in DOMAIN ledger : m \in Outstanding' => m \in Outstanding
  BY <1>0, <1>1 DEF Outstanding, IsCommitment, RefundsOf
<1>3. UpTo(n)' \subseteq UpTo(n) /\ UpTo(n) \subseteq 1 .. Len(ledger)
  BY <1>0, <1>1, <1>2 DEF UpTo, Outstanding
<1>4. PICK A : A = UpTo(n)'
  OBVIOUS
<1>5. PICK B : B = UpTo(n)
  OBVIOUS
<1>6. PICK l : l = ledger'
  OBVIOUS
<1>7. AmountSum(ledger, A) <= AmountSum(ledger, B)
  BY <1>3, <1>4, <1>5, OutstandingIsFinite, SumGrows
<1>8. IsFiniteSet(A) /\ \A m \in A : l[m].amount = ledger[m].amount
  BY <1>0, <1>1, <1>3, <1>4, <1>6, OutstandingIsFinite, FS_Subset
<1>9. AmountSum(l, A) = AmountSum(ledger, A)
  BY <1>8, SumDependsOnMembers
<1>10. AmountSum(ledger, A) \in Nat /\ AmountSum(ledger, B) \in Nat
  BY <1>3, <1>4, <1>5, OutstandingIsFinite, SumTakesOut
<1>11. Limit \in Nat
  BY LimitAssumption
<1>12. AmountSum(ledger, B) <= Limit => AmountSum(l, A) <= Limit
  BY <1>7, <1>9, <1>10, <1>11
<1> QED BY <1>1, <1>2, <1>4, <1>5, <1>6, <1>12

\* A step that flags at least what it did before, on a ledger that at most grew.
LEMMA FlagsStay ==
    ASSUME LedgerTypeOK(Who), SpendsAreFlagged,
           NEW n \in Outstanding', ledger'[n].kind = "spend",
           \/ UNCHANGED ledger
           \/ n \in DOMAIN ledger /\ \E e \in EntryType : ledger' = Append(ledger, e),
           audit \subseteq audit',
           \A w \in Workers : AboutToFlag(w, n) =>
               AboutToFlag(w, n)' \/ Receipt("escalate", ledger[n].by) \in audit'
                                  \/ AmountSum(ledger, UpTo(n)) <= Limit
    PROVE  Flagged(n)'
<1>1. /\ n \in Outstanding /\ ledger'[n] = ledger[n]
      /\ AmountSum(ledger, UpTo(n)) <= Limit => AmountSum(ledger', UpTo(n)') <= Limit
  <2>1. CASE UNCHANGED ledger
    <3>1. Outstanding' = Outstanding
      BY <2>1 DEF Outstanding, IsCommitment, RefundsOf
    <3> QED BY <2>1, <3>1 DEF UpTo
  <2>2. CASE n \in DOMAIN ledger /\ \E e \in EntryType : ledger' = Append(ledger, e)
    BY <2>2, SumUpToShrinks
  <2> QED BY <2>1, <2>2
<1>2. Flagged(n)
  BY <1>1 DEF SpendsAreFlagged
<1> QED BY <1>1, <1>2 DEF Flagged

\* A step that spends nothing and touches no request about to flag.
LEMMA QuietFlags ==
    ASSUME SimTypeOK, SpendsAreFlagged, LedgerStep, audit \subseteq audit',
           ~\E amount \in Nat, s \in Sims : Spend(amount, s),
           \A v \in Workers : request[v].at \in {"check", "conclude"} => request'[v] = request[v]
    PROVE  SpendsAreFlagged'
<1>0. LedgerTypeOK(Who) /\ Len(ledger) \in Nat /\ DOMAIN ledger = 1 .. Len(ledger)
  BY DEF SimTypeOK, Who, LedgerTypeOK
<1>1. \/ UNCHANGED ledger /\ book' = book
      \/ /\ book' = book
         /\ \E e \in EntryType : e.kind # "spend" /\ ledger' = Append(ledger, e)
      \/ ledger' = <<>>
  <2>1. CASE PlaceHold(HoldAmount, "other")
    <3>1. /\ Entry("hold", HoldAmount, "other", NoEntry) \in EntryType
          /\ Entry("hold", HoldAmount, "other", NoEntry).kind = "hold"
      BY SimAssumption DEF Entry, EntryType, Who, NoEntry
    <3> QED BY <2>1, <3>1 DEF PlaceHold
  <2>2. ASSUME NEW n \in Nat, NEW by \in Sims, IsCommitment(n), Refund(n, by)
        PROVE  /\ book' = book
               /\ \E e \in EntryType : e.kind # "spend" /\ ledger' = Append(ledger, e)
    <3>1. n \in DOMAIN ledger /\ ledger[n] \in EntryType
      <4>1. ledger \in Seq(EntryType)
        BY <1>0 DEF LedgerTypeOK, EntryType
      <4> QED BY <2>2, <4>1 DEF Refund, IsCommitment
    <3>2. /\ Entry("refund", ledger[n].amount, by, n) \in EntryType
          /\ Entry("refund", ledger[n].amount, by, n).kind = "refund"
      BY <3>1 DEF Entry, EntryType, Who
    <3> QED BY <2>2, <3>2 DEF Refund
  <2> QED BY <2>1, <2>2 DEF LedgerStep, NewBook, ledgerVars
<1>2. ASSUME NEW n \in Outstanding', ledger'[n].kind = "spend" PROVE Flagged(n)'
  <2>1. /\ book' = book
        /\ \/ UNCHANGED ledger
           \/ n \in DOMAIN ledger /\ \E e \in EntryType : ledger' = Append(ledger, e)
    <3>1. n \in DOMAIN ledger'
      BY <1>2 DEF Outstanding
    <3>2. CASE ledger' = <<>>
      BY <3>1, <3>2
    <3>3. CASE \E e \in EntryType : e.kind # "spend" /\ ledger' = Append(ledger, e)
      <4>1. PICK e \in EntryType : e.kind # "spend" /\ ledger' = Append(ledger, e)
        BY <3>3
      <4>2. DOMAIN ledger' = 1 .. Len(ledger) + 1 /\ ledger'[Len(ledger) + 1] = e
        BY <1>0, <4>1 DEF LedgerTypeOK
      <4>3. n \in 1 .. Len(ledger)
        BY <1>0, <1>2, <3>1, <4>1, <4>2
      <4>4. book' = book
        BY <1>0, <1>1, <4>2
      <4> QED BY <1>0, <4>1, <4>3, <4>4
    <3> QED BY <1>1, <3>2, <3>3
  <2>2. n \in DOMAIN ledger /\ ledger'[n] = ledger[n]
    BY <1>0, <1>2, <2>1 DEF Outstanding, LedgerTypeOK
  <2>3. \A v \in Workers : AboutToFlag(v, n) => AboutToFlag(v, n)'
    BY <2>1, <2>2 DEF AboutToFlag
  <2> QED BY <1>0, <1>2, <2>1, <2>3, FlagsStay
<1> QED BY <1>2 DEF SpendsAreFlagged

\* The requests that execute: the spend, the check and the receipt.
LEMMA SpendIsAboutToBeFlagged ==
    ASSUME SimTypeOK, SpendsAreFlagged, NEW w \in Workers, ExecuteSpend(w)
    PROVE  SpendsAreFlagged'
<1>0. /\ LedgerTypeOK(Who) /\ Len(ledger) \in Nat /\ DOMAIN ledger = 1 .. Len(ledger)
      /\ request \in [Workers -> Request] /\ ledger \in Seq(EntryType)
  BY DEF SimTypeOK, Who, LedgerTypeOK, EntryType
<1>1. PICK s \in Sims : s = request[w].sim
  BY DEF SimTypeOK, ExecuteSpend, IsAt, OnSim, Executing
<1>2. /\ request[w].at = "spend" /\ audit' = audit
      /\ request'[w].at = "check" /\ request'[w].sim = s
      /\ \A v \in Workers \ {w} : request'[v] = request[v]
  BY <1>0, <1>1 DEF ExecuteSpend, IsAt, Request
<1>3. \A n : ~AboutToFlag(w, n)
  BY <1>2 DEF AboutToFlag
<1>4. CASE UNCHANGED ledgerVars
  <2>1. ASSUME NEW n \in Outstanding', ledger'[n].kind = "spend" PROVE Flagged(n)'
    <3>1. \A v \in Workers : AboutToFlag(v, n) => AboutToFlag(v, n)'
      BY <1>2, <1>3, <1>4 DEF AboutToFlag, ledgerVars
    <3> QED BY <1>0, <1>2, <1>4, <2>1, <3>1, FlagsStay DEF ledgerVars
  <2> QED BY <2>1 DEF SpendsAreFlagged
<1>5. CASE ~UNCHANGED ledgerVars
  <2>1. /\ request[w].decision = "allow" /\ request[w].book = book
        /\ Spend(record[s].amount, s)
    BY <1>1, <1>5 DEF ExecuteSpend
  <2>2. request'[w].entry = At(book, Len(ledger) + 1)
    BY <1>0, <2>1 DEF ExecuteSpend, Request
  <2>3. record[s].amount \in Nat
    BY DEF SimTypeOK, Record
  <2>4. PICK e \in EntryType : e.by = s /\ ledger' = Append(ledger, e) /\ book' = book
    <3>1. /\ Entry("spend", record[s].amount, s, NoEntry) \in EntryType
          /\ Entry("spend", record[s].amount, s, NoEntry).by = s
      BY <2>1, <2>3 DEF Entry, EntryType, Who, NoEntry, Spend
    <3> QED BY <2>1, <3>1 DEF Spend
  <2>5. /\ DOMAIN ledger' = 1 .. Len(ledger) + 1
        /\ ledger'[Len(ledger) + 1] = e
        /\ \A n \in DOMAIN ledger : ledger'[n] = ledger[n]
    BY <1>0, <2>4
  <2>6. ASSUME NEW n \in Outstanding', ledger'[n].kind = "spend" PROVE Flagged(n)'
    <3>1. CASE n = Len(ledger) + 1
      <4>1. AboutToFlag(w, n)'
        BY <1>2, <2>2, <2>4, <2>5, <3>1 DEF AboutToFlag
      <4> QED BY <4>1 DEF Flagged
    <3>2. CASE n # Len(ledger) + 1
      <4>1. n \in DOMAIN ledger
        BY <1>0, <2>5, <2>6, <3>2 DEF Outstanding
      <4>2. \A v \in Workers : AboutToFlag(v, n) => AboutToFlag(v, n)'
        BY <1>2, <1>3, <2>4, <2>5, <4>1 DEF AboutToFlag
      <4> QED BY <1>0, <1>2, <2>4, <2>6, <4>1, <4>2, FlagsStay
    <3> QED BY <3>1, <3>2
  <2> QED BY <2>6 DEF SpendsAreFlagged
<1> QED BY <1>4, <1>5

\* The check after a spend flags what it finds overdrawn.
LEMMA CheckKeepsFlags ==
    ASSUME SimTypeOK, SpendsAreFlagged, NEW w \in Workers, ExecuteCheck(w) \/ ExecuteConclude(w)
    PROVE  SpendsAreFlagged'
<1>0. LedgerTypeOK(Who) /\ request \in [Workers -> Request]
  BY DEF SimTypeOK, Who
<1>1. /\ UNCHANGED <<ledger, book>> /\ audit \subseteq audit'
      /\ \A v \in Workers \ {w} : request'[v] = request[v]
  BY <1>0 DEF ExecuteCheck, ExecuteConclude, ledgerVars, Ends
<1>2. ASSUME NEW n \in Outstanding', ledger'[n].kind = "spend" PROVE Flagged(n)'
  <2>1. \A v \in Workers \ {w} : AboutToFlag(v, n) => AboutToFlag(v, n)'
    BY <1>1 DEF AboutToFlag
  <2>2. ASSUME AboutToFlag(w, n), ExecuteCheck(w)
        PROVE  AboutToFlag(w, n)' \/ AmountSum(ledger, UpTo(n)) <= Limit
    <3>1. CASE OverLimit
      <4>1. /\ request'[w].at = "conclude" /\ request'[w].post = "violated"
            /\ request'[w].sim = request[w].sim
        BY <1>0, <2>2, <3>1 DEF ExecuteCheck, Request
      <4> QED BY <1>1, <2>2, <4>1 DEF AboutToFlag
    <3>2. CASE ~OverLimit
      <4>1. UpTo(n) \subseteq Outstanding
        BY DEF UpTo
      <4>2. AmountSum(ledger, UpTo(n)) <= AmountSum(ledger, Outstanding)
        BY <1>0, <4>1, OutstandingIsFinite, SumGrows
      <4>3. AmountSum(ledger, UpTo(n)) \in Nat
        BY <1>0, <4>1, OutstandingIsFinite, SumTakesOut
      <4>4. Committed <= Limit /\ Committed \in Nat /\ Committed = AmountSum(ledger, Outstanding)
        BY <1>0, <3>2, LimitAssumption, OutstandingIsFinite DEF OverLimit
      <4> QED BY <4>2, <4>3, <4>4, LimitAssumption
    <3> QED BY <3>1, <3>2
  <2>3. ASSUME AboutToFlag(w, n), ExecuteConclude(w)
        PROVE  Receipt("escalate", ledger[n].by) \in audit'
    BY <2>3 DEF AboutToFlag, ExecuteConclude, IsAt
  <2> QED BY <1>0, <1>1, <1>2, <2>1, <2>2, <2>3, FlagsStay
<1> QED BY <1>2 DEF SpendsAreFlagged

\* Every step keeps the flags behind the overspends.
LEMMA FlagsStep ==
    SimTypeOK /\ SpendsAreFlagged /\ [SimNext]_simVars => SpendsAreFlagged'
<1> SUFFICES ASSUME SimTypeOK, SpendsAreFlagged, [SimNext]_simVars PROVE SpendsAreFlagged'
  OBVIOUS
<1>0. LedgerStep /\ request \in [Workers -> Request] /\ LedgerTypeOK(Who)
  BY StepMovesLedger DEF SimTypeOK, Who
<1>1. ASSUME NEW w \in Workers, ExecuteSpend(w) PROVE SpendsAreFlagged'
  BY <1>1, SpendIsAboutToBeFlagged
<1>2. ASSUME NEW w \in Workers, ExecuteCheck(w) \/ ExecuteConclude(w) PROVE SpendsAreFlagged'
  BY <1>2, CheckKeepsFlags
<1>3. ASSUME NEW w \in Workers,
             \/ Simulate(w) \/ Reject(w) \/ ExecuteBegin(w) \/ ExecuteTake(w) \/ ExecuteDecide(w)
             \/ RollbackBegin(w) \/ RollbackLookup(w) \/ RollbackAppend(w) \/ RollbackRevoke(w)
             \/ RollbackConclude(w) \/ Hold(w) \/ ResetLedger(w) \/ ResetStore(w)
      PROVE  SpendsAreFlagged'
  <2>1. audit \subseteq audit'
    BY <1>3 DEF Simulate, Reject, ExecuteBegin, ExecuteTake, ExecuteDecide, RollbackBegin, RollbackLookup,
                RollbackAppend, RollbackRevoke, RollbackConclude, Hold, ResetLedger, ResetStore
  <2>2. request[w].at \notin {"check", "conclude"}
    BY <1>3 DEF Simulate, Reject, ExecuteBegin, ExecuteTake, ExecuteDecide, RollbackBegin, RollbackLookup,
                RollbackAppend, RollbackRevoke, RollbackConclude, Hold, ResetLedger, ResetStore, IsAt
  <2>3. \A v \in Workers \ {w} : request'[v] = request[v]
    BY <1>0, <1>3 DEF Simulate, Reject, ExecuteBegin, ExecuteTake, ExecuteDecide, RollbackBegin, RollbackLookup,
                RollbackAppend, RollbackRevoke, RollbackConclude, Hold, ResetLedger, ResetStore, Goes, Ends, Refunds
  <2>4. \/ UNCHANGED ledger \/ ledger' = <<>>
        \/ PlaceHold(HoldAmount, "other") \/ \E n, by : Refund(n, by)
    BY <1>3 DEF Simulate, Reject, ExecuteBegin, ExecuteTake, ExecuteDecide, RollbackBegin, RollbackLookup,
                RollbackAppend, RollbackRevoke, RollbackConclude, Hold, ResetLedger, ResetStore, ledgerVars, NewBook
  <2>5. ~\E amount \in Nat, s \in Sims : Spend(amount, s)
    BY <1>0, <2>4, NoSpendElse
  <2> QED BY <1>0, <2>1, <2>2, <2>3, <2>5, QuietFlags
<1>4. CASE Grant \/ UNCHANGED simVars
  <2>1. UNCHANGED <<audit, request, ledger>>
    BY <1>4 DEF Grant, simVars, ledgerVars
  <2>2. ~\E amount \in Nat, s \in Sims : Spend(amount, s)
    BY <1>0, <2>1, NoSpendElse
  <2> QED BY <1>0, <2>1, <2>2, QuietFlags
<1> QED BY <1>1, <1>2, <1>3, <1>4 DEF SimNext

\* The last outstanding commitment closes the sum: what is committed up to it is all.
LEMMA LastClosesTheSum ==
    ASSUME LedgerTypeOK(Who), OverLimit
    PROVE  \E n \in Outstanding : \A m \in Outstanding : m <= n
<1>0. /\ Outstanding \subseteq 1 .. Len(ledger) /\ Len(ledger) \in Nat
      /\ Committed = AmountSum(ledger, Outstanding)
  BY OutstandingIsFinite
<1>1. Outstanding # {}
  <2> SUFFICES ASSUME Outstanding = {} PROVE FALSE
    OBVIOUS
  <2>1. Committed = AmountSum(ledger, {})
    BY <1>0
  <2>2. Committed = 0
    BY <2>1, SumOfNone
  <2> QED BY <2>2, LimitAssumption DEF OverLimit
<1> DEFINE Above == {k \in Nat : \A m \in Outstanding : m <= k}
<1>2. PICK k \in Above : \A j \in Above : k <= j
  <2>1. Len(ledger) \in Above
    BY <1>0
  <2> QED BY <2>1, LeastNumber
<1>3. k \in Outstanding
  <2> SUFFICES ASSUME k \notin Outstanding PROVE FALSE
    OBVIOUS
  <2>1. \A m \in Outstanding : m \in Nat \ {0} /\ m <= k - 1
    BY <1>0, <1>2
  <2>2. k - 1 \in Above
    BY <1>1, <1>2, <2>1
  <2> QED BY <1>2, <2>2
<1> QED BY <1>2, <1>3

\* The safety net holds however requests race: at rest, a budget over its limit
\* has an escalation on record for the spend that came last, unless a hold did.
THEOREM OverspendsAreFlagged == SimSpec => []OverspendIsFlagged
<1>1. SimInit => SpendsAreFlagged
  BY DEF SimInit, LedgerInit, SpendsAreFlagged, Outstanding
<1>2. SimTypeOK /\ SpendsAreFlagged /\ [SimNext]_simVars => SpendsAreFlagged'
  BY FlagsStep
<1>3. SimTypeOK /\ SpendsAreFlagged => OverspendIsFlagged
  <2> SUFFICES ASSUME SimTypeOK, SpendsAreFlagged, AtRest, OverLimit,
                      NEW last, last = CHOOSE n \in Outstanding : \A m \in Outstanding : m <= n,
                      ledger[last].kind = "spend"
               PROVE  Receipt("escalate", ledger[last].by) \in audit
    BY DEF OverspendIsFlagged
  <2>0. LedgerTypeOK(Who)
    BY DEF SimTypeOK, Who
  <2>1. last \in Outstanding /\ \A m \in Outstanding : m <= last
    BY <2>0, LastClosesTheSum
  <2>2. UpTo(last) = Outstanding
    BY <2>1 DEF UpTo
  <2>3. ~(AmountSum(ledger, UpTo(last)) <= Limit)
    BY <2>0, <2>2, OutstandingIsFinite, LimitAssumption DEF OverLimit
  <2>4. \A w \in Workers : ~AboutToFlag(w, last)
    BY DEF AtRest, IsAt, AboutToFlag
  <2> QED BY <2>1, <2>3, <2>4 DEF SpendsAreFlagged, Flagged
<1> QED BY <1>1, <1>2, <1>3, SimTypeCorrect, PTL DEF SimSpec

=============================================================================
