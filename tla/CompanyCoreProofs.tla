--------------------------- MODULE CompanyCoreProofs ---------------------------
(***************************************************************************)
(* What holds of CompanyCore for any week, any opening books, any standing *)
(* of the roles and every bound: its type invariant and the safety         *)
(* properties.  Three parts carry the proofs:                              *)
(*   - what a day appends to the log, place by place, also where it breaks *)
(*     off (Posts), and what every step emits;                             *)
(*   - the fold of the log: it exists, folds of the same events agree, and *)
(*     what it says is frozen or due can be read off the log;              *)
(*   - an inductive invariant for each property: LogInv for the inbox,     *)
(*     MoneyInv for what the roles have yet to settle, DayInv for the days *)
(*     that are over, HoldsInv for the types.                              *)
(***************************************************************************)
EXTENDS CompanyCore, SequenceTheorems, FoldLemmas, TLAPS

-----------------------------------------------------------------------------
(* How the log grows. *)

\* Events that do not speak of the inbox, as those of the world.
Quiet(es) == Listed(es) /\ \A n \in DOMAIN es : es[n].kind \notin InboxKinds

LEMMA GivenIsQuiet ==
    ASSUME NEW es, NEW kinds \in {WorldKinds, OpeningKinds}, Given(es, kinds)
    PROVE  Quiet(es)
BY DEF Given, Quiet, WorldKinds, OpeningKinds, InboxKinds

Speaks(entry) == entry.e.kind \in InboxKinds
Silent(entries) == Listed(entries) /\ \A n \in DOMAIN entries : ~Speaks(entries[n])

\* new is old, and then entries; of these only the last may speak of the inbox.
Continues(old, new) ==
    /\ Listed(new)
    /\ DOMAIN old \subseteq DOMAIN new
    /\ \A n \in DOMAIN old : new[n] = old[n]
    /\ \A n \in DOMAIN new \ DOMAIN old : Speaks(new[n]) => n = Len(new)

LEMMA SeqIsListed ==
    ASSUME NEW S, NEW s \in Seq(S)
    PROVE  Listed(s)
<1>1. DOMAIN s = 1 .. Len(s) /\ Len(s) \in Nat
  BY LenProperties
<1> QED BY <1>1 DEF Listed

LEMMA ListedJoins ==
    ASSUME NEW s, NEW t, Listed(s), Listed(t)
    PROVE  /\ Listed(s \o t)
           /\ DOMAIN (s \o t) = 1 .. Len(s) + Len(t)
           /\ \A n \in 1 .. Len(s) : (s \o t)[n] = s[n]
           /\ \A n \in 1 .. Len(t) : (s \o t)[Len(s) + n] = t[n]
<1> DEFINE S == {s[n] : n \in DOMAIN s} \cup {t[n] : n \in DOMAIN t}
           u == s \o t
<1>1. s \in Seq(S) /\ t \in Seq(S)
  <2>1. s \in Seq({s[n] : n \in DOMAIN s}) /\ t \in Seq({t[n] : n \in DOMAIN t})
    BY DEF Listed
  <2> QED BY <2>1, SeqMonotonic
<1>2. /\ u \in Seq(S) /\ Len(u) = Len(s) + Len(t)
      /\ \A n \in 1 .. Len(s) : u[n] = s[n]
      /\ \A n \in 1 .. Len(t) : u[Len(s) + n] = t[n]
  <2> HIDE DEF S
  <2> QED BY <1>1, ConcatProperties
<1>3. Listed(u)
  <2> HIDE DEF S, u
  <2> QED BY <1>2, SeqIsListed
<1>4. DOMAIN u = 1 .. Len(u)
  <2> HIDE DEF S, u
  <2> QED BY <1>2, LenProperties
<1> QED BY <1>2, <1>3, <1>4

LEMMA ListedLen ==
    ASSUME NEW s, Listed(s)
    PROVE  Len(s) \in Nat /\ DOMAIN s = 1 .. Len(s)
BY LenProperties DEF Listed

LEMMA ListedOne ==
    ASSUME NEW x
    PROVE  Listed(<<x>>) /\ Len(<<x>>) = 1 /\ DOMAIN <<x>> = 1 .. 1 /\ <<x>>[1] = x
BY DEF Listed

LEMMA SilentContinues ==
    ASSUME NEW s, NEW t, Listed(s), Silent(t)
    PROVE  Continues(s, s \o t) /\ \A n \in DOMAIN (s \o t) \ DOMAIN s : ~Speaks((s \o t)[n])
<1> DEFINE u == s \o t
<1>1. /\ Listed(u) /\ DOMAIN u = 1 .. Len(s) + Len(t)
      /\ \A n \in 1 .. Len(s) : u[n] = s[n]
      /\ \A n \in 1 .. Len(t) : u[Len(s) + n] = t[n]
  BY ListedJoins DEF Silent
<1>2. Len(s) \in Nat /\ Len(t) \in Nat /\ DOMAIN s = 1 .. Len(s) /\ DOMAIN t = 1 .. Len(t)
  BY ListedLen DEF Silent
<1> HIDE DEF u
<1>3. ASSUME NEW n \in DOMAIN u \ DOMAIN s PROVE ~Speaks(u[n])
  <2>1. PICK m \in 1 .. Len(t) : n = Len(s) + m
    <3>1. n - Len(s) \in 1 .. Len(t) /\ n = Len(s) + (n - Len(s))
      BY <1>1, <1>2
    <3> QED BY <3>1
  <2>2. u[n] = t[m]
    BY <2>1, <1>1
  <2> QED BY <2>1, <2>2, <1>2 DEF Silent
<1>4. DOMAIN s \subseteq DOMAIN u /\ \A n \in DOMAIN s : u[n] = s[n]
  BY <1>1, <1>2
<1>5. Continues(s, u)
  BY <1>1, <1>3, <1>4 DEF Continues
<1> QED BY <1>3, <1>5 DEF u

\* One more entry at the end.
LEMMA OneMoreContinues ==
    ASSUME NEW s, NEW x, Listed(s)
    PROVE  /\ Continues(s, Append(s, x))
           /\ DOMAIN Append(s, x) = DOMAIN s \cup {Len(Append(s, x))}
           /\ Len(Append(s, x)) \notin DOMAIN s
           /\ Append(s, x)[Len(Append(s, x))] = x
<1> DEFINE S == {s[n] : n \in DOMAIN s} \cup {x}
           u == Append(s, x)
<1>1. s \in Seq(S) /\ x \in S
  <2>1. s \in Seq({s[n] : n \in DOMAIN s})
    BY DEF Listed
  <2> QED BY <2>1, SeqMonotonic
<1> HIDE DEF S
<1>2. /\ u \in Seq(S) /\ Len(u) = Len(s) + 1
      /\ \A n \in 1 .. Len(s) : u[n] = s[n]
      /\ u[Len(s) + 1] = x
  BY <1>1, AppendProperties
<1> HIDE DEF u
<1>3. Len(s) \in Nat /\ DOMAIN s = 1 .. Len(s) /\ DOMAIN u = 1 .. Len(u)
  BY <1>1, <1>2, LenProperties
<1>4. Listed(u)
  BY <1>2, SeqIsListed
<1>5. DOMAIN u = DOMAIN s \cup {Len(u)} /\ Len(u) \notin DOMAIN s
  BY <1>2, <1>3
<1>6. Continues(s, u)
  BY <1>2, <1>3, <1>4, <1>5 DEF Continues
<1> QED BY <1>2, <1>5, <1>6 DEF u

LEMMA AppendIsOne ==
    ASSUME NEW s, NEW x, Listed(s)
    PROVE  s \o <<x>> = Append(s, x)
<1> DEFINE S == {s[n] : n \in DOMAIN s} \cup {x}
<1>1. s \in Seq(S) /\ x \in S
  <2>1. s \in Seq({s[n] : n \in DOMAIN s})
    BY DEF Listed
  <2> QED BY <2>1, SeqMonotonic
<1> HIDE DEF S
<1> QED BY <1>1, AppendIsConcat

\* Silent entries, and then one more.
LEMMA LastContinues ==
    ASSUME NEW s, NEW t, NEW x, NEW u, Listed(s), Silent(t), Append(s \o t, x) = u
    PROVE  Continues(s, u) /\ Len(u) \in DOMAIN u \ DOMAIN s /\ u[Len(u)] = x
<1> DEFINE v == s \o t
<1>1. Continues(s, v) /\ \A n \in DOMAIN v \ DOMAIN s : ~Speaks(v[n])
  BY SilentContinues
<1> HIDE DEF v
<1>2. Listed(v)
  BY <1>1 DEF Continues
<1>3. /\ Continues(v, u) /\ DOMAIN u = DOMAIN v \cup {Len(u)} /\ Len(u) \notin DOMAIN v
      /\ u[Len(u)] = x
  BY <1>2, OneMoreContinues DEF v
<1>4. /\ Listed(u) /\ DOMAIN s \subseteq DOMAIN u /\ \A n \in DOMAIN s : u[n] = s[n]
      /\ Len(u) \in DOMAIN u \ DOMAIN s
  BY <1>1, <1>3 DEF Continues
<1>5. \A n \in DOMAIN u \ DOMAIN s : Speaks(u[n]) => n = Len(u)
  BY <1>1, <1>3 DEF Continues
<1>6. Continues(s, u)
  BY <1>4, <1>5 DEF Continues
<1> QED BY <1>3, <1>4, <1>6

-----------------------------------------------------------------------------
(* The invariant. *)

Said(kind) == Of({kind})
About(entry) == entry.e.ref[1]
Item(n) == About(log[n])

\* What is said of the inbox is so, and said once; this is LogNeverOutrunsInbox,
\* with the items that are resolved in the inbox as well.
Agrees ==
    /\ \A n \in Said("escalation_raised") : Item(n) \in DOMAIN inbox
    /\ \A n \in Said("escalation_resolved") :
        Item(n) \in DOMAIN inbox /\ inbox[Item(n)] = "resolved"
    /\ \A kind \in InboxKinds : \A m, n \in Said(kind) : Item(m) = Item(n) => m = n

\* A resolution in flight is in the inbox, and not yet in the log.
RulingHolds ==
    /\ human.at \in {"rest", "marked", "numbered"}
    /\ human.at # "rest" =>
        /\ human.id \in DOMAIN inbox /\ inbox[human.id] = "resolved"
        /\ \A n \in Said("escalation_resolved") : Item(n) # human.id

DayHolds ==
    /\ Listed(log)
    /\ inbox \in Seq({"pending", "resolved"})
    /\ day \in Nat /\ scenario \in Scenarios
    /\ work.at = "world" => day > 0

LogInv == DayHolds /\ Agrees /\ RulingHolds

LEMMA AgreesIsEnough == Agrees => LogNeverOutrunsInbox
<1> SUFFICES ASSUME Agrees PROVE LogNeverOutrunsInbox
  OBVIOUS
<1>1. \A m, n \in Of(InboxKinds) :
        KindAt(m) = KindAt(n) /\ Item(m) = Item(n) => m = n
  <2> SUFFICES ASSUME NEW m \in Of(InboxKinds), NEW n \in Of(InboxKinds),
                      KindAt(m) = KindAt(n), Item(m) = Item(n)
               PROVE  m = n
    OBVIOUS
  <2>1. KindAt(m) \in InboxKinds /\ m \in Said(KindAt(m)) /\ n \in Said(KindAt(m))
    BY DEF Of, Said
  <2> QED BY <2>1 DEF Agrees
<1> QED BY <1>1 DEF Agrees, LogNeverOutrunsInbox, Said, Item, About

\* The inbox only moves on.
InboxKeeps ==
    /\ DOMAIN inbox \subseteq DOMAIN inbox'
    /\ \A id \in DOMAIN inbox : inbox[id] = "resolved" => inbox'[id] = "resolved"

LEMMA SilenceAgrees ==
    ASSUME Agrees, RulingHolds, InboxKeeps, Continues(log, log'),
           \A n \in DOMAIN log' \ DOMAIN log : ~Speaks(log'[n])
    PROVE  Agrees' /\ (UNCHANGED human => RulingHolds')
<1>1. \A kind \in InboxKinds : Said(kind)' = Said(kind)
  BY DEF Continues, Said, Of, KindAt, Speaks
<1>2. \A kind \in InboxKinds : \A n \in Said(kind) : Item(n)' = Item(n)
  BY DEF Continues, Said, Of, Item
<1>3. "escalation_raised" \in InboxKinds /\ "escalation_resolved" \in InboxKinds
  BY DEF InboxKinds
<1>4. Agrees'
  BY <1>1, <1>2, <1>3 DEF Agrees, InboxKeeps
<1>5. UNCHANGED human => RulingHolds'
  BY <1>1, <1>2, <1>3 DEF RulingHolds, InboxKeeps
<1> QED BY <1>4, <1>5

LEMMA LastIsSaid ==
    ASSUME Continues(log, log'),
           NEW last \in DOMAIN log' \ DOMAIN log, last = Len(log'),
           NEW kind \in InboxKinds
    PROVE  /\ \A n \in Said(kind) : n # last /\ Item(n)' = Item(n)
           /\ log'[last].e.kind = kind => Said(kind)' = Said(kind) \cup {last}
           /\ log'[last].e.kind # kind => Said(kind)' = Said(kind)
BY DEF Continues, Said, Of, KindAt, Speaks, Item

\* The last entry resolves the item of the resolution in flight.
LEMMA ResolutionAgrees ==
    ASSUME Agrees, RulingHolds, human.at # "rest", InboxKeeps, Continues(log, log'),
           NEW last \in DOMAIN log' \ DOMAIN log, last = Len(log'),
           NEW d, log'[last] = Resolution(human.id, d)
    PROVE  Agrees'
<1>1. log'[last].e.kind = "escalation_resolved" /\ Item(last)' = human.id
  <2>1. log'[last].e.kind = "escalation_resolved" /\ log'[last].e.ref = <<human.id>>
    BY DEF Resolution, On, By, Plain, Event
  <2> QED BY <2>1 DEF Item, About
<1>2. "escalation_raised" \in InboxKinds /\ "escalation_resolved" \in InboxKinds
      /\ InboxKinds = {"escalation_raised", "escalation_resolved"}
  BY DEF InboxKinds
<1>3. /\ Said("escalation_resolved")' = Said("escalation_resolved") \cup {last}
      /\ Said("escalation_raised")' = Said("escalation_raised")
  BY <1>1, <1>2, LastIsSaid
<1>4. \A kind \in InboxKinds : \A n \in Said(kind) : n # last /\ Item(n)' = Item(n)
  BY LastIsSaid
<1>5. \A n \in Said("escalation_raised")' : Item(n)' \in DOMAIN inbox'
  BY <1>2, <1>3, <1>4 DEF Agrees, InboxKeeps
<1>6. \A n \in Said("escalation_resolved")' :
        Item(n)' \in DOMAIN inbox' /\ inbox'[Item(n)'] = "resolved"
  BY <1>1, <1>2, <1>3, <1>4 DEF Agrees, InboxKeeps, RulingHolds
<1>7. \A kind \in InboxKinds : \A m, n \in Said(kind)' : Item(m)' = Item(n)' => m = n
  BY <1>1, <1>2, <1>3, <1>4 DEF Agrees, RulingHolds
<1> QED BY <1>5, <1>6, <1>7 DEF Agrees

\* The last entry raises the item the inbox has just taken.
LEMMA RaisingAgrees ==
    ASSUME Agrees, RulingHolds, DayHolds, Continues(log, log'),
           NEW last \in DOMAIN log' \ DOMAIN log, last = Len(log'),
           log'[last].e.kind = "escalation_raised",
           log'[last].e.ref = <<Len(inbox) + 1>>,
           inbox' = Append(inbox, "pending")
    PROVE  Agrees' /\ (UNCHANGED human => RulingHolds')
<1> DEFINE id == Len(inbox) + 1
<1>1. Item(last)' = id
  BY DEF Item, About
<1>2. "escalation_raised" \in InboxKinds /\ "escalation_resolved" \in InboxKinds
      /\ InboxKinds = {"escalation_raised", "escalation_resolved"}
  BY DEF InboxKinds
<1>3. /\ Said("escalation_raised")' = Said("escalation_raised") \cup {last}
      /\ Said("escalation_resolved")' = Said("escalation_resolved")
  BY <1>2, LastIsSaid
<1>4. \A kind \in InboxKinds : \A n \in Said(kind) : n # last /\ Item(n)' = Item(n)
  BY LastIsSaid
<1>5. /\ DOMAIN inbox' = DOMAIN inbox \cup {id} /\ id \notin DOMAIN inbox
      /\ \A i \in DOMAIN inbox : inbox'[i] = inbox[i]
  BY DEF DayHolds
<1> HIDE DEF id
<1>6. \A n \in Said("escalation_raised")' : Item(n)' \in DOMAIN inbox'
  BY <1>1, <1>2, <1>3, <1>4, <1>5 DEF Agrees
<1>7. \A n \in Said("escalation_resolved")' :
        Item(n)' \in DOMAIN inbox' /\ inbox'[Item(n)'] = "resolved"
  BY <1>2, <1>3, <1>4, <1>5 DEF Agrees
<1>8. \A kind \in InboxKinds : \A m, n \in Said(kind)' : Item(m)' = Item(n)' => m = n
  BY <1>1, <1>2, <1>3, <1>4, <1>5 DEF Agrees
<1>9. UNCHANGED human => RulingHolds'
  BY <1>2, <1>3, <1>4, <1>5 DEF RulingHolds
<1> QED BY <1>6, <1>7, <1>8, <1>9 DEF Agrees

-----------------------------------------------------------------------------
(* Emitting. *)

LEMMA LogRests ==
    ASSUME LogInv, log' = log, InboxKeeps
    PROVE  Agrees' /\ (UNCHANGED human => RulingHolds')
<1>1. Continues(log, log') /\ \A n \in DOMAIN log' \ DOMAIN log : ~Speaks(log'[n])
  BY DEF Continues, LogInv, DayHolds
<1> QED BY <1>1, SilenceAgrees DEF LogInv

Entries(d, es) == [n \in DOMAIN es |-> On(d, es[n])]

LEMMA QuietIsSilent ==
    ASSUME NEW d, NEW es, Quiet(es)
    PROVE  /\ Silent(Entries(d, es))
           /\ \A k \in DOMAIN es : Silent(SubSeq(Entries(d, es), 1, k - 1))
<1> DEFINE entries == Entries(d, es)
           S == {entries[n] : n \in DOMAIN entries}
<1>1. Len(es) \in Nat /\ DOMAIN es = 1 .. Len(es)
  BY ListedLen DEF Quiet
<1>2. \A n \in DOMAIN es : entries[n].e = es[n] /\ ~Speaks(entries[n])
  BY DEF Quiet, Speaks, On, Entries
<1>3. entries \in Seq(S) /\ Len(entries) = Len(es) /\ DOMAIN entries = DOMAIN es
  BY <1>1 DEF Entries
<1>4. Silent(entries)
  <2>1. Listed(entries)
    BY <1>3, SeqIsListed
  <2> QED BY <2>1, <1>2, <1>3 DEF Silent
<1>5. ASSUME NEW k \in DOMAIN es PROVE Silent(SubSeq(entries, 1, k - 1))
  <2> DEFINE t == SubSeq(entries, 1, k - 1)
  <2>1. k - 1 \in Int /\ \A n \in 1 .. k - 1 : entries[n] \in S
    BY <1>1, <1>3
  <2> HIDE DEF entries, S
  <2>2. t \in Seq(S) /\ Len(t) = k - 1 /\ \A n \in 1 .. k - 1 : t[n] = entries[n]
    BY <1>1, <1>3, <2>1, SubSeqProperties
  <2>3. Listed(t) /\ DOMAIN t = 1 .. k - 1
    BY <2>2, SeqIsListed, LenProperties
  <2> QED BY <1>1, <1>2, <2>2, <2>3 DEF Silent
<1> QED BY <1>4, <1>5

\* Events that do not speak of the inbox, or, in the place of one of them, the
\* resolution in flight.
LEMMA QuietPosts ==
    ASSUME LogInv, InboxKeeps, NEW es, Quiet(es), NEW next, Posts(es, next)
    PROVE  Listed(log') /\ Agrees' /\ RulingHolds' /\ work' \in {next, AtRest}
<1> DEFINE entries == Entries(day, es)
<1>0. Listed(log) /\ Agrees /\ RulingHolds
  BY DEF LogInv, DayHolds
<1>1. Silent(entries) /\ \A k \in DOMAIN es : Silent(SubSeq(entries, 1, k - 1))
  BY QuietIsSilent
<1>2. \/ log' = log \o entries /\ UNCHANGED human /\ work' = next
      \/ /\ human.at # "rest" /\ human' = Nobody /\ work' = AtRest
         /\ \E k \in DOMAIN es, d \in 0 .. day :
                log' = Append(log \o SubSeq(entries, 1, k - 1), Resolution(human.id, d))
  BY DEF Posts, Entries, Overtakes
<1> HIDE DEF entries
<1>3. CASE log' = log \o entries /\ UNCHANGED human /\ work' = next
  <2>1. Continues(log, log') /\ \A n \in DOMAIN log' \ DOMAIN log : ~Speaks(log'[n])
    BY <1>0, <1>1, <1>3, SilentContinues
  <2> QED BY <1>0, <1>3, <2>1, SilenceAgrees DEF Continues
<1>4. CASE /\ human.at # "rest" /\ human' = Nobody /\ work' = AtRest
           /\ \E k \in DOMAIN es, d \in 0 .. day :
                log' = Append(log \o SubSeq(entries, 1, k - 1), Resolution(human.id, d))
  <2>1. PICK k \in DOMAIN es, d \in 0 .. day :
            log' = Append(log \o SubSeq(entries, 1, k - 1), Resolution(human.id, d))
    BY <1>4
  <2>2. /\ Continues(log, log') /\ Len(log') \in DOMAIN log' \ DOMAIN log
        /\ log'[Len(log')] = Resolution(human.id, d)
    <3>1. Silent(SubSeq(entries, 1, k - 1))
      BY <1>1
    <3>2. PICK t, x : t = SubSeq(entries, 1, k - 1) /\ x = Resolution(human.id, d)
      OBVIOUS
    <3>3. Append(log \o t, x) = log'
      BY <2>1, <3>2
    <3>4. Silent(t) /\ Listed(log)
      BY <1>0, <3>1, <3>2
    <3>5. /\ Continues(log, log') /\ Len(log') \in DOMAIN log' \ DOMAIN log
          /\ log'[Len(log')] = x
      BY <3>3, <3>4, LastContinues
    <3> QED BY <3>2, <3>5
  <2>3. Agrees' /\ Listed(log')
    BY <1>0, <1>4, <2>2, ResolutionAgrees DEF Continues
  <2>4. RulingHolds'
    BY <1>4 DEF RulingHolds, Nobody
  <2> QED BY <1>4, <2>3, <2>4
<1> QED BY <1>2, <1>3, <1>4

\* The same when the item the inbox has just taken is raised.
LEMMA RaisingPosts ==
    ASSUME LogInv, NEW role, NEW next, inbox' = Append(inbox, "pending"),
           Posts(<<By(role, Plain("escalation_raised", <<Len(inbox) + 1>>))>>, next)
    PROVE  Listed(log') /\ Agrees' /\ RulingHolds' /\ work' \in {next, AtRest}
<1> DEFINE e == By(role, Plain("escalation_raised", <<Len(inbox) + 1>>))
           entries == Entries(day, <<e>>)
<1>0. Listed(log) /\ Agrees /\ RulingHolds /\ DayHolds
  BY DEF LogInv, DayHolds
<1>1. e.kind = "escalation_raised" /\ e.ref = <<Len(inbox) + 1>>
  BY DEF By, Plain, Event
<1>2. \/ log' = log \o entries /\ UNCHANGED human /\ work' = next
      \/ /\ human.at # "rest" /\ human' = Nobody /\ work' = AtRest
         /\ \E k \in DOMAIN <<e>>, d \in 0 .. day :
                log' = Append(log \o SubSeq(entries, 1, k - 1), Resolution(human.id, d))
  BY DEF Posts, Entries, Overtakes
<1> HIDE DEF e
<1>3. entries = <<On(day, e)>> /\ SubSeq(entries, 1, 0) = <<>> /\ DOMAIN <<e>> = {1}
  BY DEF Entries
<1>4. InboxKeeps
  BY DEF InboxKeeps, LogInv, DayHolds
<1> HIDE DEF entries
<1>5. CASE log' = log \o entries /\ UNCHANGED human /\ work' = next
  <2>1. log' = Append(log, On(day, e))
    BY <1>0, <1>3, <1>5, AppendIsOne
  <2>2. /\ Continues(log, log') /\ Len(log') \in DOMAIN log' \ DOMAIN log
        /\ log'[Len(log')] = On(day, e)
    BY <1>0, <2>1, OneMoreContinues
  <2>3. log'[Len(log')].e.kind = "escalation_raised" /\ log'[Len(log')].e.ref = <<Len(inbox) + 1>>
    BY <1>1, <2>2 DEF On
  <2>4. Agrees' /\ RulingHolds'
    BY <1>0, <1>5, <2>2, <2>3, RaisingAgrees
  <2> QED BY <1>5, <2>2, <2>4 DEF Continues
<1>6. CASE /\ human.at # "rest" /\ human' = Nobody /\ work' = AtRest
           /\ \E k \in DOMAIN <<e>>, d \in 0 .. day :
                log' = Append(log \o SubSeq(entries, 1, k - 1), Resolution(human.id, d))
  <2>1. PICK d \in 0 .. day : log' = Append(log \o <<>>, Resolution(human.id, d))
    BY <1>3, <1>6
  <2>2. Silent(<<>>)
    BY DEF Silent, Listed
  <2>3. /\ Continues(log, log') /\ Len(log') \in DOMAIN log' \ DOMAIN log
        /\ log'[Len(log')] = Resolution(human.id, d)
    <3>1. PICK t, x : t = <<>> /\ x = Resolution(human.id, d)
      OBVIOUS
    <3>2. Append(log \o t, x) = log' /\ Silent(t) /\ Listed(log)
      BY <1>0, <2>1, <2>2, <3>1
    <3>3. /\ Continues(log, log') /\ Len(log') \in DOMAIN log' \ DOMAIN log
          /\ log'[Len(log')] = x
      BY <3>2, LastContinues
    <3> QED BY <3>1, <3>3
  <2>4. Agrees' /\ Listed(log')
    BY <1>0, <1>4, <1>6, <2>3, ResolutionAgrees DEF Continues
  <2>5. RulingHolds'
    BY <1>6 DEF RulingHolds, Nobody
  <2> QED BY <1>6, <2>4, <2>5
<1> QED BY <1>2, <1>5, <1>6

-----------------------------------------------------------------------------
(* What the days emit. *)

LEMMA Silence == Quiet(<<>>)
BY DEF Quiet, Listed

LEMMA OneIsQuiet ==
    ASSUME NEW e, e.kind \notin InboxKinds
    PROVE  Quiet(<<e>>)
BY ListedOne DEF Quiet

LEMMA QuietJoins ==
    ASSUME NEW s, NEW t, Quiet(s), Quiet(t)
    PROVE  Quiet(s \o t)
<1> DEFINE u == s \o t
<1>1. /\ Listed(u) /\ DOMAIN u = 1 .. Len(s) + Len(t)
      /\ \A n \in 1 .. Len(s) : u[n] = s[n]
      /\ \A n \in 1 .. Len(t) : u[Len(s) + n] = t[n]
  BY ListedJoins DEF Quiet
<1>2. Len(s) \in Nat /\ Len(t) \in Nat /\ DOMAIN s = 1 .. Len(s) /\ DOMAIN t = 1 .. Len(t)
  BY ListedLen DEF Quiet
<1> HIDE DEF u
<1>3. ASSUME NEW n \in DOMAIN u PROVE u[n].kind \notin InboxKinds
  <2>1. CASE n \in 1 .. Len(s)
    BY <2>1, <1>1, <1>2 DEF Quiet
  <2>2. CASE n - Len(s) \in 1 .. Len(t)
    <3>1. n = Len(s) + (n - Len(s))
      BY <1>1, <1>2
    <3>2. u[n] = t[n - Len(s)]
      BY <2>2, <3>1, <1>1
    <3> QED BY <2>2, <3>2, <1>2 DEF Quiet
  <2> QED BY <1>1, <1>2, <2>1, <2>2
<1> QED BY <1>1, <1>3 DEF Quiet, u

LEMMA PlainKinds ==
    ASSUME NEW role, NEW kind, NEW ref, NEW amount, NEW units, NEW due
    PROVE  /\ Plain(kind, ref).kind = kind /\ By(role, Plain(kind, ref)).kind = kind
           /\ Event(kind, ref, amount, units, due).kind = kind
           /\ By(role, Event(kind, ref, amount, units, due)).kind = kind
BY DEF Plain, Event, By

\* A role signs what it does; that changes no kind.
LEMMA SignedIsQuiet ==
    ASSUME NEW role, NEW es, Listed(es), \A n \in DOMAIN es : By(role, es[n]).kind \notin InboxKinds
    PROVE  Quiet([n \in DOMAIN es |-> By(role, es[n])])
<1> DEFINE signed == [n \in DOMAIN es |-> By(role, es[n])]
           S == {signed[n] : n \in DOMAIN signed}
<1>1. Len(es) \in Nat /\ DOMAIN es = 1 .. Len(es)
  BY ListedLen
<1>2. signed \in Seq(S)
  BY <1>1
<1>3. Listed(signed)
  <2> HIDE DEF signed, S
  <2> QED BY <1>2, SeqIsListed
<1> QED BY <1>3 DEF Quiet

LEMMA ListedShort ==
    ASSUME NEW x, NEW y, NEW z
    PROVE  /\ Listed(<<x, y>>) /\ DOMAIN <<x, y>> = 1 .. 2
           /\ Listed(<<x, y, z>>) /\ DOMAIN <<x, y, z>> = 1 .. 3
<1>1. <<x, y>> \in Seq({x, y}) /\ <<x, y, z>> \in Seq({x, y, z})
  OBVIOUS
<1>2. Listed(<<x, y>>) /\ Listed(<<x, y, z>>)
  BY <1>1, SeqIsListed
<1>3. DOMAIN <<x, y>> = 1 .. 2 /\ DOMAIN <<x, y, z>> = 1 .. 3
  OBVIOUS
<1> QED BY <1>2, <1>3

LEMMA EffectsAreQuiet ==
    ASSUME NEW role, NEW i
    PROVE  Quiet(Effects(role, i))
<1> DEFINE es == CASE i.action = "quote" ->
                    <<Plain("quote_sent", i.ref), Event("deal_won", i.ref, i.amount, i.units, 0),
                      Event("invoice_issued", i.ref, i.amount, i.units, day + 2)>>
                [] i.action = "purchase_order" ->
                    <<Plain("po_raised", i.ref), Event("po_received", i.ref, i.amount, i.units, day + 14)>>
                [] i.action = "collect" -> <<Event("invoice_collected", i.ref, i.amount, 0, 0)>>
                [] i.action = "pay" -> <<Event("bill_paid", i.ref, i.amount, 0, 0)>>
                [] i.action = "freeze_spend" -> <<Plain("spend_frozen", <<>>)>>
                [] OTHER -> <<>>
<1>1. Listed(es) /\ \A n \in DOMAIN es : By(role, es[n]).kind \notin InboxKinds
  <2>1. CASE i.action = "quote"
    <3>1. es = <<Plain("quote_sent", i.ref), Event("deal_won", i.ref, i.amount, i.units, 0),
                 Event("invoice_issued", i.ref, i.amount, i.units, day + 2)>>
      BY <2>1
    <3> HIDE DEF es
    <3>2. Listed(es) /\ DOMAIN es = 1 .. 3
      <4>1. PICK x, y, z : es = <<x, y, z>>
        BY <3>1
      <4> QED BY <4>1, ListedShort
    <3>3. /\ By(role, es[1]).kind = "quote_sent" /\ By(role, es[2]).kind = "deal_won"
          /\ By(role, es[3]).kind = "invoice_issued"
      BY <3>1, PlainKinds
    <3> QED BY <3>2, <3>3 DEF InboxKinds
  <2>2. CASE i.action = "purchase_order"
    <3>1. es = <<Plain("po_raised", i.ref), Event("po_received", i.ref, i.amount, i.units, day + 14)>>
      BY <2>2
    <3> HIDE DEF es
    <3>2. Listed(es) /\ DOMAIN es = 1 .. 2
      <4>1. PICK x, y : es = <<x, y>>
        BY <3>1
      <4> QED BY <4>1, ListedShort
    <3>3. By(role, es[1]).kind = "po_raised" /\ By(role, es[2]).kind = "po_received"
      BY <3>1, PlainKinds
    <3> QED BY <3>2, <3>3 DEF InboxKinds
  <2>3. CASE i.action \in {"collect", "pay", "freeze_spend"}
    <3>1. PICK e : /\ es = <<e>>
                   /\ By(role, e).kind \in {"invoice_collected", "bill_paid", "spend_frozen"}
      <4>1. \/ es = <<Event("invoice_collected", i.ref, i.amount, 0, 0)>>
            \/ es = <<Event("bill_paid", i.ref, i.amount, 0, 0)>>
            \/ es = <<Plain("spend_frozen", <<>>)>>
        BY <2>3
      <4> HIDE DEF es
      <4> QED BY <4>1, PlainKinds
    <3> HIDE DEF es
    <3> QED BY <3>1, ListedOne DEF InboxKinds
  <2>4. CASE i.action \notin {"quote", "purchase_order", "collect", "pay", "freeze_spend"}
    <3>1. es = <<>>
      BY <2>4
    <3> HIDE DEF es
    <3> QED BY <3>1 DEF Listed
  <2> HIDE DEF es
  <2> QED BY <2>1, <2>2, <2>3, <2>4
<1>2. Effects(role, i) = [n \in DOMAIN es |-> By(role, es[n])]
  BY DEF Effects
<1> HIDE DEF es
<1> QED BY <1>1, <1>2, SignedIsQuiet

LEMMA DirectiveIsQuiet ==
    ASSUME NEW freeze \in DirectiveEffects
    PROVE  Quiet(<<By("chiefofstaff", Plain("directive_proposed", <<>>))>> \o freeze
                 \o <<By("chiefofstaff", Plain("directive_ruled", <<>>)),
                      By("system", Plain("day_ticked", <<>>))>>)
<1>1. Quiet(<<By("chiefofstaff", Plain("directive_proposed", <<>>))>>)
  BY OneIsQuiet, PlainKinds DEF InboxKinds
<1>2. Quiet(freeze)
  <2>1. Quiet(<<By("chiefofstaff", Plain("spend_frozen", <<>>))>>)
    BY OneIsQuiet, PlainKinds DEF InboxKinds
  <2> QED BY <2>1, Silence DEF DirectiveEffects
<1>3. Quiet(<<By("chiefofstaff", Plain("directive_ruled", <<>>)), By("system", Plain("day_ticked", <<>>))>>)
  <2>1. PICK x, y : /\ x = By("chiefofstaff", Plain("directive_ruled", <<>>))
                    /\ y = By("system", Plain("day_ticked", <<>>))
    OBVIOUS
  <2>2. x.kind \notin InboxKinds /\ y.kind \notin InboxKinds
    <3>1. x.kind = "directive_ruled" /\ y.kind = "day_ticked"
      BY <2>1 DEF By, Plain, Event
    <3> QED BY <3>1 DEF InboxKinds
  <2>3. Listed(<<x, y>>) /\ DOMAIN <<x, y>> = 1 .. 2
    BY ListedShort
  <2> QED BY <2>1, <2>2, <2>3 DEF Quiet
<1> QED BY <1>1, <1>2, <1>3, QuietJoins

-----------------------------------------------------------------------------
(* The steps. *)

LEMMA LogInit == CompanyInit => LogInv
<1> SUFFICES ASSUME CompanyInit PROVE LogInv
  OBVIOUS
<1>1. log = Entries(0, Opening) /\ Silent(log)
  BY QuietIsSilent, GivenIsQuiet, CompanyAssumption DEF CompanyInit, Entries
<1>2. \A kind \in InboxKinds : Said(kind) = {}
  BY <1>1 DEF Silent, Speaks, Said, Of, KindAt
<1>3. Agrees
  BY <1>2 DEF Agrees, InboxKinds
<1>4. RulingHolds
  BY DEF CompanyInit, RulingHolds, Nobody
<1>5. DayHolds
  BY <1>1 DEF CompanyInit, DayHolds, Silent, AtRest, Work
<1> QED BY <1>3, <1>4, <1>5 DEF LogInv

\* The day goes on, its inbox as it was.
LEMMA DayGoesOn ==
    ASSUME LogInv, NEW es, Quiet(es), NEW next, next.at # "world", Posts(es, next),
           UNCHANGED <<day, scenario, inbox>>
    PROVE  LogInv'
<1>1. InboxKeeps
  BY DEF InboxKeeps
<1>2. Listed(log') /\ Agrees' /\ RulingHolds' /\ work' \in {next, AtRest}
  BY <1>1, QuietPosts
<1>3. work'.at # "world"
  BY <1>2 DEF AtRest, Work
<1> QED BY <1>2, <1>3 DEF LogInv, DayHolds

LEMMA NextPlace ==
    ASSUME NEW role \in RoleNames
    PROVE  /\ After(role).at # "world" /\ Onward(role).at # "world"
           /\ \A todo : Work(role, todo).at # "world"
<1>1. role \in {"salesbot", "opsbot", "financebot"}
  BY DEF RoleNames, Roles
<1> QED BY <1>1 DEF After, Onward, Work

LEMMA WorldStep ==
    ASSUME LogInv, WorldTick
    PROVE  LogInv'
<1> DEFINE week == Weeks[scenario]
           d == IF day <= Len(week) THEN day ELSE Len(week)
<1>1. Listed(week) /\ Len(week) > 0 /\ \A n \in DOMAIN week : Quiet(week[n])
  BY GivenIsQuiet, CompanyAssumption DEF LogInv, DayHolds
<1>2. Len(week) \in Nat /\ DOMAIN week = 1 .. Len(week)
  BY <1>1, ListedLen
<1>3. day \in Nat /\ day > 0
  BY DEF LogInv, DayHolds, WorldTick
<1> HIDE DEF week
<1>4. d \in DOMAIN week
  BY <1>1, <1>2, <1>3
<1>5. Posts(week[d], Work("salesbot", <<>>)) /\ UNCHANGED <<day, scenario, inbox>>
  BY DEF WorldTick, week
<1>6. Work("salesbot", <<>>).at # "world"
  BY DEF Work
<1> HIDE DEF d
<1> QED BY <1>1, <1>4, <1>5, <1>6, DayGoesOn

LEMMA RoleStep ==
    ASSUME LogInv, NEW role \in RoleNames,
           PlanRole(role) \/ SkipIntent(role) \/ RefuseIntent(role)
           \/ EscalateIntent(role) \/ ApplyIntent(role) \/ Regrant(role)
    PROVE  LogInv'
<1>1. CASE PlanRole(role) \/ SkipIntent(role) \/ Regrant(role)
  <2>1. UNCHANGED <<log, day, scenario, inbox, human>>
    BY <1>1 DEF PlanRole, SkipIntent, Regrant
  <2>2. work'.at = "world" => work.at = "world"
    BY <1>1, NextPlace DEF PlanRole, SkipIntent, Regrant
  <2>3. Agrees' /\ RulingHolds'
    BY <2>1, LogRests DEF InboxKeeps
  <2> QED BY <2>1, <2>2, <2>3 DEF LogInv, DayHolds
<1>2. CASE RefuseIntent(role)
  <2> DEFINE pause == rogue /\ role = "salesbot" /\ streak + 1 >= RogueLimit
             es == IF pause THEN <<By("tower", Plain("role_paused", <<role>>))>> ELSE <<>>
  <2>1. Posts(es, Onward(role)) /\ UNCHANGED <<day, scenario, inbox>>
    BY <1>2 DEF RefuseIntent
  <2> HIDE DEF pause
  <2>2. Quiet(es)
    <3>1. Quiet(<<By("tower", Plain("role_paused", <<role>>))>>)
      BY OneIsQuiet, PlainKinds DEF InboxKinds
    <3> QED BY <3>1, Silence
  <2> HIDE DEF es
  <2> QED BY <2>1, <2>2, NextPlace, DayGoesOn
<1>3. CASE EscalateIntent(role)
  <2>1. /\ inbox' = Append(inbox, "pending") /\ UNCHANGED <<day, scenario>>
        /\ Posts(<<By(role, Plain("escalation_raised", <<Len(inbox) + 1>>))>>, Onward(role))
    BY <1>3 DEF EscalateIntent
  <2>2. Listed(log') /\ Agrees' /\ RulingHolds' /\ work' \in {Onward(role), AtRest}
    BY <2>1, RaisingPosts
  <2>3. work'.at # "world"
    BY <2>2, NextPlace DEF AtRest, Work
  <2>4. inbox' \in Seq({"pending", "resolved"})
    BY <2>1 DEF LogInv, DayHolds
  <2> QED BY <2>1, <2>2, <2>3, <2>4 DEF LogInv, DayHolds
<1>4. CASE ApplyIntent(role)
  <2>1. PICK i : Posts(Effects(role, i), Onward(role)) /\ UNCHANGED <<day, scenario, inbox>>
    BY <1>4 DEF ApplyIntent
  <2>2. PICK es : es = Effects(role, i)
    OBVIOUS
  <2>3. Quiet(es)
    BY <2>2, EffectsAreQuiet
  <2> QED BY <2>1, <2>2, <2>3, NextPlace, DayGoesOn
<1> QED BY <1>1, <1>2, <1>3, <1>4

LEMMA CompanyStep ==
    ASSUME LogInv, FreezeAgain \/ ChiefAndTick
    PROVE  LogInv'
<1>1. CASE FreezeAgain
  <2> DEFINE low == RunwayBreached(Books(log)) /\ ~Books(log).frozen
             es == IF low THEN <<By("financebot", Plain("spend_frozen", <<>>))>> ELSE <<>>
  <2>1. Posts(es, Work("chief", <<>>)) /\ UNCHANGED <<day, scenario, inbox>>
    BY <1>1 DEF FreezeAgain
  <2> HIDE DEF low
  <2>2. Quiet(es)
    <3>1. Quiet(<<By("financebot", Plain("spend_frozen", <<>>))>>)
      BY OneIsQuiet, PlainKinds DEF InboxKinds
    <3> QED BY <3>1, Silence
  <2>3. Work("chief", <<>>).at # "world"
    BY DEF Work
  <2> HIDE DEF es
  <2> QED BY <2>1, <2>2, <2>3, DayGoesOn
<1>2. CASE ChiefAndTick
  <2>1. PICK freeze \in DirectiveEffects :
            Posts(<<By("chiefofstaff", Plain("directive_proposed", <<>>))>> \o freeze
                  \o <<By("chiefofstaff", Plain("directive_ruled", <<>>)),
                       By("system", Plain("day_ticked", <<>>))>>,
                  AtRest)
    BY <1>2 DEF ChiefAndTick
  <2>2. PICK es : es = <<By("chiefofstaff", Plain("directive_proposed", <<>>))>> \o freeze
                       \o <<By("chiefofstaff", Plain("directive_ruled", <<>>)),
                            By("system", Plain("day_ticked", <<>>))>>
    OBVIOUS
  <2>3. Quiet(es) /\ Posts(es, AtRest)
    BY <2>1, <2>2, DirectiveIsQuiet
  <2>4. UNCHANGED <<day, scenario, inbox>> /\ AtRest.at # "world"
    BY <1>2 DEF ChiefAndTick, AtRest, Work
  <2> QED BY <2>3, <2>4, DayGoesOn
<1> QED BY <1>1, <1>2

LEMMA HumanStep ==
    ASSUME LogInv, ResolveMark \/ ResolveNumber \/ ResolveAppend
    PROVE  LogInv'
<1>0. Listed(log) /\ Agrees /\ RulingHolds /\ DayHolds
  BY DEF LogInv, DayHolds
<1>1. CASE ResolveMark
  <2>1. PICK id \in DOMAIN inbox :
            /\ inbox[id] = "pending" /\ inbox' = [inbox EXCEPT ![id] = "resolved"]
            /\ human' = [at |-> "marked", id |-> id, seq |-> 0, day |-> day]
    BY <1>1 DEF ResolveMark
  <2>2. UNCHANGED <<log, day, scenario, work>>
    BY <1>1 DEF ResolveMark
  <2>3. inbox' \in Seq({"pending", "resolved"}) /\ DOMAIN inbox' = DOMAIN inbox
    BY <1>0, <2>1 DEF DayHolds
  <2>4. inbox'[id] = "resolved" /\ InboxKeeps
    BY <2>1, <2>3 DEF InboxKeeps
  <2>5. Agrees'
    BY <2>2, <2>4, LogRests
  <2>6. \A n \in Said("escalation_resolved") : Item(n) # id
    BY <1>0, <2>1 DEF Agrees
  <2>7. RulingHolds'
    BY <2>1, <2>2, <2>3, <2>4, <2>6 DEF RulingHolds, Said, Of, KindAt, Item
  <2> QED BY <1>0, <2>2, <2>3, <2>5, <2>7 DEF LogInv, DayHolds
<1>2. CASE ResolveNumber
  <2>1. UNCHANGED <<log, day, scenario, inbox, work>> /\ InboxKeeps
    BY <1>2 DEF ResolveNumber, InboxKeeps
  <2>2. PICK d \in human.day .. day :
            /\ human.at = "marked"
            /\ human' = [human EXCEPT !.at = "numbered", !.seq = Len(log), !.day = d]
    BY <1>2 DEF ResolveNumber
  <2>3. Agrees'
    BY <2>1, LogRests
  <2>4. human'.at = "numbered" /\ human'.id = human.id
    BY <2>2
  <2>5. RulingHolds'
    BY <1>0, <2>1, <2>2, <2>4 DEF RulingHolds, Said, Of, KindAt, Item
  <2> QED BY <1>0, <2>1, <2>3, <2>5 DEF LogInv, DayHolds
<1>3. CASE ResolveAppend
  <2>1. /\ human.at = "numbered" /\ human' = Nobody /\ UNCHANGED <<day, scenario, inbox, work>>
        /\ log' = log \/ log' = Append(log, Resolution(human.id, human.day))
    BY <1>3 DEF ResolveAppend
  <2>2. InboxKeeps
    BY <2>1 DEF InboxKeeps
  <2>3. Listed(log') /\ Agrees'
    <3>1. CASE log' = log
      BY <1>0, <2>2, <3>1, LogRests
    <3>2. CASE log' = Append(log, Resolution(human.id, human.day))
      <4>1. PICK x, d : d = human.day /\ x = Resolution(human.id, d)
        OBVIOUS
      <4>2. Append(log, x) = log'
        BY <3>2, <4>1
      <4>3. /\ Continues(log, Append(log, x)) /\ Append(log, x)[Len(Append(log, x))] = x
            /\ DOMAIN Append(log, x) = DOMAIN log \cup {Len(Append(log, x))}
            /\ Len(Append(log, x)) \notin DOMAIN log
        BY <1>0, OneMoreContinues
      <4>4. /\ Continues(log, log') /\ log'[Len(log')] = x
            /\ DOMAIN log' = DOMAIN log \cup {Len(log')} /\ Len(log') \notin DOMAIN log
        BY <4>2, <4>3
      <4>5. Len(log') \in DOMAIN log' \ DOMAIN log
        BY <4>4
      <4> QED BY <1>0, <2>1, <2>2, <4>1, <4>4, <4>5, ResolutionAgrees DEF Continues
    <3> QED BY <2>1, <3>1, <3>2
  <2>4. RulingHolds'
    BY <2>1 DEF RulingHolds, Nobody
  <2> QED BY <1>0, <2>1, <2>3, <2>4 DEF LogInv, DayHolds
<1> QED BY <1>1, <1>2, <1>3

LEMMA OperatorStep ==
    ASSUME LogInv, BeginDay \/ Arm \/ Seed \/ UNCHANGED companyVars
    PROVE  LogInv'
<1>1. CASE BeginDay \/ Arm \/ UNCHANGED companyVars
  <2>1. UNCHANGED <<log, inbox, human>>
    BY <1>1 DEF BeginDay, Arm, companyVars
  <2>2. day' \in Nat /\ scenario' \in Scenarios /\ (work'.at = "world" => day' > 0)
    BY <1>1 DEF BeginDay, Arm, companyVars, LogInv, DayHolds, Scenarios, Work, AtRest
  <2>3. Agrees' /\ RulingHolds'
    BY <2>1, LogRests DEF InboxKeeps
  <2> QED BY <2>1, <2>2, <2>3 DEF LogInv, DayHolds
<1>2. CASE Seed
  <2>1. log' = Entries(0, Opening) /\ Silent(log')
    BY <1>2, QuietIsSilent, GivenIsQuiet, CompanyAssumption DEF Seed, Entries
  <2>2. \A kind \in InboxKinds : Said(kind)' = {}
    BY <2>1 DEF Silent, Speaks, Said, Of, KindAt
  <2>3. Agrees'
    BY <2>2 DEF Agrees, InboxKinds
  <2>4. RulingHolds'
    BY <1>2 DEF Seed, RulingHolds, Nobody
  <2>5. DayHolds'
    BY <1>2, <2>1 DEF Seed, DayHolds, Silent, AtRest, Work
  <2> QED BY <2>3, <2>4, <2>5 DEF LogInv
<1> QED BY <1>1, <1>2

LEMMA LogStep ==
    ASSUME LogInv, [CompanyNext]_companyVars
    PROVE  LogInv'
<1>1. CASE BeginDay \/ Arm \/ Seed \/ UNCHANGED companyVars
  BY <1>1, OperatorStep
<1>2. CASE WorldTick
  BY <1>2, WorldStep
<1>3. CASE FreezeAgain \/ ChiefAndTick
  BY <1>3, CompanyStep
<1>4. CASE ResolveMark \/ ResolveNumber \/ ResolveAppend
  BY <1>4, HumanStep
<1>5. ASSUME NEW role \in RoleNames,
             PlanRole(role) \/ SkipIntent(role) \/ RefuseIntent(role)
             \/ EscalateIntent(role) \/ ApplyIntent(role) \/ Regrant(role)
      PROVE  LogInv'
  BY <1>5, RoleStep
<1> QED BY <1>1, <1>2, <1>3, <1>4, <1>5 DEF CompanyNext

\* The log stays in order and in step with the inbox.
LEMMA LogAlways == CompanySpec => []LogInv
<1>1. CompanyInit => LogInv
  BY LogInit
<1>2. LogInv /\ [CompanyNext]_companyVars => LogInv'
  BY LogStep
<1> QED BY <1>1, <1>2, PTL DEF CompanySpec

\* Of the inbox the log says nothing that is not so, and nothing twice, whatever the
\* world brings and whenever a human resolves, also where a day broke off
\* (resolve_inbox(), _escalate(), emit()).
THEOREM LogFollowsInbox == CompanySpec => []LogNeverOutrunsInbox
<1>1. LogInv => LogNeverOutrunsInbox
  BY AgreesIsEnough DEF LogInv
<1> QED BY <1>1, LogAlways, PTL


-----------------------------------------------------------------------------
(* What a day appends, place by place. *)

Grows(old, new) ==
    /\ Listed(new)
    /\ DOMAIN old \subseteq DOMAIN new
    /\ \A n \in DOMAIN old : new[n] = old[n]

\* n holds one of the events es, in their order, or the resolution in flight, at the end.
Emitted(es, n) ==
    \/ \E j \in DOMAIN es : n = Len(log) + j /\ log'[n] = On(day, es[j])
    \/ \E d \in 0 .. day : n = Len(log') /\ log'[n] = Resolution(human.id, d)

\* Everything that a day appends was emitted by it, and it goes on or ends (emit()).
LEMMA PostsAppend ==
    ASSUME Listed(log), NEW es, Listed(es), NEW next, Posts(es, next)
    PROVE  /\ Grows(log, log')
           /\ \A n \in DOMAIN log' \ DOMAIN log : Emitted(es, n)
           /\ \/ work' = next /\ UNCHANGED human
              \/ work' = AtRest /\ human' = Nobody
<1> DEFINE entries == Entries(day, es)
<1>1. /\ Len(es) \in Nat /\ DOMAIN es = 1 .. Len(es)
      /\ Len(log) \in Nat /\ DOMAIN log = 1 .. Len(log)
  BY ListedLen
<1>2. /\ Listed(entries) /\ Len(entries) = Len(es)
      /\ \A j \in DOMAIN es : entries[j] = On(day, es[j])
  <2>1. entries \in Seq({entries[n] : n \in DOMAIN entries}) /\ Len(entries) = Len(es)
        /\ DOMAIN entries = DOMAIN es
    BY <1>1 DEF Entries
  <2>2. \A j \in DOMAIN es : entries[j] = On(day, es[j])
    BY DEF Entries
  <2> HIDE DEF entries
  <2> QED BY <2>1, <2>2, SeqIsListed
<1>3. CASE log' = log \o entries /\ work' = next /\ UNCHANGED human
  <2> HIDE DEF entries
  <2>a. PICK old : old = log
    OBVIOUS
  <2>b. /\ Listed(old \o entries) /\ DOMAIN (old \o entries) = 1 .. Len(old) + Len(entries)
        /\ \A n \in 1 .. Len(old) : (old \o entries)[n] = old[n]
        /\ \A j \in 1 .. Len(entries) : (old \o entries)[Len(old) + j] = entries[j]
    BY <1>2, <2>a, ListedJoins
  <2>c. PICK new : new = log' /\ new = old \o entries
    BY <1>3, <2>a
  <2>d. /\ Listed(new) /\ DOMAIN new = 1 .. Len(log) + Len(es)
        /\ \A n \in 1 .. Len(log) : new[n] = log[n]
        /\ \A j \in 1 .. Len(es) : new[Len(log) + j] = entries[j]
    BY <1>2, <2>a, <2>b, <2>c
  <2>1. /\ Listed(log') /\ DOMAIN log' = 1 .. Len(log) + Len(es)
        /\ \A n \in 1 .. Len(log) : log'[n] = log[n]
        /\ \A j \in 1 .. Len(es) : log'[Len(log) + j] = entries[j]
    BY <2>c, <2>d
  <2>2. Grows(log, log')
    BY <1>1, <2>1 DEF Grows
  <2>3. ASSUME NEW n \in DOMAIN log' \ DOMAIN log PROVE Emitted(es, n)
    <3>1. PICK j \in DOMAIN es : n = Len(log) + j
      <4>1. n - Len(log) \in 1 .. Len(es) /\ n = Len(log) + (n - Len(log))
        BY <1>1, <2>1
      <4> QED BY <1>1, <4>1
    <3>2. log'[n] = On(day, es[j])
      BY <1>1, <1>2, <2>1, <3>1
    <3> QED BY <3>1, <3>2 DEF Emitted
  <2> QED BY <1>3, <2>2, <2>3
<1>4. ASSUME NEW k \in DOMAIN es, NEW d \in 0 .. day,
             log' = Append(log \o SubSeq(entries, 1, k - 1), Resolution(human.id, d)),
             work' = AtRest, human' = Nobody
      PROVE  /\ Grows(log, log')
             /\ \A n \in DOMAIN log' \ DOMAIN log : Emitted(es, n)
             /\ work' = AtRest /\ human' = Nobody
  <2> DEFINE S == {entries[n] : n \in DOMAIN entries}
             t == SubSeq(entries, 1, k - 1)
             u == log \o t
  <2>1. k - 1 \in Nat /\ k - 1 <= Len(es) /\ entries \in Seq(S) /\ DOMAIN entries = 1 .. Len(es)
    BY <1>1, <1>2, ListedLen DEF Listed
  <2>2. \A n \in 1 .. k - 1 : entries[n] \in S
    BY <2>1
  <2> HIDE DEF entries, S
  <2>3. t \in Seq(S) /\ Len(t) = k - 1 /\ \A n \in 1 .. k - 1 : t[n] = entries[n]
    BY <2>1, <2>2, <1>2, SubSeqProperties
  <2>4. Listed(t)
    BY <2>3, SeqIsListed
  <2> HIDE DEF t
  <2>5. /\ Listed(u) /\ DOMAIN u = 1 .. Len(log) + (k - 1)
        /\ \A n \in 1 .. Len(log) : u[n] = log[n]
        /\ \A j \in 1 .. k - 1 : u[Len(log) + j] = entries[j]
    BY <2>3, <2>4, ListedJoins
  <2> HIDE DEF u
  <2>6. PICK x : x = Resolution(human.id, d)
    OBVIOUS
  <2>7. log' = Append(u, x)
    BY <1>4, <2>6 DEF u, t
  <2>c. PICK new : new = log' /\ new = Append(u, x)
    BY <2>7
  <2>d. /\ Listed(new) /\ DOMAIN u \subseteq DOMAIN new /\ \A n \in DOMAIN u : new[n] = u[n]
        /\ DOMAIN new = DOMAIN u \cup {Len(new)} /\ new[Len(new)] = x
    <3>1. Listed(u)
      BY <2>5
    <3>2. /\ Continues(u, Append(u, x)) /\ Append(u, x)[Len(Append(u, x))] = x
          /\ DOMAIN Append(u, x) = DOMAIN u \cup {Len(Append(u, x))}
      BY <3>1, OneMoreContinues
    <3>3. Continues(u, new) /\ new[Len(new)] = x /\ DOMAIN new = DOMAIN u \cup {Len(new)}
      BY <2>c, <3>2
    <3> QED BY <3>3 DEF Continues
  <2>8. /\ Listed(log') /\ DOMAIN u \subseteq DOMAIN log' /\ \A n \in DOMAIN u : log'[n] = u[n]
        /\ DOMAIN log' = DOMAIN u \cup {Len(log')} /\ log'[Len(log')] = x
    BY <2>c, <2>d
  <2>9. Grows(log, log')
    <3>1. DOMAIN log \subseteq DOMAIN u /\ \A n \in DOMAIN log : u[n] = log[n]
      BY <1>1, <2>1, <2>5
    <3>2. Grows(log, new)
      BY <2>d, <3>1 DEF Grows
    <3> QED BY <2>c, <3>2
  <2>10. ASSUME NEW n \in DOMAIN log' \ DOMAIN log PROVE Emitted(es, n)
    <3>1. CASE n = Len(log')
      BY <1>4, <2>6, <2>8, <3>1 DEF Emitted
    <3>2. CASE n # Len(log')
      <4>1. n \in DOMAIN u
        BY <2>8, <3>2
      <4>2. PICK j \in DOMAIN es : n = Len(log) + j /\ j \in 1 .. k - 1
        <5>1. n - Len(log) \in 1 .. k - 1 /\ n = Len(log) + (n - Len(log))
          BY <1>1, <2>1, <2>5, <4>1
        <5>2. 1 .. k - 1 \subseteq DOMAIN es
          BY <1>1, <2>1
        <5> QED BY <5>1, <5>2
      <4>3. log'[n] = On(day, es[j])
        BY <1>2, <2>5, <2>8, <4>1, <4>2
      <4> QED BY <4>2, <4>3 DEF Emitted
    <3> QED BY <3>1, <3>2
  <2> QED BY <1>4, <2>9, <2>10
<1> QED BY <1>3, <1>4 DEF Posts, Entries

-----------------------------------------------------------------------------
(* What the books are, whatever the log: a fold that exists and is the only one. *)

FoldsTo(s, counts, f) ==
    f = [n \in 0..Len(s) |->
            IF n = 0 THEN EmptyBooks
            ELSE IF n \in counts THEN Posted(f[n - 1], s[n].e) ELSE f[n - 1]]

LEMMA FoldedIsChosen ==
    ASSUME NEW s, NEW counts
    PROVE  Folded(s, counts) = (CHOOSE f : FoldsTo(s, counts, f))[Len(s)]
BY DEF Folded, FoldsTo

FoldStep(s, counts, f, n) ==
    IF n = 0 THEN EmptyBooks
    ELSE IF n \in counts THEN Posted(f[n - 1], s[n].e) ELSE f[n - 1]

LEMMA FoldExists ==
    ASSUME NEW s, NEW counts, Len(s) \in Nat
    PROVE  \E f : FoldsTo(s, counts, f)
<1> DEFINE Right(f, k) == \A n \in 0..Len(s) : n <= k => f[n] = FoldStep(s, counts, f, n)
           K == {k \in Nat : \E f : Right(f, k)}
<1>1. 0 \in K
  <2>1. PICK f : f = [n \in 0..Len(s) |-> EmptyBooks]
    OBVIOUS
  <2>2. Right(f, 0)
    BY <2>1 DEF FoldStep
  <2> QED BY <2>2
<1>2. ASSUME NEW k \in Nat, k \in K PROVE k + 1 \in K
  <2>1. PICK f : Right(f, k)
    BY <1>2
  <2>2. PICK g : g = [n \in 0..Len(s) |-> FoldStep(s, counts, f, n)]
    OBVIOUS
  <2>3. ASSUME NEW n \in 0..Len(s), n <= k + 1 PROVE g[n] = FoldStep(s, counts, g, n)
    <3>1. CASE n = 0
      BY <2>2, <3>1 DEF FoldStep
    <3>2. CASE n # 0
      <4>1. n - 1 \in 0..Len(s) /\ n - 1 <= k
        BY <2>3, <3>2
      <4>2. g[n - 1] = f[n - 1]
        BY <2>1, <2>2, <4>1
      <4> QED BY <2>2, <3>2, <4>2 DEF FoldStep
    <3> QED BY <3>1, <3>2
  <2> QED BY <2>3
<1> HIDE DEF K
<1>3. Len(s) \in K
  BY <1>1, <1>2, SetInduction
<1>4. PICK f : Right(f, Len(s))
  BY <1>3 DEF K
<1>5. \A n \in 0..Len(s) : f[n] = FoldStep(s, counts, f, n)
  BY <1>4
<1>6. PICK g : g = [n \in 0..Len(s) |-> FoldStep(s, counts, f, n)]
  OBVIOUS
<1>7. \A n \in 0..Len(s) : n # 0 => n - 1 \in 0..Len(s)
  OBVIOUS
<1>8. \A n \in 0..Len(s) : FoldStep(s, counts, g, n) = FoldStep(s, counts, f, n)
  BY <1>5, <1>6, <1>7 DEF FoldStep
<1> QED BY <1>6, <1>8 DEF FoldsTo, FoldStep

\* The fold of a log, at every place.
LEMMA FoldAt ==
    ASSUME NEW s, NEW counts, NEW f, FoldsTo(s, counts, f)
    PROVE  \A n \in 0..Len(s) : f[n] = FoldStep(s, counts, f, n)
BY DEF FoldsTo, FoldStep

\* Two folds agree as far as they count the same events at the same places.
LEMMA FoldsAgree ==
    ASSUME NEW s, NEW c, NEW f, FoldsTo(s, c, f), NEW t, NEW d, NEW g, FoldsTo(t, d, g),
           Len(s) \in Nat, Len(t) \in Nat,
           NEW N \in Nat, N <= Len(s), N <= Len(t),
           \A n \in 1..N : (n \in c <=> n \in d) /\ (n \in c => s[n].e = t[n].e)
    PROVE  f[N] = g[N]
<1> DEFINE K == {k \in Nat : k <= N => f[k] = g[k]}
<1>1. 0 \in K
  BY FoldAt DEF FoldStep
<1>2. ASSUME NEW k \in Nat, k \in K PROVE k + 1 \in K
  <2>1. SUFFICES ASSUME k + 1 <= N PROVE f[k + 1] = g[k + 1]
    OBVIOUS
  <2>2. f[k] = g[k] /\ k + 1 \in 1..N /\ k + 1 \in 0..Len(s) /\ k + 1 \in 0..Len(t)
    BY <1>2, <2>1
  <2>3. PICK n \in 1..N : n = k + 1 /\ k = n - 1 /\ n # 0
    BY <2>2
  <2>4. f[n] = FoldStep(s, c, f, n) /\ g[n] = FoldStep(t, d, g, n)
    BY <2>2, <2>3, FoldAt
  <2> QED BY <2>2, <2>3, <2>4 DEF FoldStep
<1> HIDE DEF K
<1>3. N \in K
  BY <1>1, <1>2, SetInduction
<1> QED BY <1>3 DEF K

\* The books of a log: the last of a row of books that starts empty.
LEMMA BooksAreFolded ==
    ASSUME NEW s, Listed(s)
    PROVE  \E f : /\ FoldsTo(s, DOMAIN s, f) /\ Books(s) = f[Len(s)]
                  /\ f[0] = EmptyBooks
                  /\ \A n \in DOMAIN s : f[n] = Posted(f[n - 1], s[n].e)
<1>1. Len(s) \in Nat /\ DOMAIN s = 1..Len(s)
  BY ListedLen
<1>2. PICK f : FoldsTo(s, DOMAIN s, f) /\ Folded(s, DOMAIN s) = f[Len(s)]
  BY <1>1, FoldExists, FoldedIsChosen
<1>3. \A n \in 0..Len(s) : f[n] = FoldStep(s, DOMAIN s, f, n)
  BY <1>2, FoldAt
<1> QED BY <1>1, <1>2, <1>3 DEF FoldStep, Books

IsBook(b) ==
    b = [cash |-> b.cash, inventory |-> b.inventory, pipeline |-> b.pipeline, ar |-> b.ar,
         ap |-> b.ap, frozen |-> b.frozen, paused |-> b.paused]

LEMMA BookFields ==
    ASSUME NEW b, IsBook(b), NEW x
    PROVE  /\ IsBook([b EXCEPT !.cash = x]) /\ IsBook([b EXCEPT !.inventory = x])
           /\ IsBook([b EXCEPT !.pipeline = x]) /\ IsBook([b EXCEPT !.ar = x])
           /\ IsBook([b EXCEPT !.ap = x]) /\ IsBook([b EXCEPT !.frozen = x])
           /\ IsBook([b EXCEPT !.paused = x])
BY DEF IsBook

\* What one event does to each of the books.
LEMMA PostedFields ==
    ASSUME NEW b, IsBook(b), NEW e
    PROVE  /\ IsBook(Posted(b, e))
           /\ Posted(b, e).frozen = IF e.kind = "spend_frozen" THEN TRUE ELSE b.frozen
           /\ Posted(b, e).inventory = IF e.kind = "deal_won" THEN b.inventory - e.units
                                       ELSE IF e.kind = "po_received" THEN b.inventory + e.units
                                       ELSE b.inventory
           /\ Posted(b, e).pipeline =
                CASE e.kind = "lead_arrived" -> With(b.pipeline, Lead(e))
                  [] e.kind = "quote_sent" -> Quoted(b.pipeline, e.ref)
                  [] e.kind \in {"deal_won", "deal_lost"} -> Without(b.pipeline, e.ref)
                  [] OTHER -> b.pipeline
           /\ Posted(b, e).ar = IF e.kind = "invoice_issued" THEN With(b.ar, Due(e))
                                ELSE IF e.kind = "invoice_collected" THEN Without(b.ar, e.ref)
                                ELSE b.ar
           /\ Posted(b, e).ap = IF e.kind \in {"po_received", "bill_received"} THEN With(b.ap, Due(e))
                                ELSE IF e.kind = "bill_paid" THEN Without(b.ap, e.ref)
                                ELSE b.ap
<1> DEFINE p == Posted(b, e)
<1>1. CASE e.kind = "lead_arrived"
  <2>1. PICK x :
            /\ x = With(b.pipeline, Lead(e))
            /\ p = [b EXCEPT !.pipeline = x]
    BY <1>1 DEF Posted
  <2> HIDE DEF p
  <2>2. IsBook(p)
    BY <2>1, BookFields
  <2>3. /\ p.pipeline = x /\ p.frozen = b.frozen /\ p.inventory = b.inventory
        /\ p.ar = b.ar /\ p.ap = b.ap
    BY <2>1 DEF IsBook
  <2> QED BY <1>1, <2>1, <2>2, <2>3 DEF p
<1>2. CASE e.kind = "quote_sent"
  <2>1. PICK x :
            /\ x = Quoted(b.pipeline, e.ref)
            /\ p = [b EXCEPT !.pipeline = x]
    BY <1>2 DEF Posted
  <2> HIDE DEF p
  <2>2. IsBook(p)
    BY <2>1, BookFields
  <2>3. /\ p.pipeline = x /\ p.frozen = b.frozen /\ p.inventory = b.inventory
        /\ p.ar = b.ar /\ p.ap = b.ap
    BY <2>1 DEF IsBook
  <2> QED BY <1>2, <2>1, <2>2, <2>3 DEF p
<1>3. CASE e.kind = "deal_won"
  <2>1. PICK x, z :
            /\ x = Without(b.pipeline, e.ref)
            /\ z = b.inventory - e.units
            /\ p = [b EXCEPT !.pipeline = x, !.inventory = z]
    BY <1>3 DEF Posted
  <2> HIDE DEF p
  <2>2. IsBook(p)
    BY <2>1 DEF IsBook
  <2>3. /\ p.pipeline = x /\ p.frozen = b.frozen /\ p.inventory = z
        /\ p.ar = b.ar /\ p.ap = b.ap
    BY <2>1 DEF IsBook
  <2> QED BY <1>3, <2>1, <2>2, <2>3 DEF p
<1>4. CASE e.kind = "deal_lost"
  <2>1. PICK x :
            /\ x = Without(b.pipeline, e.ref)
            /\ p = [b EXCEPT !.pipeline = x]
    BY <1>4 DEF Posted
  <2> HIDE DEF p
  <2>2. IsBook(p)
    BY <2>1, BookFields
  <2>3. /\ p.pipeline = x /\ p.frozen = b.frozen /\ p.inventory = b.inventory
        /\ p.ar = b.ar /\ p.ap = b.ap
    BY <2>1 DEF IsBook
  <2> QED BY <1>4, <2>1, <2>2, <2>3 DEF p
<1>5. CASE e.kind = "invoice_issued"
  <2>1. PICK x :
            /\ x = With(b.ar, Due(e))
            /\ p = [b EXCEPT !.ar = x]
    BY <1>5 DEF Posted
  <2> HIDE DEF p
  <2>2. IsBook(p)
    BY <2>1, BookFields
  <2>3. /\ p.pipeline = b.pipeline /\ p.frozen = b.frozen /\ p.inventory = b.inventory
        /\ p.ar = x /\ p.ap = b.ap
    BY <2>1 DEF IsBook
  <2> QED BY <1>5, <2>1, <2>2, <2>3 DEF p
<1>6. CASE e.kind = "invoice_collected"
  <2>1. PICK x, z :
            /\ x = b.cash + e.amount
            /\ z = Without(b.ar, e.ref)
            /\ p = [b EXCEPT !.cash = x, !.ar = z]
    BY <1>6 DEF Posted
  <2> HIDE DEF p
  <2>2. IsBook(p)
    BY <2>1 DEF IsBook
  <2>3. /\ p.pipeline = b.pipeline /\ p.frozen = b.frozen /\ p.inventory = b.inventory
        /\ p.ar = z /\ p.ap = b.ap
    BY <2>1 DEF IsBook
  <2> QED BY <1>6, <2>1, <2>2, <2>3 DEF p
<1>7. CASE e.kind = "po_received"
  <2>1. PICK x, z :
            /\ x = b.inventory + e.units
            /\ z = With(b.ap, Due(e))
            /\ p = [b EXCEPT !.inventory = x, !.ap = z]
    BY <1>7 DEF Posted
  <2> HIDE DEF p
  <2>2. IsBook(p)
    BY <2>1 DEF IsBook
  <2>3. /\ p.pipeline = b.pipeline /\ p.frozen = b.frozen /\ p.inventory = x
        /\ p.ar = b.ar /\ p.ap = z
    BY <2>1 DEF IsBook
  <2> QED BY <1>7, <2>1, <2>2, <2>3 DEF p
<1>8. CASE e.kind = "bill_received"
  <2>1. PICK x :
            /\ x = With(b.ap, Due(e))
            /\ p = [b EXCEPT !.ap = x]
    BY <1>8 DEF Posted
  <2> HIDE DEF p
  <2>2. IsBook(p)
    BY <2>1, BookFields
  <2>3. /\ p.pipeline = b.pipeline /\ p.frozen = b.frozen /\ p.inventory = b.inventory
        /\ p.ar = b.ar /\ p.ap = x
    BY <2>1 DEF IsBook
  <2> QED BY <1>8, <2>1, <2>2, <2>3 DEF p
<1>9. CASE e.kind = "bill_paid"
  <2>1. PICK x, z :
            /\ x = b.cash - e.amount
            /\ z = Without(b.ap, e.ref)
            /\ p = [b EXCEPT !.cash = x, !.ap = z]
    BY <1>9 DEF Posted
  <2> HIDE DEF p
  <2>2. IsBook(p)
    BY <2>1 DEF IsBook
  <2>3. /\ p.pipeline = b.pipeline /\ p.frozen = b.frozen /\ p.inventory = b.inventory
        /\ p.ar = b.ar /\ p.ap = z
    BY <2>1 DEF IsBook
  <2> QED BY <1>9, <2>1, <2>2, <2>3 DEF p
<1>10. CASE e.kind = "role_paused"
  <2>1. PICK x :
            /\ x = b.paused \cup {e.ref}
            /\ p = [b EXCEPT !.paused = x]
    BY <1>10 DEF Posted
  <2> HIDE DEF p
  <2>2. IsBook(p)
    BY <2>1, BookFields
  <2>3. /\ p.pipeline = b.pipeline /\ p.frozen = b.frozen /\ p.inventory = b.inventory
        /\ p.ar = b.ar /\ p.ap = b.ap
    BY <2>1 DEF IsBook
  <2> QED BY <1>10, <2>1, <2>2, <2>3 DEF p
<1>11. CASE e.kind = "spend_frozen"
  <2>1. PICK x :
            /\ x = TRUE
            /\ p = [b EXCEPT !.frozen = x]
    BY <1>11 DEF Posted
  <2> HIDE DEF p
  <2>2. IsBook(p)
    BY <2>1, BookFields
  <2>3. /\ p.pipeline = b.pipeline /\ p.frozen = x /\ p.inventory = b.inventory
        /\ p.ar = b.ar /\ p.ap = b.ap
    BY <2>1 DEF IsBook
  <2> QED BY <1>11, <2>1, <2>2, <2>3 DEF p
<1>12. CASE e.kind \notin {"lead_arrived", "quote_sent", "deal_won", "deal_lost", "invoice_issued", "invoice_collected", "po_received", "bill_received", "bill_paid", "role_paused", "spend_frozen"}
  <2>1. p = b
    BY <1>12 DEF Posted
  <2> HIDE DEF p
  <2> QED BY <1>12, <2>1 DEF p
<1> QED BY <1>1, <1>2, <1>3, <1>4, <1>5, <1>6, <1>7, <1>8, <1>9, <1>10, <1>11, <1>12

Freezes(entry) == entry.e.kind = "spend_frozen"

\* The books are frozen exactly when the log has a freeze.
LEMMA BooksFrozen ==
    ASSUME NEW s, Listed(s)
    PROVE  /\ IsBook(Books(s)) /\ Books(s).frozen \in BOOLEAN
           /\ Books(s).frozen = TRUE <=> \E n \in DOMAIN s : Freezes(s[n])
<1>1. Len(s) \in Nat /\ DOMAIN s = 1..Len(s)
  BY ListedLen
<1>2. PICK f : /\ Books(s) = f[Len(s)] /\ f[0] = EmptyBooks
               /\ \A n \in DOMAIN s : f[n] = Posted(f[n - 1], s[n].e)
  BY BooksAreFolded
<1> DEFINE Good(n) == /\ IsBook(f[n]) /\ f[n].frozen \in BOOLEAN
                      /\ f[n].frozen = TRUE <=> \E m \in 1..n : Freezes(s[m])
           K == {n \in Nat : n <= Len(s) => Good(n)}
<1>3. 0 \in K
  <2>1. IsBook(EmptyBooks) /\ EmptyBooks.frozen = FALSE
    BY DEF IsBook, EmptyBooks
  <2>2. \A m \in 1..0 : ~Freezes(s[m])
    OBVIOUS
  <2>3. IsBook(f[0]) /\ f[0].frozen = FALSE
    BY <1>2, <2>1
  <2>4. Good(0)
    BY <2>2, <2>3
  <2> HIDE DEF Good
  <2> QED BY <2>4
<1> HIDE DEF Good
<1>4. ASSUME NEW n \in Nat, n \in K PROVE n + 1 \in K
  <2>1. SUFFICES ASSUME n + 1 <= Len(s) PROVE Good(n + 1)
    OBVIOUS
  <2>2. Good(n) /\ n + 1 \in DOMAIN s
    BY <1>1, <1>4, <2>1
  <2>3. PICK k : k = n + 1 /\ k - 1 = n /\ k \in DOMAIN s
    BY <2>2
  <2>4. PICK b, e : b = f[n] /\ e = s[k].e /\ f[k] = Posted(b, e)
    BY <1>2, <2>3
  <2>5. IsBook(f[k]) /\ f[k].frozen = IF e.kind = "spend_frozen" THEN TRUE ELSE b.frozen
    <3>1. IsBook(b)
      BY <2>2, <2>4 DEF Good
    <3>2. /\ IsBook(Posted(b, e))
          /\ Posted(b, e).frozen = IF e.kind = "spend_frozen" THEN TRUE ELSE b.frozen
      BY <3>1, PostedFields
    <3> QED BY <2>4, <3>2
  <2>6. (\E m \in 1..k : Freezes(s[m])) <=> (e.kind = "spend_frozen" \/ \E m \in 1..n : Freezes(s[m]))
    <3>1. 1..k = 1..n \cup {k}
      BY <2>3
    <3> HIDE DEF Good, K
    <3> QED BY <2>4, <3>1 DEF Freezes
  <2>7. Good(k)
    <3>1. /\ b.frozen \in BOOLEAN
          /\ b.frozen = TRUE <=> \E m \in 1..n : Freezes(s[m])
      BY <2>2, <2>4 DEF Good
    <3>2. CASE e.kind = "spend_frozen"
      BY <2>5, <2>6, <3>2 DEF Good
    <3>3. CASE e.kind # "spend_frozen"
      BY <2>5, <2>6, <3>1, <3>3 DEF Good
    <3> QED BY <3>2, <3>3
  <2> QED BY <2>3, <2>7
<1> HIDE DEF K
<1>5. Len(s) \in K
  BY <1>1, <1>3, <1>4, SetInduction
<1>6. Good(Len(s))
  BY <1>1, <1>5 DEF K
<1> QED BY <1>1, <1>2, <1>6 DEF Good

-----------------------------------------------------------------------------
(* Frozen means frozen. *)

\* What a freeze forbids: an order, and a payment that the world has not taken.
Spends(entry) ==
    \/ entry.e.kind \in {"po_raised", "po_received"}
    \/ entry.e.kind = "bill_paid" /\ entry.e.by # "world"

LEMMA FrozenPlaces ==
    FrozenMeansFrozen <=> \A m, n \in DOMAIN log : Freezes(log[m]) /\ m < n => ~Spends(log[n])
BY DEF FrozenMeansFrozen, Of, KindAt, Freezes, Spends

\* What is appended spends nothing, or there is no freeze.
LEMMA FrozenGrows ==
    ASSUME Listed(log), FrozenMeansFrozen, Grows(log, log'),
           \/ \A n \in DOMAIN log' \ DOMAIN log : ~Spends(log'[n])
           \/ \A n \in DOMAIN log' : ~Freezes(log'[n])
    PROVE  FrozenMeansFrozen'
<1>1. \A m, n \in DOMAIN log : Freezes(log[m]) /\ m < n => ~Spends(log[n])
  BY FrozenPlaces
<1>2. /\ DOMAIN log = 1..Len(log) /\ Len(log) \in Nat
      /\ DOMAIN log' = 1..Len(log)' /\ Len(log)' \in Nat
  <2>1. Listed(log) /\ Listed(log')
    BY DEF Grows
  <2> QED BY <2>1, ListedLen
<1>3. ASSUME NEW m \in DOMAIN log', NEW n \in DOMAIN log', Freezes(log'[m]), m < n
      PROVE  ~Spends(log'[n])
  <2>1. CASE n \notin DOMAIN log
    BY <1>3, <2>1
  <2>2. CASE n \in DOMAIN log
    <3>1. m \in DOMAIN log
      BY <1>2, <1>3, <2>2
    <3> QED BY <1>1, <1>3, <2>2, <3>1 DEF Grows
  <2> QED BY <2>1, <2>2
<1> QED BY <1>3 DEF FrozenMeansFrozen, Of, KindAt, Freezes, Spends

ResolutionKind == "escalation_resolved"

\* Of what a day emits, the events es speak for themselves, and a resolution neither
\* moves money nor freezes it.
LEMMA EmittedEvents ==
    ASSUME NEW es, NEW n, Emitted(es, n)
    PROVE  \/ /\ log'[n].e.kind = ResolutionKind
              /\ log'[n].day \in 0 .. day
           \/ \E j \in DOMAIN es : log'[n].e = es[j] /\ log'[n].day = day /\ n = Len(log) + j
<1>1. /\ \A d : /\ Resolution(human.id, d).e.kind = ResolutionKind
                /\ Resolution(human.id, d).day = d
      /\ \A e : On(day, e).e = e /\ On(day, e).day = day
  BY DEF Resolution, On, By, Plain, Event, ResolutionKind
<1> QED BY <1>1 DEF Emitted

\* Events that spend nothing are appended.
LEMMA SparingPosts ==
    ASSUME Listed(log), FrozenMeansFrozen, NEW es, Listed(es), NEW next, Posts(es, next),
           \A j \in DOMAIN es : \/ es[j].kind \notin {"po_raised", "po_received", "bill_paid"}
                                \/ es[j].kind = "bill_paid" /\ es[j].by = "world"
    PROVE  FrozenMeansFrozen'
<1>1. Grows(log, log') /\ \A n \in DOMAIN log' \ DOMAIN log : Emitted(es, n)
  BY PostsAppend
<1>2. \A n \in DOMAIN log' \ DOMAIN log : ~Spends(log'[n])
  BY <1>1, EmittedEvents DEF Spends, ResolutionKind
<1> QED BY <1>1, <1>2, FrozenGrows

\* Events that do not freeze are appended while nothing is frozen.
LEMMA SpendingPosts ==
    ASSUME Listed(log), FrozenMeansFrozen, NEW es, Listed(es), NEW next, Posts(es, next),
           Books(log).frozen # TRUE, \A j \in DOMAIN es : es[j].kind # "spend_frozen"
    PROVE  FrozenMeansFrozen'
<1>1. Grows(log, log') /\ \A n \in DOMAIN log' \ DOMAIN log : Emitted(es, n)
  BY PostsAppend
<1>2. \A n \in DOMAIN log : ~Freezes(log[n])
  BY BooksFrozen
<1>3. \A n \in DOMAIN log' \ DOMAIN log : ~Freezes(log'[n])
  BY <1>1, EmittedEvents DEF Freezes, ResolutionKind
<1>4. \A n \in DOMAIN log' : ~Freezes(log'[n])
  BY <1>1, <1>2, <1>3 DEF Grows
<1> QED BY <1>1, <1>4, FrozenGrows

-----------------------------------------------------------------------------
(* What each step emits. *)

LEMMA EventFields ==
    ASSUME NEW role, NEW kind, NEW ref, NEW amount, NEW units, NEW due
    PROVE  /\ By(role, Event(kind, ref, amount, units, due)).kind = kind
           /\ By(role, Event(kind, ref, amount, units, due)).ref = ref
           /\ By(role, Event(kind, ref, amount, units, due)).amount = amount
           /\ By(role, Event(kind, ref, amount, units, due)).units = units
           /\ By(role, Event(kind, ref, amount, units, due)).by = role
           /\ Plain(kind, ref) = Event(kind, ref, 0, 0, 0)
BY DEF By, Event, Plain

\* The events of an intent, by its action (_apply()).
EffectKinds ==
    [quote |-> {"quote_sent", "deal_won", "invoice_issued"},
     purchase_order |-> {"po_raised", "po_received"},
     collect |-> {"invoice_collected"},
     pay |-> {"bill_paid"},
     freeze_spend |-> {"spend_frozen"}]

EffectOf(role, i, e) ==
    /\ i.action \in DOMAIN EffectKinds /\ e.kind \in EffectKinds[i.action]
    /\ e.by = role /\ e.amount \in {0, i.amount} /\ e.units \in {0, i.units}
    /\ i.action # "freeze_spend" => e.ref = i.ref

LEMMA EffectEvents ==
    ASSUME NEW role, NEW i, NEW j \in DOMAIN Effects(role, i)
    PROVE  EffectOf(role, i, Effects(role, i)[j])
<1> DEFINE es == CASE i.action = "quote" ->
                    <<Plain("quote_sent", i.ref), Event("deal_won", i.ref, i.amount, i.units, 0),
                      Event("invoice_issued", i.ref, i.amount, i.units, day + 2)>>
                [] i.action = "purchase_order" ->
                    <<Plain("po_raised", i.ref), Event("po_received", i.ref, i.amount, i.units, day + 14)>>
                [] i.action = "collect" -> <<Event("invoice_collected", i.ref, i.amount, 0, 0)>>
                [] i.action = "pay" -> <<Event("bill_paid", i.ref, i.amount, 0, 0)>>
                [] i.action = "freeze_spend" -> <<Plain("spend_frozen", <<>>)>>
                [] OTHER -> <<>>
<1>1. Effects(role, i) = [n \in DOMAIN es |-> By(role, es[n])]
  BY DEF Effects
<1>2. ASSUME NEW n \in DOMAIN es PROVE EffectOf(role, i, By(role, es[n]))
  <2>1. CASE i.action = "quote"
    <3>1. PICK x, y, z : /\ x = Plain("quote_sent", i.ref)
                         /\ y = Event("deal_won", i.ref, i.amount, i.units, 0)
                         /\ z = Event("invoice_issued", i.ref, i.amount, i.units, day + 2)
                         /\ es = <<x, y, z>>
      BY <2>1
    <3> HIDE DEF es
    <3>2. es[n] \in {x, y, z}
      BY <3>1
    <3> QED BY <2>1, <3>1, <3>2, EventFields DEF EffectOf, EffectKinds
  <2>2. CASE i.action = "purchase_order"
    <3>1. PICK x, y : /\ x = Plain("po_raised", i.ref)
                      /\ y = Event("po_received", i.ref, i.amount, i.units, day + 14)
                      /\ es = <<x, y>>
      BY <2>2
    <3> HIDE DEF es
    <3>2. es[n] \in {x, y}
      BY <3>1
    <3> QED BY <2>2, <3>1, <3>2, EventFields DEF EffectOf, EffectKinds
  <2>3. CASE i.action = "collect"
    <3>1. PICK x : x = Event("invoice_collected", i.ref, i.amount, 0, 0) /\ es = <<x>>
      BY <2>3
    <3> HIDE DEF es
    <3>2. es[n] = x
      BY <3>1
    <3> QED BY <2>3, <3>1, <3>2, EventFields DEF EffectOf, EffectKinds
  <2>4. CASE i.action = "pay"
    <3>1. PICK x : x = Event("bill_paid", i.ref, i.amount, 0, 0) /\ es = <<x>>
      BY <2>4
    <3> HIDE DEF es
    <3>2. es[n] = x
      BY <3>1
    <3> QED BY <2>4, <3>1, <3>2, EventFields DEF EffectOf, EffectKinds
  <2>5. CASE i.action = "freeze_spend"
    <3>1. PICK x : x = Plain("spend_frozen", <<>>) /\ es = <<x>>
      BY <2>5
    <3> HIDE DEF es
    <3>2. es[n] = x
      BY <3>1
    <3> QED BY <2>5, <3>1, <3>2, EventFields DEF EffectOf, EffectKinds
  <2>6. CASE i.action \notin {"quote", "purchase_order", "collect", "pay", "freeze_spend"}
    <3>1. es = <<>>
      BY <2>6
    <3> HIDE DEF es
    <3> QED BY <3>1
  <2> HIDE DEF es
  <2> QED BY <2>1, <2>2, <2>3, <2>4, <2>5, <2>6
<1> HIDE DEF es
<1> QED BY <1>1, <1>2

\* An event that moves neither money nor stock.
Still(e, kind, who) == e.kind = kind /\ e.by = who /\ e.amount = 0 /\ e.units = 0

LEMMA StillEvents ==
    ASSUME NEW role, NEW kind, NEW ref
    PROVE  Still(By(role, Plain(kind, ref)), kind, role) /\ By(role, Plain(kind, ref)).ref = ref
BY EventFields DEF Still

\* At the end of a day: a directive, perhaps a freeze, the ruling, and the tick last.
ChiefSays(es, j) ==
    \/ Still(es[j], "directive_proposed", "chiefofstaff")
    \/ Still(es[j], "spend_frozen", "chiefofstaff")
    \/ Still(es[j], "directive_ruled", "chiefofstaff")
    \/ Still(es[j], "day_ticked", "system") /\ j = Len(es)

\* One entry before a sequence, and two after it.
LEMMA Framed ==
    ASSUME NEW s, Listed(s), NEW p, NEW r, NEW t
    PROVE  /\ DOMAIN (<<p>> \o s \o <<r, t>>) = 1 .. Len(s) + 3
           /\ Len(<<p>> \o s \o <<r, t>>) = Len(s) + 3
           /\ (<<p>> \o s \o <<r, t>>)[1] = p
           /\ \A j \in 1 .. Len(s) : (<<p>> \o s \o <<r, t>>)[j + 1] = s[j]
           /\ (<<p>> \o s \o <<r, t>>)[Len(s) + 2] = r
           /\ (<<p>> \o s \o <<r, t>>)[Len(s) + 3] = t
<1>1. PICK one, two : one = <<p>> /\ two = <<r, t>>
  OBVIOUS
<1>2. /\ Listed(one) /\ Len(one) = 1 /\ one[1] = p
      /\ Listed(two) /\ Len(two) = 2 /\ two[1] = r /\ two[2] = t /\ Len(s) \in Nat
  BY <1>1, ListedOne, ListedShort, ListedLen
<1>3. PICK v : v = one \o s
  OBVIOUS
<1>4. /\ Listed(v) /\ DOMAIN v = 1 .. 1 + Len(s) /\ v[1] = p
      /\ \A j \in 1 .. Len(s) : v[1 + j] = s[j]
  <2>1. /\ Listed(one \o s) /\ DOMAIN (one \o s) = 1 .. Len(one) + Len(s)
        /\ \A j \in 1 .. Len(one) : (one \o s)[j] = one[j]
        /\ \A j \in 1 .. Len(s) : (one \o s)[Len(one) + j] = s[j]
    <3>1. Listed(one) /\ Listed(s)
      BY <1>2
    <3> QED BY <3>1, ListedJoins
  <2> QED BY <1>2, <1>3, <2>1
<1>5. Len(v) = 1 + Len(s)
  <2>1. Len(v) \in Nat /\ DOMAIN v = 1 .. Len(v)
    BY <1>4, ListedLen
  <2> QED BY <1>2, <1>4, <2>1
<1>6. PICK u : u = v \o two
  OBVIOUS
<1>7. /\ Listed(u) /\ DOMAIN u = 1 .. Len(s) + 3
      /\ \A j \in 1 .. 1 + Len(s) : u[j] = v[j]
      /\ u[Len(s) + 2] = r /\ u[Len(s) + 3] = t
  <2>1. /\ Listed(v \o two) /\ DOMAIN (v \o two) = 1 .. Len(v) + Len(two)
        /\ \A j \in 1 .. Len(v) : (v \o two)[j] = v[j]
        /\ \A j \in 1 .. Len(two) : (v \o two)[Len(v) + j] = two[j]
    <3>1. Listed(v) /\ Listed(two)
      BY <1>2, <1>4
    <3> QED BY <3>1, ListedJoins
  <2>2. /\ Listed(u) /\ DOMAIN u = 1 .. Len(v) + 2
        /\ \A j \in 1 .. Len(v) : u[j] = v[j]
        /\ u[Len(v) + 1] = two[1] /\ u[Len(v) + 2] = two[2]
    BY <1>2, <1>6, <2>1
  <2> QED BY <1>2, <1>5, <2>2
<1>8. Len(u) = Len(s) + 3
  <2>1. Len(u) \in Nat /\ DOMAIN u = 1 .. Len(u)
    BY <1>7, ListedLen
  <2> QED BY <1>2, <1>7, <2>1
<1>9. \A j \in 1 .. Len(s) : u[j + 1] = s[j]
  BY <1>2, <1>4, <1>7
<1>10. u[1] = p
  BY <1>2, <1>4, <1>7
<1>11. u = <<p>> \o s \o <<r, t>>
  BY <1>1, <1>3, <1>6
<1> QED BY <1>7, <1>8, <1>9, <1>10, <1>11

LEMMA ChiefEvents ==
    ASSUME NEW freeze \in DirectiveEffects, NEW es,
           es = <<By("chiefofstaff", Plain("directive_proposed", <<>>))>> \o freeze
                \o <<By("chiefofstaff", Plain("directive_ruled", <<>>)),
                     By("system", Plain("day_ticked", <<>>))>>
    PROVE  \A j \in DOMAIN es : ChiefSays(es, j)
<1>1. PICK p, f, r, t :
        /\ p = By("chiefofstaff", Plain("directive_proposed", <<>>))
        /\ f = By("chiefofstaff", Plain("spend_frozen", <<>>))
        /\ r = By("chiefofstaff", Plain("directive_ruled", <<>>))
        /\ t = By("system", Plain("day_ticked", <<>>))
  OBVIOUS
<1>2. /\ Still(p, "directive_proposed", "chiefofstaff") /\ Still(f, "spend_frozen", "chiefofstaff")
      /\ Still(r, "directive_ruled", "chiefofstaff") /\ Still(t, "day_ticked", "system")
  BY <1>1, StillEvents
<1>3. /\ Listed(freeze) /\ Len(freeze) \in Nat /\ DOMAIN freeze = 1 .. Len(freeze)
      /\ \A j \in DOMAIN freeze : freeze[j] = f
  <2>1. freeze = <<>> \/ freeze = <<f>>
    BY <1>1 DEF DirectiveEffects
  <2>2. Listed(freeze)
    BY <2>1, ListedOne, Silence DEF Quiet
  <2> QED BY <2>1, <2>2, ListedLen
<1>4. es = <<p>> \o freeze \o <<r, t>>
  BY <1>1
<1>5. /\ DOMAIN es = 1 .. Len(freeze) + 3 /\ Len(es) = Len(freeze) + 3
      /\ es[1] = p /\ \A j \in 1 .. Len(freeze) : es[j + 1] = freeze[j]
      /\ es[Len(freeze) + 2] = r /\ es[Len(freeze) + 3] = t
  BY <1>3, <1>4, Framed
<1>6. ASSUME NEW j \in DOMAIN es PROVE ChiefSays(es, j)
  <2>1. CASE j = 1
    BY <1>2, <1>5, <2>1 DEF ChiefSays
  <2>2. CASE j \in 2 .. Len(freeze) + 1
    <3>1. PICK i \in 1 .. Len(freeze) : j = i + 1
      <4>1. j - 1 \in 1 .. Len(freeze) /\ j = (j - 1) + 1
        BY <1>3, <2>2
      <4> QED BY <4>1
    <3>2. es[j] = f
      BY <1>3, <1>5, <3>1
    <3> QED BY <1>2, <3>2 DEF ChiefSays
  <2>3. CASE j = Len(freeze) + 2
    BY <1>2, <1>5, <2>3 DEF ChiefSays
  <2>4. CASE j = Len(freeze) + 3
    BY <1>2, <1>5, <2>4 DEF ChiefSays
  <2> QED BY <1>3, <1>5, <2>1, <2>2, <2>3, <2>4
<1> QED BY <1>6

LEMMA WorldEmits ==
    ASSUME LogInv, WorldTick
    PROVE  \E es : Given(es, WorldKinds) /\ Posts(es, Work("salesbot", <<>>))
<1> DEFINE week == Weeks[scenario]
           d == IF day <= Len(week) THEN day ELSE Len(week)
<1>1. Listed(week) /\ Len(week) > 0 /\ \A n \in DOMAIN week : Given(week[n], WorldKinds)
  BY CompanyAssumption DEF LogInv, DayHolds
<1>2. Len(week) \in Nat /\ DOMAIN week = 1 .. Len(week)
  BY <1>1, ListedLen
<1>3. day \in Nat /\ day > 0
  BY DEF LogInv, DayHolds, WorldTick
<1> HIDE DEF week
<1>4. d \in DOMAIN week
  BY <1>1, <1>2, <1>3
<1>5. Posts(week[d], Work("salesbot", <<>>))
  BY DEF WorldTick, week
<1> HIDE DEF d
<1> QED BY <1>1, <1>4, <1>5

\* A pause, or a freeze: one still event or none.
LEMMA MaybeOne ==
    ASSUME NEW who, NEW kind, NEW ref, NEW es, NEW x, x = By(who, Plain(kind, ref)),
           es = <<>> \/ es = <<x>>
    PROVE  Listed(es) /\ \A j \in DOMAIN es : Still(es[j], kind, who)
<1>1. Still(x, kind, who)
  BY StillEvents
<1>2. CASE es = <<>>
  BY <1>2, Silence DEF Quiet
<1>3. CASE es = <<x>>
  BY <1>1, <1>3, ListedOne
<1> QED BY <1>2, <1>3

LEMMA RefusalEmits ==
    ASSUME NEW role, RefuseIntent(role)
    PROVE  \E es : /\ Listed(es) /\ Posts(es, Onward(role))
                   /\ \A j \in DOMAIN es : Still(es[j], "role_paused", "tower")
<1>1. PICK x, es : /\ Posts(es, Onward(role)) /\ (es = <<>> \/ es = <<x>>)
                   /\ x = By("tower", Plain("role_paused", <<role>>))
  BY DEF RefuseIntent
<1> QED BY <1>1, MaybeOne

LEMMA EscalationEmits ==
    ASSUME NEW role, EscalateIntent(role)
    PROVE  \E es : /\ Listed(es) /\ Posts(es, Onward(role))
                   /\ \A j \in DOMAIN es : Still(es[j], "escalation_raised", role)
<1>1. PICK x, es : /\ Posts(es, Onward(role)) /\ es = <<x>>
                   /\ x = By(role, Plain("escalation_raised", <<Len(inbox) + 1>>))
  BY DEF EscalateIntent
<1> QED BY <1>1, MaybeOne

LEMMA ApplyEmits ==
    ASSUME NEW role, ApplyIntent(role)
    PROVE  \E es : /\ Listed(es) /\ Posts(es, Onward(role))
                   /\ \A j \in DOMAIN es : EffectOf(role, Head(work.todo), es[j])
<1>1. PICK i, es : i = Head(work.todo) /\ es = Effects(role, i) /\ Posts(es, Onward(role))
  BY DEF ApplyIntent
<1>2. Listed(es) /\ \A j \in DOMAIN es : EffectOf(role, i, es[j])
  BY <1>1, EffectsAreQuiet, EffectEvents DEF Quiet
<1> QED BY <1>1, <1>2

LEMMA FreezeEmits ==
    ASSUME FreezeAgain
    PROVE  \E es : /\ Listed(es) /\ Posts(es, Work("chief", <<>>))
                   /\ \A j \in DOMAIN es : Still(es[j], "spend_frozen", "financebot")
<1>1. PICK x, es : /\ Posts(es, Work("chief", <<>>)) /\ (es = <<>> \/ es = <<x>>)
                   /\ x = By("financebot", Plain("spend_frozen", <<>>))
  BY DEF FreezeAgain
<1> QED BY <1>1, MaybeOne

LEMMA ChiefEmits ==
    ASSUME ChiefAndTick
    PROVE  \E es : Listed(es) /\ Posts(es, AtRest) /\ \A j \in DOMAIN es : ChiefSays(es, j)
<1>1. PICK freeze \in DirectiveEffects :
          Posts(<<By("chiefofstaff", Plain("directive_proposed", <<>>))>> \o freeze
                \o <<By("chiefofstaff", Plain("directive_ruled", <<>>)),
                     By("system", Plain("day_ticked", <<>>))>>, AtRest)
  BY DEF ChiefAndTick
<1>2. PICK es : es = <<By("chiefofstaff", Plain("directive_proposed", <<>>))>> \o freeze
                     \o <<By("chiefofstaff", Plain("directive_ruled", <<>>)),
                          By("system", Plain("day_ticked", <<>>))>>
  OBVIOUS
<1>3. Listed(es) /\ \A j \in DOMAIN es : ChiefSays(es, j)
  <2>1. Quiet(es)
    BY <1>2, DirectiveIsQuiet
  <2> QED BY <1>2, <2>1, ChiefEvents DEF Quiet
<1> QED BY <1>1, <1>2, <1>3

\* A resolution that finds its number free is appended by itself; what it says.
LEMMA ResolutionEmits ==
    ASSUME Listed(log), ResolveAppend
    PROVE  /\ Grows(log, log')
           /\ \A n \in DOMAIN log' \ DOMAIN log :
                /\ log'[n].day = human.day /\ Still(log'[n].e, ResolutionKind, "human")
<1>1. PICK x : /\ log' = log \/ log' = Append(log, x)
               /\ x = Resolution(human.id, human.day)
  BY DEF ResolveAppend
<1>2. x.day = human.day /\ Still(x.e, ResolutionKind, "human")
  <2>1. \A e : On(human.day, e).day = human.day /\ On(human.day, e).e = e
    BY DEF On
  <2>2. PICK e : e = By("human", Plain(ResolutionKind, <<human.id>>)) /\ x = On(human.day, e)
    BY <1>1 DEF Resolution, ResolutionKind
  <2> QED BY <2>1, <2>2, StillEvents
<1>3. CASE log' = log
  BY <1>3 DEF Grows
<1>4. CASE log' = Append(log, x)
  <2>1. PICK new : new = log' /\ new = Append(log, x)
    BY <1>4
  <2>2. /\ Continues(log, Append(log, x)) /\ Append(log, x)[Len(Append(log, x))] = x
        /\ DOMAIN Append(log, x) = DOMAIN log \cup {Len(Append(log, x))}
    BY OneMoreContinues
  <2>3. /\ Continues(log, new) /\ new[Len(new)] = x /\ DOMAIN new = DOMAIN log \cup {Len(new)}
    BY <2>1, <2>2
  <2>4. Grows(log, new) /\ \A n \in DOMAIN new \ DOMAIN log : new[n] = x
    BY <2>3 DEF Continues, Grows
  <2> QED BY <1>2, <2>1, <2>4
<1> QED BY <1>1, <1>3, <1>4

LEMMA OpeningEntries ==
    ASSUME Seed
    PROVE  /\ Listed(log') /\ DOMAIN log' = DOMAIN Opening
           /\ \A n \in DOMAIN log' : /\ log'[n].day = 0 /\ log'[n].e.kind \in OpeningKinds
                                     /\ log'[n].e.by = "world"
                                     /\ log'[n].e.amount \in Nat /\ log'[n].e.units \in Nat
<1>1. PICK new : new = log' /\ new = Entries(0, Opening)
  BY DEF Seed, Entries
<1>2. Listed(new)
  <2>1. Quiet(Opening)
    BY GivenIsQuiet, CompanyAssumption
  <2> QED BY <1>1, <2>1, QuietIsSilent DEF Silent
<1>3. DOMAIN new = DOMAIN Opening /\ \A n \in DOMAIN new : new[n].day = 0 /\ new[n].e = Opening[n]
  BY <1>1 DEF Entries, On
<1>4. \A n \in DOMAIN Opening : /\ Opening[n].kind \in OpeningKinds /\ Opening[n].by = "world"
                                /\ Opening[n].amount \in Nat /\ Opening[n].units \in Nat
  BY CompanyAssumption DEF Given
<1> QED BY <1>1, <1>2, <1>3, <1>4

\* The steps that append nothing.
LogStands ==
    \/ BeginDay \/ Arm \/ ResolveMark \/ ResolveNumber \/ UNCHANGED companyVars
    \/ \E role \in RoleNames : PlanRole(role) \/ SkipIntent(role) \/ Regrant(role)

LEMMA LogStandsThen ==
    ASSUME LogStands
    PROVE  UNCHANGED log
<1>1. ASSUME NEW role \in RoleNames, PlanRole(role) \/ SkipIntent(role) \/ Regrant(role)
      PROVE  UNCHANGED log
  BY <1>1 DEF PlanRole, SkipIntent, Regrant
<1>2. ASSUME BeginDay \/ Arm \/ ResolveMark \/ ResolveNumber \/ UNCHANGED companyVars
      PROVE  UNCHANGED log
  BY <1>2 DEF BeginDay, Arm, ResolveMark, ResolveNumber, companyVars
<1> QED BY <1>1, <1>2 DEF LogStands

\* Every step is one of these.
LEMMA Steps ==
    ASSUME [CompanyNext]_companyVars
    PROVE  \/ LogStands \/ WorldTick \/ FreezeAgain \/ ChiefAndTick \/ ResolveAppend \/ Seed
           \/ \E role \in RoleNames : RefuseIntent(role) \/ EscalateIntent(role) \/ ApplyIntent(role)
BY DEF CompanyNext, LogStands

-----------------------------------------------------------------------------

LEMMA FrozenStep ==
    ASSUME LogInv, FrozenMeansFrozen, [CompanyNext]_companyVars
    PROVE  FrozenMeansFrozen'
<1>0. Listed(log)
  BY DEF LogInv, DayHolds
<1>1. CASE WorldTick
  BY <1>0, <1>1, WorldEmits, SparingPosts DEF Given, WorldKinds
<1>2. CASE FreezeAgain
  BY <1>0, <1>2, FreezeEmits, SparingPosts DEF Still
<1>3. CASE ChiefAndTick
  BY <1>0, <1>3, ChiefEmits, SparingPosts DEF ChiefSays, Still
<1>4. ASSUME NEW role \in RoleNames, RefuseIntent(role) PROVE FrozenMeansFrozen'
  BY <1>0, <1>4, RefusalEmits, SparingPosts DEF Still
<1>5. ASSUME NEW role \in RoleNames, EscalateIntent(role) PROVE FrozenMeansFrozen'
  BY <1>0, <1>5, EscalationEmits, SparingPosts DEF Still
<1>6. ASSUME NEW role \in RoleNames, ApplyIntent(role) PROVE FrozenMeansFrozen'
  <2>1. PICK i : i = Head(work.todo) /\ ~Skipped(i)
    BY <1>6 DEF ApplyIntent
  <2>2. PICK es : /\ Listed(es) /\ Posts(es, Onward(role))
                  /\ \A j \in DOMAIN es : EffectOf(role, i, es[j])
    BY <1>6, <2>1, ApplyEmits
  <2>3. CASE i.action \in {"pay", "purchase_order"}
    <3>1. ~Books(log).frozen
      BY <2>1, <2>3 DEF Skipped
    <3>2. Books(log).frozen # TRUE
      BY <3>1
    <3>3. \A j \in DOMAIN es : es[j].kind # "spend_frozen"
      BY <2>2, <2>3 DEF EffectOf, EffectKinds
    <3> QED BY <1>0, <2>2, <3>2, <3>3, SpendingPosts
  <2>4. CASE i.action \notin {"pay", "purchase_order"}
    <3>1. \A j \in DOMAIN es : es[j].kind \notin {"po_raised", "po_received", "bill_paid"}
      BY <2>2, <2>4 DEF EffectOf, EffectKinds
    <3> QED BY <1>0, <2>2, <3>1, SparingPosts
  <2> QED BY <2>3, <2>4
<1>7. CASE ResolveAppend
  <2>1. /\ Grows(log, log')
        /\ \A n \in DOMAIN log' \ DOMAIN log : Still(log'[n].e, ResolutionKind, "human")
    BY <1>0, <1>7, ResolutionEmits
  <2>2. \A n \in DOMAIN log' \ DOMAIN log : ~Spends(log'[n])
    BY <2>1 DEF Spends, Still, ResolutionKind
  <2> QED BY <1>0, <2>1, <2>2, FrozenGrows
<1>8. CASE Seed
  <2>1. \A n \in DOMAIN log' : ~Freezes(log'[n])
    BY <1>8, OpeningEntries DEF Freezes, OpeningKinds
  <2> QED BY <2>1 DEF FrozenMeansFrozen, Of, KindAt, Freezes
<1>9. CASE LogStands
  BY <1>9, LogStandsThen DEF FrozenMeansFrozen, Of, KindAt
<1> QED BY <1>1, <1>2, <1>3, <1>4, <1>5, <1>6, <1>7, <1>8, <1>9, Steps

\* After a freeze the company orders and pays nothing, wherever the roles were in
\* their plans when it was declared (_run_role(), _apply(), and what skips an intent).
THEOREM FreezeIsKept == CompanySpec => []FrozenMeansFrozen
<1>1. CompanyInit => FrozenMeansFrozen
  <2> SUFFICES ASSUME CompanyInit PROVE FrozenMeansFrozen
    OBVIOUS
  <2>1. log = Entries(0, Opening)
    BY DEF CompanyInit, Entries
  <2>2. \A n \in DOMAIN log : ~Freezes(log[n])
    <3>1. \A n \in DOMAIN Opening : Opening[n].kind \in OpeningKinds
      BY CompanyAssumption DEF Given
    <3> QED BY <2>1, <3>1 DEF Entries, On, Freezes, OpeningKinds
  <2> QED BY <2>2 DEF FrozenMeansFrozen, Of, KindAt, Freezes
<1>2. LogInv /\ FrozenMeansFrozen /\ [CompanyNext]_companyVars => FrozenMeansFrozen'
  BY FrozenStep
<1> QED BY <1>1, <1>2, LogAlways, PTL DEF CompanySpec


-----------------------------------------------------------------------------
(* What the books say is due, the log says: it was billed, and not settled since. *)

\* The events 1 .. n of s leave x to be settled by an event of this kind.
Owed(s, n, kind, x) ==
    \E k \in 1..n : /\ s[k].e.kind \in DueBy[kind] /\ x = Due(s[k].e)
                    /\ \A m \in k + 1 .. n : s[m].e.kind = kind => s[m].e.ref # x.ref

Dues(entries, s, n, kind) ==
    /\ IsFiniteSet(entries)
    /\ \A x \in entries : Owed(s, n, kind, x)
    /\ \A x, y \in entries : x.ref = y.ref => x = y

LEMMA StillOwed ==
    ASSUME NEW s, NEW n \in Nat, NEW kind, NEW x, Owed(s, n, kind, x),
           s[n + 1].e.kind = kind => s[n + 1].e.ref # x.ref
    PROVE  Owed(s, n + 1, kind, x)
<1>1. PICK k \in 1..n : /\ s[k].e.kind \in DueBy[kind] /\ x = Due(s[k].e)
                        /\ \A m \in k + 1 .. n : s[m].e.kind = kind => s[m].e.ref # x.ref
  BY DEF Owed
<1>2. k \in 1..n + 1 /\ k + 1 .. n + 1 \subseteq k + 1 .. n \cup {n + 1}
  OBVIOUS
<1> QED BY <1>1, <1>2 DEF Owed

LEMMA DuesPosted ==
    ASSUME NEW s, NEW n \in Nat, NEW kind \in DOMAIN DueBy, NEW A, Dues(A, s, n, kind),
           NEW k, k = n + 1, NEW e, e = s[k].e, NEW B,
           e.kind \in DueBy[kind] => B = With(A, Due(e)),
           e.kind = kind => B = Without(A, e.ref),
           e.kind \notin DueBy[kind] \cup {kind} => B = A
    PROVE  Dues(B, s, k, kind)
<1>0. kind \notin DueBy[kind]
  BY DEF DueBy
<1>1. CASE e.kind \in DueBy[kind]
  <2>1. B = With(A, Due(e)) /\ Due(e).ref = e.ref
    BY <1>1 DEF Due
  <2>2. IsFiniteSet(Without(A, Due(e).ref))
    BY FS_Subset DEF Dues, Without
  <2>3. IsFiniteSet(B)
    BY <2>1, <2>2, FS_AddElement DEF With
  <2>4. Owed(s, k, kind, Due(e))
    BY <1>1 DEF Owed
  <2>5. \A x \in A : Owed(s, k, kind, x)
    BY <1>0, <1>1, StillOwed DEF Dues
  <2>6. \A x \in B : x = Due(e) \/ (x \in A /\ x.ref # Due(e).ref)
    BY <2>1 DEF With, Without
  <2>7. \A x, y \in B : x.ref = y.ref => x = y
    BY <2>6 DEF Dues
  <2> QED BY <2>3, <2>4, <2>5, <2>6, <2>7 DEF Dues
<1>2. CASE e.kind = kind
  <2>1. B \subseteq A /\ \A x \in B : x.ref # e.ref
    BY <1>2 DEF Without
  <2>2. IsFiniteSet(B)
    BY <2>1, FS_Subset DEF Dues
  <2>3. \A x \in B : Owed(s, k, kind, x)
    BY <2>1, StillOwed DEF Dues
  <2> QED BY <2>1, <2>2, <2>3 DEF Dues
<1>3. CASE e.kind \notin DueBy[kind] \cup {kind}
  <2>1. \A x \in B : Owed(s, k, kind, x)
    BY <1>3, StillOwed DEF Dues
  <2> QED BY <1>3, <2>1 DEF Dues
<1> QED BY <1>1, <1>2, <1>3

\* The leads of the pipeline, and the stock.
Leads(entries, s, n) ==
    /\ IsFiniteSet(entries)
    /\ \A x \in entries : \E k \in 1..n : x.units = s[k].e.units

LEMMA LeadsPosted ==
    ASSUME NEW s, NEW n \in Nat, NEW b, IsBook(b), Leads(b.pipeline, s, n),
           NEW k, k = n + 1, NEW e, e = s[k].e
    PROVE  Leads(Posted(b, e).pipeline, s, k)
<1> DEFINE B == Posted(b, e).pipeline
<1>1. B = CASE e.kind = "lead_arrived" -> With(b.pipeline, Lead(e))
            [] e.kind = "quote_sent" -> Quoted(b.pipeline, e.ref)
            [] e.kind \in {"deal_won", "deal_lost"} -> Without(b.pipeline, e.ref)
            [] OTHER -> b.pipeline
  BY PostedFields
<1>2. \A x \in b.pipeline : \E m \in 1..k : x.units = s[m].e.units
  <2>1. 1..n \subseteq 1..k
    OBVIOUS
  <2> QED BY <2>1 DEF Leads
<1>3. CASE e.kind = "lead_arrived"
  <2>1. B = Without(b.pipeline, Lead(e).ref) \cup {Lead(e)}
    BY <1>1, <1>3 DEF With
  <2>2. IsFiniteSet(Without(b.pipeline, Lead(e).ref))
    BY FS_Subset DEF Leads, Without
  <2>3. IsFiniteSet(B)
    BY <2>1, <2>2, FS_AddElement
  <2>4. Lead(e).units = s[k].e.units /\ k \in 1..k
    BY DEF Lead
  <2> HIDE DEF B
  <2>5. \A x \in B : x \in b.pipeline \/ x = Lead(e)
    BY <2>1 DEF Without
  <2> QED BY <1>2, <2>3, <2>4, <2>5 DEF Leads, B
<1>4. CASE e.kind = "quote_sent"
  <2>1. PICK op : op = [x \in b.pipeline |-> [x EXCEPT !.quoted = x.quoted \/ x.ref = e.ref]]
    OBVIOUS
  <2>2. B = {op[x] : x \in b.pipeline}
    BY <1>1, <1>4, <2>1 DEF Quoted
  <2> HIDE DEF B
  <2>3. IsFiniteSet(B)
    <3>1. B \in SUBSET B /\ \A y \in B : \E x \in b.pipeline : op[x] = y
      BY <2>2
    <3>2. op \in Surjection(b.pipeline, B)
      BY <2>1, <2>2 DEF Surjection
    <3> QED BY <3>2, FS_Surjection DEF Leads, ExistsSurjection
  <2>4. \A x \in b.pipeline : op[x].units = x.units
    BY <2>1
  <2> QED BY <1>2, <2>2, <2>3, <2>4 DEF Leads, B
<1>5. CASE e.kind \notin {"lead_arrived", "quote_sent"}
  <2>1. B \subseteq b.pipeline
    BY <1>1, <1>5 DEF Without
  <2> HIDE DEF B
  <2>2. IsFiniteSet(B)
    BY <2>1, FS_Subset DEF Leads
  <2> QED BY <1>2, <2>1, <2>2 DEF Leads, B
<1> QED BY <1>3, <1>4, <1>5

\* The books of a log whose amounts and units are counts.
LEMMA BooksAreDue ==
    ASSUME NEW s, Listed(s)
    PROVE  /\ Dues(Books(s).ar, s, Len(s), "invoice_collected")
           /\ Dues(Books(s).ap, s, Len(s), "bill_paid")
           /\ Leads(Books(s).pipeline, s, Len(s))
           /\ (\A n \in DOMAIN s : s[n].e.units \in Nat) => Books(s).inventory \in Int
<1>1. Len(s) \in Nat /\ DOMAIN s = 1..Len(s)
  BY ListedLen
<1>2. PICK f : /\ Books(s) = f[Len(s)] /\ f[0] = EmptyBooks
               /\ \A n \in DOMAIN s : f[n] = Posted(f[n - 1], s[n].e)
  BY BooksAreFolded
<1> DEFINE Counts == \A n \in DOMAIN s : s[n].e.units \in Nat
           Good(n) == /\ IsBook(f[n])
                      /\ Dues(f[n].ar, s, n, "invoice_collected")
                      /\ Dues(f[n].ap, s, n, "bill_paid")
                      /\ Leads(f[n].pipeline, s, n)
                      /\ Counts => f[n].inventory \in Int
           K == {n \in Nat : n <= Len(s) => Good(n)}
<1>3. 0 \in K
  <2>1. /\ IsBook(EmptyBooks) /\ EmptyBooks.ar = {} /\ EmptyBooks.ap = {}
        /\ EmptyBooks.pipeline = {} /\ EmptyBooks.inventory = 0
    BY DEF IsBook, EmptyBooks
  <2>2. IsFiniteSet({})
    BY FS_EmptySet
  <2>3. Dues({}, s, 0, "invoice_collected") /\ Dues({}, s, 0, "bill_paid") /\ Leads({}, s, 0)
    BY <2>2 DEF Dues, Leads
  <2>4. Good(0)
    BY <1>2, <2>1, <2>3
  <2> HIDE DEF Good
  <2> QED BY <2>4
<1> HIDE DEF Good
<1>4. ASSUME NEW n \in Nat, n \in K PROVE n + 1 \in K
  <2>1. SUFFICES ASSUME n + 1 <= Len(s) PROVE Good(n + 1)
    OBVIOUS
  <2>2. Good(n) /\ n + 1 \in DOMAIN s
    BY <1>1, <1>4, <2>1
  <2>3. PICK k : k = n + 1 /\ k - 1 = n /\ k \in DOMAIN s
    BY <2>2
  <2>4. PICK b, e : b = f[n] /\ e = s[k].e /\ f[k] = Posted(b, e)
    BY <1>2, <2>3
  <2>5. /\ IsBook(b)
        /\ Dues(b.ar, s, n, "invoice_collected") /\ Dues(b.ap, s, n, "bill_paid")
        /\ Leads(b.pipeline, s, n) /\ (Counts => b.inventory \in Int)
    BY <2>2, <2>4 DEF Good
  <2> HIDE DEF K, Counts
  <2>6. /\ IsBook(f[k])
        /\ f[k].ar = IF e.kind = "invoice_issued" THEN With(b.ar, Due(e))
                     ELSE IF e.kind = "invoice_collected" THEN Without(b.ar, e.ref)
                     ELSE b.ar
        /\ f[k].ap = IF e.kind \in {"po_received", "bill_received"} THEN With(b.ap, Due(e))
                     ELSE IF e.kind = "bill_paid" THEN Without(b.ap, e.ref)
                     ELSE b.ap
        /\ f[k].inventory = IF e.kind = "deal_won" THEN b.inventory - e.units
                            ELSE IF e.kind = "po_received" THEN b.inventory + e.units
                            ELSE b.inventory
    <3>1. IsBook(b) /\ f[k] = Posted(b, e)
      BY <2>4, <2>5
    <3>2. IsBook(Posted(b, e))
      BY <3>1, PostedFields
    <3>3. Posted(b, e).ar = IF e.kind = "invoice_issued" THEN With(b.ar, Due(e))
                    ELSE IF e.kind = "invoice_collected" THEN Without(b.ar, e.ref)
                    ELSE b.ar
      BY <3>1, PostedFields
    <3>4. Posted(b, e).ap = IF e.kind \in {"po_received", "bill_received"} THEN With(b.ap, Due(e))
                    ELSE IF e.kind = "bill_paid" THEN Without(b.ap, e.ref)
                    ELSE b.ap
      BY <3>1, PostedFields
    <3>5. Posted(b, e).inventory = IF e.kind = "deal_won" THEN b.inventory - e.units
                           ELSE IF e.kind = "po_received" THEN b.inventory + e.units
                           ELSE b.inventory
      BY <3>1, PostedFields
    <3> QED BY <3>1, <3>2, <3>3, <3>4, <3>5
  <2>7. Dues(f[k].ar, s, k, "invoice_collected")
    <3>1. PICK B : B = f[k].ar
      OBVIOUS
    <3>2. /\ e.kind \in DueBy["invoice_collected"] => B = With(b.ar, Due(e))
          /\ e.kind = "invoice_collected" => B = Without(b.ar, e.ref)
          /\ e.kind \notin DueBy["invoice_collected"] \cup {"invoice_collected"} => B = b.ar
          /\ "invoice_collected" \in DOMAIN DueBy
      BY <2>6, <3>1 DEF DueBy
    <3> QED BY <2>3, <2>4, <2>5, <3>1, <3>2, DuesPosted
  <2>8. Dues(f[k].ap, s, k, "bill_paid")
    <3>1. PICK B : B = f[k].ap
      OBVIOUS
    <3>2. /\ e.kind \in DueBy["bill_paid"] => B = With(b.ap, Due(e))
          /\ e.kind = "bill_paid" => B = Without(b.ap, e.ref)
          /\ e.kind \notin DueBy["bill_paid"] \cup {"bill_paid"} => B = b.ap
          /\ "bill_paid" \in DOMAIN DueBy
      BY <2>6, <3>1 DEF DueBy
    <3> QED BY <2>3, <2>4, <2>5, <3>1, <3>2, DuesPosted
  <2>9. Leads(f[k].pipeline, s, k)
    BY <2>3, <2>4, <2>5, LeadsPosted
  <2>10. Counts => f[k].inventory \in Int
    BY <2>3, <2>4, <2>5, <2>6 DEF Counts
  <2>11. Good(k)
    BY <2>6, <2>7, <2>8, <2>9, <2>10 DEF Good
  <2> QED BY <2>3, <2>11
<1> HIDE DEF K
<1>5. Len(s) \in K
  BY <1>1, <1>3, <1>4, SetInduction
<1>6. Good(Len(s))
  BY <1>1, <1>5 DEF K
<1> QED BY <1>2, <1>6 DEF Good


-----------------------------------------------------------------------------
(* Money moves once. *)

\* The log s leaves something about ref to be settled by an event of this kind.
Open(s, kind, ref) ==
    \E k \in DOMAIN s : /\ s[k].e.kind \in DueBy[kind] /\ s[k].e.ref = ref
                        /\ \A m \in DOMAIN s : m > k /\ s[m].e.kind = kind => s[m].e.ref # ref

LEMMA OwedIsOpen ==
    ASSUME NEW s, Listed(s), NEW kind, NEW x, Owed(s, Len(s), kind, x)
    PROVE  Open(s, kind, x.ref)
<1>1. Len(s) \in Nat /\ DOMAIN s = 1..Len(s)
  BY ListedLen
<1>2. PICK k \in 1..Len(s) :
        /\ s[k].e.kind \in DueBy[kind] /\ x = Due(s[k].e)
        /\ \A m \in k + 1 .. Len(s) : s[m].e.kind = kind => s[m].e.ref # x.ref
  BY DEF Owed
<1>3. s[k].e.ref = x.ref
  BY <1>2 DEF Due
<1>4. \A m \in DOMAIN s : m > k => m \in k + 1 .. Len(s)
  BY <1>1
<1> QED BY <1>1, <1>2, <1>3, <1>4 DEF Open

\* It stays open until it is settled.
LEMMA OpenGrows ==
    ASSUME NEW s, NEW t, Listed(s), Grows(s, t), NEW kind, NEW ref, Open(s, kind, ref),
           \A n \in DOMAIN t \ DOMAIN s : t[n].e.kind = kind => t[n].e.ref # ref
    PROVE  Open(t, kind, ref)
BY DEF Open, Grows

\* An event of these kinds settles something, and if not the world did it, it must be open.
Settling(entry) == entry.e.kind \in DOMAIN DueBy
SameMatter(x, y) == x.e.kind = y.e.kind /\ x.e.ref = y.e.ref

LEMMA SettledGrows ==
    ASSUME Listed(log), SettledOnce, Grows(log, log'),
           \A n \in DOMAIN log' \ DOMAIN log :
               Settling(log'[n]) /\ log'[n].e.by # "world" =>
                   /\ Open(log, log'[n].e.kind, log'[n].e.ref)
                   /\ \A m \in DOMAIN log' \ DOMAIN log : m < n => ~SameMatter(log'[m], log'[n])
    PROVE  SettledOnce'
<1>0. /\ DOMAIN log = 1..Len(log) /\ Len(log) \in Nat
      /\ DOMAIN log' = 1..Len(log)' /\ Len(log)' \in Nat
  <2>1. Listed(log) /\ Listed(log')
    BY DEF Grows
  <2> QED BY <2>1, ListedLen
<1>1. SUFFICES ASSUME NEW m \in DOMAIN log', NEW n \in DOMAIN log',
                      Settling(log'[n]), m < n, log'[n].e.by # "world",
                      SameMatter(log'[m], log'[n])
               PROVE  \E k \in DOMAIN log' :
                        /\ log'[k].e.kind \in DueBy[log'[n].e.kind]
                        /\ m < k /\ k < n /\ log'[k].e.ref = log'[n].e.ref
  BY DEF SettledOnce, Of, KindAt, Settling, SameMatter
<1>2. CASE n \in DOMAIN log
  <2>1. m \in DOMAIN log /\ log'[m] = log[m] /\ log'[n] = log[n]
    BY <1>0, <1>1, <1>2 DEF Grows
  <2>2. m \in Of(DOMAIN DueBy) /\ n \in Of(DOMAIN DueBy)
    BY <1>1, <1>2, <2>1 DEF Of, KindAt, Settling, SameMatter
  <2>3. \E k \in Of(DueBy[KindAt(n)]) : m < k /\ k < n /\ log[k].e.ref = log[n].e.ref
    BY <1>1, <2>1, <2>2 DEF SettledOnce, KindAt, SameMatter
  <2> QED BY <2>1, <2>3 DEF Of, KindAt, Grows
<1>3. CASE n \notin DOMAIN log
  <2>1. m \in DOMAIN log
    BY <1>1, <1>3
  <2>2. PICK k \in DOMAIN log :
            /\ log[k].e.kind \in DueBy[log'[n].e.kind] /\ log[k].e.ref = log'[n].e.ref
            /\ \A j \in DOMAIN log : j > k /\ log[j].e.kind = log'[n].e.kind
                                     => log[j].e.ref # log'[n].e.ref
    BY <1>1, <1>3 DEF Open
  <2>3. log'[m] = log[m] /\ log'[k] = log[k]
    BY <2>1 DEF Grows
  <2>4. ~(m > k)
    BY <1>1, <2>1, <2>2, <2>3 DEF SameMatter
  <2>5. m # k
    <3>1. log[m].e.kind = log'[n].e.kind /\ log'[n].e.kind \in DOMAIN DueBy
      BY <1>1, <2>3 DEF SameMatter, Settling
    <3>2. \A kind \in DOMAIN DueBy : kind \notin DueBy[kind]
      BY DEF DueBy
    <3> QED BY <2>2, <3>1, <3>2
  <2>6. m < k /\ k < n
    BY <1>0, <1>3, <2>1, <2>4, <2>5
  <2>7. k \in DOMAIN log'
    BY DEF Grows
  <2> QED BY <2>2, <2>3, <2>6, <2>7
<1> QED BY <1>2, <1>3

\* What a role still has to settle is open, and no two of its intents settle the same.
SettledBy == [pay |-> "bill_paid", collect |-> "invoice_collected"]
Settles(i) == i.action \in DOMAIN SettledBy

TodoOpen(s, todo) ==
    /\ Listed(todo)
    /\ \A n \in DOMAIN todo : Settles(todo[n]) => Open(s, SettledBy[todo[n].action], todo[n].ref)
    /\ \A m, n \in DOMAIN todo :
        Settles(todo[m]) /\ todo[m].action = todo[n].action /\ todo[m].ref = todo[n].ref => m = n

LEMMA NothingTodo == \A s : TodoOpen(s, <<>>)
BY Silence DEF TodoOpen, Quiet

LEMMA TailOf ==
    ASSUME NEW t, Listed(t), t # <<>>
    PROVE  /\ 1 \in DOMAIN t /\ Head(t) = t[1] /\ Listed(Tail(t))
           /\ \A n \in DOMAIN Tail(t) : n + 1 \in DOMAIN t /\ n + 1 # 1 /\ Tail(t)[n] = t[n + 1]
           /\ \A m, n \in DOMAIN Tail(t) : m + 1 = n + 1 => m = n
<1> DEFINE S == {t[n] : n \in DOMAIN t}
           u == Tail(t)
<1>1. t \in Seq(S)
  BY DEF Listed
<1> HIDE DEF S
<1>2. /\ Len(t) \in Nat /\ DOMAIN t = 1..Len(t) /\ Len(t) # 0
  BY <1>1, LenProperties, EmptySeq
<1>3. /\ Head(t) = t[1] /\ u \in Seq(S) /\ Len(u) = Len(t) - 1
      /\ \A n \in 1..Len(u) : u[n] = t[n + 1]
  BY <1>1, HeadTailProperties
<1> HIDE DEF u
<1>4. Listed(u) /\ DOMAIN u = 1..Len(u) /\ Len(u) \in Nat
  BY <1>3, SeqIsListed, LenProperties
<1>5. Listed(u) /\ (\A n \in DOMAIN u : n + 1 \in DOMAIN t /\ n + 1 # 1 /\ u[n] = t[n + 1])
      /\ \A m, n \in DOMAIN u : m + 1 = n + 1 => m = n
  BY <1>2, <1>3, <1>4
<1> QED BY <1>2, <1>3, <1>5 DEF u

\* The rest of a list, after its first intent has settled what it was about.
LEMMA RestStaysOpen ==
    ASSUME NEW s, NEW t, Listed(s), Grows(s, t), NEW todo, TodoOpen(s, todo), todo # <<>>,
           \A n \in DOMAIN t \ DOMAIN s :
               t[n].e.kind \in DOMAIN DueBy =>
                   /\ Settles(Head(todo)) /\ t[n].e.kind = SettledBy[Head(todo).action]
                   /\ t[n].e.ref = Head(todo).ref
    PROVE  TodoOpen(t, Tail(todo))
<1>1. /\ 1 \in DOMAIN todo /\ Head(todo) = todo[1] /\ Listed(Tail(todo))
      /\ \A n \in DOMAIN Tail(todo) : n + 1 \in DOMAIN todo /\ n + 1 # 1 /\ Tail(todo)[n] = todo[n + 1]
      /\ \A m, n \in DOMAIN Tail(todo) : m + 1 = n + 1 => m = n
  BY TailOf DEF TodoOpen
<1>2. PICK rest : rest = Tail(todo)
  OBVIOUS
<1>3. ASSUME NEW n \in DOMAIN rest, Settles(rest[n])
      PROVE  Open(t, SettledBy[rest[n].action], rest[n].ref)
  <2>1. PICK k \in DOMAIN todo : k # 1 /\ rest[n] = todo[k]
    BY <1>1, <1>2
  <2>2. Open(s, SettledBy[rest[n].action], rest[n].ref)
    BY <1>3, <2>1 DEF TodoOpen
  <2>3. ~(Settles(todo[1]) /\ todo[1].action = todo[k].action /\ todo[1].ref = todo[k].ref)
    BY <1>1, <2>1 DEF TodoOpen
  <2>4. SettledBy[rest[n].action] \in DOMAIN DueBy
    BY <1>3 DEF Settles, SettledBy, DueBy
  <2>5. \A i, j : Settles(i) /\ Settles(j) /\ SettledBy[i.action] = SettledBy[j.action]
                  => i.action = j.action
    BY DEF Settles, SettledBy
  <2>6. \A j \in DOMAIN t \ DOMAIN s :
            t[j].e.kind = SettledBy[rest[n].action] => t[j].e.ref # rest[n].ref
    BY <1>1, <1>3, <2>1, <2>3, <2>4, <2>5
  <2> QED BY <2>2, <2>6, OpenGrows
<1>4. ASSUME NEW m \in DOMAIN rest, NEW n \in DOMAIN rest, Settles(rest[m]),
             rest[m].action = rest[n].action, rest[m].ref = rest[n].ref
      PROVE  m = n
  BY <1>1, <1>2, <1>4 DEF TodoOpen
<1>5. TodoOpen(t, rest)
  BY <1>1, <1>2, <1>3, <1>4 DEF TodoOpen
<1> QED BY <1>2, <1>5

\* The whole list, while nothing is settled.
LEMMA TodoStaysOpen ==
    ASSUME NEW s, NEW t, Listed(s), Grows(s, t), NEW todo, TodoOpen(s, todo),
           \A n \in DOMAIN t \ DOMAIN s : t[n].e.kind \notin DOMAIN DueBy
    PROVE  TodoOpen(t, todo)
<1>1. ASSUME NEW n \in DOMAIN todo, Settles(todo[n])
      PROVE  Open(t, SettledBy[todo[n].action], todo[n].ref)
  <2>1. SettledBy[todo[n].action] \in DOMAIN DueBy
    BY <1>1 DEF Settles, SettledBy, DueBy
  <2>2. Open(s, SettledBy[todo[n].action], todo[n].ref)
    BY <1>1 DEF TodoOpen
  <2> QED BY <2>1, <2>2, OpenGrows
<1> QED BY <1>1 DEF TodoOpen


-----------------------------------------------------------------------------
(* What the roles plan. *)

Counted(e) == e.amount \in Nat /\ e.units \in Nat
LogCounts == \A n \in DOMAIN log : Counted(log[n].e)
TodoCounts(todo) == \A n \in DOMAIN todo : Counted(todo[n])

LEMMA IntentFields ==
    ASSUME NEW action, NEW ref, NEW amount, NEW units
    PROVE  /\ Intent(action, ref, amount, units).action = action
           /\ Intent(action, ref, amount, units).ref = ref
           /\ Intent(action, ref, amount, units).amount = amount
           /\ Intent(action, ref, amount, units).units = units
BY DEF Intent

LEMMA SetIsListed ==
    ASSUME NEW S, IsFiniteSet(S)
    PROVE  /\ Cardinality(S) \in Nat /\ SetToSeq(S) \in [1..Cardinality(S) -> S]
           /\ \A m, n \in 1..Cardinality(S) : SetToSeq(S)[m] = SetToSeq(S)[n] => m = n
<1> DEFINE N == Cardinality(S)
<1>1. N \in Nat /\ ExistsBijection(1..N, S)
  BY FS_CardinalityType
<1>2. PICK f \in [1..N -> S] : \A m, n \in 1..N : f[m] = f[n] => m = n
  BY <1>1 DEF ExistsBijection, Bijection, Injection, IsInjective
<1>3. IsInjective(f)
  BY <1>2 DEF IsInjective
<1>4. SetToSeq(S) \in [1..N -> S] /\ IsInjective(SetToSeq(S))
  BY <1>2, <1>3 DEF SetToSeq
<1> QED BY <1>1, <1>4 DEF IsInjective

\* t settles each of the entries once.
Plans(t, action, entries) ==
    /\ Listed(t)
    /\ \A n \in DOMAIN t : \E x \in entries : t[n] = Intent(action, x.ref, x.amount, 0)
    /\ \A m, n \in DOMAIN t : t[m].ref = t[n].ref => m = n

LEMMA EntriesArePlanned ==
    ASSUME NEW action, NEW S, IsFiniteSet(S), \A x, y \in S : x.ref = y.ref => x = y,
           NEW t, t = [n \in DOMAIN SetToSeq(S) |->
                          Intent(action, SetToSeq(S)[n].ref, SetToSeq(S)[n].amount, 0)]
    PROVE  Plans(t, action, S)
<1>0. PICK N : N \in Nat /\ N = Cardinality(S)
  BY SetIsListed
<1>1. PICK s \in [1..N -> S] :
        s = SetToSeq(S) /\ \A m, n \in 1..N : s[m] = s[n] => m = n
  BY <1>0, SetIsListed
<1>2. DOMAIN t = 1..N /\ \A n \in 1..N : t[n] = Intent(action, s[n].ref, s[n].amount, 0)
  BY <1>1
<1>3. Listed(t)
  <2>1. PICK T : T = {t[n] : n \in DOMAIN t}
    OBVIOUS
  <2>2. t = [n \in 1..N |-> t[n]] /\ \A n \in 1..N : t[n] \in T
    BY <1>0, <1>1, <1>2, <2>1
  <2>3. t \in Seq(T)
    BY <1>0, <2>2
  <2> QED BY <2>3, SeqIsListed
<1>4. \A n \in DOMAIN t : t[n].ref = s[n].ref /\ s[n] \in S
  BY <1>1, <1>2, IntentFields
<1>5. \A m, n \in DOMAIN t : t[m].ref = t[n].ref => m = n
  BY <1>1, <1>2, <1>4
<1> QED BY <1>2, <1>3, <1>4, <1>5 DEF Plans

\* A plan of what is owed.
LEMMA PlanIsOpen ==
    ASSUME NEW s, Listed(s), NEW action \in DOMAIN SettledBy, NEW entries,
           Dues(entries, s, Len(s), SettledBy[action]), NEW S, S \subseteq entries,
           NEW t, Plans(t, action, S)
    PROVE  /\ TodoOpen(s, t)
           /\ \A n \in DOMAIN t : t[n].action = action
           /\ (\A n \in DOMAIN s : Counted(s[n].e)) => TodoCounts(t)
<1>1. ASSUME NEW n \in DOMAIN t
      PROVE  \E x \in entries : /\ t[n].action = action /\ t[n].ref = x.ref
                                /\ t[n].amount = x.amount /\ t[n].units = 0
  BY IntentFields DEF Plans
<1>2. \A x \in entries : Open(s, SettledBy[action], x.ref)
  BY OwedIsOpen DEF Dues
<1>3. TodoOpen(s, t)
  BY <1>1, <1>2 DEF TodoOpen, Plans
<1>4. ASSUME \A n \in DOMAIN s : Counted(s[n].e) PROVE TodoCounts(t)
  <2>1. Len(s) \in Nat /\ DOMAIN s = 1..Len(s)
    BY ListedLen
  <2>2. \A x \in entries : \E k \in 1..Len(s) : x = Due(s[k].e)
    BY DEF Dues, Owed
  <2>3. \A x \in entries : x.amount \in Nat
    BY <1>4, <2>1, <2>2 DEF Due, Counted
  <2> QED BY <1>1, <2>3 DEF TodoCounts, Counted
<1> QED BY <1>1, <1>3, <1>4

LEMMA JoinedFrom ==
    ASSUME NEW t, NEW u, Listed(t), Listed(u)
    PROVE  /\ Listed(t \o u)
           /\ \A n \in DOMAIN (t \o u) :
                \/ n \in DOMAIN t /\ (t \o u)[n] = t[n]
                \/ \E m \in DOMAIN u : n = Len(t) + m /\ (t \o u)[n] = u[m]
<1>1. /\ Listed(t \o u) /\ DOMAIN (t \o u) = 1..Len(t) + Len(u)
      /\ \A n \in 1..Len(t) : (t \o u)[n] = t[n]
      /\ \A n \in 1..Len(u) : (t \o u)[Len(t) + n] = u[n]
  BY ListedJoins
<1>2. Len(t) \in Nat /\ Len(u) \in Nat /\ DOMAIN t = 1..Len(t) /\ DOMAIN u = 1..Len(u)
  BY ListedLen
<1>3. PICK v : v = t \o u
  OBVIOUS
<1>4. ASSUME NEW n \in DOMAIN v, n \notin DOMAIN t
      PROVE  \E m \in DOMAIN u : n = Len(t) + m /\ v[n] = u[m]
  <2>1. n - Len(t) \in 1..Len(u) /\ n = Len(t) + (n - Len(t))
    BY <1>1, <1>2, <1>3, <1>4
  <2> QED BY <1>1, <1>2, <1>3, <2>1
<1> QED BY <1>1, <1>2, <1>3, <1>4

\* Two lists of different actions, one after the other.
LEMMA ListsJoin ==
    ASSUME NEW s, NEW t, NEW u, TodoOpen(s, t), TodoOpen(s, u),
           \A m \in DOMAIN t : \A n \in DOMAIN u : t[m].action # u[n].action
    PROVE  /\ TodoOpen(s, t \o u)
           /\ \A n \in DOMAIN (t \o u) :
                \/ \E m \in DOMAIN t : (t \o u)[n] = t[m]
                \/ \E m \in DOMAIN u : (t \o u)[n] = u[m]
           /\ TodoCounts(t) /\ TodoCounts(u) => TodoCounts(t \o u)
<1>1. PICK v : v = t \o u
  OBVIOUS
<1>2. /\ Listed(v)
      /\ \A n \in DOMAIN v : \/ n \in DOMAIN t /\ v[n] = t[n]
                             \/ \E m \in DOMAIN u : n = Len(t) + m /\ v[n] = u[m]
  BY <1>1, JoinedFrom DEF TodoOpen
<1>3. \A n \in DOMAIN v : \/ \E m \in DOMAIN t : v[n] = t[m]
                          \/ \E m \in DOMAIN u : v[n] = u[m]
  BY <1>2
<1>4. \A n \in DOMAIN v : Settles(v[n]) => Open(s, SettledBy[v[n].action], v[n].ref)
  BY <1>3 DEF TodoOpen
<1>5. \A m, n \in DOMAIN v :
        Settles(v[m]) /\ v[m].action = v[n].action /\ v[m].ref = v[n].ref => m = n
  BY <1>2 DEF TodoOpen
<1>6. TodoOpen(s, v)
  BY <1>2, <1>4, <1>5 DEF TodoOpen
<1>7. TodoCounts(t) /\ TodoCounts(u) => TodoCounts(v)
  BY <1>3 DEF TodoCounts
<1> QED BY <1>1, <1>3, <1>6, <1>7

\* One intent that settles nothing.
LEMMA OneIsOpen ==
    ASSUME NEW s, NEW i, ~Settles(i)
    PROVE  TodoOpen(s, <<i>>) /\ (Counted(i) => TodoCounts(<<i>>))
<1>1. Listed(<<i>>) /\ \A n \in DOMAIN <<i>> : n = 1 /\ <<i>>[n] = i
  BY ListedOne
<1> QED BY <1>1 DEF TodoOpen, TodoCounts

LEMMA FinancePlans ==
    ASSUME Listed(log), NEW b, b = Books(log), NEW todo \in FinanceIntents(b)
    PROVE  TodoOpen(log, todo) /\ (LogCounts => TodoCounts(todo))
<1> DEFINE Payable == {x \in b.ap : x.due <= day}
           Receivable == {x \in b.ar : x.due <= day}
           Plan(action, S) == [n \in DOMAIN SetToSeq(S) |->
                                  Intent(action, SetToSeq(S)[n].ref, SetToSeq(S)[n].amount, 0)]
<1>1. PICK c, p, f :
        /\ c = Plan("collect", Receivable)
        /\ p = <<>> \/ p = Plan("pay", Payable)
        /\ f = <<>> \/ f = <<Intent("freeze_spend", <<>>, 0, 0)>>
        /\ todo = c \o p \o f
  BY DEF FinanceIntents
<1>2. Dues(b.ar, log, Len(log), "invoice_collected") /\ Dues(b.ap, log, Len(log), "bill_paid")
  BY BooksAreDue
<1>3. /\ "collect" \in DOMAIN SettledBy /\ SettledBy["collect"] = "invoice_collected"
      /\ "pay" \in DOMAIN SettledBy /\ SettledBy["pay"] = "bill_paid"
  BY DEF SettledBy
<1>4. /\ TodoOpen(log, c) /\ (LogCounts => TodoCounts(c))
      /\ \A n \in DOMAIN c : c[n].action = "collect"
  <2>1. IsFiniteSet(Receivable) /\ \A x, y \in Receivable : x.ref = y.ref => x = y
    BY <1>2, FS_Subset DEF Dues
  <2>2. Plans(c, "collect", Receivable)
    BY <1>1, <2>1, EntriesArePlanned
  <2>3. Receivable \subseteq b.ar
    OBVIOUS
  <2> HIDE DEF Receivable
  <2> QED BY <1>2, <1>3, <2>2, <2>3, PlanIsOpen DEF LogCounts
<1>5. /\ TodoOpen(log, p) /\ (LogCounts => TodoCounts(p))
      /\ \A n \in DOMAIN p : p[n].action = "pay"
  <2>1. IsFiniteSet(Payable) /\ \A x, y \in Payable : x.ref = y.ref => x = y
    BY <1>2, FS_Subset DEF Dues
  <2>2. CASE p = Plan("pay", Payable)
    <3>1. Plans(p, "pay", Payable)
      BY <2>1, <2>2, EntriesArePlanned
    <3>2. Payable \subseteq b.ap
      OBVIOUS
    <3> HIDE DEF Payable
    <3> QED BY <1>2, <1>3, <3>1, <3>2, PlanIsOpen DEF LogCounts
  <2>3. CASE p = <<>>
    BY <2>3, NothingTodo DEF TodoCounts
  <2> QED BY <1>1, <2>2, <2>3
<1>6. /\ TodoOpen(log, f) /\ TodoCounts(f) /\ \A n \in DOMAIN f : f[n].action = "freeze_spend"
  <2>1. PICK i : i = Intent("freeze_spend", <<>>, 0, 0)
    OBVIOUS
  <2>2. i.action = "freeze_spend" /\ Counted(i)
    BY <2>1, IntentFields DEF Counted
  <2>3. CASE f = <<i>>
    <3>1. ~Settles(i)
      BY <2>2 DEF Settles, SettledBy
    <3> QED BY <2>2, <2>3, <3>1, OneIsOpen, ListedOne
  <2>4. CASE f = <<>>
    BY <2>4, NothingTodo DEF TodoCounts
  <2> QED BY <1>1, <2>1, <2>3, <2>4
<1> HIDE DEF Plan, Payable, Receivable
<1>7. PICK cp : cp = c \o p
  OBVIOUS
<1>8. /\ TodoOpen(log, cp) /\ (LogCounts => TodoCounts(cp))
      /\ \A n \in DOMAIN cp : cp[n].action \in {"collect", "pay"}
  <2>1. \A m \in DOMAIN c : \A n \in DOMAIN p : c[m].action # p[n].action
    BY <1>4, <1>5
  <2>2. /\ TodoOpen(log, cp) /\ (TodoCounts(c) /\ TodoCounts(p) => TodoCounts(cp))
        /\ \A n \in DOMAIN cp : \/ \E m \in DOMAIN c : cp[n] = c[m]
                                \/ \E m \in DOMAIN p : cp[n] = p[m]
    BY <1>4, <1>5, <1>7, <2>1, ListsJoin
  <2> QED BY <1>4, <1>5, <2>2
<1>9. \A m \in DOMAIN cp : \A n \in DOMAIN f : cp[m].action # f[n].action
  BY <1>6, <1>8
<1> QED BY <1>1, <1>6, <1>7, <1>8, <1>9, ListsJoin


\* The open leads add up to a number of units.
AddsUnits(leads, g) ==
    g = [s \in SUBSET leads |-> IF s = {} THEN 0 ELSE Chosen(s).units + g[s \ {Chosen(s)}]]

LEMMA BacklogCounts ==
    ASSUME NEW leads, IsFiniteSet(leads), \A x \in leads : x.units \in Nat
    PROVE  Backlog(leads) \in Nat
<1>1. PICK l : l = [x \in leads |-> [amount |-> x.units]]
  OBVIOUS
<1>2. \A x \in leads : l[x].amount = x.units /\ l[x].amount \in Nat
  BY <1>1
<1>3. \A g : AddsUnits(leads, g) <=> Adds(l, leads, g)
  <2> TAKE g
  <2>1. ASSUME NEW s \in SUBSET leads
        PROVE  (IF s = {} THEN 0 ELSE Chosen(s).units + g[s \ {Chosen(s)}])
               = (IF s = {} THEN 0 ELSE l[Chosen(s)].amount + g[s \ {Chosen(s)}])
    <3>1. CASE s # {}
      <4>1. Chosen(s) \in leads
        BY <3>1, ChosenIsMember
      <4> QED BY <1>2, <4>1
    <3> QED BY <3>1
  <2>2. [s \in SUBSET leads |-> IF s = {} THEN 0 ELSE Chosen(s).units + g[s \ {Chosen(s)}]]
        = [s \in SUBSET leads |-> IF s = {} THEN 0 ELSE l[Chosen(s)].amount + g[s \ {Chosen(s)}]]
    BY <2>1
  <2> QED BY <2>2 DEF AddsUnits, Adds
<1>4. Backlog(leads) = (CHOOSE g : AddsUnits(leads, g))[leads]
  BY DEF Backlog, MapThenSumSet, MapThenFoldSet, AddsUnits, Chosen
<1>5. PICK g : AddsUnits(leads, g) /\ Backlog(leads) = g[leads]
  <2>1. \E g : AddsUnits(leads, g)
    BY <1>3, SumExists
  <2> QED BY <1>4, <2>1
<1>6. PICK h : Adds(l, leads, h) /\ AmountSum(l, leads) = h[leads]
  BY SumExists, SumIsChosen
<1>7. g[leads] = h[leads]
  <2>1. Adds(l, leads, g)
    BY <1>3, <1>5
  <2> QED BY <1>6, <2>1, SumsAgree
<1>8. AmountSum(l, leads) \in Nat
  BY <1>2, SumTakesOut
<1> QED BY <1>5, <1>6, <1>7, <1>8

\* The leads of the pipeline are counted as the events that brought them.
LEMMA LeadsCount ==
    ASSUME NEW s, Listed(s), \A n \in DOMAIN s : Counted(s[n].e), NEW b, b = Books(s)
    PROVE  /\ IsFiniteSet(b.pipeline) /\ \A x \in b.pipeline : x.units \in Nat
           /\ b.inventory \in Int
<1>1. Len(s) \in Nat /\ DOMAIN s = 1..Len(s)
  BY ListedLen
<1>2. /\ Leads(b.pipeline, s, Len(s))
      /\ (\A n \in DOMAIN s : s[n].e.units \in Nat) => b.inventory \in Int
  BY BooksAreDue
<1>3. \A n \in DOMAIN s : s[n].e.units \in Nat
  BY DEF Counted
<1> QED BY <1>1, <1>2, <1>3 DEF Leads

LEMMA SalesPlans ==
    ASSUME Listed(log), NEW b, b = Books(log), NEW todo \in SalesIntents(b)
    PROVE  TodoOpen(log, todo) /\ (LogCounts => TodoCounts(todo))
<1>1. CASE todo = <<>>
  BY <1>1, NothingTodo DEF TodoCounts
<1>2. CASE todo # <<>>
  <2>1. PICK x, i : /\ x \in b.pipeline /\ todo = <<i>>
                    /\ i = Intent("quote", x.ref, QuoteOf(x.units) * (IF rogue THEN 3 ELSE 1), x.units)
    BY <1>2 DEF SalesIntents
  <2>2. ~Settles(i)
    BY <2>1, IntentFields DEF Settles, SettledBy
  <2>3. ASSUME LogCounts PROVE Counted(i)
    <3>1. x.units \in Nat
      BY <2>1, <2>3, LeadsCount DEF LogCounts
    <3>2. QuoteOf(x.units) * (IF rogue THEN 3 ELSE 1) \in Nat
      <4>1. x.units * 280 \in Nat /\ x.units * 280 * 3 \in Nat /\ x.units * 280 * 1 \in Nat
        BY <3>1
      <4> QED BY <4>1 DEF QuoteOf
    <3> QED BY <2>1, <3>1, <3>2, IntentFields DEF Counted
  <2> QED BY <2>1, <2>2, <2>3, OneIsOpen
<1> QED BY <1>1, <1>2

LEMMA OpsPlans ==
    ASSUME Listed(log), NEW b, b = Books(log), NEW todo \in OpsIntents(b)
    PROVE  TodoOpen(log, todo) /\ (LogCounts => TodoCounts(todo))
<1>1. CASE todo = <<>>
  BY <1>1, NothingTodo DEF TodoCounts
<1>2. CASE todo # <<>>
  <2>1. PICK q, i : /\ q = (3 * Backlog(b.pipeline)) \div 2 - b.inventory /\ ~(q <= 0)
                    /\ todo = <<i>>
                    /\ i = Intent("purchase_order", <<"P", day, Len(log)>>, q * UnitCost, q)
    BY <1>2 DEF OpsIntents
  <2>2. ~Settles(i)
    BY <2>1, IntentFields DEF Settles, SettledBy
  <2>3. ASSUME LogCounts PROVE Counted(i)
    <3>1. /\ IsFiniteSet(b.pipeline) /\ (\A x \in b.pipeline : x.units \in Nat)
          /\ b.inventory \in Int
      BY <2>3, LeadsCount DEF LogCounts
    <3>2. Backlog(b.pipeline) \in Nat
      BY <3>1, BacklogCounts
    <3>3. q \in Nat /\ q * UnitCost \in Nat
      <4>1. PICK n \in Nat, v \in Int : n = Backlog(b.pipeline) /\ v = b.inventory
        BY <3>1, <3>2
      <4>2. PICK h \in Int : h = (3 * n) \div 2
        BY <4>1
      <4>3. q = h - v /\ ~(q <= 0)
        BY <2>1, <4>1, <4>2
      <4>4. q \in Nat
        BY <4>1, <4>3
      <4> QED BY <4>4 DEF UnitCost
    <3> QED BY <2>1, <3>3, IntentFields DEF Counted
  <2> QED BY <2>1, <2>2, <2>3, OneIsOpen
<1> QED BY <1>1, <1>2

\* What a role plans is open.
LEMMA IntentsAreOpen ==
    ASSUME Listed(log), NEW role \in RoleNames, NEW todo \in Intents(role)
    PROVE  TodoOpen(log, todo) /\ (LogCounts => TodoCounts(todo))
<1>1. role \in {"salesbot", "opsbot", "financebot"}
  BY DEF RoleNames, Roles
<1>2. PICK b : b = Books(log)
  OBVIOUS
<1>3. CASE role = "salesbot"
  BY <1>2, <1>3, SalesPlans DEF Intents
<1>4. CASE role = "opsbot"
  BY <1>2, <1>4, OpsPlans DEF Intents
<1>5. CASE role = "financebot"
  BY <1>2, <1>5, FinancePlans DEF Intents
<1> QED BY <1>1, <1>3, <1>4, <1>5


-----------------------------------------------------------------------------
(* Money moves once: the steps. *)

LEMMA NextTodo ==
    ASSUME NEW role \in RoleNames
    PROVE  /\ After(role).todo = <<>> /\ Onward(role).todo \in {<<>>, Tail(work.todo)}
           /\ \A at, todo : Work(at, todo).todo = todo
<1>1. role \in {"salesbot", "opsbot", "financebot"}
  BY DEF RoleNames, Roles
<1>2. \A at, todo : Work(at, todo).todo = todo
  BY DEF Work
<1>3. After(role).todo = <<>>
  BY <1>1, <1>2 DEF After
<1> QED BY <1>2, <1>3 DEF Onward

\* A payment is one event, and so is a collection.
LEMMA SettlingIsOne ==
    ASSUME NEW role, NEW i, Settles(i)
    PROVE  DOMAIN Effects(role, i) = 1..1
<1>1. i.action = "collect" \/ i.action = "pay"
  BY DEF Settles, SettledBy
<1>2. CASE i.action = "collect"
  <2>1. PICK x : x = Event("invoice_collected", i.ref, i.amount, 0, 0)
    OBVIOUS
  <2>2. Effects(role, i) = [n \in DOMAIN <<x>> |-> By(role, <<x>>[n])]
    BY <1>2, <2>1 DEF Effects
  <2> QED BY <2>2
<1>3. CASE i.action = "pay"
  <2>1. PICK x : x = Event("bill_paid", i.ref, i.amount, 0, 0)
    OBVIOUS
  <2>2. Effects(role, i) = [n \in DOMAIN <<x>> |-> By(role, <<x>>[n])]
    BY <1>3, <2>1 DEF Effects
  <2> QED BY <2>2
<1> QED BY <1>1, <1>2, <1>3

MoneyInv == SettledOnce /\ TodoOpen(log, work.todo)

\* Events that settle nothing, unless the world does it, are appended.
LEMMA IdlePosts ==
    ASSUME Listed(log), MoneyInv, NEW es, Listed(es), NEW next, Posts(es, next),
           \/ next.todo = <<>>
           \/ /\ next.todo = Tail(work.todo) /\ work.todo # <<>>
              /\ \A j \in DOMAIN es : es[j].kind \notin DOMAIN DueBy,
           \A j \in DOMAIN es : es[j].kind \notin DOMAIN DueBy \/ es[j].by = "world"
    PROVE  MoneyInv'
<1>1. /\ Grows(log, log') /\ \A n \in DOMAIN log' \ DOMAIN log : Emitted(es, n)
      /\ work' \in {next, AtRest}
  BY PostsAppend
<1>2. ResolutionKind \notin DOMAIN DueBy
  BY DEF ResolutionKind, DueBy
<1>3. \A n \in DOMAIN log' \ DOMAIN log : Settling(log'[n]) => log'[n].e.by = "world"
  BY <1>1, <1>2, EmittedEvents DEF Settling
<1>4. SettledOnce'
  BY <1>1, <1>3, SettledGrows DEF MoneyInv
<1>5. TodoOpen(log, work.todo)'
  <2>1. PICK s, t, todo, new :
            s = log /\ t = log' /\ todo = work.todo /\ new = work'.todo
    OBVIOUS
  <2>2. CASE new = <<>>
    BY <2>1, <2>2, NothingTodo
  <2>3. CASE new # <<>>
    <3>1. /\ new = Tail(todo) /\ todo # <<>>
          /\ \A j \in DOMAIN es : es[j].kind \notin DOMAIN DueBy
      BY <1>1, <2>1, <2>3 DEF AtRest, Work
    <3>2. \A n \in DOMAIN t \ DOMAIN s : t[n].e.kind \notin DOMAIN DueBy
      BY <1>1, <1>2, <2>1, <3>1, EmittedEvents
    <3>3. TodoOpen(t, Tail(todo))
      BY <1>1, <2>1, <3>1, <3>2, RestStaysOpen DEF MoneyInv
    <3> QED BY <2>1, <3>1, <3>3
  <2> QED BY <2>2, <2>3
<1> QED BY <1>4, <1>5 DEF MoneyInv

\* A role carries out its first intent.
LEMMA ApplyStep ==
    ASSUME Listed(log), MoneyInv, NEW role \in RoleNames, ApplyIntent(role)
    PROVE  MoneyInv'
<1>1. PICK i, es : /\ i = Head(work.todo) /\ es = Effects(role, i) /\ Posts(es, Onward(role))
                   /\ work.todo # <<>>
  BY DEF ApplyIntent, Acting
<1>2. Listed(es) /\ (\A j \in DOMAIN es : EffectOf(role, i, es[j]))
      /\ (Settles(i) => DOMAIN es = 1..1)
  BY <1>1, EffectsAreQuiet, EffectEvents, SettlingIsOne DEF Quiet
<1>3. /\ Grows(log, log') /\ \A n \in DOMAIN log' \ DOMAIN log : Emitted(es, n)
      /\ work' \in {Onward(role), AtRest}
  BY <1>1, <1>2, PostsAppend
<1>4. \A j \in DOMAIN es : es[j].kind \in DOMAIN DueBy =>
          Settles(i) /\ es[j].kind = SettledBy[i.action] /\ es[j].ref = i.ref
  BY <1>2 DEF EffectOf, EffectKinds, DueBy, Settles, SettledBy
<1>5. ASSUME NEW n \in DOMAIN log' \ DOMAIN log, Settling(log'[n])
      PROVE  /\ Settles(i) /\ log'[n].e.kind = SettledBy[i.action] /\ log'[n].e.ref = i.ref
             /\ n = Len(log) + 1
  <2>1. ResolutionKind \notin DOMAIN DueBy
    BY DEF ResolutionKind, DueBy
  <2>2. PICK j \in DOMAIN es : log'[n].e = es[j] /\ n = Len(log) + j
    BY <1>3, <1>5, <2>1, EmittedEvents DEF Settling
  <2>3. Settles(i) /\ es[j].kind = SettledBy[i.action] /\ es[j].ref = i.ref
    BY <1>4, <1>5, <2>2 DEF Settling
  <2>4. j = 1
    BY <1>2, <2>2, <2>3
  <2> QED BY <2>2, <2>3, <2>4
<1>6. Settles(i) => Open(log, SettledBy[i.action], i.ref)
  <2>1. PICK todo : todo = work.todo
    OBVIOUS
  <2>2. 1 \in DOMAIN todo /\ Head(todo) = todo[1]
    BY <1>1, <2>1, TailOf DEF MoneyInv, TodoOpen
  <2> QED BY <1>1, <2>1, <2>2 DEF MoneyInv, TodoOpen
<1>7. SettledOnce'
  <2>1. \A n \in DOMAIN log' \ DOMAIN log : Settling(log'[n]) =>
            /\ Open(log, log'[n].e.kind, log'[n].e.ref)
            /\ \A m \in DOMAIN log' \ DOMAIN log : m < n => ~SameMatter(log'[m], log'[n])
    <3>1. ASSUME NEW n \in DOMAIN log' \ DOMAIN log, Settling(log'[n]),
                 NEW m \in DOMAIN log' \ DOMAIN log, m < n, SameMatter(log'[m], log'[n])
          PROVE  FALSE
      <4>1. Settling(log'[m])
        BY <3>1 DEF Settling, SameMatter
      <4>2. m = Len(log) + 1 /\ n = Len(log) + 1 /\ Len(log) \in Nat
        BY <1>5, <3>1, <4>1, ListedLen
      <4> QED BY <3>1, <4>2
    <3> QED BY <1>5, <1>6, <3>1
  <2> QED BY <1>3, <2>1, SettledGrows DEF MoneyInv
<1>8. TodoOpen(log, work.todo)'
  <2>1. PICK s, t, todo, new :
            s = log /\ t = log' /\ todo = work.todo /\ new = work'.todo
    OBVIOUS
  <2>2. new = <<>> \/ new = Tail(todo)
    <3>1. Onward(role).todo \in {<<>>, Tail(work.todo)}
      BY NextTodo
    <3>2. AtRest.todo = <<>>
      BY DEF AtRest, Work
    <3>3. work' = Onward(role) \/ work' = AtRest
      BY <1>3
    <3> QED BY <2>1, <3>1, <3>2, <3>3
  <2>3. \A n \in DOMAIN t \ DOMAIN s : t[n].e.kind \in DOMAIN DueBy =>
            /\ Settles(Head(todo)) /\ t[n].e.kind = SettledBy[Head(todo).action]
            /\ t[n].e.ref = Head(todo).ref
    BY <1>1, <1>5, <2>1 DEF Settling
  <2>4. TodoOpen(t, Tail(todo))
    BY <1>1, <1>3, <2>1, <2>3, RestStaysOpen DEF MoneyInv
  <2> QED BY <2>1, <2>2, <2>4, NothingTodo
<1> QED BY <1>7, <1>8 DEF MoneyInv

\* The log as it was: a role plans, or leaves out its first intent.
LEMMA PlanStep ==
    ASSUME Listed(log), MoneyInv, UNCHANGED log,
           \/ UNCHANGED work \/ work'.todo = <<>>
           \/ \E role \in RoleNames : PlanRole(role) \/ SkipIntent(role)
    PROVE  MoneyInv'
<1>1. SettledOnce'
  BY DEF MoneyInv, SettledOnce, Of, KindAt
<1>2. PICK s, todo, new : s = log /\ s = log' /\ todo = work.todo /\ new = work'.todo
  OBVIOUS
<1>3. CASE new = <<>>
  BY <1>1, <1>2, <1>3, NothingTodo DEF MoneyInv
<1>4. CASE new = todo
  BY <1>1, <1>2, <1>4 DEF MoneyInv
<1>5. ASSUME NEW role \in RoleNames, PlanRole(role) PROVE MoneyInv'
  <2>1. PICK plan \in Intents(role) : new = <<>> \/ new = plan
    BY <1>2, <1>5, NextTodo DEF PlanRole
  <2>2. TodoOpen(log, plan)
    BY IntentsAreOpen
  <2> QED BY <1>1, <1>2, <1>3, <2>1, <2>2 DEF MoneyInv
<1>6. ASSUME NEW role \in RoleNames, SkipIntent(role) PROVE MoneyInv'
  <2>1. (new = <<>> \/ new = Tail(todo)) /\ todo # <<>>
    BY <1>2, <1>6, NextTodo DEF SkipIntent, Acting
  <2>2. Grows(s, s)
    BY <1>2 DEF Grows
  <2>3. TodoOpen(s, Tail(todo))
    BY <1>2, <2>1, <2>2, RestStaysOpen DEF MoneyInv
  <2> QED BY <1>1, <1>2, <1>3, <2>1, <2>3 DEF MoneyInv
<1> QED BY <1>2, <1>3, <1>4, <1>5, <1>6

LEMMA MoneyStep ==
    ASSUME LogInv, MoneyInv, [CompanyNext]_companyVars
    PROVE  MoneyInv'
<1>0. Listed(log) /\ \A at, todo : Work(at, todo).todo = todo
  BY DEF LogInv, DayHolds, Work
<1>1. CASE WorldTick
  <2>1. PICK es, next : /\ Listed(es) /\ Posts(es, next) /\ next.todo = <<>>
                        /\ \A j \in DOMAIN es : es[j].by = "world"
    BY <1>0, <1>1, WorldEmits DEF Given
  <2> QED BY <1>0, <2>1, IdlePosts
<1>2. CASE FreezeAgain
  <2>1. PICK es, next : /\ Listed(es) /\ Posts(es, next) /\ next.todo = <<>>
                        /\ \A j \in DOMAIN es : es[j].kind = "spend_frozen"
    BY <1>0, <1>2, FreezeEmits DEF Still
  <2>2. \A j \in DOMAIN es : es[j].kind \notin DOMAIN DueBy
    BY <2>1 DEF DueBy
  <2> QED BY <1>0, <2>1, <2>2, IdlePosts
<1>3. CASE ChiefAndTick
  <2>1. PICK es : Listed(es) /\ Posts(es, AtRest) /\ \A j \in DOMAIN es : ChiefSays(es, j)
    BY <1>3, ChiefEmits
  <2>2. \A j \in DOMAIN es : es[j].kind \notin DOMAIN DueBy
    <3>1. \A j \in DOMAIN es : es[j].kind \in
              {"directive_proposed", "spend_frozen", "directive_ruled", "day_ticked"}
      BY <2>1 DEF ChiefSays, Still
    <3> QED BY <3>1 DEF DueBy
  <2>3. AtRest.todo = <<>>
    BY <1>0 DEF AtRest
  <2> QED BY <1>0, <2>1, <2>2, <2>3, IdlePosts
<1>4. ASSUME NEW role \in RoleNames, RefuseIntent(role) \/ EscalateIntent(role) PROVE MoneyInv'
  <2>1. PICK es, kind, who :
            /\ Listed(es) /\ Posts(es, Onward(role)) /\ kind \in {"role_paused", "escalation_raised"}
            /\ \A j \in DOMAIN es : Still(es[j], kind, who)
    BY <1>4, RefusalEmits, EscalationEmits
  <2>2. \A j \in DOMAIN es : es[j].kind \notin DOMAIN DueBy
    BY <2>1 DEF Still, DueBy
  <2>3. work.todo # <<>> /\ (Onward(role).todo = <<>> \/ Onward(role).todo = Tail(work.todo))
    BY <1>4, NextTodo DEF RefuseIntent, EscalateIntent, Acting
  <2> QED BY <1>0, <2>1, <2>2, <2>3, IdlePosts
<1>5. ASSUME NEW role \in RoleNames, ApplyIntent(role) PROVE MoneyInv'
  BY <1>0, <1>5, ApplyStep
<1>6. CASE ResolveAppend
  <2>1. PICK s, t : s = log /\ t = log'
    OBVIOUS
  <2>2. /\ Grows(log, log')
        /\ \A n \in DOMAIN log' \ DOMAIN log : Still(log'[n].e, ResolutionKind, "human")
    BY <1>0, <1>6, ResolutionEmits
  <2>3. ResolutionKind \notin DOMAIN DueBy
    BY DEF ResolutionKind, DueBy
  <2>4. \A n \in DOMAIN log' \ DOMAIN log : log'[n].e.kind \notin DOMAIN DueBy
    BY <2>2, <2>3 DEF Still
  <2>5. SettledOnce'
    BY <1>0, <2>2, <2>4, SettledGrows DEF MoneyInv, Settling
  <2>6. TodoOpen(t, work.todo)
    BY <1>0, <2>1, <2>2, <2>4, TodoStaysOpen DEF MoneyInv
  <2>7. UNCHANGED work
    BY <1>6 DEF ResolveAppend
  <2> QED BY <2>1, <2>5, <2>6, <2>7 DEF MoneyInv
<1>7. CASE Seed
  <2>1. \A n \in DOMAIN log' : log'[n].e.by = "world"
    BY <1>7, OpeningEntries
  <2>2. SettledOnce'
    BY <2>1 DEF SettledOnce, Of
  <2>3. work'.todo = <<>>
    BY <1>0, <1>7 DEF Seed, AtRest
  <2> QED BY <2>2, <2>3, NothingTodo DEF MoneyInv
<1>8. CASE LogStands
  <2>1. \/ UNCHANGED work \/ work'.todo = <<>>
        \/ \E role \in RoleNames : PlanRole(role) \/ SkipIntent(role)
    BY <1>0, <1>8 DEF LogStands, BeginDay, Arm, ResolveMark, ResolveNumber, Regrant, companyVars
  <2> QED BY <1>0, <1>8, <2>1, LogStandsThen, PlanStep
<1> QED BY <1>1, <1>2, <1>3, <1>4, <1>5, <1>6, <1>7, <1>8, Steps

LEMMA MoneyInit == CompanyInit => MoneyInv
<1> SUFFICES ASSUME CompanyInit PROVE MoneyInv
  OBVIOUS
<1>1. \A n \in DOMAIN log : log[n].e.by = "world"
  BY CompanyAssumption DEF CompanyInit, Given, On
<1>2. SettledOnce
  BY <1>1 DEF SettledOnce, Of
<1>3. work.todo = <<>>
  BY DEF CompanyInit, AtRest, Work
<1> QED BY <1>2, <1>3, NothingTodo DEF MoneyInv

\* The company pays a bill and collects an invoice once: what a role carries out was
\* due in the log when it planned, and nothing else has settled it since, although the
\* log has grown (_run_role(), finance_intents(), _apply()).
THEOREM MoneyMovesOnce == CompanySpec => []SettledOnce
<1>1. CompanyInit => MoneyInv
  BY MoneyInit
<1>2. LogInv /\ MoneyInv /\ [CompanyNext]_companyVars => MoneyInv'
  BY MoneyStep
<1>3. MoneyInv => SettledOnce
  BY DEF MoneyInv
<1> QED BY <1>1, <1>2, <1>3, LogAlways, PTL DEF CompanySpec

-----------------------------------------------------------------------------
(* A day that is over stays as it was. *)

\* A resolution in flight has read a day that has begun.
DayRead == human.day \in 0..day

LEMMA DayReadPosts ==
    ASSUME NEW es, NEW next, Posts(es, next), UNCHANGED day, day \in Nat, DayRead
    PROVE  DayRead'
<1>1. human' = human \/ human' = Nobody
  BY DEF Posts
<1>2. Nobody.day = 0
  BY DEF Nobody
<1>3. human'.day = human.day \/ human'.day = 0
  BY <1>1, <1>2
<1> QED BY <1>3 DEF DayRead

LEMMA DayReadStep ==
    ASSUME LogInv, DayRead, [CompanyNext]_companyVars
    PROVE  DayRead'
<1>0. day \in Nat
  BY DEF LogInv, DayHolds
<1>1. ASSUME NEW role \in RoleNames, RefuseIntent(role) \/ EscalateIntent(role) \/ ApplyIntent(role)
      PROVE  DayRead'
  BY <1>0, <1>1, DayReadPosts DEF RefuseIntent, EscalateIntent, ApplyIntent
<1>2. CASE WorldTick \/ FreezeAgain \/ ChiefAndTick
  BY <1>0, <1>2, DayReadPosts DEF WorldTick, FreezeAgain, ChiefAndTick
<1>3. CASE ResolveAppend \/ Seed
  <2>1. human'.day = 0 /\ day' \in Nat
    BY <1>0, <1>3 DEF ResolveAppend, Seed, Nobody
  <2> QED BY <2>1 DEF DayRead
<1>4. CASE LogStands
  <2>1. CASE ResolveMark
    <3>1. human'.day = day /\ day' = day
      BY <2>1 DEF ResolveMark
    <3> QED BY <1>0, <3>1 DEF DayRead
  <2>2. CASE ResolveNumber
    <3>1. PICK d \in human.day .. day :
              human' = [human EXCEPT !.at = "numbered", !.seq = Len(log), !.day = d]
      BY <2>2 DEF ResolveNumber
    <3>2. human'.day = d \/ human'.day = human.day
      BY <3>1
    <3>3. day' = day
      BY <2>2 DEF ResolveNumber
    <3> QED BY <1>0, <3>1, <3>2, <3>3 DEF DayRead
  <2>3. CASE ~ResolveMark /\ ~ResolveNumber
    <3>1. human' = human /\ (day' = day \/ day' = day + 1)
      BY <1>4, <2>3 DEF LogStands, BeginDay, Arm, PlanRole, SkipIntent, Regrant, companyVars
    <3> QED BY <1>0, <3>1 DEF DayRead
  <2> QED BY <2>1, <2>2, <2>3
<1> QED BY <1>1, <1>2, <1>3, <1>4, Steps

LEMMA DayReadAlways == CompanySpec => []DayRead
<1>1. CompanyInit => DayRead
  BY DEF CompanyInit, DayRead, Nobody
<1>2. LogInv /\ DayRead /\ [CompanyNext]_companyVars => DayRead'
  BY DayReadStep
<1> QED BY <1>1, <1>2, LogAlways, PTL DEF CompanySpec

\* The log is in the order of its days, but for resolutions that come late.
Days ==
    /\ \A n \in DOMAIN log : log[n].day \in 0..day
    /\ \A m, n \in DOMAIN log :
        m < n /\ log[n].e.kind # ResolutionKind => log[m].day <= log[n].day

\* After its tick nothing is said of a day but that an escalation was resolved.
Ticked(entry) == entry.e.kind = "day_ticked"
Closed ==
    /\ \A m, n \in DOMAIN log : Ticked(log[m]) /\ m < n =>
        log[m].day < log[n].day \/ log[n].e.kind = ResolutionKind
    /\ work # AtRest => \A n \in DOMAIN log : Ticked(log[n]) => log[n].day < day

DayInv == Days /\ Closed

LEMMA DaysGrow ==
    ASSUME LogInv, DayInv, Grows(log, log'), UNCHANGED day,
           \A n \in DOMAIN log' \ DOMAIN log :
               /\ log'[n].day \in 0..day
               /\ log'[n].day = day \/ log'[n].e.kind = ResolutionKind,
           work # AtRest \/ \A n \in DOMAIN log' \ DOMAIN log : log'[n].e.kind = ResolutionKind,
           \A m, n \in DOMAIN log' \ DOMAIN log :
               Ticked(log'[m]) /\ m < n => log'[n].e.kind = ResolutionKind,
           work' # AtRest =>
               work # AtRest /\ \A n \in DOMAIN log' \ DOMAIN log : ~Ticked(log'[n])
    PROVE  DayInv'
<1>1. /\ DOMAIN log = 1..Len(log) /\ Len(log) \in Nat
      /\ DOMAIN log' = 1..Len(log)' /\ Len(log)' \in Nat
  <2>1. Listed(log) /\ Listed(log')
    BY DEF Grows, LogInv, DayHolds
  <2> QED BY <2>1, ListedLen
<1>2. day \in Nat /\ day \in 0..day
  BY DEF LogInv, DayHolds
<1>3. \A n \in DOMAIN log : n \in DOMAIN log' /\ log'[n] = log[n]
  BY DEF Grows
<1>4. \A m, n \in DOMAIN log' : m < n /\ n \in DOMAIN log => m \in DOMAIN log
  BY <1>1
<1>5. \A n \in DOMAIN log' : log'[n].day \in 0..day
  BY <1>2, <1>3 DEF DayInv, Days
<1>6. ASSUME NEW m \in DOMAIN log', NEW n \in DOMAIN log', m < n,
             log'[n].e.kind # ResolutionKind
      PROVE  log'[m].day <= log'[n].day
  <2>1. CASE n \in DOMAIN log
    BY <1>3, <1>4, <1>6, <2>1 DEF DayInv, Days
  <2>2. CASE n \notin DOMAIN log
    <3>1. log'[n].day = day /\ log'[m].day \in 0..day
      BY <1>5, <1>6, <2>2
    <3> QED BY <1>2, <3>1
  <2> QED BY <2>1, <2>2
<1>7. ASSUME NEW m \in DOMAIN log', NEW n \in DOMAIN log', m < n, Ticked(log'[m])
      PROVE  log'[m].day < log'[n].day \/ log'[n].e.kind = ResolutionKind
  <2>1. CASE n \in DOMAIN log
    BY <1>3, <1>4, <1>7, <2>1 DEF DayInv, Closed
  <2>2. CASE n \notin DOMAIN log /\ m \in DOMAIN log
    <3>1. work # AtRest => log[m].day < day
      BY <1>3, <1>7, <2>2 DEF DayInv, Closed
    <3> QED BY <1>3, <2>2, <3>1
  <2>3. CASE n \notin DOMAIN log /\ m \notin DOMAIN log
    BY <1>7, <2>3
  <2> QED BY <2>1, <2>2, <2>3
<1>8. ASSUME work' # AtRest, NEW n \in DOMAIN log', Ticked(log'[n])
      PROVE  log'[n].day < day
  <2>1. n \in DOMAIN log /\ log'[n] = log[n]
    BY <1>3, <1>8
  <2> QED BY <1>8, <2>1 DEF DayInv, Closed
<1>9. Days'
  BY <1>5, <1>6 DEF Days
<1>10. Closed'
  <2>1. AtRest' = AtRest
    BY DEF AtRest, Work
  <2> QED BY <1>7, <1>8, <2>1 DEF Closed
<1> QED BY <1>9, <1>10 DEF DayInv

\* Of what a day emits, only its last event may be its tick.
LEMMA DayPosts ==
    ASSUME LogInv, DayInv, UNCHANGED day, work # AtRest, NEW es, Listed(es),
           NEW next, Posts(es, next),
           \A j \in DOMAIN es : es[j].kind = "day_ticked" => j = Len(es) /\ next = AtRest
    PROVE  DayInv'
<1>0. Listed(log)
  BY DEF LogInv, DayHolds
<1>1. /\ Grows(log, log') /\ \A n \in DOMAIN log' \ DOMAIN log : Emitted(es, n)
      /\ work' \in {next, AtRest}
  BY <1>0, PostsAppend
<1>2. \A n \in DOMAIN log' \ DOMAIN log :
        \/ log'[n].e.kind = ResolutionKind /\ log'[n].day \in 0..day
        \/ \E j \in DOMAIN es : log'[n].e = es[j] /\ log'[n].day = day /\ n = Len(log) + j
  BY <1>1, EmittedEvents
<1>3. ResolutionKind # "day_ticked"
  BY DEF ResolutionKind
<1>4. \A n \in DOMAIN log' \ DOMAIN log : Ticked(log'[n]) => n = Len(log) + Len(es) /\ next = AtRest
  BY <1>2, <1>3 DEF Ticked
<1>5. ASSUME NEW m \in DOMAIN log' \ DOMAIN log, NEW n \in DOMAIN log' \ DOMAIN log,
             Ticked(log'[m]), m < n
      PROVE  log'[n].e.kind = ResolutionKind
  <2>1. SUFFICES ASSUME NEW j \in DOMAIN es, n = Len(log) + j PROVE FALSE
    BY <1>2
  <2>2. Len(log) \in Nat /\ Len(es) \in Nat /\ j \in 1..Len(es)
    BY <1>0, <2>1, ListedLen
  <2> QED BY <1>4, <1>5, <2>1, <2>2
<1>6. work' # AtRest => \A n \in DOMAIN log' \ DOMAIN log : ~Ticked(log'[n])
  BY <1>1, <1>4
<1>7. \A n \in DOMAIN log' \ DOMAIN log :
        /\ log'[n].day \in 0..day
        /\ log'[n].day = day \/ log'[n].e.kind = ResolutionKind
  <2>1. day \in 0..day
    BY DEF LogInv, DayHolds
  <2> QED BY <1>2, <2>1
<1> QED BY <1>1, <1>5, <1>6, <1>7, DaysGrow

LEMMA AtWork ==
    ASSUME NEW at, at # "rest", work.at = at
    PROVE  work # AtRest
BY DEF AtRest, Work

LEMMA RoleAtWork ==
    ASSUME NEW role \in RoleNames,
           PlanRole(role) \/ SkipIntent(role) \/ RefuseIntent(role) \/ EscalateIntent(role)
           \/ ApplyIntent(role)
    PROVE  work # AtRest
<1>1. role # "rest"
  BY DEF RoleNames, Roles
<1>2. work.at = role
  BY DEF PlanRole, SkipIntent, RefuseIntent, EscalateIntent, ApplyIntent, Acting, Work
<1> QED BY <1>1, <1>2, AtWork

LEMMA DayStands ==
    ASSUME LogInv, DayInv, LogStands
    PROVE  DayInv'
<1>1. UNCHANGED log
  BY LogStandsThen
<1>2. AtRest' = AtRest
  BY DEF AtRest, Work
<1>3. CASE BeginDay
  <2>1. day' = day + 1 /\ day \in Nat
    BY <1>3 DEF BeginDay, LogInv, DayHolds
  <2>2. \A n \in DOMAIN log : log[n].day \in 0..day' /\ log[n].day < day'
    BY <2>1 DEF DayInv, Days
  <2> QED BY <1>1, <2>2 DEF DayInv, Days, Closed
<1>4. CASE ~BeginDay
  <2>1. UNCHANGED day /\ (work' # AtRest => work # AtRest)
    BY <1>4, RoleAtWork
       DEF LogStands, Arm, ResolveMark, ResolveNumber, PlanRole, SkipIntent, Regrant, companyVars
  <2> QED BY <1>1, <1>2, <2>1 DEF DayInv, Days, Closed
<1> QED BY <1>3, <1>4

LEMMA DayStep ==
    ASSUME LogInv, DayRead, DayInv, [CompanyNext]_companyVars
    PROVE  DayInv'
<1>0. Listed(log)
  BY DEF LogInv, DayHolds
<1>1. CASE WorldTick
  <2>1. UNCHANGED day /\ work # AtRest
    BY <1>1, AtWork DEF WorldTick
  <2>2. PICK es, next : /\ Listed(es) /\ Posts(es, next)
                        /\ \A j \in DOMAIN es : es[j].kind # "day_ticked"
    BY <1>1, WorldEmits DEF Given, WorldKinds
  <2> QED BY <2>1, <2>2, DayPosts
<1>2. CASE FreezeAgain
  <2>1. UNCHANGED day /\ work # AtRest
    BY <1>2, AtWork DEF FreezeAgain
  <2>2. PICK es, next : /\ Listed(es) /\ Posts(es, next)
                        /\ \A j \in DOMAIN es : es[j].kind # "day_ticked"
    BY <1>2, FreezeEmits DEF Still
  <2> QED BY <2>1, <2>2, DayPosts
<1>3. CASE ChiefAndTick
  <2>1. UNCHANGED day /\ work # AtRest
    BY <1>3, AtWork DEF ChiefAndTick
  <2>2. PICK es : Listed(es) /\ Posts(es, AtRest) /\ \A j \in DOMAIN es : ChiefSays(es, j)
    BY <1>3, ChiefEmits
  <2>3. \A j \in DOMAIN es : es[j].kind = "day_ticked" => j = Len(es)
    BY <2>2 DEF ChiefSays, Still
  <2> QED BY <2>1, <2>2, <2>3, DayPosts
<1>4. ASSUME NEW role \in RoleNames, RefuseIntent(role) \/ EscalateIntent(role) PROVE DayInv'
  <2>1. UNCHANGED day /\ work # AtRest
    BY <1>4, RoleAtWork DEF RefuseIntent, EscalateIntent
  <2>2. PICK es, next : /\ Listed(es) /\ Posts(es, next)
                        /\ \A j \in DOMAIN es : es[j].kind # "day_ticked"
    BY <1>4, RefusalEmits, EscalationEmits DEF Still
  <2> QED BY <2>1, <2>2, DayPosts
<1>5. ASSUME NEW role \in RoleNames, ApplyIntent(role) PROVE DayInv'
  <2>1. UNCHANGED day /\ work # AtRest
    BY <1>5, RoleAtWork DEF ApplyIntent
  <2>2. PICK es, next : /\ Listed(es) /\ Posts(es, next)
                        /\ \A j \in DOMAIN es : es[j].kind # "day_ticked"
    <3>1. PICK es, next : /\ Listed(es) /\ Posts(es, next)
                          /\ \A j \in DOMAIN es : EffectOf(role, Head(work.todo), es[j])
      BY <1>5, ApplyEmits
    <3>2. \A j \in DOMAIN es : es[j].kind # "day_ticked"
      BY <3>1 DEF EffectOf, EffectKinds
    <3> QED BY <3>1, <3>2
  <2> QED BY <2>1, <2>2, DayPosts
<1>6. CASE ResolveAppend
  <2>1. UNCHANGED <<day, work>>
    BY <1>6 DEF ResolveAppend
  <2>2. /\ Grows(log, log')
        /\ \A n \in DOMAIN log' \ DOMAIN log :
            log'[n].day = human.day /\ Still(log'[n].e, ResolutionKind, "human")
    BY <1>0, <1>6, ResolutionEmits
  <2>3. \A n \in DOMAIN log' \ DOMAIN log :
            /\ log'[n].e.kind = ResolutionKind /\ ~Ticked(log'[n])
            /\ log'[n].day \in 0..day
    BY <2>2 DEF Still, Ticked, ResolutionKind, DayRead
  <2> QED BY <2>1, <2>2, <2>3, DaysGrow
<1>7. CASE Seed
  <2>1. \A n \in DOMAIN log' : log'[n].day = 0 /\ ~Ticked(log'[n])
    BY <1>7, OpeningEntries DEF Ticked, OpeningKinds
  <2>2. day' = 0 /\ 0 \in 0..0 /\ 0 <= 0
    BY <1>7 DEF Seed
  <2> QED BY <2>1, <2>2 DEF DayInv, Days, Closed
<1>8. CASE LogStands
  BY <1>8, DayStands
<1> QED BY <1>1, <1>2, <1>3, <1>4, <1>5, <1>6, <1>7, <1>8, Steps

LEMMA DayAlways == CompanySpec => []DayInv
<1>1. CompanyInit => DayInv
  <2> SUFFICES ASSUME CompanyInit PROVE DayInv
    OBVIOUS
  <2>1. \A n \in DOMAIN log : log[n].day = 0 /\ ~Ticked(log[n])
    BY CompanyAssumption DEF CompanyInit, Given, On, Ticked, OpeningKinds
  <2>2. day = 0 /\ 0 \in 0..0 /\ 0 <= 0
    BY DEF CompanyInit
  <2> QED BY <2>1, <2>2 DEF DayInv, Days, Closed
<1>2. LogInv /\ DayRead /\ DayInv /\ [CompanyNext]_companyVars => DayInv'
  BY DayStep
<1> QED BY <1>1, <1>2, LogAlways, DayReadAlways, PTL DEF CompanySpec

\* What follows a tick, and is not left out of its replay, moves nothing.
LEMMA ReplayEnds ==
    ASSUME NEW s, Listed(s), NEW counts, NEW f, FoldsTo(s, counts, f), NEW n \in DOMAIN s,
           \A k \in DOMAIN s : n < k /\ k \in counts => s[k].e.kind = ResolutionKind
    PROVE  f[Len(s)] = f[n]
<1>1. Len(s) \in Nat /\ DOMAIN s = 1..Len(s)
  BY ListedLen
<1> DEFINE K == {k \in Nat : n + k <= Len(s) => f[n + k] = f[n]}
<1>2. 0 \in K
  BY <1>1
<1>3. ASSUME NEW k \in Nat, k \in K PROVE k + 1 \in K
  <2>1. SUFFICES ASSUME n + (k + 1) <= Len(s) PROVE f[n + (k + 1)] = f[n]
    OBVIOUS
  <2>2. f[n + k] = f[n]
    BY <1>1, <1>3, <2>1
  <2>3. PICK m \in DOMAIN s : /\ m = n + (k + 1) /\ m - 1 = n + k /\ n < m /\ m # 0
                              /\ m \in 0..Len(s)
    BY <1>1, <2>1
  <2>4. f[m] = FoldStep(s, counts, f, m)
    BY <2>3, FoldAt
  <2>5. f[m] = f[m - 1]
    <3>1. CASE m \notin counts
      BY <2>3, <2>4, <3>1 DEF FoldStep
    <3>2. CASE m \in counts
      <4>1. PICK b, e : b = f[m - 1] /\ e = s[m].e /\ f[m] = Posted(b, e)
        BY <2>3, <2>4, <3>2 DEF FoldStep
      <4>2. e.kind = ResolutionKind
        BY <2>3, <3>2, <4>1
      <4>3. Posted(b, e) = b
        BY <4>2 DEF Posted, ResolutionKind
      <4> QED BY <4>1, <4>3
    <3> QED BY <3>1, <3>2
  <2> QED BY <2>2, <2>3, <2>5
<1> HIDE DEF K
<1>4. Len(s) - n \in K /\ n + (Len(s) - n) = Len(s)
  <2>1. Len(s) - n \in Nat /\ n + (Len(s) - n) = Len(s)
    BY <1>1
  <2> QED BY <1>2, <1>3, <2>1, SetInduction
<1> QED BY <1>4 DEF K

LEMMA ReplayAgrees ==
    ASSUME LogInv, DayInv
    PROVE  ReplayShowsTheDay
<1>1. /\ Listed(log) /\ Len(log) \in Nat /\ DOMAIN log = 1..Len(log)
      /\ \A n \in DOMAIN log : log[n].day \in Int
  BY ListedLen DEF LogInv, DayHolds, DayInv, Days
<1>2. SUFFICES ASSUME NEW n \in DOMAIN log, Ticked(log[n])
               PROVE  Replay(log[n].day) = Books(SubSeq(log, 1, n))
  BY DEF ReplayShowsTheDay, Of, KindAt, Ticked
<1>3. PICK c : c = {k \in DOMAIN log : log[k].day <= log[n].day}
  OBVIOUS
<1>4. PICK f : FoldsTo(log, c, f) /\ Replay(log[n].day) = f[Len(log)]
  BY <1>1, <1>3, FoldExists, FoldedIsChosen DEF Replay
<1>5. \A k \in DOMAIN log : n < k /\ k \in c => log[k].e.kind = ResolutionKind
  BY <1>1, <1>2, <1>3 DEF DayInv, Closed
<1>6. f[Len(log)] = f[n]
  BY <1>1, <1>4, <1>5, ReplayEnds
<1>7. PICK t : t = SubSeq(log, 1, n)
  OBVIOUS
<1>8. Listed(t) /\ Len(t) = n /\ DOMAIN t = 1..n /\ \A k \in 1..n : t[k] = log[k]
  <2> DEFINE S == {log[k] : k \in DOMAIN log}
  <2>1. log \in Seq(S) /\ \A k \in 1..n : log[k] \in S
    BY <1>1 DEF Listed
  <2> HIDE DEF S
  <2>2. t \in Seq(S) /\ Len(t) = n /\ \A k \in 1..n : t[k] = log[k]
    BY <1>1, <1>7, <2>1, SubSeqProperties
  <2>3. Listed(t) /\ DOMAIN t = 1..n
    BY <2>2, SeqIsListed, LenProperties
  <2> QED BY <2>2, <2>3
<1>9. PICK g : FoldsTo(t, DOMAIN t, g) /\ Books(t) = g[Len(t)]
  BY <1>8, BooksAreFolded
<1>10. f[n] = g[n]
  <2>1. n \in Nat /\ n <= Len(log) /\ n <= Len(t)
    BY <1>1, <1>8
  <2>2. \A k \in 1..n : k \in DOMAIN log /\ log[k].day <= log[n].day
    <3>1. log[n].e.kind # ResolutionKind
      BY <1>2 DEF Ticked, ResolutionKind
    <3>2. \A k \in DOMAIN log : k < n => log[k].day <= log[n].day
      BY <3>1 DEF DayInv, Days
    <3>3. \A k \in 1..n : k \in DOMAIN log /\ (k < n \/ k = n)
      BY <1>1
    <3> QED BY <1>1, <3>2, <3>3
  <2>3. \A k \in 1..n : (k \in c <=> k \in DOMAIN t) /\ (k \in c => log[k].e = t[k].e)
    BY <1>3, <1>8, <2>2
  <2> QED BY <1>1, <1>4, <1>8, <1>9, <2>1, <2>3, FoldsAgree
<1> QED BY <1>4, <1>6, <1>7, <1>8, <1>9, <1>10

\* Whatever is said of a day after it was over, its replay shows the books as they
\* were at its tick (replay_day(), fold_state(), advance_day()).
THEOREM ReplaysAreStable == CompanySpec => []ReplayShowsTheDay
<1>1. LogInv /\ DayInv => ReplayShowsTheDay
  BY ReplayAgrees
<1> QED BY <1>1, LogAlways, DayAlways, PTL


-----------------------------------------------------------------------------
(* What the variables hold. *)

Typed(e) == e.kind \in EventKind /\ e.by \in Emitters /\ Counted(e)

EntriesOK == \A n \in DOMAIN log : Typed(log[n].e)
ClockOK == day \in 0..MaxDay /\ grants \in 0..MaxGrants /\ streak \in Nat
FaultsOK ==
    /\ scenario \in Scenarios /\ rogue \in BOOLEAN
    /\ DOMAIN standing = RoleNames /\ \A r \in RoleNames : standing[r] \in Standings[r]
WorkOK(w) ==
    /\ w.at \in Places /\ (w.todo # <<>> => w.at \in RoleNames)
    /\ TodoCounts(w.todo)

HoldsInv == EntriesOK /\ ClockOK /\ FaultsOK /\ WorkOK(work)

LEMMA StillIsTyped ==
    ASSUME NEW e, NEW kind \in EventKind, NEW who \in Emitters, Still(e, kind, who)
    PROVE  Typed(e)
BY DEF Typed, Still, Counted

LEMMA EmittedEntries ==
    ASSUME NEW es, NEW n, Emitted(es, n), \A j \in DOMAIN es : Typed(es[j])
    PROVE  Typed(log'[n].e)
<1>1. \A e : On(day, e).e = e
  BY DEF On
<1>2. CASE \E j \in DOMAIN es : log'[n] = On(day, es[j])
  BY <1>1, <1>2
<1>3. ASSUME NEW d, log'[n] = Resolution(human.id, d)
      PROVE  Typed(log'[n].e)
  <2>1. PICK e : e = By("human", Plain(ResolutionKind, <<human.id>>)) /\ log'[n].e = e
    BY <1>3 DEF Resolution, ResolutionKind, On
  <2>2. Still(e, ResolutionKind, "human")
    BY <2>1, StillEvents
  <2>3. ResolutionKind \in EventKind /\ "human" \in Emitters
    BY DEF ResolutionKind, EventKind, Emitters
  <2> QED BY <2>1, <2>2, <2>3, StillIsTyped
<1> QED BY <1>2, <1>3 DEF Emitted

LEMMA EntriesGrow ==
    ASSUME EntriesOK, Grows(log, log'), \A n \in DOMAIN log' \ DOMAIN log : Typed(log'[n].e)
    PROVE  EntriesOK'
<1>1. \A n \in DOMAIN log' : Typed(log'[n].e)
  BY DEF EntriesOK, Grows
<1> QED BY <1>1 DEF EntriesOK

LEMMA RestIsOK == WorkOK(AtRest) /\ \A at \in Places : WorkOK(Work(at, <<>>))
BY DEF WorkOK, AtRest, Work, Places, TodoCounts

LEMMA OnwardIsOK ==
    ASSUME NEW role \in RoleNames, Listed(work.todo), WorkOK(work), work.todo # <<>>
    PROVE  WorkOK(After(role)) /\ WorkOK(Onward(role))
<1>1. role \in {"salesbot", "opsbot", "financebot"}
  BY DEF RoleNames, Roles
<1>2. WorkOK(After(role))
  <2>1. {"opsbot", "financebot", "refreeze"} \subseteq Places
    BY DEF Places, RoleNames, Roles
  <2> QED BY <1>1, <2>1, RestIsOK DEF After
<1>3. WorkOK(Work(role, Tail(work.todo)))
  <2>1. PICK todo, rest : todo = work.todo /\ rest = Tail(todo)
    OBVIOUS
  <2>2. \A n \in DOMAIN rest : n + 1 \in DOMAIN todo /\ rest[n] = todo[n + 1]
    BY <2>1, TailOf
  <2>3. TodoCounts(rest)
    BY <2>1, <2>2 DEF WorkOK, TodoCounts
  <2>4. Work(role, rest).at = role /\ Work(role, rest).todo = rest /\ role \in Places
    BY DEF Work, Places
  <2> QED BY <2>1, <2>3, <2>4 DEF WorkOK
<1> QED BY <1>2, <1>3 DEF Onward

\* A day emits what it may emit, and goes on.
LEMMA PostsHold ==
    ASSUME LogInv, HoldsInv, NEW es, Listed(es), \A j \in DOMAIN es : Typed(es[j]),
           NEW next, WorkOK(next), Posts(es, next), UNCHANGED <<day, scenario, rogue, standing, grants>>,
           streak' \in Nat
    PROVE  HoldsInv'
<1>1. Listed(log)
  BY DEF LogInv, DayHolds
<1>2. /\ Grows(log, log') /\ (\A n \in DOMAIN log' \ DOMAIN log : Emitted(es, n))
      /\ work' \in {next, AtRest}
  BY <1>1, PostsAppend
<1>3. \A n \in DOMAIN log' \ DOMAIN log : Typed(log'[n].e)
  BY <1>2, EmittedEntries
<1>4. EntriesOK'
  BY <1>2, <1>3, EntriesGrow DEF HoldsInv
<1>5. ClockOK' /\ FaultsOK'
  BY DEF HoldsInv, ClockOK, FaultsOK
<1>6. WorkOK(work)'
  <2>1. WorkOK(work')
    BY <1>2, RestIsOK
  <2> QED BY <2>1 DEF WorkOK, TodoCounts, Counted, Places
<1> QED BY <1>4, <1>5, <1>6 DEF HoldsInv


\* The events of an intent are typed as the intent is.
LEMMA EffectIsTyped ==
    ASSUME NEW role \in RoleNames, NEW i, Counted(i), NEW e, EffectOf(role, i, e)
    PROVE  Typed(e)
<1>1. e.kind \in EventKind
  BY DEF EffectOf, EffectKinds, EventKind
<1>2. e.by \in Emitters
  BY DEF EffectOf, Emitters
<1>3. Counted(e)
  BY DEF EffectOf, Counted
<1> QED BY <1>1, <1>2, <1>3 DEF Typed

LEMMA RoleHolds ==
    ASSUME LogInv, HoldsInv, Listed(work.todo), NEW role \in RoleNames,
           RefuseIntent(role) \/ EscalateIntent(role) \/ ApplyIntent(role)
    PROVE  HoldsInv'
<1>1. /\ work.todo # <<>> /\ UNCHANGED <<day, scenario, rogue, standing, grants>>
      /\ streak' \in Nat
  <2>1. streak \in Nat /\ streak + 1 \in Nat
    BY DEF HoldsInv, ClockOK
  <2> QED BY <2>1 DEF RefuseIntent, EscalateIntent, ApplyIntent, Acting
<1>2. WorkOK(Onward(role))
  BY <1>1, OnwardIsOK DEF HoldsInv
<1>3. \E es : /\ Listed(es) /\ Posts(es, Onward(role))
              /\ \A j \in DOMAIN es : Typed(es[j])
  <2>1. {"role_paused", "escalation_raised"} \subseteq EventKind
        /\ "tower" \in Emitters /\ role \in Emitters
    BY DEF EventKind, Emitters
  <2>2. CASE RefuseIntent(role)
    BY <2>1, <2>2, RefusalEmits, StillIsTyped
  <2>3. CASE EscalateIntent(role)
    BY <2>1, <2>3, EscalationEmits, StillIsTyped
  <2>4. CASE ApplyIntent(role)
    <3>1. PICK todo : todo = work.todo
      OBVIOUS
    <3>2. 1 \in DOMAIN todo /\ Head(todo) = todo[1]
      BY <1>1, <3>1, TailOf
    <3>3. Counted(Head(todo))
      BY <3>1, <3>2 DEF HoldsInv, WorkOK, TodoCounts
    <3>4. PICK es : /\ Listed(es) /\ Posts(es, Onward(role))
                    /\ \A j \in DOMAIN es : EffectOf(role, Head(todo), es[j])
      BY <2>4, <3>1, ApplyEmits
    <3>5. \A j \in DOMAIN es : Typed(es[j])
      BY <3>3, <3>4, EffectIsTyped
    <3> QED BY <3>4, <3>5
  <2> QED BY <2>2, <2>3, <2>4
<1> QED BY <1>1, <1>2, <1>3, PostsHold

LEMMA CompanyHolds ==
    ASSUME LogInv, HoldsInv, WorldTick \/ FreezeAgain \/ ChiefAndTick
    PROVE  HoldsInv'
<1>1. UNCHANGED <<day, scenario, rogue, standing, grants>> /\ streak' \in Nat
  BY DEF WorldTick, FreezeAgain, ChiefAndTick, HoldsInv, ClockOK
<1>2. "salesbot" \in Places /\ "chief" \in Places
  BY DEF Places, RoleNames, Roles
<1>3. \E es, next : /\ Listed(es) /\ Posts(es, next) /\ WorkOK(next)
                    /\ \A j \in DOMAIN es : Typed(es[j])
  <2>1. CASE WorldTick
    <3>1. PICK es : Given(es, WorldKinds) /\ Posts(es, Work("salesbot", <<>>))
      BY <2>1, WorldEmits
    <3>2. \A j \in DOMAIN es : Typed(es[j])
      <4>1. WorldKinds \subseteq EventKind /\ "world" \in Emitters
        BY DEF WorldKinds, EventKind, Emitters
      <4> QED BY <3>1, <4>1 DEF Given, Typed, Counted
    <3> QED BY <1>2, <3>1, <3>2, RestIsOK DEF Given
  <2>2. CASE FreezeAgain
    <3>1. "spend_frozen" \in EventKind /\ "financebot" \in Emitters
      BY DEF EventKind, Emitters, RoleNames, Roles
    <3>2. PICK es : /\ Listed(es) /\ Posts(es, Work("chief", <<>>))
                    /\ \A j \in DOMAIN es : Still(es[j], "spend_frozen", "financebot")
      BY <2>2, FreezeEmits
    <3>3. \A j \in DOMAIN es : Typed(es[j])
      BY <3>1, <3>2, StillIsTyped
    <3> QED BY <1>2, <3>2, <3>3, RestIsOK
  <2>3. CASE ChiefAndTick
    <3>1. PICK es : Listed(es) /\ Posts(es, AtRest) /\ \A j \in DOMAIN es : ChiefSays(es, j)
      BY <2>3, ChiefEmits
    <3>2. {"directive_proposed", "spend_frozen", "directive_ruled", "day_ticked"} \subseteq EventKind
          /\ {"chiefofstaff", "system"} \subseteq Emitters
      BY DEF EventKind, Emitters
    <3>3. \A j \in DOMAIN es : Typed(es[j])
      BY <3>1, <3>2, StillIsTyped DEF ChiefSays
    <3> QED BY <3>1, <3>3, RestIsOK
  <2> QED BY <2>1, <2>2, <2>3
<1> QED BY <1>1, <1>3, PostsHold

LEMMA WorkHolds ==
    ASSUME WorkOK(work')
    PROVE  WorkOK(work)'
BY DEF WorkOK, TodoCounts, Counted, Places

LEMMA HoldsStands ==
    ASSUME LogInv, HoldsInv, Listed(work.todo), LogStands
    PROVE  HoldsInv'
<1>1. EntriesOK'
  BY LogStandsThen DEF HoldsInv, EntriesOK
<1>2. ASSUME NEW role \in RoleNames, PlanRole(role) PROVE HoldsInv'
  <2>1. PICK todo \in Intents(role) :
            work' = IF todo = <<>> THEN After(role) ELSE Work(role, todo)
    BY <1>2 DEF PlanRole
  <2>2. LogCounts
    BY DEF HoldsInv, EntriesOK, Typed, LogCounts
  <2>3. TodoCounts(todo)
    BY <2>2, IntentsAreOpen DEF LogInv, DayHolds
  <2>4. WorkOK(Work(role, todo))
    BY <2>3 DEF WorkOK, Work, Places
  <2>5. WorkOK(After(role))
    <3>1. role \in {"salesbot", "opsbot", "financebot"}
      BY DEF RoleNames, Roles
    <3>2. {"opsbot", "financebot", "refreeze"} \subseteq Places
      BY DEF Places, RoleNames, Roles
    <3> QED BY <3>1, <3>2, RestIsOK DEF After
  <2>6. WorkOK(work)'
    BY <2>1, <2>4, <2>5, WorkHolds
  <2> QED BY <1>1, <1>2, <2>6 DEF PlanRole, HoldsInv, ClockOK, FaultsOK
<1>3. ASSUME NEW role \in RoleNames, SkipIntent(role) PROVE HoldsInv'
  <2>1. WorkOK(Onward(role))
    BY <1>3, OnwardIsOK DEF SkipIntent, Acting, HoldsInv
  <2>2. WorkOK(work)'
    BY <1>3, <2>1, WorkHolds DEF SkipIntent
  <2> QED BY <1>1, <1>3, <2>2 DEF SkipIntent, HoldsInv, ClockOK, FaultsOK
<1>4. ASSUME NEW role \in RoleNames, Regrant(role) PROVE HoldsInv'
  <2>1. PICK new \in Standings[role] : standing' = [standing EXCEPT ![role] = new]
    BY <1>4 DEF Regrant
  <2>2. DOMAIN standing' = RoleNames /\ \A r \in RoleNames : standing'[r] \in Standings[r]
    BY <2>1 DEF HoldsInv, FaultsOK
  <2>3. grants' \in 0..MaxGrants
    BY <1>4, CompanyAssumption DEF Regrant, HoldsInv, ClockOK
  <2>4. UNCHANGED <<day, scenario, rogue, streak, work>>
    BY <1>4 DEF Regrant
  <2>5. WorkOK(work)'
    BY <2>4, WorkHolds DEF HoldsInv
  <2> QED BY <1>1, <2>2, <2>3, <2>4, <2>5 DEF HoldsInv, ClockOK, FaultsOK
<1>5. CASE BeginDay
  <2>1. day' \in 0..MaxDay
    BY <1>5, CompanyAssumption DEF BeginDay, HoldsInv, ClockOK
  <2>2. UNCHANGED <<scenario, rogue, streak, standing, grants>> /\ work' = Work("world", <<>>)
    BY <1>5 DEF BeginDay
  <2>3. WorkOK(work)'
    <3>1. "world" \in Places
      BY DEF Places
    <3> QED BY <2>2, <3>1, RestIsOK, WorkHolds
  <2> QED BY <1>1, <2>1, <2>2, <2>3 DEF HoldsInv, ClockOK, FaultsOK
<1>6. CASE Arm \/ ResolveMark \/ ResolveNumber \/ UNCHANGED companyVars
  <2>1. /\ UNCHANGED <<day, streak, standing, grants, work>>
        /\ scenario' \in Scenarios /\ rogue' \in BOOLEAN
    BY <1>6 DEF Arm, ResolveMark, ResolveNumber, companyVars, HoldsInv, FaultsOK, Scenarios
  <2>2. WorkOK(work)'
    BY <2>1, WorkHolds DEF HoldsInv
  <2> QED BY <1>1, <2>1, <2>2 DEF HoldsInv, ClockOK, FaultsOK
<1> QED BY <1>2, <1>3, <1>4, <1>5, <1>6 DEF LogStands

LEMMA Zeros ==
    /\ 0 \in 0..MaxDay /\ 0 \in 0..MaxGrants /\ 0 \in Nat
    /\ DOMAIN Seeded = RoleNames /\ \A r \in RoleNames : Seeded[r] \in Standings[r]
<1>1. MaxDay \in Nat /\ MaxGrants \in Nat
  BY CompanyAssumption
<1>2. DOMAIN Seeded = RoleNames /\ \A r \in RoleNames : Seeded[r] \in Standings[r]
  BY CompanyAssumption
<1> QED BY <1>1, <1>2

LEMMA OpeningHolds ==
    ASSUME LogInv, HoldsInv, Seed \/ ResolveAppend
    PROVE  HoldsInv'
<1>1. CASE Seed
  <2>1. EntriesOK'
    <3>1. OpeningKinds \subseteq EventKind /\ "world" \in Emitters
      BY DEF OpeningKinds, EventKind, Emitters
    <3>2. \A n \in DOMAIN log' : Typed(log'[n].e)
      BY <1>1, <3>1, OpeningEntries DEF Typed, Counted
    <3> QED BY <3>2 DEF EntriesOK
  <2>2. ClockOK' /\ FaultsOK'
    BY <1>1, Zeros DEF Seed, HoldsInv, ClockOK, FaultsOK
  <2>3. UNCHANGED work
    BY <1>1 DEF Seed
  <2>4. WorkOK(work)'
    BY <2>3, WorkHolds DEF HoldsInv
  <2> QED BY <2>1, <2>2, <2>4 DEF HoldsInv
<1>2. CASE ResolveAppend
  <2>1. /\ Grows(log, log')
        /\ \A n \in DOMAIN log' \ DOMAIN log : Still(log'[n].e, ResolutionKind, "human")
    BY <1>2, ResolutionEmits DEF LogInv, DayHolds
  <2>2. ResolutionKind \in EventKind /\ "human" \in Emitters
    BY DEF ResolutionKind, EventKind, Emitters
  <2>3. \A n \in DOMAIN log' \ DOMAIN log : Typed(log'[n].e)
    BY <2>1, <2>2, StillIsTyped
  <2>4. EntriesOK'
    BY <2>1, <2>3, EntriesGrow DEF HoldsInv
  <2>5. UNCHANGED <<day, scenario, rogue, streak, standing, grants, work>>
    BY <1>2 DEF ResolveAppend
  <2>6. WorkOK(work)'
    BY <2>5, WorkHolds DEF HoldsInv
  <2> QED BY <2>4, <2>5, <2>6 DEF HoldsInv, ClockOK, FaultsOK
<1> QED BY <1>1, <1>2

LEMMA HoldsStep ==
    ASSUME LogInv, MoneyInv, HoldsInv, [CompanyNext]_companyVars
    PROVE  HoldsInv'
<1>1. Listed(work.todo)
  BY DEF MoneyInv, TodoOpen
<1> QED BY <1>1, RoleHolds, CompanyHolds, HoldsStands, OpeningHolds, Steps

LEMMA TypedIsEnough ==
    ASSUME LogInv, DayRead, DayInv, HoldsInv
    PROVE  CompanyTypeOK
<1>1. Listed(log) /\ DOMAIN log = 1..Len(log) /\ Len(log) \in Nat
  BY ListedLen DEF LogInv, DayHolds
<1>2. ASSUME NEW n \in DOMAIN log
      PROVE  /\ log[n].day \in 0 .. day
             /\ \A m \in DOMAIN log : m < n /\ log[n].e.kind # "escalation_resolved"
                    => log[m].day <= log[n].day
             /\ log[n].e.kind \in EventKind /\ log[n].e.by \in Emitters
             /\ log[n].e.amount \in Nat /\ log[n].e.units \in Nat
  <2>1. log[n].day \in 0 .. day
    BY DEF DayInv, Days
  <2>2. \A m \in DOMAIN log : m < n /\ log[n].e.kind # "escalation_resolved"
            => log[m].day <= log[n].day
    BY DEF DayInv, Days, ResolutionKind
  <2>3. Typed(log[n].e)
    BY DEF HoldsInv, EntriesOK
  <2> QED BY <2>1, <2>2, <2>3 DEF Typed, Counted
<1>3. day \in 0 .. MaxDay /\ grants \in 0 .. MaxGrants /\ streak \in Nat
  BY DEF HoldsInv, ClockOK
<1>4. scenario \in Scenarios /\ rogue \in BOOLEAN /\ \A r \in RoleNames : standing[r] \in Standings[r]
  BY DEF HoldsInv, FaultsOK
<1>5. work.at \in Places /\ (work.todo # <<>> => work.at \in RoleNames)
  BY DEF HoldsInv, WorkOK
<1>6. /\ inbox \in Seq({"pending", "resolved"}) /\ human.at \in {"rest", "marked", "numbered"}
      /\ human.at # "rest" => human.id \in DOMAIN inbox /\ inbox[human.id] = "resolved"
  BY DEF LogInv, DayHolds, RulingHolds
<1>7. human.day \in 0 .. day
  BY DEF DayRead
<1> QED BY <1>2, <1>3, <1>4, <1>5, <1>6, <1>7 DEF CompanyTypeOK

\* The log, the inbox, the roles' standing and the work of the day hold what the code
\* stores in them (CompanyService, CompanyEvent): in particular no amount that is
\* emitted is negative, as what the roles plan comes from amounts of the log.
THEOREM CompanyTypeCorrect == CompanySpec => []CompanyTypeOK
<1>1. CompanyInit => MoneyInv /\ HoldsInv
  <2> SUFFICES ASSUME CompanyInit PROVE MoneyInv /\ HoldsInv
    OBVIOUS
  <2>1. log = Entries(0, Opening) /\ \A n \in DOMAIN log : log[n].e = Opening[n]
    BY DEF CompanyInit, Entries, On
  <2>2. EntriesOK
    <3>1. OpeningKinds \subseteq EventKind /\ "world" \in Emitters
      BY DEF OpeningKinds, EventKind, Emitters
    <3>2. \A n \in DOMAIN Opening : Typed(Opening[n])
      BY <3>1, CompanyAssumption DEF Given, Typed, Counted
    <3> QED BY <2>1, <3>2 DEF EntriesOK, Entries
  <2>3. ClockOK /\ FaultsOK
    BY Zeros DEF CompanyInit, ClockOK, FaultsOK
  <2>4. WorkOK(work)
    BY RestIsOK DEF CompanyInit
  <2>5. MoneyInv
    BY MoneyInit
  <2> QED BY <2>2, <2>3, <2>4, <2>5 DEF HoldsInv
<1>2. LogInv /\ MoneyInv /\ [CompanyNext]_companyVars => MoneyInv'
  BY MoneyStep
<1>3. LogInv /\ MoneyInv /\ HoldsInv /\ [CompanyNext]_companyVars => HoldsInv'
  BY HoldsStep
<1>4. LogInv /\ DayRead /\ DayInv /\ HoldsInv => CompanyTypeOK
  BY TypedIsEnough
<1> QED BY <1>1, <1>2, <1>3, <1>4, LogAlways, DayReadAlways, DayAlways, PTL DEF CompanySpec

=============================================================================
