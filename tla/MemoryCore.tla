------------------------------ MODULE MemoryCore ------------------------------
(***************************************************************************)
(* MemoryService (core/memorycore): facts about one user of one agent are  *)
(* learnt slot by slot, decay, contradict each other, and are forgotten by *)
(* tombstones.  learn() reads the claimants of its slot and writes later,  *)
(* on threads that share the store; sweep() reads what is stale and writes *)
(* its tombstones one by one; the other requests are single steps.         *)
(* Time passes in half-lives (30 days), confidences are in thousandths.    *)
(***************************************************************************)
EXTENDS Integers, FiniteSets

CONSTANTS
    Slots, Values,
    Sightings,      \* [kind, extraction, ttl]: what may be learnt of a value, and how
    Paddings,       \* whether a request may spell its slot with blanks around it
    Learners,       \* threads that serve learn requests
    MaxFacts,       \* bound: learn requests
    MaxNow          \* bound: half-lives that pass

Kinds == {"user_stated", "observed", "inferred", "imported"}
Never == 0          \* ttl_days = None

ASSUME SightingAssumption ==
    Sightings \subseteq [kind : Kinds, extraction : 1..100, ttl : Nat]
ASSUME PaddingAssumption == Paddings \subseteq BOOLEAN
ASSUME BoundAssumption == MaxFacts \in Nat /\ MaxNow \in Nat

VARIABLES
    now,        \* the clock
    made,       \* ids given out
    facts,      \* the store: id -> fact
    reasons,    \* the tombstones: forgotten id -> reason
    learning,   \* learner -> its request in progress
    sweeping,   \* what the sweep in progress has named and not written yet
    contested   \* history: slots that overlapping requests learnt, or one spelled with blanks

memoryVars == <<now, made, facts, reasons, learning, sweeping, contested>>

Ids == 1..MaxFacts
Reasons == {"stale", "contradicted", "superseded", "revoked"}

Fact == [slot : Slots, value : Values, kind : Kinds, base : 0..1000, learned : 0..MaxNow,
         expires : Nat, corroborations : Nat, derived : SUBSET Ids]

SourceTrust == [user_stated |-> 10, observed |-> 7, inferred |-> 5, imported |-> 4]

\* make_fact(): sigh is the sighting, in tenths times hundredths.
Made(slot, value, sigh, parents) ==
    [slot |-> slot, value |-> value, kind |-> sigh.kind,
     base |-> SourceTrust[sigh.kind] * sigh.extraction,
     learned |-> now, expires |-> IF sigh.ttl = Never THEN Never ELSE now + sigh.ttl,
     corroborations |-> 0, derived |-> parents]

\* b to the n, as a function that a proof can take apart.
Power(b, n) ==
    LET power[k \in 0..n] == IF k = 0 THEN 1 ELSE b * power[k - 1]
    IN  power[n]

Expired(f, t) == f.expires # Never /\ t >= f.expires

\* decayed_confidence(): half of it every half-life, a tenth of what is missing
\* regained by every corroboration, nothing after the TTL.
Confidence(f, t) ==
    IF Expired(f, t) THEN 0
    ELSE LET decayed == f.base \div Power(2, t - f.learned)
         IN  1000 - ((1000 - decayed) * Power(9, f.corroborations))
                        \div Power(10, f.corroborations)

RelyFloor == 250

\* Mutant: the sweeper's floor above the one of recall().
UsefulnessFloorHigh == 300

UsefulnessFloor == 200

\* Mutant: the stronger claim wins, by whatever margin.
DecisiveMarginNone == 0

DecisiveMargin == 150

-----------------------------------------------------------------------------

Stored == DOMAIN facts
Forgotten == DOMAIN reasons
Live == Stored \ Forgotten

\* recall() on one slot: whether f is relied on.
ReliedOn(f) == f \in Live /\ Confidence(facts[f], now) >= RelyFloor

\* stale_facts()
Stale == {f \in Stored : Expired(facts[f], now) \/ Confidence(facts[f], now) < UsefulnessFloor}

ChildrenOf(S) == {g \in Stored : facts[g].derived \cap S # {}}

\* Mutant: the cascade does not pass through what is forgotten already.
CascadedLive(f) ==
    LET reach[n \in 0..Cardinality(Stored)] ==
            IF n = 0 THEN {f} ELSE reach[n - 1] \cup (ChildrenOf(reach[n - 1]) \cap Live)
    IN  reach[Cardinality(Stored)]

\* cascaded_forgets(): f and everything derived from it, transitively.
Cascaded(f) ==
    LET reach[n \in 0..Cardinality(Stored)] ==
            IF n = 0 THEN {f} ELSE reach[n - 1] \cup ChildrenOf(reach[n - 1])
    IN  reach[Cardinality(Stored)]

\* What reasons becomes when the facts S are forgotten for the given reason.
\* A second tombstone of a fact replaces the reason of the first.
Tombstoned(S, reason) ==
    [f \in Forgotten \cup S |-> IF f \in S THEN reason ELSE reasons[f]]

\* _store.save()
Saved(id, f) == [g \in Stored \cup {id} |-> IF g = id THEN f ELSE facts[g]]

-----------------------------------------------------------------------------

Idle == [at |-> "idle"]
IsIdle(k) == learning[k].at = "idle"

\* The live claimants of a slot, as by_slot() finds them: it compares the slot
\* as the request spells it, while facts are stored with theirs stripped.
Claimants(slot, padded) == {f \in Live : ~padded /\ facts[f].slot = slot}
Strongest(S) ==
    {f \in S : \A g \in S : Confidence(facts[f], now) >= Confidence(facts[g], now)}

\* resolve_conflict(), at the time t at which the request began
Resolution(champion, incoming, t) ==
    LET existing == Confidence(champion, t)
        claimed == Confidence(incoming, t)
    IN  IF champion.value = incoming.value THEN "corroborate"
        ELSE IF claimed - existing < DecisiveMargin /\ existing - claimed < DecisiveMargin
             THEN "contradiction"
        ELSE IF claimed > existing THEN "supersede" ELSE "reject_incoming"

\* The rest of the request, once its outcome is known or the slot was empty.
Resolving(id, f, champion) ==
    [at |-> "resolve", id |-> id, fact |-> f, champion |-> champion, was |-> facts[champion]]
Saving(id, f) == [at |-> "save", id |-> id, fact |-> f]

\* Another request has read the claimants of the slot and has not written yet.
Overlaps(k, slot) ==
    \E l \in Learners \ {k} : ~IsIdle(l) /\ learning[l].fact.slot = slot

\* learn(), up to the choice of the champion
BeginLearn(k, slot, padded, value, sigh, parents) ==
    /\ IsIdle(k)
    /\ made < MaxFacts
    /\ LET rivals == Claimants(slot, padded)
           incoming == Made(slot, value, sigh, parents)
       IN  \/ rivals = {} /\ learning' = [learning EXCEPT ![k] = Saving(made + 1, incoming)]
           \/ \E champion \in Strongest(rivals) :
                learning' = [learning EXCEPT ![k] = Resolving(made + 1, incoming, champion)]
    /\ made' = made + 1
    /\ contested' = contested \cup {s \in {slot} : padded \/ Overlaps(k, slot)}
    /\ UNCHANGED <<now, facts, reasons, sweeping>>

\* A request whose claim meets the champion it found, with the given outcome.
Meets(k, outcome) ==
    /\ learning[k].at = "resolve"
    /\ Resolution(learning[k].was, learning[k].fact, learning[k].fact.learned) = outcome

Ends(k) == learning' = [learning EXCEPT ![k] = Idle]

\* The champion as it was read is saved with one more sighting.
Corroborate(k) ==
    /\ Meets(k, "corroborate")
    /\ facts' = Saved(learning[k].champion,
                      [learning[k].was EXCEPT !.corroborations = @ + 1])
    /\ Ends(k)
    /\ UNCHANGED <<now, made, reasons, sweeping, contested>>

\* Mutant: the loser keeps its place.
SupersedeInPlace(k) ==
    /\ Meets(k, "supersede")
    /\ learning' = [learning EXCEPT ![k] = Saving(@.id, @.fact)]
    /\ UNCHANGED <<now, made, facts, reasons, sweeping, contested>>

\* The champion is forgotten; the claim is saved next.
Supersede(k) ==
    /\ Meets(k, "supersede")
    /\ reasons' = Tombstoned({learning[k].champion}, "superseded")
    /\ learning' = [learning EXCEPT ![k] = Saving(@.id, @.fact)]
    /\ UNCHANGED <<now, made, facts, sweeping, contested>>

\* The claim gets a tombstone and is never stored.
RejectIncoming(k) ==
    /\ Meets(k, "reject_incoming")
    /\ reasons' = Tombstoned({learning[k].id}, "superseded")
    /\ Ends(k)
    /\ UNCHANGED <<now, made, facts, sweeping, contested>>

Contradict(k) ==
    /\ Meets(k, "contradiction")
    /\ reasons' = Tombstoned({learning[k].champion, learning[k].id}, "contradicted")
    /\ Ends(k)
    /\ UNCHANGED <<now, made, facts, sweeping, contested>>

Save(k) ==
    /\ learning[k].at = "save"
    /\ facts' = Saved(learning[k].id, learning[k].fact)
    /\ Ends(k)
    /\ UNCHANGED <<now, made, reasons, sweeping, contested>>

\* forget(), for a request that is signed; any other is refused and changes nothing.
Forget(f) ==
    /\ f \in Stored
    /\ reasons' = Tombstoned(Cascaded(f) \cap Live, "revoked")
    /\ UNCHANGED <<now, made, facts, learning, sweeping, contested>>

\* sweep() names what is stale now ...
SweepBegin ==
    /\ sweeping = {} /\ Stale \cap Live # {}
    /\ sweeping' = Stale \cap Live
    /\ UNCHANGED <<now, made, facts, reasons, learning, contested>>

\* ... and writes the tombstones, whatever has become of the facts since.
SweepNext(f) ==
    /\ f \in sweeping
    /\ reasons' = Tombstoned({f}, "stale")
    /\ sweeping' = sweeping \ {f}
    /\ UNCHANGED <<now, made, facts, learning, contested>>

\* Mutant: ids are given out again after a reset.
ResetIds ==
    /\ made' = 0
    /\ facts' = <<>>
    /\ reasons' = <<>>
    /\ UNCHANGED <<now, learning, sweeping, contested>>

\* reset()
Reset ==
    /\ facts' = <<>>
    /\ reasons' = <<>>
    /\ UNCHANGED <<now, made, learning, sweeping, contested>>

\* The clock, which no request moves.
PassTime ==
    /\ now < MaxNow
    /\ now' = now + 1
    /\ UNCHANGED <<made, facts, reasons, learning, sweeping, contested>>

-----------------------------------------------------------------------------

MemoryInit ==
    /\ now = 0
    /\ made = 0
    /\ facts = <<>>
    /\ reasons = <<>>
    /\ learning = [k \in Learners |-> Idle]
    /\ sweeping = {}
    /\ contested = {}

\* A fact is derived from at most one fact that the store has.
Learn(k) ==
    \E slot \in Slots, padded \in Paddings, value \in Values, sigh \in Sightings,
       parents \in {{}} \cup {{f} : f \in Stored} :
        BeginLearn(k, slot, padded, value, sigh, parents)

MemoryNext ==
    \/ \E k \in Learners :
        Learn(k) \/ Corroborate(k) \/ Supersede(k) \/ RejectIncoming(k)
                 \/ Contradict(k) \/ Save(k)
    \/ \E f \in Stored : Forget(f)
    \/ SweepBegin
    \/ \E f \in sweeping : SweepNext(f)
    \/ Reset
    \/ PassTime

MemorySpec == MemoryInit /\ [][MemoryNext]_memoryVars

-----------------------------------------------------------------------------

Request ==
    {Idle}
    \cup [at : {"save"}, id : Ids, fact : Fact]
    \cup [at : {"resolve"}, id : Ids, fact : Fact, champion : Ids, was : Fact]

\* The store and the tombstones keep their shape, every id was given out, and a
\* request in progress carries the fact it made.
MemoryTypeOK ==
    /\ now \in 0..MaxNow
    /\ made \in 0..MaxFacts
    /\ Stored \subseteq 1..made /\ \A f \in Stored : facts[f] \in Fact
    /\ Forgotten \subseteq 1..made /\ \A f \in Forgotten : reasons[f] \in Reasons
    /\ learning \in [Learners -> Request]
    /\ sweeping \subseteq 1..made
    /\ contested \subseteq Slots

\* Same-slot conflicts go through contradiction resolution, so that a slot has one
\* live claimant at most: nobody relies on two answers to one question.  It takes
\* two requests that overlap on the slot, or one that spells it with blanks, to
\* get it a second one; requests that overlap on other slots never do.
OneClaimant ==
    \A f, g \in Live :
        facts[f].slot = facts[g].slot /\ facts[f].slot \notin contested => f = g

\* Everything that was derived from f by way of stored facts: what belongs to each
\* set that has f and is closed under derivation.
Downstream(f) ==
    {g \in Stored : \A S \in SUBSET Stored : f \in S /\ ChildrenOf(S) \subseteq S => g \in S}

\* Revoking a fact forgets its whole derivation subtree, also where it runs through
\* facts that were forgotten before for another reason.
RevocationReachesSubtree ==
    [][\A f \in Live :
        (f \in DOMAIN reasons' /\ reasons'[f] = "revoked") =>
            Downstream(f) \subseteq DOMAIN reasons']_memoryVars

\* The sweeper only names what recall() would not have relied on, with whatever
\* age, TTL and corroborations, and forgets nothing that it has not named; what it
\* has named it forgets, also when a claim has corroborated it since.
SweepSparesRelied ==
    [][/\ \A f \in sweeping' \ sweeping : ~ReliedOn(f)
       /\ \A f \in Live :
            (f \in DOMAIN reasons' /\ reasons'[f] = "stale") => f \in sweeping]_memoryVars

\* What the user states with confidence is the slot's only answer when the request
\* ends, or there is none: no older claim survives it, however often it was
\* corroborated and whatever is revoked, swept or learnt of other slots while the
\* request runs.
UserWordPrevails ==
    [][\A k \in Learners :
        LET f == learning[k].fact
        IN  (learning[k].at # "idle" /\ learning'[k].at = "idle"
                /\ f.kind = "user_stated" /\ f.base >= 900 /\ f.slot \notin contested)
            => \A g \in DOMAIN facts' \ DOMAIN reasons' :
                facts'[g].slot = f.slot => facts'[g].value = f.value]_memoryVars

=============================================================================
