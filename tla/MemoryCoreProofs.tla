--------------------------- MODULE MemoryCoreProofs ---------------------------
(***************************************************************************)
(* What holds of MemoryCore for any slots, values, sightings and bounds.   *)
(***************************************************************************)
EXTENDS MemoryCore, FoldLemmas

-----------------------------------------------------------------------------

\* A request in progress holds ids that were given out.
RequestIds ==
    \A k \in Learners :
        /\ learning[k].at # "idle" => learning[k].id \in 1..made
        /\ learning[k].at = "resolve" => learning[k].champion \in 1..made

TypeInv == MemoryTypeOK /\ RequestIds

\* A number of thousandths.
LEMMA Thousandths == \A b \in 0..1000 : b \in Nat /\ b <= 1000
OBVIOUS

\* The numbers of a fact.
LEMMA FactNumbers ==
    ASSUME NEW f \in Fact
    PROVE  /\ f.base \in Nat /\ f.base <= 1000
           /\ f.learned \in Nat /\ f.corroborations \in Nat /\ f.expires \in Nat
<1>1. /\ f.base \in 0..1000 /\ f.learned \in 0..MaxNow
      /\ f.corroborations \in Nat /\ f.expires \in Nat
  BY DEF Fact
<1>2. f.base \in Nat /\ f.base <= 1000
  BY <1>1, Thousandths, SMTT(30)
<1>3. f.learned \in Nat
  BY <1>1, BoundAssumption
<1>. QED
  BY <1>1, <1>2, <1>3

\* A fact seen once more is one.
LEMMA CorroboratedIsFact ==
    ASSUME NEW f \in Fact, NEW n \in Nat
    PROVE  [f EXCEPT !.corroborations = n] \in Fact
BY DEF Fact

\* A confidence at extraction, in thousandths.
LEMMA BaseIsBounded ==
    \A trust \in {10, 7, 5, 4}, extraction \in 1..100 : trust * extraction \in 0..1000
<1>. SUFFICES ASSUME NEW trust \in {10, 7, 5, 4}, NEW extraction \in 1..100
              PROVE  trust * extraction \in 0..1000
  OBVIOUS
<1>1. 10 * extraction \in 0..1000 /\ 7 * extraction \in 0..1000
  OBVIOUS
<1>2. 5 * extraction \in 0..1000 /\ 4 * extraction \in 0..1000
  OBVIOUS
<1>. QED
  BY <1>1, <1>2

\* The fact that make_fact() builds is one.
LEMMA MadeIsFact ==
    ASSUME MemoryTypeOK, NEW slot \in Slots, NEW value \in Values, NEW sigh \in Sightings,
           NEW parents \in SUBSET Ids
    PROVE  Made(slot, value, sigh, parents) \in Fact
<1>1. sigh.kind \in Kinds /\ sigh.extraction \in 1..100 /\ sigh.ttl \in Nat
  BY SightingAssumption
<1>2. SourceTrust[sigh.kind] * sigh.extraction \in 0..1000
  <2>1. PICK trust \in {10, 7, 5, 4} : trust = SourceTrust[sigh.kind]
    BY <1>1 DEF SourceTrust, Kinds
  <2>2. PICK extraction \in 1..100 : extraction = sigh.extraction
    BY <1>1
  <2>3. trust * extraction \in 0..1000
    BY <2>1, <2>2, BaseIsBounded, SMTT(30)
  <2>. QED
    BY <2>1, <2>2, <2>3
<1>3. now \in 0..MaxNow /\ MaxNow \in Nat
  BY BoundAssumption DEF MemoryTypeOK
<1>4. (IF sigh.ttl = Never THEN Never ELSE now + sigh.ttl) \in Nat
  BY <1>1, <1>3 DEF Never
<1>5. now \in 0..MaxNow /\ 0 \in Nat
  BY <1>3
<1>. QED
  BY <1>1, <1>2, <1>4, <1>5 DEF Made, Fact

\* The store with a fact saved in it is a store.
LEMMA SavedIsStore ==
    ASSUME NEW id, NEW f \in Fact, \A g \in Stored : facts[g] \in Fact,
           facts' = Saved(id, f)
    PROVE  /\ Stored' = Stored \cup {id}
           /\ \A g \in Stored' : facts'[g] \in Fact
BY DEF Saved, Stored

\* Tombstones give reasons, old ones and new ones.
LEMMA TombstonedHasReasons ==
    ASSUME NEW S, NEW reason \in Reasons, \A f \in Forgotten : reasons[f] \in Reasons,
           reasons' = Tombstoned(S, reason)
    PROVE  /\ Forgotten' = Forgotten \cup S
           /\ \A f \in Forgotten' : reasons'[f] \in Reasons
BY DEF Tombstoned, Forgotten

\* MemoryCore's variables keep their types, for any slots, sightings and bounds.
THEOREM MemoryTypeCorrect == MemorySpec => []MemoryTypeOK
<1>1. MemoryInit => TypeInv
  BY BoundAssumption DEF MemoryInit, TypeInv, MemoryTypeOK, RequestIds, Request, Idle,
     Stored, Forgotten
<1>2. TypeInv /\ [MemoryNext]_memoryVars => TypeInv'
  <2>. SUFFICES ASSUME TypeInv, [MemoryNext]_memoryVars PROVE TypeInv'
    OBVIOUS
  <2>. USE BoundAssumption
  <2>1. ASSUME NEW k \in Learners, Learn(k) PROVE TypeInv'
    <3>1. PICK slot \in Slots, padded \in Paddings, value \in Values, sigh \in Sightings,
               parents \in {{}} \cup {{f} : f \in Stored} :
            BeginLearn(k, slot, padded, value, sigh, parents)
      BY <2>1 DEF Learn
    <3>2. parents \in SUBSET Ids
      BY DEF TypeInv, MemoryTypeOK, Ids
    <3>3. DEFINE incoming == Made(slot, value, sigh, parents)
    <3>4. incoming \in Fact
      BY <3>2, MadeIsFact DEF TypeInv
    <3>5. /\ made' = made + 1 /\ made + 1 \in 1..MaxFacts
          /\ UNCHANGED <<now, facts, reasons, sweeping>>
          /\ contested' \subseteq contested \cup {slot}
      BY <3>1 DEF BeginLearn, TypeInv, MemoryTypeOK
    <3>6. \/ learning' = [learning EXCEPT ![k] = Saving(made + 1, incoming)]
          \/ \E champion \in Stored :
                learning' = [learning EXCEPT ![k] = Resolving(made + 1, incoming, champion)]
      BY <3>1 DEF BeginLearn, Strongest, Claimants, Live
    <3>. HIDE DEF incoming
    <3>7. CASE learning' = [learning EXCEPT ![k] = Saving(made + 1, incoming)]
      BY <3>4, <3>5, <3>7 DEF Saving, TypeInv, MemoryTypeOK, RequestIds, Request, Ids, Stored,
         Forgotten
    <3>8. ASSUME NEW champion \in Stored,
                 learning' = [learning EXCEPT ![k] = Resolving(made + 1, incoming, champion)]
          PROVE  TypeInv'
      BY <3>4, <3>5, <3>8 DEF Resolving, TypeInv, MemoryTypeOK, RequestIds, Request, Ids, Stored,
         Forgotten
    <3>. QED
      BY <3>6, <3>7, <3>8
  <2>2. ASSUME NEW k \in Learners, Corroborate(k) PROVE TypeInv'
    <3>. DEFINE boosted == [learning[k].was EXCEPT !.corroborations = @ + 1]
    <3>1. learning[k] \in Request /\ learning[k].at = "resolve"
      BY <2>2 DEF Corroborate, Meets, TypeInv, MemoryTypeOK
    <3>2. learning[k].was \in Fact /\ learning[k].champion \in 1..made
      BY <3>1, SMTT(30) DEF Request, Idle, TypeInv, RequestIds
    <3>3. boosted \in Fact
      <4>1. learning[k].was.corroborations + 1 \in Nat
        BY <3>2, FactNumbers
      <4>2. PICK n \in Nat : n = learning[k].was.corroborations + 1
        BY <4>1
      <4>3. PICK w \in Fact : w = learning[k].was
        BY <3>2
      <4>4. boosted = [w EXCEPT !.corroborations = n]
        BY <4>2, <4>3
      <4>. QED
        BY <4>2, <4>3, <4>4, CorroboratedIsFact
    <3>4. facts' = Saved(learning[k].champion, boosted)
          /\ UNCHANGED <<now, made, reasons, sweeping, contested>>
          /\ learning' = [learning EXCEPT ![k] = Idle]
      BY <2>2 DEF Corroborate, Ends
    <3>. HIDE DEF boosted
    <3>5. /\ Stored' = Stored \cup {learning[k].champion}
          /\ \A g \in Stored' : facts'[g] \in Fact
      BY <3>3, <3>4, SavedIsStore DEF TypeInv, MemoryTypeOK
    <3>. QED
      BY <3>2, <3>4, <3>5 DEF TypeInv, MemoryTypeOK, RequestIds, Request, Idle, Forgotten
  <2>3. ASSUME NEW k \in Learners, Supersede(k) PROVE TypeInv'
    <3>1. learning[k] \in Request /\ learning[k].at = "resolve"
      BY <2>3 DEF Supersede, Meets, TypeInv, MemoryTypeOK
    <3>2. /\ learning[k].champion \in 1..made /\ learning[k].id \in 1..made
          /\ learning[k].fact \in Fact /\ learning[k].id \in Ids
      BY <3>1 DEF Request, Idle, TypeInv, RequestIds
    <3>3. /\ Forgotten' = Forgotten \cup {learning[k].champion}
          /\ \A f \in Forgotten' : reasons'[f] \in Reasons
      BY <2>3, TombstonedHasReasons DEF Supersede, TypeInv, MemoryTypeOK, Reasons
    <3>4. learning' = [learning EXCEPT ![k] = Saving(learning[k].id, learning[k].fact)]
          /\ UNCHANGED <<now, made, facts, sweeping, contested>>
      BY <2>3 DEF Supersede
    <3>. QED
      BY <3>2, <3>3, <3>4 DEF TypeInv, MemoryTypeOK, RequestIds, Request, Saving, Stored
  <2>4. ASSUME NEW k \in Learners, RejectIncoming(k) PROVE TypeInv'
    <3>1. learning[k].id \in 1..made
      BY <2>4 DEF RejectIncoming, Meets, TypeInv, RequestIds
    <3>2. /\ Forgotten' = Forgotten \cup {learning[k].id}
          /\ \A f \in Forgotten' : reasons'[f] \in Reasons
      BY <2>4, TombstonedHasReasons DEF RejectIncoming, TypeInv, MemoryTypeOK, Reasons
    <3>. QED
      BY <2>4, <3>1, <3>2 DEF RejectIncoming, Ends, Idle, TypeInv, MemoryTypeOK, RequestIds,
         Request, Stored
  <2>5. ASSUME NEW k \in Learners, Contradict(k) PROVE TypeInv'
    <3>1. learning[k].id \in 1..made /\ learning[k].champion \in 1..made
      BY <2>5 DEF Contradict, Meets, TypeInv, RequestIds
    <3>2. /\ Forgotten' = Forgotten \cup {learning[k].champion, learning[k].id}
          /\ \A f \in Forgotten' : reasons'[f] \in Reasons
      BY <2>5, TombstonedHasReasons DEF Contradict, TypeInv, MemoryTypeOK, Reasons
    <3>. QED
      BY <2>5, <3>1, <3>2 DEF Contradict, Ends, Idle, TypeInv, MemoryTypeOK, RequestIds,
         Request, Stored
  <2>6. ASSUME NEW k \in Learners, Save(k) PROVE TypeInv'
    <3>1. learning[k] \in Request /\ learning[k].at = "save"
      BY <2>6 DEF Save, TypeInv, MemoryTypeOK
    <3>2. learning[k].fact \in Fact /\ learning[k].id \in 1..made
      BY <3>1 DEF Request, Idle, TypeInv, RequestIds
    <3>3. /\ Stored' = Stored \cup {learning[k].id}
          /\ \A g \in Stored' : facts'[g] \in Fact
      BY <2>6, <3>2, SavedIsStore DEF Save, TypeInv, MemoryTypeOK
    <3>. QED
      BY <2>6, <3>2, <3>3 DEF Save, Ends, Idle, TypeInv, MemoryTypeOK, RequestIds, Request,
         Forgotten
  <2>7. ASSUME NEW f \in Stored, Forget(f) PROVE TypeInv'
    <3>1. /\ Forgotten' = Forgotten \cup (Cascaded(f) \cap Live)
          /\ \A g \in Forgotten' : reasons'[g] \in Reasons
      BY <2>7, TombstonedHasReasons DEF Forget, TypeInv, MemoryTypeOK, Reasons
    <3>2. UNCHANGED <<now, made, facts, learning, sweeping, contested>>
      BY <2>7 DEF Forget
    <3>. QED
      BY <3>1, <3>2 DEF TypeInv, MemoryTypeOK, RequestIds, Live, Stored
  <2>8. CASE SweepBegin
    BY <2>8 DEF SweepBegin, TypeInv, MemoryTypeOK, RequestIds, Live, Stored, Forgotten
  <2>12. ASSUME NEW f \in sweeping, SweepNext(f) PROVE TypeInv'
    <3>1. /\ Forgotten' = Forgotten \cup {f}
          /\ \A g \in Forgotten' : reasons'[g] \in Reasons
      BY <2>12, TombstonedHasReasons DEF SweepNext, TypeInv, MemoryTypeOK, Reasons
    <3>2. UNCHANGED <<now, made, facts, learning, contested>> /\ sweeping' \subseteq sweeping
      BY <2>12 DEF SweepNext
    <3>. QED
      BY <3>1, <3>2 DEF TypeInv, MemoryTypeOK, RequestIds, Stored
  <2>9. CASE Reset
    BY <2>9 DEF Reset, TypeInv, MemoryTypeOK, RequestIds, Stored, Forgotten
  <2>10. CASE PassTime
    BY <2>10 DEF PassTime, TypeInv, MemoryTypeOK, RequestIds, Stored, Forgotten
  <2>11. CASE UNCHANGED memoryVars
    BY <2>11 DEF memoryVars, TypeInv, MemoryTypeOK, RequestIds, Stored, Forgotten
  <2>. QED
    BY <2>1, <2>2, <2>3, <2>4, <2>5, <2>6, <2>7, <2>8, <2>9, <2>10, <2>11, <2>12 DEF MemoryNext
<1>3. TypeInv => MemoryTypeOK
  BY DEF TypeInv
<1>. QED
  BY <1>1, <1>2, <1>3, PTL DEF MemorySpec

-----------------------------------------------------------------------------

\* Requests that overlap on a slot leave it contested; on any other slot, nobody is
\* there when the request is about to save its claim, and nobody but its champion when
\* it is about to resolve.
Apart ==
    \A k, l \in Learners :
        k # l /\ learning[k].at # "idle" /\ learning[l].at # "idle"
            /\ learning[k].fact.slot = learning[l].fact.slot
        => learning[k].fact.slot \in contested

Lonely(slot, champions) ==
    slot \notin contested => \A g \in Live : facts[g].slot = slot => g \in champions

SlotIsWatched ==
    \A k \in Learners :
        /\ learning[k].at = "save" => Lonely(learning[k].fact.slot, {})
        /\ learning[k].at = "resolve" =>
            /\ learning[k].was.slot = learning[k].fact.slot
            /\ Lonely(learning[k].fact.slot, {learning[k].champion})

Stages == \A k \in Learners : learning[k].at \in {"idle", "save", "resolve"}

ClaimInv == DOMAIN learning = Learners /\ Stages /\ Apart /\ OneClaimant /\ SlotIsWatched

\* When facts are only forgotten, the invariant stays.
LEMMA ForgettingKeepsClaims ==
    ASSUME ClaimInv, UNCHANGED <<facts, learning, contested>>, Live' \subseteq Live
    PROVE  ClaimInv'
BY DEF ClaimInv, Stages, Apart, OneClaimant, SlotIsWatched, Lonely

\* What a request writes, it writes to its own slot: every other slot that is not
\* contested stays as it was, and so do the requests on it.
LEMMA WritingKeepsClaims ==
    ASSUME ClaimInv, NEW k \in Learners, learning[k].at # "idle", NEW id, NEW f,
           f.slot = learning[k].fact.slot, Lonely(learning[k].fact.slot, {id}),
           facts' = Saved(id, f), UNCHANGED <<reasons, contested>>,
           learning' = [learning EXCEPT ![k] = Idle]
    PROVE  ClaimInv'
<1>1. /\ Live' \subseteq Live \cup {id}
      /\ \A g \in Live' : facts'[g] = IF g = id THEN f ELSE facts[g]
  BY DEF Saved, Live, Stored, Forgotten
<1>2. OneClaimant'
  BY <1>1 DEF ClaimInv, OneClaimant, Lonely
<1>3. /\ DOMAIN learning' = Learners /\ learning'[k] = Idle
      /\ \A l \in Learners : l # k => learning'[l] = learning[l]
  BY DEF ClaimInv
<1>4. Stages' /\ Apart'
  BY <1>3 DEF ClaimInv, Stages, Apart, Idle
<1>5. ASSUME NEW l \in Learners, l # k, learning[l].at # "idle", NEW S,
             Lonely(learning[l].fact.slot, S)
      PROVE  Lonely(learning[l].fact.slot, S)'
  <2>1. PICK slot : slot = learning[l].fact.slot /\ slot = learning'[l].fact.slot
    BY <1>3, <1>5
  <2>2. ASSUME slot \notin contested, NEW g \in Live', facts'[g].slot = slot PROVE g \in S
    <3>1. f.slot # slot
      BY <1>5, <2>1, <2>2 DEF ClaimInv, Apart
    <3>2. g \in Live /\ facts[g].slot = slot
      BY <1>1, <2>2, <3>1
    <3> QED BY <1>5, <2>1, <2>2, <3>2 DEF Lonely
  <2> QED BY <2>1, <2>2 DEF Lonely
<1>6. SlotIsWatched'
  <2> SUFFICES ASSUME NEW l \in Learners, l # k
               PROVE  /\ (learning[l].at = "save" => Lonely(learning[l].fact.slot, {}))'
                      /\ (learning[l].at = "resolve" =>
                            /\ learning[l].was.slot = learning[l].fact.slot
                            /\ Lonely(learning[l].fact.slot, {learning[l].champion}))'
    BY <1>3 DEF SlotIsWatched, Idle
  <2>1. PICK S : S = {learning[l].champion} /\ S = {learning'[l].champion}
    BY <1>3
  <2>2. CASE learning[l].at = "save"
    <3>1. Lonely(learning[l].fact.slot, {})
      BY <2>2 DEF ClaimInv, SlotIsWatched
    <3>2. Lonely(learning[l].fact.slot, {})'
      BY <1>5, <2>2, <3>1
    <3> QED BY <1>3, <2>2, <3>2
  <2>3. CASE learning[l].at = "resolve"
    <3>1. /\ Lonely(learning[l].fact.slot, S)
          /\ learning[l].was.slot = learning[l].fact.slot
      BY <2>1, <2>3 DEF ClaimInv, SlotIsWatched
    <3>2. Lonely(learning[l].fact.slot, S)'
      BY <1>5, <2>3, <3>1
    <3>3. Lonely(learning[l].fact.slot, {learning[l].champion})'
      BY <2>1, <3>2 DEF Lonely
    <3> QED BY <1>3, <2>3, <3>1, <3>3
  <2> QED BY <1>3, <2>2, <2>3
<1> QED BY <1>2, <1>3, <1>4, <1>6 DEF ClaimInv

\* What gets a tombstone is no longer live.
LEMMA TombstonesForget ==
    ASSUME NEW S, NEW reason, reasons' = Tombstoned(S, reason), UNCHANGED facts
    PROVE  Live' = Live \ S
BY DEF Tombstoned, Live, Stored, Forgotten

\* No request loses sight of the claimants of its slot, as long as no other one learns
\* it at the same time and it is spelled without blanks.
LEMMA ClaimsAlways == MemorySpec => []ClaimInv
<1>1. MemoryInit => ClaimInv
  BY DEF MemoryInit, ClaimInv, Stages, Apart, OneClaimant, SlotIsWatched, Idle, Live, Stored
<1>2. ClaimInv /\ [MemoryNext]_memoryVars => ClaimInv'
  <2>. SUFFICES ASSUME ClaimInv, [MemoryNext]_memoryVars PROVE ClaimInv'
    OBVIOUS
  <2>1. ASSUME NEW k \in Learners, Learn(k) PROVE ClaimInv'
    <3>1. PICK slot \in Slots, padded \in Paddings, value \in Values, sigh \in Sightings,
               parents \in {{}} \cup {{f} : f \in Stored} :
            BeginLearn(k, slot, padded, value, sigh, parents)
      BY <2>1 DEF Learn
    <3>2. PICK f : f = Made(slot, value, sigh, parents) /\ f.slot = slot
      <4>1. Made(slot, value, sigh, parents).slot = slot
        BY DEF Made
      <4>. QED
        BY <4>1
    <3>3. /\ UNCHANGED <<facts, reasons>> /\ Live' = Live
          /\ contested \subseteq contested'
          /\ slot \notin contested' => ~padded /\ ~Overlaps(k, slot)
      BY <3>1 DEF BeginLearn, Live, Stored, Forgotten
    <3>4. PICK d : /\ learning' = [learning EXCEPT ![k] = d]
                   /\ \/ d = Saving(made + 1, f) /\ Claimants(slot, padded) = {}
                      \/ \E c \in Claimants(slot, padded) : d = Resolving(made + 1, f, c)
      <4>1. CASE /\ Claimants(slot, padded) = {}
                 /\ learning' = [learning EXCEPT ![k] = Saving(made + 1, f)]
        BY <4>1
      <4>2. CASE \E c \in Strongest(Claimants(slot, padded)) :
                    learning' = [learning EXCEPT ![k] = Resolving(made + 1, f, c)]
        BY <4>2 DEF Strongest
      <4>. QED
        BY <3>1, <3>2, <4>1, <4>2 DEF BeginLearn
    <3>5. d.at \in {"save", "resolve"} /\ d.fact = f
      BY <3>4 DEF Saving, Resolving
    <3>6. /\ DOMAIN learning' = Learners /\ learning'[k] = d
          /\ \A l \in Learners : l # k => learning'[l] = learning[l]
      BY <3>4 DEF ClaimInv
    <3>7. Stages' /\ OneClaimant'
      BY <3>3, <3>5, <3>6 DEF ClaimInv, Stages, OneClaimant
    <3>8. Apart'
      <4>1. ASSUME NEW l \in Learners, l # k, learning[l].at # "idle",
                   learning[l].fact.slot = slot
            PROVE  slot \in contested'
        BY <3>3, <4>1 DEF Overlaps, IsIdle
      <4>. QED
        BY <3>2, <3>3, <3>5, <3>6, <4>1 DEF ClaimInv, Apart
    <3>9. SlotIsWatched'
      <4>1. \A l \in Learners : l # k =>
                /\ learning'[l].at = "save" => Lonely(learning[l].fact.slot, {})'
                /\ learning'[l].at = "resolve" =>
                    /\ learning'[l].was.slot = learning'[l].fact.slot
                    /\ Lonely(learning[l].fact.slot, {learning[l].champion})'
        BY <3>3, <3>6 DEF ClaimInv, SlotIsWatched, Lonely
      <4>2. slot \notin contested' =>
                Claimants(slot, padded) = {g \in Live : facts[g].slot = slot}
        BY <3>3, PaddingAssumption DEF Claimants
      <4>3. CASE d = Saving(made + 1, f) /\ Claimants(slot, padded) = {}
        BY <3>2, <3>3, <3>6, <4>1, <4>2, <4>3 DEF SlotIsWatched, Lonely, Saving
      <4>4. ASSUME NEW c \in Claimants(slot, padded), d = Resolving(made + 1, f, c)
            PROVE  SlotIsWatched'
        <5>1. slot \notin contested' => \A g \in Live : facts[g].slot = slot => g = c
          BY <3>3, <4>2 DEF ClaimInv, OneClaimant
        <5>2. facts[c].slot = slot
          BY DEF Claimants
        <5>3. /\ d.at = "resolve" /\ d.was.slot = slot /\ d.fact.slot = slot /\ d.champion = c
          BY <3>2, <4>4, <5>2 DEF Resolving
        <5>4. Lonely(learning[k].fact.slot, {learning[k].champion})'
          BY <3>3, <3>6, <5>1, <5>3 DEF Lonely
        <5>. QED
          BY <3>6, <4>1, <5>3, <5>4 DEF SlotIsWatched
      <4>. QED
        BY <3>4, <4>3, <4>4
    <3>. QED
      BY <3>6, <3>7, <3>8, <3>9 DEF ClaimInv
  <2>2. ASSUME NEW k \in Learners, Corroborate(k) PROVE ClaimInv'
    <3>1. PICK c, f : c = learning[k].champion
                      /\ f = [learning[k].was EXCEPT !.corroborations = @ + 1]
      OBVIOUS
    <3>2. /\ learning[k].at = "resolve" /\ learning[k].was.slot = learning[k].fact.slot
          /\ Lonely(learning[k].fact.slot, {c})
      BY <2>2, <3>1 DEF Corroborate, Meets, ClaimInv, SlotIsWatched
    <3>3. f.slot = learning[k].was.slot
      BY <3>1
    <3>4. /\ facts' = Saved(c, f) /\ UNCHANGED <<reasons, contested>>
          /\ learning' = [learning EXCEPT ![k] = Idle]
      BY <2>2, <3>1 DEF Corroborate, Ends
    <3>. QED
      BY <3>2, <3>3, <3>4, WritingKeepsClaims
  <2>3. ASSUME NEW k \in Learners, Supersede(k) PROVE ClaimInv'
    <3>1. Live' = Live \ {learning[k].champion} /\ UNCHANGED <<facts, contested>>
      BY <2>3, TombstonesForget DEF Supersede
    <3>2. learning[k].at = "resolve" /\ Lonely(learning[k].fact.slot, {learning[k].champion})
      BY <2>3 DEF Supersede, Meets, ClaimInv, SlotIsWatched
    <3>3. PICK d : /\ learning' = [learning EXCEPT ![k] = d]
                   /\ d = Saving(learning[k].id, learning[k].fact)
      BY <2>3 DEF Supersede
    <3>4. /\ DOMAIN learning' = Learners /\ learning'[k] = d
          /\ \A l \in Learners : l # k => learning'[l] = learning[l]
          /\ d.at = "save" /\ d.fact = learning[k].fact
      BY <3>3 DEF ClaimInv, Saving
    <3>5. Stages' /\ Apart' /\ OneClaimant'
      BY <3>1, <3>2, <3>4 DEF ClaimInv, Stages, Apart, OneClaimant
    <3>6. SlotIsWatched'
      BY <3>1, <3>2, <3>4 DEF ClaimInv, SlotIsWatched, Lonely
    <3>. QED
      BY <3>4, <3>5, <3>6 DEF ClaimInv
  <2>4. ASSUME NEW k \in Learners, RejectIncoming(k) \/ Contradict(k) PROVE ClaimInv'
    <3>1. Live' \subseteq Live /\ UNCHANGED <<facts, contested>>
      BY <2>4, TombstonesForget DEF RejectIncoming, Contradict
    <3>2. learning' = [learning EXCEPT ![k] = Idle]
      BY <2>4 DEF RejectIncoming, Contradict, Ends
    <3>3. /\ DOMAIN learning' = Learners /\ learning'[k] = Idle
          /\ \A l \in Learners : l # k => learning'[l] = learning[l]
      BY <3>2 DEF ClaimInv
    <3>4. Stages' /\ Apart' /\ OneClaimant'
      BY <3>1, <3>3 DEF ClaimInv, Stages, Apart, OneClaimant, Idle
    <3>5. SlotIsWatched'
      BY <3>1, <3>3 DEF ClaimInv, SlotIsWatched, Lonely, Idle
    <3>. QED
      BY <3>3, <3>4, <3>5 DEF ClaimInv
  <2>5. ASSUME NEW k \in Learners, Save(k) PROVE ClaimInv'
    <3>1. PICK id, f : id = learning[k].id /\ f = learning[k].fact
      OBVIOUS
    <3>2. learning[k].at = "save" /\ Lonely(learning[k].fact.slot, {id})
      BY <2>5 DEF Save, ClaimInv, SlotIsWatched, Lonely
    <3>3. /\ facts' = Saved(id, f) /\ UNCHANGED <<reasons, contested>>
          /\ learning' = [learning EXCEPT ![k] = Idle]
      BY <2>5, <3>1 DEF Save, Ends
    <3>. QED
      BY <3>1, <3>2, <3>3, WritingKeepsClaims
  <2>6. ASSUME NEW f \in Stored, Forget(f) PROVE ClaimInv'
    BY <2>6, TombstonesForget, ForgettingKeepsClaims DEF Forget
  <2>7. ASSUME NEW f \in sweeping, SweepNext(f) PROVE ClaimInv'
    BY <2>7, TombstonesForget, ForgettingKeepsClaims DEF SweepNext
  <2>8. CASE Reset
    BY <2>8 DEF Reset, ClaimInv, Stages, Apart, OneClaimant, SlotIsWatched, Lonely, Live, Stored
  <2>9. CASE SweepBegin \/ PassTime \/ UNCHANGED memoryVars
    BY <2>9, ForgettingKeepsClaims DEF SweepBegin, PassTime, memoryVars, Live, Stored, Forgotten
  <2>. QED
    BY <2>1, <2>2, <2>3, <2>4, <2>5, <2>6, <2>7, <2>8, <2>9 DEF MemoryNext
<1>. QED
  BY <1>1, <1>2, PTL DEF MemorySpec

\* A slot has one live claimant at most, unless requests that overlap have learnt it or
\* one spelled it with blanks, for any number of learners and whatever is revoked,
\* swept or reset while they run.
THEOREM OneClaimantApart == MemorySpec => []OneClaimant
<1>1. ClaimInv => OneClaimant
  BY DEF ClaimInv
<1>. QED
  BY <1>1, ClaimsAlways, PTL

-----------------------------------------------------------------------------
(* What a power is, and a confidence. *)

Powers(b, n, p) == p = [k \in 0 .. n |-> IF k = 0 THEN 1 ELSE b * p[k - 1]]

\* A power is the last value of the function chosen for it.
LEMMA PowerIsChosen ==
    ASSUME NEW b, NEW n
    PROVE  Power(b, n) = (CHOOSE p : Powers(b, n, p))[n]
BY DEF Power, Powers

\* There is such a function.
LEMMA PowerExists ==
    ASSUME NEW b \in Nat \ {0}, NEW n \in Nat
    PROVE  \E p : Powers(b, n, p) /\ Power(b, n) = p[n]
<1>1. PICK S : S = Nat \ {0}
  OBVIOUS
<1>2. PICK step : step = [x \in S |-> b * x]
  OBVIOUS
<1>3. step \in [S -> S]
  <2>1. \A x \in S : b * x \in S
    BY <1>1, SMTT(30)
  <2> QED BY <1>2, <2>1
<1>4. PICK one \in S : one = 1
  BY <1>1
<1>5. PICK f \in [0 .. n -> S] : Iterates(f, one, step, n)
  BY <1>3, <1>4, IterationExists
<1>6. f[0] = 1 /\ \A j \in 1 .. n : f[j] = step[f[j - 1]]
  BY <1>4, <1>5 DEF Iterates
<1>7. \A j \in 0 .. n : f[j] = IF j = 0 THEN 1 ELSE b * f[j - 1]
  <2>1. \A j \in 1 .. n : f[j - 1] \in S
    BY <1>5
  <2>2. \A j \in 1 .. n : f[j] = b * f[j - 1]
    BY <1>2, <1>6, <2>1
  <2> QED BY <1>6, <2>2
<1>8. Powers(b, n, f)
  BY <1>5, <1>7 DEF Powers
<1>9. PICK p : p = (CHOOSE q : Powers(b, n, q)) /\ Powers(b, n, p)
  BY <1>8
<1> QED BY <1>9, PowerIsChosen

\* A power of a positive number is positive, and its power to nothing is one.
LEMMA PowerIsPositive ==
    ASSUME NEW b \in Nat \ {0}, NEW n \in Nat
    PROVE  Power(b, n) \in Nat \ {0} /\ Power(b, 0) = 1
<1>1. PICK p : Powers(b, n, p) /\ Power(b, n) = p[n]
  BY PowerExists
<1>2. \A k \in 0 .. n : p[k] = IF k = 0 THEN 1 ELSE b * p[k - 1]
  BY <1>1 DEF Powers
<1> DEFINE K == {k \in Nat : k <= n => p[k] \in Nat \ {0}}
<1>3. 0 \in K
  BY <1>2
<1>4. ASSUME NEW k \in Nat, k \in K PROVE k + 1 \in K
  <2> SUFFICES ASSUME k + 1 <= n PROVE p[k + 1] \in Nat \ {0}
    OBVIOUS
  <2>1. PICK x \in Nat \ {0} : x = p[k]
    BY <1>4
  <2>2. PICK j \in 0 .. n : j = k + 1 /\ j # 0 /\ j - 1 = k
    OBVIOUS
  <2>3. p[k + 1] = b * x
    BY <1>2, <2>1, <2>2
  <2> QED BY <2>3, SMTT(30)
<1> HIDE DEF K
<1>5. n \in K
  BY <1>3, <1>4, SetInduction
<1>6. p[n] \in Nat \ {0}
  BY <1>5 DEF K
<1>7. Power(b, 0) = 1
  <2>1. PICK q : Powers(b, 0, q) /\ Power(b, 0) = q[0]
    BY PowerExists
  <2> QED BY <2>1 DEF Powers
<1> QED BY <1>1, <1>6, <1>7

\* A natural number divided by a positive one.
LEMMA DivBounds ==
    ASSUME NEW x \in Nat, NEW y \in Nat \ {0}
    PROVE  (x \div y) \in Nat /\ (x \div y) <= x /\ (x \div 1) = x
<1>1. (x \div 1) = x
  OBVIOUS
<1>2. PICK q : q = (x \div y)
  OBVIOUS
<1>3. q \in Int /\ y * q <= x /\ x < y * (q + 1)
  BY <1>2, SMTT(30)
<1>4. q \in Nat
  BY <1>3, SMTT(30)
<1>5. q <= x
  BY <1>3, <1>4, SMTT(30)
<1> QED BY <1>1, <1>2, <1>4, <1>5

\* A confidence is a whole number of thousandths, and no more than all of them.
LEMMA ConfidenceIsBounded ==
    ASSUME NEW f \in Fact, NEW t \in Nat, f.learned <= t
    PROVE  Confidence(f, t) \in Int /\ Confidence(f, t) <= 1000
<1>1. f.base \in Nat /\ f.base <= 1000 /\ f.corroborations \in Nat /\ t - f.learned \in Nat
  BY FactNumbers
<1>2. CASE Expired(f, t)
  BY <1>2 DEF Confidence
<1>3. CASE ~Expired(f, t)
  <2>1. PICK age, n, base : age = t - f.learned /\ n = f.corroborations /\ base = f.base
    OBVIOUS
  <2>0. age \in Nat /\ n \in Nat /\ base \in Nat /\ base <= 1000
    BY <1>1, <2>1
  <2>2. PICK a, b, c : a = Power(2, age) /\ b = Power(9, n) /\ c = Power(10, n)
    OBVIOUS
  <2>3. a \in Nat \ {0} /\ b \in Nat \ {0} /\ c \in Nat \ {0}
    <3>1. 2 \in Nat \ {0} /\ 9 \in Nat \ {0} /\ 10 \in Nat \ {0}
      OBVIOUS
    <3>2. Power(2, age) \in Nat \ {0}
      BY <2>0, <3>1, PowerIsPositive
    <3>3. Power(9, n) \in Nat \ {0} /\ Power(10, n) \in Nat \ {0}
      BY <2>0, <3>1, PowerIsPositive
    <3> QED BY <2>2, <3>2, <3>3
  <2>4. PICK d : d = base \div a /\ d \in Nat /\ d <= base
    BY <2>0, <2>3, DivBounds
  <2>5. PICK m : m = (1000 - d) * b
    OBVIOUS
  <2>6. m \in Nat
    <3>1. 1000 - d \in Nat
      BY <2>0, <2>4
    <3> QED BY <2>3, <2>5, <3>1, SMTT(30)
  <2>7. PICK q : q = m \div c
    OBVIOUS
  <2>8. q \in Nat
    BY <2>3, <2>6, <2>7, DivBounds
  <2>9. Confidence(f, t) = 1000 - q
    BY <1>3, <2>1, <2>2, <2>4, <2>5, <2>7 DEF Confidence
  <2> QED BY <2>8, <2>9
<1> QED BY <1>2, <1>3

\* A fact that nobody corroborated has its base confidence when it is learnt.
LEMMA ConfidenceWhenLearnt ==
    ASSUME NEW f \in Fact, f.corroborations = 0, ~Expired(f, f.learned)
    PROVE  Confidence(f, f.learned) = f.base
<1>1. f.base \in Nat /\ f.base <= 1000 /\ f.learned - f.learned = 0 /\ f.learned \in Nat
  BY FactNumbers
<1>2. Power(2, 0) = 1 /\ Power(9, 0) = 1 /\ Power(10, 0) = 1
  <2>1. 0 \in Nat /\ 2 \in Nat \ {0} /\ 9 \in Nat \ {0} /\ 10 \in Nat \ {0}
    OBVIOUS
  <2> QED BY <2>1, PowerIsPositive
<1>3. PICK base \in Nat : base = f.base /\ base <= 1000
  BY <1>1
<1>4. PICK d : d = base \div 1
  OBVIOUS
<1>5. d = base
  <2>1. (base \div 1) = base
    BY <1>3
  <2> QED BY <1>4, <2>1
<1>6. PICK m : m = (1000 - d) * 1
  OBVIOUS
<1>7. m \in Nat /\ m = 1000 - base
  <2>1. 1000 - base \in Nat /\ (1000 - base) * 1 = 1000 - base
    BY <1>3
  <2> QED BY <1>5, <1>6, <2>1
<1>8. PICK q : q = m \div 1 /\ q = m
  BY <1>7, DivBounds
<1>9. Confidence(f, f.learned) = 1000 - q
  BY <1>1, <1>2, <1>3, <1>4, <1>6, <1>8 DEF Confidence
<1> QED BY <1>3, <1>7, <1>8, <1>9

-----------------------------------------------------------------------------
(* How far a revocation reaches. *)

\* The facts that the ids given out so far name are finitely many.
LEMMA StoreIsFinite ==
    ASSUME MemoryTypeOK
    PROVE  IsFiniteSet(Stored) /\ Cardinality(Stored) \in Nat
<1>1. 1 \in Int /\ made \in Int /\ Stored \subseteq 1 .. made
  BY BoundAssumption DEF MemoryTypeOK
<1>2. IsFiniteSet(1 .. made)
  BY <1>1, FS_Interval
<1> QED BY <1>1, <1>2, FS_Subset, FS_CardinalityType

\* One more round of the cascade.
Round(S) == S \cup ChildrenOf(S)

Reaches(f, n, r) ==
    r = [k \in 0 .. n |-> IF k = 0 THEN {f} ELSE r[k - 1] \cup ChildrenOf(r[k - 1])]

\* What a cascade forgets is the last value of the function chosen for it.
LEMMA CascadeIsChosen ==
    ASSUME NEW f
    PROVE  LET n == Cardinality(Stored)
           IN  Cascaded(f) = (CHOOSE r : Reaches(f, n, r))[n]
BY DEF Cascaded, Reaches

\* There is such a function.
LEMMA CascadeExists ==
    ASSUME NEW f \in Stored, NEW n \in Nat, n = Cardinality(Stored)
    PROVE  \E r : Reaches(f, n, r) /\ Cascaded(f) = r[n]
<1>1. PICK S, a : S = SUBSET Stored /\ a = {f}
  OBVIOUS
<1>2. PICK step : step = [T \in S |-> Round(T)]
  OBVIOUS
<1>3. step \in [S -> S] /\ a \in S
  BY <1>1, <1>2 DEF Round, ChildrenOf
<1>4. PICK r \in [0 .. n -> S] : Iterates(r, a, step, n)
  BY <1>3, IterationExists
<1>5. r[0] = {f} /\ \A j \in 1 .. n : r[j] = step[r[j - 1]]
  BY <1>1, <1>4 DEF Iterates
<1>6. \A j \in 1 .. n : r[j - 1] \in S
  BY <1>4
<1>7. \A j \in 1 .. n : r[j] = r[j - 1] \cup ChildrenOf(r[j - 1])
  BY <1>2, <1>5, <1>6 DEF Round
<1>8. \A j \in 0 .. n : j # 0 => j \in 1 .. n
  OBVIOUS
<1>9. Reaches(f, n, r)
  BY <1>4, <1>5, <1>7, <1>8 DEF Reaches
<1>10. PICK q : q = (CHOOSE p : Reaches(f, n, p)) /\ Reaches(f, n, q)
  BY <1>9
<1> QED BY <1>10, CascadeIsChosen

\* A cascade holds the fact it starts at and every fact derived from what it holds: a
\* round that is not the last one adds a fact, and there are no more rounds to take
\* than facts to add.
LEMMA CascadeIsClosed ==
    ASSUME MemoryTypeOK, NEW f \in Stored
    PROVE  /\ f \in Cascaded(f)
           /\ Cascaded(f) \subseteq Stored
           /\ ChildrenOf(Cascaded(f)) \subseteq Cascaded(f)
<1>1. PICK n \in Nat : n = Cardinality(Stored)
  BY StoreIsFinite
<1>2. PICK r : Reaches(f, n, r) /\ Cascaded(f) = r[n]
  BY <1>1, CascadeExists
<1>3. r[0] = {f} /\ \A k \in 1 .. n : r[k] = r[k - 1] \cup ChildrenOf(r[k - 1])
  <2>1. \A k \in 0 .. n : r[k] = IF k = 0 THEN {f} ELSE r[k - 1] \cup ChildrenOf(r[k - 1])
    BY <1>2 DEF Reaches
  <2>2. 0 \in 0 .. n /\ \A k \in 1 .. n : k \in 0 .. n /\ k # 0
    BY <1>1
  <2> QED BY <2>1, <2>2
<1>4. \A S \in SUBSET Stored : IsFiniteSet(S) /\ Cardinality(S) \in Nat /\ Cardinality(S) <= n
  BY <1>1, StoreIsFinite, FS_Subset, FS_CardinalityType
<1> DEFINE Good(k) == /\ f \in r[k] /\ r[k] \subseteq Stored
                      /\ ChildrenOf(r[k]) \subseteq r[k] \/ Cardinality(r[k]) > k
           K == {k \in Nat : k <= n => Good(k)}
<1>5. 0 \in K
  <2>1. Cardinality({f}) = 1
    BY FS_Singleton
  <2>2. Cardinality(r[0]) > 0
    BY <1>3, <2>1
  <2>3. f \in r[0] /\ r[0] \subseteq Stored
    BY <1>3
  <2> QED BY <2>2, <2>3
<1>6. ASSUME NEW k \in Nat, k \in K PROVE k + 1 \in K
  <2> SUFFICES ASSUME k + 1 <= n PROVE Good(k + 1)
    OBVIOUS
  <2>1. PICK S, T : S = r[k] /\ T = r[k + 1]
    OBVIOUS
  <2>2. /\ f \in S /\ S \subseteq Stored
        /\ ChildrenOf(S) \subseteq S \/ Cardinality(S) > k
    BY <1>6, <2>1
  <2>3. T = S \cup ChildrenOf(S)
    <3>1. k + 1 \in 1 .. n /\ k + 1 - 1 = k
      OBVIOUS
    <3> QED BY <1>3, <2>1, <3>1
  <2>4. f \in T /\ T \subseteq Stored /\ S \subseteq T
    BY <2>2, <2>3 DEF ChildrenOf
  <2>5. CASE ChildrenOf(S) \subseteq S
    <3>1. T = S
      BY <2>3, <2>5
    <3> QED BY <2>1, <2>4, <2>5, <3>1
  <2>6. CASE ~(ChildrenOf(S) \subseteq S)
    <3>1. S # T
      BY <2>3, <2>6
    <3>2. Cardinality(S) < Cardinality(T)
      <4>1. IsFiniteSet(T)
        BY <1>4, <2>4
      <4>2. /\ Cardinality(S) <= Cardinality(T)
            /\ Cardinality(S) = Cardinality(T) => S = T
        BY <2>4, <4>1, FS_Subset
      <4>3. Cardinality(S) \in Nat /\ Cardinality(T) \in Nat
        BY <1>4, <2>2, <2>4
      <4> QED BY <3>1, <4>2, <4>3
    <3>3. Cardinality(S) > k /\ Cardinality(S) \in Nat /\ Cardinality(T) \in Nat
      BY <1>4, <2>2, <2>4, <2>6
    <3>4. Cardinality(T) > k + 1
      BY <3>2, <3>3
    <3> QED BY <2>1, <2>4, <3>4
  <2> QED BY <2>5, <2>6
<1> HIDE DEF K
<1>7. n \in K
  BY <1>5, <1>6, SetInduction
<1>8. Good(n)
  BY <1>7 DEF K
<1> QED BY <1>2, <1>4, <1>8

\* What lies downstream of a fact is in every cascade that holds the fact.
LEMMA CascadeHoldsDownstream ==
    ASSUME MemoryTypeOK, NEW g \in Stored, NEW f \in Cascaded(g)
    PROVE  Downstream(f) \subseteq Cascaded(g)
<1>1. PICK S : S = Cascaded(g)
  OBVIOUS
<1>2. S \in SUBSET Stored /\ f \in S /\ ChildrenOf(S) \subseteq S
  BY <1>1, CascadeIsClosed
<1>3. \A x \in Downstream(f) : x \in S
  BY <1>2 DEF Downstream
<1> QED BY <1>1, <1>3

\* A tombstone that a step adds gives the step's reason.
LEMMA TombstoneGivesReason ==
    ASSUME NEW S, NEW reason, reasons' = Tombstoned(S, reason),
           NEW f \in Live, f \in DOMAIN reasons'
    PROVE  f \in S /\ reasons'[f] = reason
BY DEF Tombstoned, Live, Forgotten

\* Only a revocation gives the reason "revoked", and only the sweeper gives "stale".
LEMMA WhoForgets ==
    ASSUME [MemoryNext]_memoryVars, NEW f \in Live, f \in DOMAIN reasons'
    PROVE  /\ reasons'[f] = "revoked" =>
                \E g \in Stored : Forget(g) /\ f \in Cascaded(g)
           /\ reasons'[f] = "stale" => f \in sweeping
<1>0. f \notin DOMAIN reasons
  BY DEF Live, Forgotten
<1>1. ASSUME NEW k \in Learners, Learn(k) PROVE FALSE
  BY <1>0, <1>1 DEF Learn, BeginLearn
<1>2. ASSUME NEW k \in Learners, Corroborate(k) \/ Save(k) PROVE FALSE
  BY <1>0, <1>2 DEF Corroborate, Save
<1>3. ASSUME NEW k \in Learners, Supersede(k) \/ RejectIncoming(k) \/ Contradict(k)
      PROVE  reasons'[f] \in {"superseded", "contradicted"}
  BY <1>3, TombstoneGivesReason DEF Supersede, RejectIncoming, Contradict
<1>4. ASSUME NEW g \in Stored, Forget(g) PROVE reasons'[f] = "revoked" /\ f \in Cascaded(g)
  BY <1>4, TombstoneGivesReason DEF Forget
<1>5. ASSUME NEW g \in sweeping, SweepNext(g) PROVE reasons'[f] = "stale" /\ f = g
  BY <1>5, TombstoneGivesReason DEF SweepNext
<1>6. ASSUME Reset PROVE FALSE
  BY <1>6 DEF Reset
<1>7. ASSUME SweepBegin \/ PassTime \/ UNCHANGED memoryVars PROVE FALSE
  BY <1>0, <1>7 DEF SweepBegin, PassTime, memoryVars
<1> QED BY <1>1, <1>2, <1>3, <1>4, <1>5, <1>6, <1>7 DEF MemoryNext

\* Revoking a fact forgets everything derived from it, for any slots and sightings and
\* however derivations run, through forgotten facts too.
THEOREM RevocationAlwaysReachesSubtree == MemorySpec => RevocationReachesSubtree
<1>1. MemoryTypeOK /\ [MemoryNext]_memoryVars
        => [\A f \in Live :
                (f \in DOMAIN reasons' /\ reasons'[f] = "revoked") =>
                    Downstream(f) \subseteq DOMAIN reasons']_memoryVars
  <2> SUFFICES ASSUME MemoryTypeOK, [MemoryNext]_memoryVars,
                      NEW f \in Live, f \in DOMAIN reasons', reasons'[f] = "revoked"
               PROVE  Downstream(f) \subseteq DOMAIN reasons'
    OBVIOUS
  <2>1. PICK g \in Stored : Forget(g) /\ f \in Cascaded(g)
    BY WhoForgets
  <2>2. Downstream(f) \subseteq Cascaded(g)
    BY <2>1, CascadeHoldsDownstream
  <2>3. DOMAIN reasons' = Forgotten \cup (Cascaded(g) \cap Live)
    BY <2>1 DEF Forget, Tombstoned
  <2>4. Downstream(f) \subseteq Stored
    BY DEF Downstream
  <2> QED BY <2>2, <2>3, <2>4 DEF Live
<1> QED BY <1>1, MemoryTypeCorrect, PTL DEF MemorySpec, RevocationReachesSubtree

-----------------------------------------------------------------------------
(* What the clock says of the facts, and what a confidence decides. *)

\* A claim as make_fact() builds it: uncorroborated, and not expired yet.
Unaged(f) == f.learned <= now /\ f.corroborations = 0 /\ ~Expired(f, f.learned)

\* No fact comes from the future, and no champion is younger than the claim it meets.
Dated ==
    /\ \A f \in Stored : facts[f].learned <= now
    /\ \A k \in Learners :
        /\ learning[k].at # "idle" => Unaged(learning[k].fact)
        /\ learning[k].at = "resolve" => learning[k].was.learned <= learning[k].fact.learned

\* What is made now is unaged.
LEMMA MadeIsUnaged ==
    ASSUME MemoryTypeOK, NEW slot, NEW value, NEW sigh \in Sightings, NEW parents
    PROVE  LET f == Made(slot, value, sigh, parents) IN f.learned = now /\ Unaged(f)
<1>1. sigh.ttl \in Nat /\ now \in Nat
  BY SightingAssumption, BoundAssumption DEF MemoryTypeOK
<1> QED BY <1>1 DEF Made, Unaged, Expired, Never

\* The dates are kept by whatever leaves the store and the requests alone.
LEMMA DatesStay ==
    ASSUME MemoryTypeOK, Dated, UNCHANGED <<facts, learning>>,
           now' \in Nat, now <= now'
    PROVE  Dated'
<1>1. now \in Nat /\ \A f \in Stored : facts[f].learned \in Nat
  <2>1. now \in Nat /\ \A f \in Stored : facts[f] \in Fact
    BY BoundAssumption DEF MemoryTypeOK
  <2> QED BY <2>1, FactNumbers
<1>2. \A k \in Learners : learning[k].at # "idle" => learning[k].fact.learned \in Nat
  <2>1. \A k \in Learners : learning[k].at # "idle" => learning[k].fact \in Fact
    BY DEF MemoryTypeOK, Request, Idle
  <2> QED BY <2>1, FactNumbers
<1> QED BY <1>1, <1>2 DEF Dated, Unaged, Expired, Stored

\* The dates are kept by every step.
LEMMA DatesAreKept ==
    MemoryTypeOK /\ MemoryTypeOK' /\ Dated /\ [MemoryNext]_memoryVars => Dated'
<1> SUFFICES ASSUME MemoryTypeOK, MemoryTypeOK', Dated, [MemoryNext]_memoryVars PROVE Dated'
  OBVIOUS
<1>0. now \in Nat /\ now' \in Nat
  BY BoundAssumption DEF MemoryTypeOK
<1>1. ASSUME NEW k \in Learners, Learn(k) PROVE Dated'
  <2>1. PICK slot \in Slots, padded \in Paddings, value \in Values, sigh \in Sightings,
             parents \in {{}} \cup {{f} : f \in Stored} :
          BeginLearn(k, slot, padded, value, sigh, parents)
    BY <1>1 DEF Learn
  <2>2. PICK f : f = Made(slot, value, sigh, parents)
    OBVIOUS
  <2>3. f.learned = now /\ Unaged(f)
    BY <2>2, MadeIsUnaged
  <2>4. UNCHANGED <<now, facts>> /\ DOMAIN learning = Learners
    BY <2>1 DEF BeginLearn, MemoryTypeOK
  <2>5. CASE learning' = [learning EXCEPT ![k] = Saving(made + 1, f)]
    BY <2>3, <2>4, <2>5 DEF Dated, Unaged, Saving, Stored
  <2>6. ASSUME NEW c \in Stored,
               learning' = [learning EXCEPT ![k] = Resolving(made + 1, f, c)]
        PROVE  Dated'
    BY <2>3, <2>4, <2>6 DEF Dated, Unaged, Resolving, Stored
  <2> QED BY <2>1, <2>2, <2>5, <2>6 DEF BeginLearn, Strongest, Claimants, Live
<1>2. ASSUME NEW k \in Learners, Corroborate(k) PROVE Dated'
  <2>1. PICK c, f : c = learning[k].champion
                    /\ f = [learning[k].was EXCEPT !.corroborations = @ + 1]
    OBVIOUS
  <2>2. /\ facts' = Saved(c, f) /\ UNCHANGED now
        /\ learning' = [learning EXCEPT ![k] = Idle] /\ learning[k].at = "resolve"
    BY <1>2, <2>1 DEF Corroborate, Meets, Ends
  <2>3. f.learned = learning[k].was.learned
    BY <2>1
  <2>4. f.learned <= now
    <3>1. learning[k].was \in Fact /\ learning[k].fact \in Fact
      BY <2>2 DEF MemoryTypeOK, Request, Idle
    <3>2. learning[k].was.learned \in Nat /\ learning[k].fact.learned \in Nat
      BY <3>1, FactNumbers
    <3> QED BY <1>0, <2>2, <2>3, <3>2 DEF Dated, Unaged
  <2>5. \A g \in Stored' : facts'[g].learned <= now'
    BY <2>2, <2>4 DEF Dated, Saved, Stored
  <2> QED BY <2>2, <2>5 DEF Dated, Unaged, Idle, MemoryTypeOK
<1>3. ASSUME NEW k \in Learners, Supersede(k) PROVE Dated'
  <2>1. /\ learning' = [learning EXCEPT ![k] = Saving(learning[k].id, learning[k].fact)]
        /\ UNCHANGED <<now, facts>> /\ learning[k].at = "resolve"
    BY <1>3 DEF Supersede, Meets
  <2> QED BY <2>1 DEF Dated, Unaged, Saving, Stored, MemoryTypeOK
<1>4. ASSUME NEW k \in Learners, RejectIncoming(k) \/ Contradict(k) PROVE Dated'
  <2>1. learning' = [learning EXCEPT ![k] = Idle] /\ UNCHANGED <<now, facts>>
    BY <1>4 DEF RejectIncoming, Contradict, Ends
  <2> QED BY <2>1 DEF Dated, Unaged, Idle, Stored, MemoryTypeOK
<1>5. ASSUME NEW k \in Learners, Save(k) PROVE Dated'
  <2>1. /\ facts' = Saved(learning[k].id, learning[k].fact) /\ UNCHANGED now
        /\ learning' = [learning EXCEPT ![k] = Idle] /\ learning[k].at = "save"
    BY <1>5 DEF Save, Ends
  <2>2. learning[k].fact.learned <= now
    BY <2>1 DEF Dated, Unaged
  <2>3. \A g \in Stored' : facts'[g].learned <= now'
    BY <2>1, <2>2 DEF Dated, Saved, Stored
  <2> QED BY <2>1, <2>3 DEF Dated, Unaged, Idle, MemoryTypeOK
<1>6. ASSUME UNCHANGED <<now, facts, learning>> PROVE Dated'
  BY <1>0, <1>6, DatesStay
<1>7. CASE Reset
  BY <1>7 DEF Reset, Dated, Unaged, Stored
<1>8. CASE PassTime
  BY <1>0, <1>8, DatesStay DEF PassTime
<1> QED BY <1>1, <1>2, <1>3, <1>4, <1>5, <1>6, <1>7, <1>8
        DEF MemoryNext, Forget, SweepBegin, SweepNext, memoryVars

\* Whatever is in the store was learnt before.
LEMMA DatedAlways == MemorySpec => [](MemoryTypeOK /\ Dated)
<1>1. MemoryInit => Dated
  BY DEF MemoryInit, Dated, Idle, Stored
<1> QED BY <1>1, DatesAreKept, MemoryTypeCorrect, PTL DEF MemorySpec

\* The sweeper names nothing that recall() would rely on, at any age and with any TTL and
\* number of corroborations, since its floor lies below the one of recall(); and it forgets
\* nothing that it has not named.
THEOREM SweepAlwaysSparesRelied == MemorySpec => SweepSparesRelied
<1>1. ASSUME MemoryTypeOK, Dated, NEW f \in Stale, ReliedOn(f) PROVE FALSE
  <2>1. f \in Live /\ f \in Stored /\ Confidence(facts[f], now) >= 250
    BY <1>1 DEF ReliedOn, RelyFloor, Stale
  <2>3. CASE Expired(facts[f], now)
    BY <2>1, <2>3 DEF Confidence
  <2>4. CASE Confidence(facts[f], now) < 200
    <3>1. PICK g \in Fact : g = facts[f] /\ g.learned <= now
      BY <1>1, <2>1 DEF MemoryTypeOK, Dated
    <3>2. now \in Nat
      BY <1>1, BoundAssumption DEF MemoryTypeOK
    <3>3. Confidence(g, now) \in Int
      BY <3>1, <3>2, ConfidenceIsBounded
    <3>4. PICK c \in Int : c = Confidence(facts[f], now)
      BY <3>1, <3>3
    <3> QED BY <2>1, <2>4, <3>4
  <2> QED BY <2>3, <2>4 DEF Stale, UsefulnessFloor
<1>2. ASSUME [MemoryNext]_memoryVars, NEW f \in sweeping' \ sweeping PROVE f \in Stale
  <2>1. ASSUME NEW k \in Learners,
               \/ Learn(k) \/ Corroborate(k) \/ Supersede(k)
               \/ RejectIncoming(k) \/ Contradict(k) \/ Save(k)
        PROVE  sweeping' = sweeping
    BY <2>1 DEF Learn, BeginLearn, Corroborate, Supersede, RejectIncoming, Contradict, Save
  <2>2. SweepBegin => f \in Stale
    BY <1>2 DEF SweepBegin
  <2>3. ASSUME NEW g \in sweeping, SweepNext(g) PROVE sweeping' \subseteq sweeping
    BY <2>3 DEF SweepNext
  <2>4. (\E g \in Stored : Forget(g)) \/ Reset \/ PassTime \/ UNCHANGED memoryVars
            => sweeping' = sweeping
    BY DEF Forget, Reset, PassTime, memoryVars
  <2> QED BY <1>2, <2>1, <2>2, <2>3, <2>4 DEF MemoryNext
<1>3. MemoryTypeOK /\ Dated /\ [MemoryNext]_memoryVars
        => [/\ \A f \in sweeping' \ sweeping : ~ReliedOn(f)
            /\ \A f \in Live :
                (f \in DOMAIN reasons' /\ reasons'[f] = "stale") => f \in sweeping]_memoryVars
  BY <1>1, <1>2, WhoForgets
<1> QED BY <1>3, DatedAlways, PTL DEF MemorySpec, SweepSparesRelied

\* What the user states with confidence is never turned down: a fact is worth 1000 at
\* most, which is no decisive margin above 900.
LEMMA UserIsNotRejected ==
    ASSUME MemoryTypeOK, Dated, NEW k \in Learners, Meets(k, "reject_incoming"),
           learning[k].fact.base >= 900
    PROVE  FALSE
<1>1. learning[k] \in Request /\ learning[k].at = "resolve"
  BY DEF Meets, MemoryTypeOK
<1>2. PICK f \in Fact, w \in Fact : f = learning[k].fact /\ w = learning[k].was
  BY <1>1, SMTT(30) DEF Request, Idle
<1>3. f.corroborations = 0 /\ ~Expired(f, f.learned) /\ w.learned <= f.learned
  BY <1>1, <1>2 DEF Dated, Unaged
<1>4. f.base \in Int /\ f.learned \in Nat
  BY <1>2, FactNumbers
<1>5. Confidence(f, f.learned) = f.base
  BY <1>2, <1>3, ConfidenceWhenLearnt
<1>6. Confidence(w, f.learned) \in Int /\ Confidence(w, f.learned) <= 1000
  BY <1>2, <1>3, <1>4, ConfidenceIsBounded
<1>7. PICK claimed, existing :
        claimed = Confidence(f, f.learned) /\ existing = Confidence(w, f.learned)
  OBVIOUS
<1>8. claimed \in Int /\ existing \in Int /\ claimed >= 900 /\ existing <= 1000
  BY <1>2, <1>4, <1>5, <1>6, <1>7
<1>9. Resolution(w, f, f.learned) # "reject_incoming"
  <2>1. (claimed - existing < 150 /\ existing - claimed < 150) \/ claimed > existing
    BY <1>8
  <2> QED BY <1>7, <2>1 DEF Resolution, DecisiveMargin
<1> QED BY <1>2, <1>9 DEF Meets

\* How a request ends: its claim is saved, its champion is corroborated, both are
\* forgotten, or the claim is turned down.
LEMMA HowRequestsEnd ==
    ASSUME [MemoryNext]_memoryVars, NEW k \in Learners,
           learning[k].at # "idle", learning'[k].at = "idle", MemoryTypeOK
    PROVE  Corroborate(k) \/ RejectIncoming(k) \/ Contradict(k) \/ Save(k)
<1>0. DOMAIN learning = Learners
  BY DEF MemoryTypeOK
<1>1. ASSUME NEW l \in Learners, Learn(l) PROVE FALSE
  <2>1. learning[l].at = "idle" /\ \E d : learning' = [learning EXCEPT ![l] = d]
    BY <1>1 DEF Learn, BeginLearn, IsIdle
  <2> QED BY <1>0, <2>1
<1>2. ASSUME NEW l \in Learners, Supersede(l) PROVE FALSE
  <2>1. PICK d : learning' = [learning EXCEPT ![l] = d] /\ d.at = "save"
    BY <1>2 DEF Supersede, Saving
  <2> QED BY <1>0, <2>1
<1>3. ASSUME NEW l \in Learners,
             Corroborate(l) \/ RejectIncoming(l) \/ Contradict(l) \/ Save(l)
      PROVE  Corroborate(k) \/ RejectIncoming(k) \/ Contradict(k) \/ Save(k)
  <2>1. learning' = [learning EXCEPT ![l] = Idle]
    BY <1>3 DEF Corroborate, RejectIncoming, Contradict, Save, Ends
  <2>2. l = k
    BY <1>0, <2>1
  <2> QED BY <1>3, <2>2
<1>4. learning' # learning
  OBVIOUS
<1> QED BY <1>1, <1>2, <1>3, <1>4
        DEF MemoryNext, Forget, SweepBegin, SweepNext, Reset, PassTime, memoryVars

\* What the user states with confidence is the slot's only answer when the request ends,
\* or there is none, whatever older claim it met and whatever is revoked, swept or learnt
\* of other slots while it runs; unless requests that overlap have learnt the slot or one
\* spelled it with blanks.
THEOREM UserWordAlwaysPrevails == MemorySpec => UserWordPrevails
<1> DEFINE Prevails(k) ==
        LET f == learning[k].fact
        IN  (learning[k].at # "idle" /\ learning'[k].at = "idle"
                /\ f.kind = "user_stated" /\ f.base >= 900 /\ f.slot \notin contested)
            => \A g \in DOMAIN facts' \ DOMAIN reasons' :
                facts'[g].slot = f.slot => facts'[g].value = f.value
<1>1. MemoryTypeOK /\ Dated /\ ClaimInv /\ [MemoryNext]_memoryVars
        => \A k \in Learners : Prevails(k)
  <2> SUFFICES ASSUME MemoryTypeOK, Dated, ClaimInv, [MemoryNext]_memoryVars,
                      NEW k \in Learners, learning[k].at # "idle", learning'[k].at = "idle",
                      learning[k].fact.base >= 900, learning[k].fact.slot \notin contested,
                      NEW g \in DOMAIN facts' \ DOMAIN reasons',
                      facts'[g].slot = learning[k].fact.slot
               PROVE  facts'[g].value = learning[k].fact.value
    OBVIOUS
  <2>1. CASE Save(k)
    <3>1. \A h \in Live : facts[h].slot # learning[k].fact.slot
      BY <2>1 DEF Save, ClaimInv, SlotIsWatched, Lonely
    <3> QED BY <2>1, <3>1 DEF Save, Saved, Live, Stored, Forgotten
  <2>2. CASE Corroborate(k)
    <3>1. /\ learning[k].was.value = learning[k].fact.value
          /\ \A h \in Live :
                facts[h].slot = learning[k].fact.slot => h = learning[k].champion
      BY <2>2 DEF Corroborate, Meets, Resolution, ClaimInv, SlotIsWatched, Lonely
    <3>2. PICK c, f : c = learning[k].champion
                      /\ f = [learning[k].was EXCEPT !.corroborations = @ + 1]
      OBVIOUS
    <3>3. facts' = Saved(c, f) /\ UNCHANGED reasons /\ f.value = learning[k].was.value
      BY <2>2, <3>2 DEF Corroborate
    <3> QED BY <3>1, <3>2, <3>3 DEF Saved, Live, Stored, Forgotten
  <2>3. CASE Contradict(k)
    <3>1. \A h \in Live : facts[h].slot = learning[k].fact.slot => h = learning[k].champion
      BY <2>3 DEF Contradict, Meets, ClaimInv, SlotIsWatched, Lonely
    <3>2. Live' = Live \ {learning[k].champion, learning[k].id} /\ UNCHANGED facts
      BY <2>3, TombstonesForget DEF Contradict
    <3> QED BY <3>1, <3>2 DEF Live, Stored, Forgotten
  <2>4. CASE RejectIncoming(k)
    BY <2>4, UserIsNotRejected DEF RejectIncoming
  <2> QED BY <2>1, <2>2, <2>3, <2>4, HowRequestsEnd
<1>2. MemoryTypeOK /\ Dated /\ ClaimInv /\ [MemoryNext]_memoryVars
        => [\A k \in Learners : Prevails(k)]_memoryVars
  BY <1>1
<1> QED BY <1>2, DatedAlways, ClaimsAlways, PTL DEF MemorySpec, UserWordPrevails
=============================================================================
