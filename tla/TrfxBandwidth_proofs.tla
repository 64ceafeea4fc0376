------------------------ MODULE TrfxBandwidth_proofs ------------------------
(***************************************************************************)
(* The history of samples is what it should be for a ring of any size, any *)
(* interfaces, counters of any width and any clock, and the bytes taken    *)
(* from two samples are never more than were moved.  What is computed from *)
(* it neither loses nor invents traffic: the trend ends in the report, the *)
(* total counts what was counted on, and the flows share it out.           *)
(*                                                                         *)
(* Sums over a finite set are taken apart by induction.  The theorems of   *)
(* the library that say so have an operator as a parameter; here the       *)
(* instances of a statement that hold are collected in a set instead, and  *)
(* the statement is that nothing is left out of it.                        *)
(***************************************************************************)
EXTENDS TrfxBandwidth, SequenceTheorems, FiniteSetTheorems, WellFoundedInduction, TLAPS

(* Reduction modulo n of a number below 2n. *)
LEMMA Reduce ==
  ASSUME NEW n \in Nat \ {0}, NEW a \in 0 .. 2 * n - 1
  PROVE  a % n = IF a < n THEN a ELSE a - n
<1>1. CASE a < n
  BY <1>1, SMT
<1>2. CASE a >= n
  BY <1>2, SMT
<1>. QED BY <1>1, <1>2

(* Where the sample with an index is, without the %. *)
LEMMA SlotIs ==
  ASSUME NEW h \in Slots, NEW index \in 0 .. HISTORY
  PROVE  /\ (h + index) % HISTORY =
              IF h + index < HISTORY THEN h + index ELSE h + index - HISTORY
         /\ (h + index) % HISTORY \in Slots
<1> DEFINE a == h + index
<1>1. HISTORY \in Nat \ {0} /\ a \in 0 .. 2 * HISTORY - 1
  BY SamplesAssumption DEF Slots
<1>2. a % HISTORY = IF a < HISTORY THEN a ELSE a - HISTORY
  BY <1>1, Reduce
<1>. QED BY <1>1, <1>2 DEF Slots

(* The inductive invariant: the ring, that the last sample is the kernel's *)
(* state, and that what was moved since the one before covers the          *)
(* difference.                                                             *)
LastIsKernel == latest # << >> => latest[Len(latest)].stats = kernel

MovedCovers ==
  Len(latest) >= 2 =>
    \A i \in Listed(kernel) :
      Delta(latest[Len(latest) - 1].stats, kernel, i) <= moved[i]

SamplesInv == TypeOK /\ Len(latest) <= HISTORY /\ RingIsLatest /\ LastIsKernel /\ MovedCovers

LEMMA SamplesInvInit == Init => SamplesInv
<1>. SUFFICES ASSUME Init PROVE SamplesInv
  OBVIOUS
<1>1. TypeOK /\ Len(latest) <= HISTORY
  BY SamplesAssumption DEF Init, TypeOK, Slots, Bytes
<1>2. RingIsLatest /\ LastIsKernel /\ MovedCovers
  BY DEF Init, RingIsLatest, LastIsKernel, MovedCovers
<1>. QED BY <1>1, <1>2 DEF SamplesInv

(* A push adds the sample at the end, and takes the oldest from a full     *)
(* history.                                                                *)
LEMMA ExtendedIs ==
  ASSUME SamplesInv, NEW sample \in Samples
  PROVE  /\ Extended(sample) \in Seq(Samples)
         /\ Len(Extended(sample)) = IF count < HISTORY THEN count + 1 ELSE HISTORY
         /\ Extended(sample)[Len(Extended(sample))] = sample
         /\ count < HISTORY => \A k \in 1 .. count : Extended(sample)[k] = latest[k]
         /\ count = HISTORY => \A k \in 1 .. HISTORY - 1 : Extended(sample)[k] = latest[k + 1]
<1>1. /\ latest \in Seq(Samples) /\ count = Len(latest) /\ count \in 0 .. HISTORY
      /\ HISTORY \in Nat \ {0}
  BY SamplesAssumption DEF SamplesInv, TypeOK, RingIsLatest
<1>2. CASE count < HISTORY
  <2>1. Extended(sample) = Append(latest, sample)
    BY <1>1, <1>2 DEF Extended
  <2>2. /\ Append(latest, sample) \in Seq(Samples)
        /\ Len(Append(latest, sample)) = count + 1
        /\ \A k \in 1 .. count : Append(latest, sample)[k] = latest[k]
        /\ Append(latest, sample)[count + 1] = sample
    BY <1>1, AppendProperties
  <2>. QED BY <1>1, <1>2, <2>1, <2>2
<1>3. CASE count = HISTORY
  <2> DEFINE rest == Tail(latest)
  <2>1. Extended(sample) = Append(rest, sample)
    <3>1. ~(Len(latest) < HISTORY)
      BY <1>1, <1>3
    <3>. QED BY <3>1 DEF Extended
  <2>2. latest # << >>
    BY <1>1, <1>3
  <2>3. /\ rest \in Seq(Samples) /\ Len(rest) = HISTORY - 1
        /\ \A k \in 1 .. HISTORY - 1 : rest[k] = latest[k + 1]
    BY <1>1, <1>3, <2>2, HeadTailProperties
  <2>. HIDE DEF rest
  <2>4. /\ Append(rest, sample) \in Seq(Samples)
        /\ Len(Append(rest, sample)) = HISTORY
        /\ \A k \in 1 .. HISTORY - 1 : Append(rest, sample)[k] = rest[k]
        /\ Append(rest, sample)[HISTORY] = sample
    BY <1>1, <2>3, AppendProperties
  <2>. QED BY <1>1, <1>3, <2>1, <2>3, <2>4
<1>. QED BY <1>1, <1>2, <1>3

(* The ring reads back as the history after a push. *)
LEMMA PushKeepsRing ==
  ASSUME SamplesInv, NEW sample \in Samples, Push(sample), latest' = Extended(sample)
  PROVE  /\ samples' \in [Slots -> Samples \cup {Unused}]
         /\ head' \in Slots /\ count' \in 0 .. HISTORY
         /\ RingIsLatest'
<1>1. /\ head \in Slots /\ count \in 0 .. HISTORY /\ HISTORY \in Nat \ {0}
      /\ samples \in [Slots -> Samples \cup {Unused}]
  BY SamplesAssumption DEF SamplesInv, TypeOK
<1> DEFINE slot == (head + count) % HISTORY
<1>2. slot \in Slots
      /\ slot = IF head + count < HISTORY THEN head + count ELSE head + count - HISTORY
  BY <1>1, SlotIs
<1>3. samples' = [samples EXCEPT ![slot] = sample]
  BY DEF Push
<1>4. samples' \in [Slots -> Samples \cup {Unused}] /\ samples'[slot] = sample
      /\ \A s \in Slots : s # slot => samples'[s] = samples[s]
  BY <1>1, <1>2, <1>3
<1>5. \A k \in 1 .. count : samples[(head + (k - 1)) % HISTORY] = latest[k]
  BY DEF SamplesInv, RingIsLatest, At
<1>6. CASE count < HISTORY
  <2>1. count' = count + 1 /\ head' = head
    BY <1>6 DEF Push
  <2>2. Len(latest') = count + 1 /\ latest'[count + 1] = sample
        /\ \A k \in 1 .. count : latest'[k] = latest[k]
    BY <1>6, ExtendedIs
  <2>3. ASSUME NEW k \in 1 .. count
        PROVE  samples'[(head + (k - 1)) % HISTORY] = latest'[k]
    <3>1. k - 1 \in 0 .. HISTORY
      BY <1>1
    <3>2. (head + (k - 1)) % HISTORY \in Slots
          /\ (head + (k - 1)) % HISTORY =
               IF head + (k - 1) < HISTORY THEN head + (k - 1) ELSE head + (k - 1) - HISTORY
      BY <1>1, <3>1, SlotIs
    <3>3. (head + (k - 1)) % HISTORY # slot
      BY <1>1, <1>2, <1>6, <3>2 DEF Slots
    <3>. QED BY <1>4, <1>5, <2>2, <3>2, <3>3
  <2>4. samples'[(head + ((count + 1) - 1)) % HISTORY] = latest'[count + 1]
    <3>1. head + ((count + 1) - 1) = head + count
      BY <1>1 DEF Slots
    <3>. QED BY <1>4, <2>2, <3>1
  <2>5. \A k \in 1 .. count' : samples'[(head' + (k - 1)) % HISTORY] = latest'[k]
    BY <1>1, <2>1, <2>3, <2>4
  <2>. QED BY <1>1, <1>4, <1>6, <2>1, <2>2, <2>5 DEF RingIsLatest, At
<1>7. CASE count = HISTORY
  <2>1. count' = count /\ head' = (head + 1) % HISTORY
    BY <1>1, <1>7 DEF Push
  <2>2. head' \in Slots /\ head' = IF head + 1 < HISTORY THEN head + 1 ELSE head + 1 - HISTORY
    BY <1>1, <2>1, SlotIs
  <2>3. Len(latest') = HISTORY /\ latest'[HISTORY] = sample
        /\ \A k \in 1 .. HISTORY - 1 : latest'[k] = latest[k + 1]
    BY <1>1, <1>7, ExtendedIs
  <2>4. slot = head
    BY <1>1, <1>2, <1>7 DEF Slots
  <2>5. ASSUME NEW k \in 1 .. HISTORY
        PROVE  samples'[(head' + (k - 1)) % HISTORY] = latest'[k]
    <3>1. k - 1 \in 0 .. HISTORY /\ k \in 0 .. HISTORY
      BY <1>1
    <3>2. (head' + (k - 1)) % HISTORY \in Slots
          /\ (head' + (k - 1)) % HISTORY =
               IF head' + (k - 1) < HISTORY THEN head' + (k - 1) ELSE head' + (k - 1) - HISTORY
      BY <2>2, <3>1, SlotIs
    <3>3. CASE k = HISTORY
      <4>1. (head' + (k - 1)) % HISTORY = slot
        BY <1>1, <2>2, <2>4, <3>2, <3>3 DEF Slots
      <4>. QED BY <1>4, <2>3, <3>3, <4>1
    <3>4. CASE k < HISTORY
      <4>1. k + 1 \in 1 .. count /\ k \in 1 .. HISTORY - 1
        BY <1>1, <1>7, <3>4
      <4>2. (head + ((k + 1) - 1)) % HISTORY =
              IF head + k < HISTORY THEN head + k ELSE head + k - HISTORY
        <5>1. head + ((k + 1) - 1) = head + k
          BY <1>1 DEF Slots
        <5>. QED BY <1>1, <3>1, <5>1, SlotIs
      <4>3. (head' + (k - 1)) % HISTORY = (head + ((k + 1) - 1)) % HISTORY
        BY <1>1, <2>2, <3>2, <3>4, <4>2 DEF Slots
      <4>4. (head' + (k - 1)) % HISTORY # slot
        BY <1>1, <2>2, <2>4, <3>2, <3>4 DEF Slots
      <4>5. samples'[(head' + (k - 1)) % HISTORY] = samples[(head + ((k + 1) - 1)) % HISTORY]
        BY <1>4, <3>2, <4>3, <4>4
      <4>. QED BY <1>5, <2>3, <4>1, <4>5
    <3>. QED BY <1>1, <3>3, <3>4
  <2>. QED BY <1>1, <1>4, <1>7, <2>1, <2>2, <2>3, <2>5 DEF RingIsLatest, At
<1>. QED BY <1>1, <1>6, <1>7

(* What the kernel may do in a round covers the difference it makes. *)
LEMMA DeltaIsCovered ==
  ASSUME SamplesInv, NEW i \in Interfaces, NEW bytes \in Bytes,
         NEW stats \in Stats, stats[i] # Absent,
         CountsOn(i, bytes, stats[i]) \/ Restarts(i, bytes, stats[i])
           \/ Vanishes(i, bytes, stats[i]) \/ Appears(i, bytes, stats[i])
  PROVE  Delta(kernel, stats, i) <= bytes
<1>1. /\ kernel[i] \in Counters \cup {Absent} /\ stats[i] \in Counters
      /\ Modulus \in Nat \ {0} /\ bytes \in Nat
  BY SamplesAssumption DEF SamplesInv, TypeOK, Stats, Bytes
<1>2. CASE kernel[i] = Absent \/ ~(stats[i] >= kernel[i])
  BY <1>1, <1>2 DEF Delta
<1>3. CASE kernel[i] # Absent /\ stats[i] >= kernel[i]
  <2>1. Delta(kernel, stats, i) = stats[i] - kernel[i] /\ kernel[i] \in Counters
    BY <1>1, <1>3 DEF Delta
  <2>2. stats[i] <= kernel[i] + bytes
    <3>1. CASE CountsOn(i, bytes, stats[i])
      <4> DEFINE a == kernel[i] + bytes
      <4>1. a \in Nat /\ stats[i] = a % Modulus
        BY <1>1, <2>1, <3>1 DEF CountsOn, Counters
      <4>2. a % Modulus <= a
        <5>1. a % Modulus \in 0 .. Modulus - 1
          BY <1>1, <4>1
        <5>2. CASE a < Modulus
          <6>1. a \in 0 .. 2 * Modulus - 1
            BY <1>1, <4>1, <5>2
          <6>. QED BY <1>1, <4>1, <5>2, <6>1, Reduce
        <5>3. CASE a >= Modulus
          BY <1>1, <4>1, <5>1, <5>3
        <5>. QED BY <1>1, <4>1, <5>2, <5>3
      <4>. QED BY <4>1, <4>2
    <3>2. CASE Restarts(i, bytes, stats[i])
      BY <1>1, <2>1, <3>2 DEF Restarts, Counters
    <3>3. ~Vanishes(i, bytes, stats[i]) /\ ~Appears(i, bytes, stats[i])
      BY <1>3 DEF Vanishes, Appears
    <3>. QED BY <3>1, <3>2, <3>3
  <2>. QED BY <1>1, <2>1, <2>2 DEF Counters
<1>. QED BY <1>2, <1>3

LEMMA SamplesInvNext == SamplesInv /\ [Next]_vars => SamplesInv'
<1>. SUFFICES ASSUME SamplesInv, [Next]_vars PROVE SamplesInv'
  OBVIOUS
<1>1. CASE UNCHANGED vars
  BY <1>1 DEF vars, ring, SamplesInv, TypeOK, RingIsLatest, LastIsKernel, MovedCovers, At
<1>2. CASE Round
  <2>1. PICK bytes \in [Interfaces -> Bytes], stats \in Stats, at \in Times :
          /\ \A i \in Interfaces :
               \/ CountsOn(i, bytes[i], stats[i])
               \/ Restarts(i, bytes[i], stats[i])
               \/ Vanishes(i, bytes[i], stats[i])
               \/ Appears(i, bytes[i], stats[i])
          /\ Push([at |-> at, stats |-> stats])
          /\ kernel' = stats
          /\ moved' = bytes
          /\ latest' = Extended([at |-> at, stats |-> stats])
    BY <1>2 DEF Round
  <2> DEFINE sample == [at |-> at, stats |-> stats]
  <2>2. sample \in Samples
    BY DEF Samples
  <2>3. /\ samples' \in [Slots -> Samples \cup {Unused}]
        /\ head' \in Slots /\ count' \in 0 .. HISTORY
        /\ RingIsLatest'
    BY <2>1, <2>2, PushKeepsRing
  <2>. HIDE DEF sample
  <2>4. /\ latest' \in Seq(Samples)
        /\ Len(latest') = IF count < HISTORY THEN count + 1 ELSE HISTORY
        /\ latest'[Len(latest')] = sample
        /\ count < HISTORY => \A k \in 1 .. count : latest'[k] = latest[k]
        /\ count = HISTORY => \A k \in 1 .. HISTORY - 1 : latest'[k] = latest[k + 1]
    BY <2>1, <2>2, ExtendedIs DEF sample
  <2>5. count \in 0 .. HISTORY /\ HISTORY \in Nat \ {0} /\ count = Len(latest)
    BY SamplesAssumption DEF SamplesInv, TypeOK, RingIsLatest
  <2>6. TypeOK' /\ Len(latest') <= HISTORY
    BY <2>1, <2>3, <2>4, <2>5 DEF TypeOK
  <2>7. LastIsKernel'
    BY <2>1, <2>4 DEF LastIsKernel, sample
  <2>8. Len(latest') >= 2 => latest'[Len(latest') - 1].stats = kernel
    <3>. SUFFICES ASSUME Len(latest') >= 2
         PROVE  latest'[Len(latest') - 1].stats = kernel
      OBVIOUS
    <3>1. count >= 1 /\ latest # << >>
      BY <2>4, <2>5
    <3>2. latest'[Len(latest') - 1] = latest[Len(latest)]
      <4>1. CASE count < HISTORY
        BY <2>4, <2>5, <3>1, <4>1
      <4>2. CASE count = HISTORY
        BY <2>4, <2>5, <3>1, <4>2
      <4>. QED BY <2>5, <4>1, <4>2
    <3>. QED BY <3>1, <3>2 DEF SamplesInv, LastIsKernel
  <2>9. MovedCovers'
    <3>. SUFFICES ASSUME Len(latest') >= 2, NEW i \in Listed(stats)
         PROVE  Delta(latest'[Len(latest') - 1].stats, stats, i) <= bytes[i]
      BY <2>1 DEF MovedCovers
    <3>1. Delta(kernel, stats, i) <= bytes[i]
      <4>1. i \in Interfaces /\ stats[i] # Absent /\ bytes[i] \in Bytes
        BY <2>1 DEF Listed
      <4>. QED BY <2>1, <4>1, DeltaIsCovered
    <3>. QED BY <2>8, <3>1
  <2>. QED BY <2>3, <2>6, <2>7, <2>9 DEF SamplesInv
<1>. QED BY <1>1, <1>2 DEF Next

-----------------------------------------------------------------------------
(* Every variable of the history keeps its type: the index and the count   *)
(* stay in the array (trfx_network_sample_buffer_push).                    *)
THEOREM SamplesTypes == Spec => []TypeOK
<1>1. SamplesInv => TypeOK
  BY DEF SamplesInv
<1>. QED BY <1>1, SamplesInvInit, SamplesInvNext, PTL DEF Spec

(* The ring holds the latest samples, oldest first, for any size           *)
(* (trfx_network_sample_buffer_push, trfx_network_sample_buffer_at).       *)
THEOREM RingHoldsLatest == Spec => []RingIsLatest
<1>1. SamplesInv => RingIsLatest
  BY DEF SamplesInv
<1>. QED BY <1>1, SamplesInvInit, SamplesInvNext, PTL DEF Spec

(* No reset, wrap or hot plug, and no turn of the ring, makes              *)
(* trfx_calculate_interface_rates see bytes that were not moved.           *)
THEOREM NoPhantomTraffic == Spec => []NoPhantomBytes
<1>1. SamplesInv => NoPhantomBytes
  <2>. SUFFICES ASSUME SamplesInv, count >= 2, NEW i \in Listed(At(count - 1).stats)
       PROVE  Delta(At(count - 2).stats, At(count - 1).stats, i) <= moved[i]
    BY DEF NoPhantomBytes
  <2>1. count \in Nat /\ count = Len(latest) /\ \A k \in 1 .. count : At(k - 1) = latest[k]
    BY SamplesAssumption DEF SamplesInv, TypeOK, RingIsLatest
  <2>2. At(count - 1) = latest[count] /\ At((count - 1) - 1) = latest[count - 1]
    BY <2>1
  <2>3. (count - 1) - 1 = count - 2
    BY <2>1
  <2>4. At(count - 2) = latest[count - 1]
    BY <2>2, <2>3
  <2>5. latest[count].stats = kernel
    BY <2>1 DEF SamplesInv, LastIsKernel
  <2>. QED BY <2>1, <2>2, <2>4, <2>5 DEF SamplesInv, MovedCovers
<1>. QED BY <1>1, SamplesInvInit, SamplesInvNext, PTL DEF Spec

-----------------------------------------------------------------------------
(* Induction over the natural numbers and over the subsets of a finite set, *)
(* with the instances that are shown collected in a set.                    *)
LEMMA NatSetInduction ==
  ASSUME NEW G, 0 \in G, \A n \in Nat : n \in G => n + 1 \in G
  PROVE  Nat \subseteq G
<1> DEFINE bad == Nat \ G
<1>. SUFFICES ASSUME bad # {} PROVE FALSE
  OBVIOUS
<1>1. PICK n \in bad : \A m \in bad : <<m, n>> \notin OpToRel(<, Nat)
  <2>1. bad \subseteq Nat
    OBVIOUS
  <2>. QED BY <2>1, WFMin, NatLessThanWellFounded, Zenon
<1>2. \A m \in bad : ~(m < n)
  BY <1>1, Zenon DEF OpToRel
<1>3. n \in Nat /\ n # 0
  BY <1>1
<1>4. n - 1 \in Nat /\ n - 1 < n /\ (n - 1) + 1 = n
  BY <1>3
<1>5. n - 1 \in G
  BY <1>2, <1>4
<1>. QED BY <1>1, <1>4, <1>5

LEMMA SubsetInduction ==
  ASSUME NEW S, IsFiniteSet(S), NEW G,
         \A T \in SUBSET S : (\A x \in T : T \ {x} \in G) => T \in G
  PROVE  SUBSET S \subseteq G
<1> DEFINE bad == (SUBSET S) \ G
<1>. SUFFICES ASSUME bad # {} PROVE FALSE
  OBVIOUS
<1>1. IsWellFoundedOn(StrictSubsetOrdering(S), SUBSET S)
  <2>1. FiniteSubsetsOf(S) = SUBSET S
    BY FS_FiniteSubsetsOfFinite
  <2>2. IsWellFoundedOn(StrictSubsetOrdering(S), FiniteSubsetsOf(S))
    BY FS_StrictSubsetOrderingWellFounded
  <2>. QED BY <2>1, <2>2, Zenon
<1>2. PICK T \in bad : \A U \in bad : <<U, T>> \notin StrictSubsetOrdering(S)
  <2>1. bad \subseteq SUBSET S
    OBVIOUS
  <2>. QED BY <1>1, <2>1, WFMin, Zenon
<1>3. ASSUME NEW x \in T PROVE T \ {x} \in G
  <2>1. <<T \ {x}, T>> \in StrictSubsetOrdering(S)
    BY <1>2 DEF StrictSubsetOrdering
  <2>. QED BY <1>2, <2>1
<1>. QED BY <1>2, <1>3

-----------------------------------------------------------------------------
(* g is the sum of f over each subset of S, taken apart by c. *)
Picks(c, S) == \A s \in SUBSET S : s # {} => c[s] \in s

IsSum(g, f, c, S) ==
  g = [s \in SUBSET S |-> IF s = {} THEN 0 ELSE f[c[s]] + g[s \ {c[s]}]]

LEMMA SumDefined ==
  ASSUME NEW S, IsFiniteSet(S), NEW f, NEW c, Picks(c, S)
  PROVE  \E g : IsSum(g, f, c, S)
<1> DEFINE Small(n) == {s \in SUBSET S : Cardinality(s) <= n}
           Step(g, s) == IF s = {} THEN 0 ELSE f[c[s]] + g[s \ {c[s]}]
           G == {n \in Nat : \E g : g = [s \in Small(n) |-> Step(g, s)]}
<1>1. \A s \in SUBSET S : IsFiniteSet(s) /\ Cardinality(s) \in Nat
  BY FS_Subset, FS_CardinalityType
<1>2. ASSUME NEW n \in Nat, NEW s \in Small(n + 1), s # {}
      PROVE  s \ {c[s]} \in Small(n)
  <2>1. c[s] \in s
    BY <1>2 DEF Picks
  <2>2. Cardinality(s \ {c[s]}) = Cardinality(s) - 1
    BY <1>1, <2>1, FS_RemoveElement
  <2>3. Cardinality(s) \in Nat /\ Cardinality(s) <= n + 1
    BY <1>1
  <2>. QED BY <2>2, <2>3
<1>3. 0 \in G
  <2>1. Small(0) = {{}}
    BY <1>1, FS_EmptySet
  <2> DEFINE g == [s \in {{}} |-> 0]
  <2>2. g = [s \in Small(0) |-> Step(g, s)]
    BY <2>1
  <2>. HIDE DEF g, Step, Small
  <2>. QED BY <2>2
<1>4. ASSUME NEW n \in Nat, n \in G PROVE n + 1 \in G
  <2>1. PICK g : g = [s \in Small(n) |-> Step(g, s)]
    BY <1>4
  <2> DEFINE h == [s \in Small(n + 1) |-> Step(g, s)]
  <2>2. ASSUME NEW s \in Small(n) PROVE h[s] = g[s]
    <3>1. s \in Small(n + 1)
      BY <1>1
    <3>2. h[s] = Step(g, s)
      BY <3>1
    <3>3. g[s] = Step(g, s)
      <4>. HIDE DEF Small, Step
      <4>. QED BY <2>1, <2>2
    <3>. QED BY <3>2, <3>3
  <2>3. ASSUME NEW s \in Small(n + 1) PROVE Step(g, s) = Step(h, s)
    <3>1. CASE s = {}
      BY <3>1
    <3>2. CASE s # {}
      <4>1. h[s \ {c[s]}] = g[s \ {c[s]}]
        <5>1. s \ {c[s]} \in Small(n)
          BY <1>2, <3>2
        <5>. HIDE DEF h, Small
        <5>. QED BY <2>2, <5>1
      <4>. HIDE DEF h
      <4>. QED BY <3>2, <4>1
    <3>. QED BY <3>1, <3>2
  <2>4. h = [s \in Small(n + 1) |-> Step(h, s)]
    <3>1. h = [s \in Small(n + 1) |-> Step(g, s)]
      OBVIOUS
    <3>. HIDE DEF h, Small, Step
    <3>. QED BY <2>3, <3>1
  <2>. HIDE DEF h, Small, Step
  <2>. QED BY <2>4
<1>5. Cardinality(S) \in G
  <2>1. Nat \subseteq G
    <3>. HIDE DEF G
    <3>. QED BY <1>3, <1>4, NatSetInduction
  <2>. QED BY <2>1, FS_CardinalityType
<1>6. Small(Cardinality(S)) = SUBSET S
  BY FS_Subset
<1>7. PICK g : g = [s \in Small(Cardinality(S)) |-> Step(g, s)]
  BY <1>5
<1>8. g = [s \in SUBSET S |-> Step(g, s)]
  <2>. HIDE DEF Step, Small
  <2>. QED BY <1>6, <1>7
<1>. QED BY <1>8 DEF IsSum

Pick(S) == [s \in SUBSET S |-> CHOOSE x \in s : TRUE]

LEMMA PickPicks == \A S : Picks(Pick(S), S)
<1>. SUFFICES ASSUME NEW S, NEW s \in SUBSET S, s # {} PROVE Pick(S)[s] \in s
  BY DEF Picks
<1>1. (CHOOSE x \in s : TRUE) \in s
  OBVIOUS
<1>. QED BY <1>1 DEF Pick

LEMMA SumIs ==
  ASSUME NEW S, IsFiniteSet(S), NEW f
  PROVE  \E g : IsSum(g, f, Pick(S), S) /\ SumFunctionOnSet(f, S) = g[S]
<1> DEFINE Loop(g) == g = [s \in SUBSET S |->
                             IF s = {} THEN 0
                             ELSE LET x == CHOOSE x \in s : TRUE IN f[x] + g[s \ {x}]]
<1>1. SumFunctionOnSet(f, S) = (CHOOSE g : Loop(g))[S]
  BY DEF SumFunctionOnSet, FoldFunctionOnSet, MapThenFoldSet
<1>2. PICK g : IsSum(g, f, Pick(S), S)
  BY SumDefined, PickPicks
<1>3. \A h : Loop(h) <=> IsSum(h, f, Pick(S), S)
  <2>. SUFFICES ASSUME NEW h
       PROVE  [s \in SUBSET S |-> IF s = {} THEN 0
                                  ELSE LET x == CHOOSE x \in s : TRUE IN f[x] + h[s \ {x}]]
            = [s \in SUBSET S |-> IF s = {} THEN 0
                                  ELSE f[Pick(S)[s]] + h[s \ {Pick(S)[s]}]]
    BY DEF IsSum
  <2>1. \A s \in SUBSET S : Pick(S)[s] = CHOOSE x \in s : TRUE
    BY DEF Pick
  <2>. QED BY <2>1, Zenon
<1>4. Loop(CHOOSE h : Loop(h))
  <2>1. Loop(g)
    BY <1>2, <1>3
  <2>. HIDE DEF Loop
  <2>. QED BY <2>1
<1>. HIDE DEF Loop
<1>. QED BY <1>1, <1>3, <1>4

LEMMA SumUnique ==
  ASSUME NEW S, IsFiniteSet(S), NEW R \in SUBSET S, NEW f, NEW g, NEW h,
         IsSum(g, f, Pick(S), S), IsSum(h, f, Pick(R), R)
  PROVE  g[R] = h[R]
<1> DEFINE G == {T \in SUBSET R : g[T] = h[T]}
<1>1. IsFiniteSet(R)
  BY FS_Subset
<1>2. ASSUME NEW T \in SUBSET R, \A x \in T : T \ {x} \in G
      PROVE  T \in G
  <2>1. T \in SUBSET S /\ Pick(S)[T] = Pick(R)[T]
    BY DEF Pick
  <2>2. /\ g[T] = IF T = {} THEN 0 ELSE f[Pick(S)[T]] + g[T \ {Pick(S)[T]}]
        /\ h[T] = IF T = {} THEN 0 ELSE f[Pick(R)[T]] + h[T \ {Pick(R)[T]}]
    BY <2>1 DEF IsSum
  <2>3. CASE T = {}
    BY <2>2, <2>3
  <2>4. CASE T # {}
    <3>1. Pick(R)[T] \in T
      BY <2>4, PickPicks DEF Picks
    <3>2. T \ {Pick(R)[T]} \in G
      BY <1>2, <3>1
    <3>. QED BY <2>1, <2>2, <2>4, <3>2
  <2>. QED BY <2>3, <2>4
<1>3. SUBSET R \subseteq G
  <2>. HIDE DEF G
  <2>. QED BY <1>1, <1>2, SubsetInduction
<1>. QED BY <1>3

(* The sum over the empty set, and over a set without one of its elements. *)
LEMMA SumEmpty ==
  ASSUME NEW f
  PROVE  SumFunctionOnSet(f, {}) = 0
<1>1. IsFiniteSet({})
  BY FS_EmptySet
<1>2. PICK g : IsSum(g, f, Pick({}), {}) /\ SumFunctionOnSet(f, {}) = g[{}]
  BY <1>1, SumIs
<1>. QED BY <1>2 DEF IsSum

LEMMA SumTakes ==
  ASSUME NEW S, IsFiniteSet(S), S # {}, NEW f
  PROVE  \E x \in S : SumFunctionOnSet(f, S) = f[x] + SumFunctionOnSet(f, S \ {x})
<1>1. PICK g : IsSum(g, f, Pick(S), S) /\ SumFunctionOnSet(f, S) = g[S]
  BY SumIs
<1>2. Pick(S)[S] \in S
  BY PickPicks DEF Picks
<1>3. PICK x : x = Pick(S)[S]
  OBVIOUS
<1>4. g[S] = f[x] + g[S \ {x}]
  BY <1>1, <1>3 DEF IsSum
<1>5. IsFiniteSet(S \ {x})
  BY FS_RemoveElement
<1>6. PICK h : IsSum(h, f, Pick(S \ {x}), S \ {x}) /\ SumFunctionOnSet(f, S \ {x}) = h[S \ {x}]
  BY <1>5, SumIs
<1>7. g[S \ {x}] = h[S \ {x}]
  BY <1>1, <1>6, SumUnique
<1>. QED BY <1>1, <1>2, <1>3, <1>4, <1>6, <1>7

LEMMA SumNat ==
  ASSUME NEW S, IsFiniteSet(S), NEW f, \A x \in S : f[x] \in Nat
  PROVE  SumFunctionOnSet(f, S) \in Nat
<1> DEFINE G == {T \in SUBSET S : SumFunctionOnSet(f, T) \in Nat}
<1>1. ASSUME NEW T \in SUBSET S, \A x \in T : T \ {x} \in G
      PROVE  T \in G
  <2>1. CASE T = {}
    BY <2>1, SumEmpty
  <2>2. CASE T # {}
    <3>1. PICK x \in T : SumFunctionOnSet(f, T) = f[x] + SumFunctionOnSet(f, T \ {x})
      BY <2>2, FS_Subset, SumTakes
    <3>2. SumFunctionOnSet(f, T \ {x}) \in Nat /\ f[x] \in Nat
      BY <1>1, <3>1
    <3>. QED BY <3>1, <3>2
  <2>. QED BY <2>1, <2>2
<1>2. SUBSET S \subseteq G
  <2>. HIDE DEF G
  <2>. QED BY <1>1, SubsetInduction
<1>. QED BY <1>2

LEMMA SumRemove ==
  ASSUME NEW S, IsFiniteSet(S), NEW f, \A x \in S : f[x] \in Nat, NEW e \in S
  PROVE  SumFunctionOnSet(f, S) = f[e] + SumFunctionOnSet(f, S \ {e})
<1> DEFINE Sum(T) == SumFunctionOnSet(f, T)
           G == {T \in SUBSET S : \A x \in T : Sum(T) = f[x] + Sum(T \ {x})}
<1>0. \A T \in SUBSET S : Sum(T) \in Nat
  BY FS_Subset, SumNat
<1>1. ASSUME NEW T \in SUBSET S, \A x \in T : T \ {x} \in G
      PROVE  T \in G
  <2>. SUFFICES ASSUME NEW x \in T PROVE Sum(T) = f[x] + Sum(T \ {x})
    OBVIOUS
  <2>1. PICK y \in T : Sum(T) = f[y] + Sum(T \ {y})
    BY FS_Subset, SumTakes
  <2>2. CASE x = y
    BY <2>1, <2>2
  <2>3. CASE x # y
    <3> DEFINE rest == (T \ {x}) \ {y}
    <3>1. rest = (T \ {y}) \ {x} /\ x \in T \ {y} /\ y \in T \ {x}
      BY <2>3
    <3>2. Sum(T \ {y}) = f[x] + Sum(rest)
      BY <1>1, <3>1
    <3>3. Sum(T \ {x}) = f[y] + Sum(rest)
      BY <1>1, <3>1
    <3>4. f[x] \in Nat /\ f[y] \in Nat /\ Sum(rest) \in Nat
      BY <1>0
    <3>. HIDE DEF Sum
    <3>. QED BY <2>1, <3>2, <3>3, <3>4
  <2>. QED BY <2>2, <2>3
<1>2. SUBSET S \subseteq G
  <2>. HIDE DEF G
  <2>. QED BY <1>1, SubsetInduction
<1>. QED BY <1>2

-----------------------------------------------------------------------------
(* Sums of terms that are alike. *)
LEMMA SumMultiple ==
  ASSUME NEW S, IsFiniteSet(S), NEW f, NEW n \in Nat,
         \A x \in S : \E q \in Nat : f[x] = q * n
  PROVE  \E q \in Nat : SumFunctionOnSet(f, S) = q * n
<1> DEFINE G == {T \in SUBSET S : \E q \in Nat : SumFunctionOnSet(f, T) = q * n}
<1>1. ASSUME NEW T \in SUBSET S, \A x \in T : T \ {x} \in G
      PROVE  T \in G
  <2>1. CASE T = {}
    <3>1. SumFunctionOnSet(f, T) = 0 * n
      BY <2>1, SumEmpty
    <3>. QED BY <3>1
  <2>2. CASE T # {}
    <3>1. PICK x \in T : SumFunctionOnSet(f, T) = f[x] + SumFunctionOnSet(f, T \ {x})
      BY <2>2, FS_Subset, SumTakes
    <3>2. PICK a \in Nat : f[x] = a * n
      OBVIOUS
    <3>3. PICK b \in Nat : SumFunctionOnSet(f, T \ {x}) = b * n
      BY <1>1, <3>1
    <3>4. (a * n) + (b * n) = (a + b) * n
      OBVIOUS
    <3>5. SumFunctionOnSet(f, T) = (a + b) * n /\ a + b \in Nat
      BY <3>1, <3>2, <3>3, <3>4
    <3>. QED BY <3>5
  <2>. QED BY <2>1, <2>2
<1>2. SUBSET S \subseteq G
  <2>. HIDE DEF G
  <2>. QED BY <1>1, SubsetInduction
<1>. QED BY <1>2

LEMMA SumConstant ==
  ASSUME NEW S, IsFiniteSet(S), NEW f, NEW v \in Nat, \A x \in S : f[x] = v
  PROVE  SumFunctionOnSet(f, S) = Cardinality(S) * v
<1> DEFINE G == {T \in SUBSET S : SumFunctionOnSet(f, T) = Cardinality(T) * v}
<1>1. ASSUME NEW T \in SUBSET S, \A x \in T : T \ {x} \in G
      PROVE  T \in G
  <2>1. CASE T = {}
    <3>1. SumFunctionOnSet(f, T) = 0 /\ Cardinality(T) = 0
      BY <2>1, SumEmpty, FS_EmptySet
    <3>. QED BY <3>1
  <2>2. CASE T # {}
    <3>1. PICK x \in T : SumFunctionOnSet(f, T) = f[x] + SumFunctionOnSet(f, T \ {x})
      BY <2>2, FS_Subset, SumTakes
    <3>2. SumFunctionOnSet(f, T \ {x}) = Cardinality(T \ {x}) * v
      BY <1>1, <3>1
    <3>3. IsFiniteSet(T) /\ Cardinality(T) \in Nat
      BY FS_Subset, FS_CardinalityType
    <3>4. Cardinality(T \ {x}) = Cardinality(T) - 1
      BY <3>1, <3>3, FS_RemoveElement
    <3> DEFINE c == Cardinality(T)
    <3>5. v + ((c - 1) * v) = c * v
      <4>1. c \in Nat
        BY <3>3
      <4>. HIDE DEF c
      <4>. QED BY <4>1
    <3>. QED BY <3>1, <3>2, <3>4, <3>5
  <2>. QED BY <2>1, <2>2
<1>2. SUBSET S \subseteq G
  <2>. HIDE DEF G
  <2>. QED BY <1>1, SubsetInduction
<1>. QED BY <1>2

LEMMA SumScaled ==
  ASSUME NEW S, IsFiniteSet(S), NEW f, NEW g, NEW q \in Nat,
         \A x \in S : g[x] \in Nat /\ f[x] = q * g[x]
  PROVE  SumFunctionOnSet(f, S) = q * SumFunctionOnSet(g, S)
<1> DEFINE G == {T \in SUBSET S : SumFunctionOnSet(f, T) = q * SumFunctionOnSet(g, T)}
<1>1. ASSUME NEW T \in SUBSET S, \A x \in T : T \ {x} \in G
      PROVE  T \in G
  <2>1. CASE T = {}
    <3>1. SumFunctionOnSet(f, T) = 0 /\ SumFunctionOnSet(g, T) = 0
      BY <2>1, SumEmpty
    <3>. QED BY <3>1
  <2>2. CASE T # {}
    <3>1. PICK x \in T : SumFunctionOnSet(f, T) = f[x] + SumFunctionOnSet(f, T \ {x})
      BY <2>2, FS_Subset, SumTakes
    <3>2. IsFiniteSet(T) /\ IsFiniteSet(T \ {x})
      BY FS_Subset
    <3>3. SumFunctionOnSet(g, T) = g[x] + SumFunctionOnSet(g, T \ {x})
      BY <3>1, <3>2, SumRemove
    <3>4. SumFunctionOnSet(f, T \ {x}) = q * SumFunctionOnSet(g, T \ {x})
      BY <1>1, <3>1
    <3> DEFINE a == g[x]
               b == SumFunctionOnSet(g, T \ {x})
    <3>5. a \in Nat /\ b \in Nat
      BY <3>1, <3>2, SumNat
    <3>6. (q * a) + (q * b) = q * (a + b)
      <4>. HIDE DEF a, b
      <4>. QED BY <3>5
    <3>7. f[x] = q * a
      BY <3>1
    <3>. QED BY <3>1, <3>3, <3>4, <3>6, <3>7
  <2>. QED BY <2>1, <2>2
<1>2. SUBSET S \subseteq G
  <2>. HIDE DEF G
  <2>. QED BY <1>1, SubsetInduction
<1>. QED BY <1>2

(* A sum in another order: h lists S once, and g has the terms in its order. *)
Reorders(h, g, D, f, S) ==
  /\ IsFiniteSet(D) /\ IsFiniteSet(S) /\ h \in [D -> S]
  /\ \A a, b \in D : h[a] = h[b] => a = b
  /\ \A y \in S : f[y] \in Nat /\ \E a \in D : h[a] = y
  /\ \A a \in D : g[a] = f[h[a]]

LEMMA SumReordered ==
  ASSUME NEW D, NEW S, NEW h, NEW f, NEW g, Reorders(h, g, D, f, S)
  PROVE  SumFunctionOnSet(g, D) = SumFunctionOnSet(f, S)
<1>. USE DEF Reorders
<1> DEFINE Image(T) == {h[a] : a \in T}
           G == {T \in SUBSET D : SumFunctionOnSet(g, T) = SumFunctionOnSet(f, Image(T))}
<1>1. ASSUME NEW T \in SUBSET D, \A x \in T : T \ {x} \in G
      PROVE  T \in G
  <2>1. CASE T = {}
    <3>1. Image(T) = {}
      BY <2>1
    <3>. QED BY <2>1, <3>1, SumEmpty
  <2>2. CASE T # {}
    <3>1. PICK x \in T : SumFunctionOnSet(g, T) = g[x] + SumFunctionOnSet(g, T \ {x})
      BY <2>2, FS_Subset, SumTakes
    <3>2. SumFunctionOnSet(g, T \ {x}) = SumFunctionOnSet(f, Image(T \ {x}))
      BY <1>1, <3>1
    <3>3. Image(T \ {x}) = Image(T) \ {h[x]} /\ h[x] \in Image(T) /\ Image(T) \in SUBSET S
      BY <3>1
    <3>4. IsFiniteSet(Image(T))
      BY <3>3, FS_Subset
    <3>5. SumFunctionOnSet(f, Image(T)) = f[h[x]] + SumFunctionOnSet(f, Image(T) \ {h[x]})
      <4>1. \A y \in Image(T) : f[y] \in Nat
        BY <3>3
      <4>. HIDE DEF Image
      <4>. QED BY <3>3, <3>4, <4>1, SumRemove
    <3>. QED BY <3>1, <3>2, <3>3, <3>5
  <2>. QED BY <2>1, <2>2
<1>2. SUBSET D \subseteq G
  <2>. HIDE DEF G
  <2>. QED BY <1>1, SubsetInduction
<1>3. Image(D) = S
  OBVIOUS
<1>4. D \in G
  <2>. HIDE DEF G
  <2>. QED BY <1>2
<1>. QED BY <1>3, <1>4

(* Numbers of sockets, added up, are the number of the sockets. *)
HeldBy(K, o, P) == {k \in K : o[k] \in P}

LEMMA SumOfCounts ==
  ASSUME NEW K, IsFiniteSet(K), NEW o, NEW P, IsFiniteSet(P), NEW f,
         \A p \in P : f[p] = Cardinality(HeldBy(K, o, {p}))
  PROVE  SumFunctionOnSet(f, P) = Cardinality(HeldBy(K, o, P))
<1> DEFINE Of(T) == HeldBy(K, o, T)
           G == {T \in SUBSET P : SumFunctionOnSet(f, T) = Cardinality(Of(T))}
<1>1. ASSUME NEW T \in SUBSET P, \A x \in T : T \ {x} \in G
      PROVE  T \in G
  <2>1. CASE T = {}
    <3>1. Of(T) = {}
      BY <2>1 DEF HeldBy
    <3>. QED BY <2>1, <3>1, SumEmpty, FS_EmptySet
  <2>2. CASE T # {}
    <3>1. PICK x \in T : SumFunctionOnSet(f, T) = f[x] + SumFunctionOnSet(f, T \ {x})
      BY <2>2, FS_Subset, SumTakes
    <3>2. SumFunctionOnSet(f, T \ {x}) = Cardinality(Of(T \ {x}))
      BY <1>1, <3>1
    <3> DEFINE A == HeldBy(K, o, {x})
               B == Of(T \ {x})
    <3>3. Of(T) = A \cup B /\ A \cap B = {}
      BY <3>1 DEF HeldBy
    <3>4. IsFiniteSet(A) /\ IsFiniteSet(B) /\ f[x] = Cardinality(A)
      BY <3>1, FS_Subset DEF HeldBy
    <3>. HIDE DEF A, B
    <3>5. Cardinality(A \cup B) = Cardinality(A) + Cardinality(B) - Cardinality(A \cap B)
      BY <3>4, FS_Union
    <3>6. Cardinality(A \cap B) = 0
      BY <3>3, FS_EmptySet
    <3>7. Cardinality(A) \in Nat /\ Cardinality(B) \in Nat
      BY <3>4, FS_CardinalityType
    <3>8. Cardinality(A \cup B) = Cardinality(A) + Cardinality(B)
      BY <3>5, <3>6, <3>7
    <3>9. SumFunctionOnSet(f, T) = Cardinality(A) + Cardinality(B)
      BY <3>1, <3>2, <3>4 DEF B
    <3>10. SumFunctionOnSet(f, T) = Cardinality(Of(T))
      BY <3>3, <3>8, <3>9, Zenon
    <3>. QED BY <3>10
  <2>. QED BY <2>1, <2>2
<1>2. SUBSET P \subseteq G
  <2>. HIDE DEF G
  <2>. QED BY <1>1, SubsetInduction
<1>. QED BY <1>2

-----------------------------------------------------------------------------
(* The samples of a history, read by their index. *)
LEMMA RingReads ==
  ASSUME SamplesInv
  PROVE  /\ count \in Nat /\ count = Len(latest) /\ latest \in Seq(Samples)
         /\ \A k \in 1 .. count : At(k - 1) = latest[k]
         /\ count >= 2 => At(count - 1) = latest[count] /\ At(count - 2) = latest[count - 1]
         /\ count >= 2 => latest[count - 1] \in Samples /\ latest[count] \in Samples
<1>1. /\ count \in Nat /\ count = Len(latest) /\ latest \in Seq(Samples)
      /\ \A k \in 1 .. count : At(k - 1) = latest[k]
  BY SamplesAssumption DEF SamplesInv, TypeOK, RingIsLatest
<1>2. ASSUME count >= 2
      PROVE  /\ At(count - 1) = latest[count] /\ At(count - 2) = latest[count - 1]
             /\ latest[count - 1] \in Samples /\ latest[count] \in Samples
  <2>1. (count - 1) - 1 = count - 2 /\ count \in 1 .. count /\ count - 1 \in 1 .. count
    BY <1>1, <1>2
  <2>2. latest[count - 1] \in Samples /\ latest[count] \in Samples
    BY <1>1, <2>1
  <2>. QED BY <1>1, <2>1, <2>2
<1>. QED BY <1>1, <1>2

(* The points of the trend are the rates between neighbours in the history, *)
(* without a gap, and the last is the total of the report, for a ring and a *)
(* trend of any size (trfx_collect_bandwidth_trend,                         *)
(* trfx_collect_bandwidth_report).                                          *)
THEOREM TrendAlwaysEndsInReport == Spec => []TrendEndsInReport
<1>1. SamplesInv => TrendEndsInReport
  <2>. SUFFICES ASSUME SamplesInv PROVE TrendEndsInReport
    OBVIOUS
  <2> DEFINE n == PointCount
             point(k) == [at |-> At((count - n - 1) + k).at,
                          total |-> Total(At((count - n - 1) + k - 1), At((count - n - 1) + k))]
  <2>1. /\ count \in Nat /\ count = Len(latest)
        /\ \A k \in 1 .. count : At(k - 1) = latest[k]
        /\ count >= 2 => At(count - 1) = latest[count] /\ At(count - 2) = latest[count - 1]
    BY RingReads
  <2>2. POINTS \in Nat \ {0}
    BY BandwidthAssumption
  <2>3. /\ n \in Nat /\ (n = 0 <=> count < 2) /\ (count >= 2 => n <= count - 1)
        /\ n = IF count < 2 THEN 0 ELSE IF count - 1 < POINTS THEN count - 1 ELSE POINTS
    BY <2>1, <2>2 DEF PointCount
  <2>4. Trend = [k \in 1 .. n |-> point(k)]
    BY DEF Trend
  <2>. HIDE DEF n
  <2>5. ASSUME NEW k \in 1 .. n
        PROVE  LET last == count - (n - k)
               IN  point(k) = [at |-> latest[last].at, total |-> Total(latest[last - 1], latest[last])]
    <3> DEFINE last == count - (n - k)
    <3>0. n \in Nat /\ count \in Nat /\ n <= count - 1
      BY <2>1, <2>3
    <3>1. last \in 1 .. count /\ last - 1 \in 1 .. count
      BY <3>0
    <3>2. (count - n - 1) + k = last - 1 /\ (count - n - 1) + k - 1 = (last - 1) - 1
      BY <3>0
    <3>3. At(last - 1) = latest[last] /\ At((last - 1) - 1) = latest[last - 1]
      BY <2>1, <3>1
    <3>. HIDE DEF last
    <3>4. point(k) = [at |-> At(last - 1).at, total |-> Total(At((last - 1) - 1), At(last - 1))]
      BY <3>2
    <3>5. point(k) = [at |-> latest[last].at, total |-> Total(latest[last - 1], latest[last])]
      BY <3>3, <3>4
    <3>. QED BY <3>5 DEF last
  <2>6. Len(Trend) = n /\ DOMAIN Trend = 1 .. n
    <3>. HIDE DEF point
    <3>. QED BY <2>3, <2>4
  <2>7. ASSUME Trend # << >> PROVE Trend[Len(Trend)].total = ReportTotal
    <3>1. n # 0
      <4>. SUFFICES ASSUME n = 0 PROVE FALSE
        OBVIOUS
      <4>1. Trend = [k \in {} |-> point(k)]
        BY <2>4
      <4>2. Trend = << >>
        <5>. HIDE DEF point
        <5>. QED BY <4>1
      <4>. QED BY <2>7, <4>2
    <3>2. count >= 2 /\ n \in 1 .. n /\ count - (n - n) = count
      BY <2>1, <2>3, <3>1
    <3>3. point(n) = [at |-> latest[count].at, total |-> Total(latest[count - 1], latest[count])]
      BY <2>5, <3>2
    <3>4. ReportTotal = Total(latest[count - 1], latest[count])
      BY <2>1, <3>2 DEF ReportTotal
    <3>5. Trend[n] = point(n)
      BY <2>4, <3>2
    <3>. QED BY <2>6, <3>3, <3>4, <3>5
  <2>8. \A k \in DOMAIN Trend :
          LET last == Len(latest) - (Len(Trend) - k)
          IN  Trend[k] = [at |-> latest[last].at, total |-> Total(latest[last - 1], latest[last])]
    <3>. SUFFICES ASSUME NEW k \in 1 .. n
         PROVE  LET last == count - (n - k)
                IN  Trend[k] = [at |-> latest[last].at, total |-> Total(latest[last - 1], latest[last])]
      BY <2>1, <2>6
    <3>1. Trend[k] = point(k)
      BY <2>4
    <3>. HIDE DEF point
    <3>. QED BY <2>5, <3>1
  <2>9. Len(Trend) = IF Len(latest) < 2 THEN 0
                     ELSE IF Len(latest) - 1 < POINTS THEN Len(latest) - 1 ELSE POINTS
    BY <2>1, <2>3, <2>6
  <2>. QED BY <2>7, <2>8, <2>9 DEF TrendEndsInReport
<1>. QED BY <1>1, SamplesInvInit, SamplesInvNext, PTL DEF Spec

-----------------------------------------------------------------------------
(* Quotients without a remainder. *)
LEMMA Quotient ==
  ASSUME NEW a \in Nat, NEW d \in Nat \ {0}, a % d = 0
  PROVE  \E q \in Nat : a = q * d /\ (a # 0 => q # 0)
<1>1. a = d * (a \div d) + (a % d) /\ a \div d \in Nat
  OBVIOUS
<1> DEFINE q == a \div d
<1>2. q \in Nat /\ a = q * d
  BY <1>1
<1>3. a # 0 => q # 0
  BY <1>2
<1>. HIDE DEF q
<1>. QED BY <1>2, <1>3

LEMMA Divided ==
  ASSUME NEW q \in Nat, NEW d \in Nat \ {0}
  PROVE  (q * d) \div d = q
OBVIOUS

LEMMA Products ==
  ASSUME NEW a \in Nat, NEW b \in Nat, NEW c \in Nat
  PROVE  /\ a * b \in Nat /\ a * b = b * a
         /\ (a * b) * c = a * (b * c)
         /\ a # 0 /\ b # 0 => a * b # 0
OBVIOUS

(* Seconds are positive, and the rate of an interface over them is a whole *)
(* number of 1/Unit bytes for each of n sockets.                           *)
LEMMA ElapsedIs ==
  ASSUME NEW previous \in Samples, NEW current \in Samples, NEW n \in 1 .. MaxSockets
  PROVE  /\ Elapsed(previous, current) \in Nat \ {0}
         /\ Unit % (n * Elapsed(previous, current)) = 0
<1>1. previous.at \in Times /\ current.at \in Times /\ Times \subseteq Int
  BY SamplesAssumption DEF Samples
<1>2. CASE current.at > previous.at
  <2>1. Unit % (n * (current.at - previous.at)) = 0
    BY <1>1, <1>2, BandwidthAssumption
  <2>2. Elapsed(previous, current) = current.at - previous.at
    BY <1>2 DEF Elapsed
  <2>3. current.at - previous.at \in Nat \ {0}
    <3>1. current.at \in Int /\ previous.at \in Int
      BY <1>1
    <3>. QED BY <1>2, <3>1
  <2>. QED BY <2>1, <2>2, <2>3
<1>3. CASE ~(current.at > previous.at)
  <2>1. Elapsed(previous, current) = 1
    BY <1>3 DEF Elapsed
  <2>2. MaxSockets \in Nat /\ n \in Nat /\ n * 1 = n
    BY BandwidthAssumption
  <2>3. Unit % n = 0
    BY BandwidthAssumption
  <2>. QED BY <2>1, <2>2, <2>3
<1>. QED BY <1>2, <1>3

LEMMA DeltaIs ==
  ASSUME NEW previous \in Samples, NEW current \in Samples, NEW i \in Listed(current.stats)
  PROVE  /\ Delta(previous.stats, current.stats, i) \in Nat
         /\ previous.stats[i] # Absent /\ previous.stats[i] < current.stats[i]
              => Delta(previous.stats, current.stats, i) # 0
<1>1. /\ previous.stats[i] \in Counters \cup {Absent} /\ current.stats[i] \in Counters
      /\ Counters \subseteq Nat
  BY SamplesAssumption DEF Samples, Stats, Listed, Counters
<1>2. CASE previous.stats[i] # Absent /\ current.stats[i] >= previous.stats[i]
  <2>1. Delta(previous.stats, current.stats, i) = current.stats[i] - previous.stats[i]
    BY <1>2 DEF Delta
  <2>2. previous.stats[i] \in Nat /\ current.stats[i] \in Nat
    BY <1>1, <1>2
  <2>. QED BY <1>2, <2>1, <2>2
<1>3. CASE ~(previous.stats[i] # Absent /\ current.stats[i] >= previous.stats[i])
  <2>1. Delta(previous.stats, current.stats, i) = 0
    BY <1>3 DEF Delta
  <2>2. ASSUME previous.stats[i] # Absent, previous.stats[i] < current.stats[i]
        PROVE  FALSE
    <3>1. previous.stats[i] \in Nat /\ current.stats[i] \in Nat
      BY <1>1, <2>2
    <3>. QED BY <1>3, <2>2, <3>1
  <2>. QED BY <2>1, <2>2
<1>. QED BY <1>2, <1>3

LEMMA RateIs ==
  ASSUME NEW previous \in Samples, NEW current \in Samples, NEW n \in 1 .. MaxSockets,
         NEW delta \in Nat
  PROVE  LET rate == (Unit * delta) \div Elapsed(previous, current)
         IN  /\ rate \in Nat
             /\ \E q \in Nat : rate = q * n
             /\ delta # 0 => rate # 0
<1> DEFINE d == Elapsed(previous, current)
<1>1. d \in Nat \ {0} /\ Unit % (n * d) = 0 /\ n \in Nat \ {0} /\ Unit \in Nat \ {0}
  BY ElapsedIs, BandwidthAssumption
<1>. HIDE DEF d
<1>2. n * d \in Nat \ {0}
  BY <1>1, Products
<1>3. PICK u \in Nat : Unit = u * (n * d) /\ u # 0
  BY <1>1, <1>2, Quotient
<1> DEFINE rate == (u * delta) * n
<1>4. rate \in Nat /\ (delta # 0 => rate # 0)
  <2>1. u * delta \in Nat /\ (delta # 0 => u * delta # 0)
    BY <1>3, Products
  <2>. QED BY <1>1, <2>1, Products
<1>5. Unit * delta = rate * d
  BY <1>1, <1>3
<1>6. (Unit * delta) \div d = rate
  <2>. HIDE DEF rate
  <2>. QED BY <1>1, <1>4, <1>5, Divided
<1>7. \E q \in Nat : rate = q * n
  BY <1>3, Products
<1>. QED BY <1>4, <1>6, <1>7 DEF d

(* The rates that are summed up: natural numbers, of finitely many          *)
(* interfaces.                                                              *)
Rates(previous, current) ==
  [i \in Listed(current.stats) |->
     (Unit * Delta(previous.stats, current.stats, i)) \div Elapsed(previous, current)]

LEMMA TotalIs ==
  ASSUME NEW previous \in Samples, NEW current \in Samples
  PROVE  /\ Total(previous, current) =
              SumFunctionOnSet(Rates(previous, current), Listed(current.stats))
         /\ IsFiniteSet(Listed(current.stats))
         /\ \A i \in Listed(current.stats) : Rates(previous, current)[i] \in Nat
<1>1. 1 \in 1 .. MaxSockets
  BY BandwidthAssumption
<1>2. Elapsed(previous, current) \in Nat \ {0}
  BY <1>1, ElapsedIs
<1>3. Elapsed(previous, current) > 0
  BY <1>2
<1>4. Total(previous, current) = SumFunction(Rates(previous, current))
  BY <1>3 DEF Total, Rates
<1>5. DOMAIN Rates(previous, current) = Listed(current.stats)
  BY DEF Rates
<1>6. IsFiniteSet(Listed(current.stats))
  BY BandwidthAssumption, FS_Subset DEF Listed
<1>7. ASSUME NEW i \in Listed(current.stats) PROVE Rates(previous, current)[i] \in Nat
  <2>1. Delta(previous.stats, current.stats, i) \in Nat
    BY DeltaIs
  <2>. QED BY <1>1, <2>1, RateIs DEF Rates
<1>. QED BY <1>4, <1>5, <1>6, <1>7 DEF SumFunction

LEMMA SumPositive ==
  ASSUME NEW S, IsFiniteSet(S), NEW f, \A x \in S : f[x] \in Nat,
         NEW e \in S, f[e] # 0
  PROVE  SumFunctionOnSet(f, S) > 0
<1>1. SumFunctionOnSet(f, S) = f[e] + SumFunctionOnSet(f, S \ {e})
  BY SumRemove
<1>2. SumFunctionOnSet(f, S \ {e}) \in Nat
  <2>1. IsFiniteSet(S \ {e})
    BY FS_RemoveElement
  <2>. QED BY <2>1, SumNat
<1>3. f[e] \in Nat
  OBVIOUS
<1>. QED BY <1>1, <1>2, <1>3

(* Bytes that an interface counted on are in the total of the report, for   *)
(* any interfaces, counters, clock and size of the ring                     *)
(* (trfx_collect_bandwidth_report, trfx_calculate_interface_rates).         *)
THEOREM TrafficIsAlwaysSeen == Spec => []TrafficIsSeen
<1>1. SamplesInv => TrafficIsSeen
  <2>. SUFFICES ASSUME SamplesInv, count >= 2, NEW i \in Interfaces,
                       latest[count - 1].stats[i] # Absent,
                       latest[count].stats[i] # Absent,
                       latest[count - 1].stats[i] < latest[count].stats[i]
       PROVE  ReportTotal > 0
    BY DEF TrafficIsSeen
  <2>1. /\ count \in Nat /\ count = Len(latest) /\ latest \in Seq(Samples)
        /\ At(count - 1) = latest[count] /\ At(count - 2) = latest[count - 1]
    BY RingReads
  <2>2. PICK previous \in Samples, current \in Samples :
          previous = latest[count - 1] /\ current = latest[count]
    BY RingReads
  <2>3. ReportTotal = Total(previous, current)
    BY <2>1, <2>2 DEF ReportTotal
  <2>4. i \in Listed(current.stats)
    BY <2>2 DEF Listed
  <2>5. Delta(previous.stats, current.stats, i) \in Nat \ {0}
    BY <2>2, <2>4, DeltaIs
  <2>6. Rates(previous, current)[i] # 0
    <3>1. 1 \in 1 .. MaxSockets
      BY BandwidthAssumption
    <3>. QED BY <2>4, <2>5, <3>1, RateIs DEF Rates
  <2>. QED BY <2>3, <2>4, <2>6, SumPositive, TotalIs
<1>. QED BY <1>1, SamplesInvInit, SamplesInvNext, PTL DEF Spec

-----------------------------------------------------------------------------
(* The owners of sockets and their groups. *)
LEMMA LeastOf ==
  ASSUME NEW T \in SUBSET Nat, T # {}
  PROVE  \E m \in T : \A k \in T : m <= k
<1>1. PICK m \in T : \A k \in T : <<k, m>> \notin OpToRel(<, Nat)
  BY WFMin, NatLessThanWellFounded, Zenon
<1>2. \A k \in T : ~(k < m)
  BY <1>1, Zenon DEF OpToRel
<1>3. ASSUME NEW k \in T PROVE m <= k
  <2>1. k \in Nat /\ m \in Nat /\ ~(k < m)
    BY <1>2
  <2>. QED BY <2>1
<1>. QED BY <1>3

Owners == BoundedSeq(Processes, MaxSockets)

LEMMA OwnersAre ==
  ASSUME NEW owners \in Owners
  PROVE  /\ Len(owners) \in 0 .. MaxSockets /\ Len(owners) \in Nat
         /\ DOMAIN owners = 1 .. Len(owners) /\ owners \in [1 .. Len(owners) -> Processes]
         /\ IsFiniteSet(DOMAIN owners) /\ Cardinality(DOMAIN owners) = Len(owners)
         /\ IsFiniteSet(ToSet(owners))
<1>1. PICK n \in 0 .. MaxSockets : owners \in [1 .. n -> Processes]
  BY DEF Owners, BoundedSeq, SeqOf
<1>2. n \in Nat
  BY BandwidthAssumption
<1>3. Len(owners) = n /\ DOMAIN owners = 1 .. n
  BY <1>1, <1>2
<1>4. IsFiniteSet(1 .. n) /\ Cardinality(1 .. n) = n
  BY <1>2, FS_Interval
<1>5. owners \in Surjection(1 .. n, ToSet(owners))
  BY <1>1, <1>3 DEF Surjection, ToSet
<1>6. IsFiniteSet(ToSet(owners))
  BY <1>4, <1>5, FS_Surjection
<1>. QED BY <1>1, <1>2, <1>3, <1>4, <1>6

LEMMA FirstSocketIs ==
  ASSUME NEW owners \in Owners, NEW p \in ToSet(owners)
  PROVE  LET first == FirstSocket(owners, p)
         IN  /\ first \in 1 .. Len(owners) /\ owners[first] = p
             /\ \A j \in 1 .. first - 1 : owners[j] # p
<1>1. Len(owners) \in Nat /\ DOMAIN owners = 1 .. Len(owners)
  BY OwnersAre
<1> DEFINE his == {k \in DOMAIN owners : owners[k] = p}
<1>2. his \in SUBSET Nat /\ his # {}
  BY <1>1 DEF ToSet
<1>3. PICK k \in his : \A j \in his : k <= j
  <2>. HIDE DEF his
  <2>. QED BY <1>2, LeastOf
<1>4. \A j \in 1 .. k - 1 : owners[j] # p
  <2>. SUFFICES ASSUME NEW j \in 1 .. k - 1, owners[j] = p PROVE FALSE
    OBVIOUS
  <2>1. k \in 1 .. Len(owners)
    BY <1>1
  <2>2. j \in his
    BY <1>1, <2>1
  <2>. QED BY <1>3, <2>1, <2>2
<1>5. \E first \in DOMAIN owners : owners[first] = p /\ \A j \in 1 .. first - 1 : owners[j] # p
  BY <1>4
<1>. QED BY <1>1, <1>5 DEF FirstSocket

(* There are groups when there are owners, and no more than FLOWS. *)
LEMMA GroupsAre ==
  ASSUME NEW owners \in Owners
  PROVE  /\ Groups(owners) \subseteq ToSet(owners) /\ IsFiniteSet(Groups(owners))
         /\ owners # << >> => owners[1] \in Groups(owners)
         /\ Cardinality(Groups(owners)) <= FLOWS
<1> DEFINE Before(p) == {q \in ToSet(owners) : FirstSocket(owners, q) < FirstSocket(owners, p)}
           groups == Groups(owners)
           Rank(p) == Len(owners) - FirstSocket(owners, p)
<1>0. FLOWS \in Nat \ {0}
  BY BandwidthAssumption
<1>1. groups = {p \in ToSet(owners) : Cardinality(Before(p)) < FLOWS}
  BY DEF Groups
<1>2. groups \subseteq ToSet(owners) /\ IsFiniteSet(groups) /\ IsFiniteSet(ToSet(owners))
  BY <1>1, OwnersAre, FS_Subset
<1>3. \A p \in ToSet(owners) : FirstSocket(owners, p) \in 1 .. Len(owners)
                              /\ owners[FirstSocket(owners, p)] = p
  BY FirstSocketIs
<1>4. ASSUME owners # << >> PROVE owners[1] \in groups
  <2>1. Len(owners) \in Nat /\ DOMAIN owners = 1 .. Len(owners) /\ 1 \in DOMAIN owners
    BY <1>4, OwnersAre
  <2> DEFINE p == owners[1]
  <2>2. p \in ToSet(owners)
    BY <2>1 DEF ToSet
  <2>3. FirstSocket(owners, p) = 1
    <3>1. FirstSocket(owners, p) \in 1 .. Len(owners)
          /\ \A j \in 1 .. FirstSocket(owners, p) - 1 : owners[j] # p
      BY <2>2, FirstSocketIs
    <3>. QED BY <2>1, <3>1
  <2>4. Before(p) = {}
    BY <1>3, <2>3
  <2>5. Cardinality(Before(p)) = 0
    BY <2>4, FS_EmptySet
  <2>. QED BY <1>0, <1>1, <2>2, <2>5
<1>5. Cardinality(groups) <= FLOWS
  <2>1. CASE groups = {}
    BY <1>0, <2>1, FS_EmptySet
  <2>2. CASE groups # {}
    <3> DEFINE ranks == {Rank(p) : p \in groups}
    <3>1. Len(owners) \in Nat
      BY OwnersAre
    <3>2. ranks \in SUBSET Nat /\ ranks # {}
      BY <1>2, <1>3, <2>2, <3>1
    <3>3. PICK r \in ranks : \A k \in ranks : r <= k
      <4>. HIDE DEF ranks
      <4>. QED BY <3>2, LeastOf
    <3>4. PICK p \in groups : r = Rank(p)
      BY <3>3
    <3>5. ASSUME NEW q \in groups, q # p PROVE q \in Before(p)
      <4>1. Rank(p) <= Rank(q)
        BY <3>3, <3>4
      <4>2. FirstSocket(owners, q) # FirstSocket(owners, p)
        BY <1>2, <1>3, <3>5
      <4>3. FirstSocket(owners, q) \in Nat /\ FirstSocket(owners, p) \in Nat
        BY <1>2, <1>3, <3>1
      <4>4. FirstSocket(owners, q) < FirstSocket(owners, p)
        BY <3>1, <4>1, <4>2, <4>3
      <4>. QED BY <1>2, <4>4
    <3>6. groups \ {p} \in SUBSET Before(p) /\ IsFiniteSet(Before(p))
      BY <1>2, <3>5, FS_Subset
    <3>7. Cardinality(groups \ {p}) <= Cardinality(Before(p))
      <4>. HIDE DEF groups, Before
      <4>. QED BY <3>6, FS_Subset
    <3>8. Cardinality(groups \ {p}) = Cardinality(groups) - 1
      <4>. HIDE DEF groups
      <4>. QED BY <1>2, <3>4, FS_RemoveElement
    <3>9. Cardinality(Before(p)) < FLOWS
      BY <1>1
    <3>10. Cardinality(groups) \in Nat /\ Cardinality(Before(p)) \in Nat
      BY <1>2, <3>6, FS_CardinalityType
    <3>. QED BY <1>0, <3>7, <3>8, <3>9, <3>10
  <2>. QED BY <2>1, <2>2
<1>. QED BY <1>2, <1>4, <1>5

(* The sockets of the groups are some of the sockets. *)
Held(owners) == [p \in Groups(owners) |-> SocketsOf(owners, p)]

LEMMA SharedIs ==
  ASSUME NEW owners \in Owners, owners # << >>
  PROVE  /\ SocketsShared(owners) \in 1 .. MaxSockets
         /\ \A p \in Groups(owners) : Held(owners)[p] \in Nat
                                       /\ Held(owners)[p] = SocketsOf(owners, p)
         /\ SocketsShared(owners) = SumFunctionOnSet(Held(owners), Groups(owners))
<1> DEFINE groups == Groups(owners)
           f == Held(owners)
           sockets == HeldBy(DOMAIN owners, owners, groups)
<1>1. /\ IsFiniteSet(DOMAIN owners) /\ Cardinality(DOMAIN owners) = Len(owners)
      /\ Len(owners) \in 0 .. MaxSockets /\ Len(owners) \in Nat
      /\ DOMAIN owners = 1 .. Len(owners) /\ 1 \in DOMAIN owners
  BY OwnersAre
<1>2. IsFiniteSet(groups) /\ owners[1] \in groups
  BY GroupsAre
<1>3. SocketsShared(owners) = SumFunctionOnSet(f, groups)
  BY DEF SocketsShared, SumFunction, Held
<1>4. \A p \in groups : f[p] = Cardinality(HeldBy(DOMAIN owners, owners, {p}))
  <2>1. \A p : {k \in DOMAIN owners : owners[k] = p} = HeldBy(DOMAIN owners, owners, {p})
    BY DEF HeldBy
  <2>. QED BY <2>1 DEF SocketsOf, Held
<1>5. SumFunctionOnSet(f, groups) = Cardinality(sockets)
  <2> DEFINE K == DOMAIN owners
  <2>1. IsFiniteSet(K) /\ IsFiniteSet(groups)
    BY <1>1, <1>2
  <2>2. \A p \in groups : f[p] = Cardinality(HeldBy(K, owners, {p}))
    BY <1>4
  <2>. HIDE DEF f, groups, K
  <2>3. SumFunctionOnSet(f, groups) = Cardinality(HeldBy(K, owners, groups))
    BY <2>1, <2>2, SumOfCounts
  <2>. QED BY <2>3 DEF K
<1>6. sockets \in SUBSET DOMAIN owners /\ 1 \in sockets
  BY <1>1, <1>2 DEF HeldBy
<1>7. IsFiniteSet(sockets) /\ Cardinality(sockets) <= Len(owners)
  <2>. HIDE DEF sockets
  <2>. QED BY <1>1, <1>6, FS_Subset
<1>8. Cardinality(sockets) \in Nat \ {0}
  <2>1. sockets # {}
    BY <1>6
  <2>. HIDE DEF sockets
  <2>. QED BY <1>7, <2>1, FS_EmptySet, FS_CardinalityType
<1>9. ASSUME NEW p \in groups PROVE SocketsOf(owners, p) \in Nat
  <2>1. IsFiniteSet({k \in DOMAIN owners : owners[k] = p})
    BY <1>1, FS_Subset
  <2>. QED BY <2>1, FS_CardinalityType DEF SocketsOf
<1>10. SocketsShared(owners) \in 1 .. MaxSockets
  <2>. HIDE DEF sockets
  <2>. QED BY <1>1, <1>3, <1>5, <1>7, <1>8, BandwidthAssumption
<1>11. \A p \in groups : f[p] = SocketsOf(owners, p)
  BY DEF Held
<1>. QED BY <1>3, <1>9, <1>10, <1>11

(* Any finite set of flows can be sorted: append the smallest to the rest. *)
LargestFirst(order, rate, n) == \A k \in 2 .. n : rate[order[k]] <= rate[order[k - 1]]

LEMMA SortedExists ==
  ASSUME NEW S, IsFiniteSet(S), NEW rate, \A x \in S : rate[x] \in Nat
  PROVE  \E order \in SetToSeqs(S) : LargestFirst(order, rate, Cardinality(S))
<1> DEFINE G == {T \in SUBSET S : \E order \in SetToSeqs(T) : LargestFirst(order, rate, Cardinality(T))}
<1>1. ASSUME NEW T \in SUBSET S, \A x \in T : T \ {x} \in G
      PROVE  T \in G
  <2>0. IsFiniteSet(T) /\ Cardinality(T) \in Nat
    BY FS_Subset, FS_CardinalityType
  <2>1. CASE T = {}
    <3>1. Cardinality(T) = 0
      BY <2>1, FS_EmptySet
    <3> DEFINE order == [k \in 1 .. 0 |-> k]
    <3>2. order \in SetToSeqs(T)
      BY <2>1, <3>1 DEF SetToSeqs
    <3>3. LargestFirst(order, rate, Cardinality(T))
      BY <3>1 DEF LargestFirst
    <3>. QED BY <3>2, <3>3
  <2>2. CASE T # {}
    <3> DEFINE rates == {rate[x] : x \in T}
    <3>1. rates \in SUBSET Nat /\ rates # {}
      BY <2>2
    <3>2. PICK r \in rates : \A k \in rates : r <= k
      <4>. HIDE DEF rates
      <4>. QED BY <3>1, LeastOf
    <3>3. PICK x \in T : \A y \in T : rate[x] <= rate[y]
      BY <3>2
    <3> DEFINE R == T \ {x}
    <3>4. PICK rest \in SetToSeqs(R) : LargestFirst(rest, rate, Cardinality(R))
      BY <1>1
    <3>5. PICK n \in Nat : n = Cardinality(R) /\ n + 1 = Cardinality(T)
      <4>1. Cardinality(R) = Cardinality(T) - 1
        BY <2>0, FS_RemoveElement
      <4>2. Cardinality(R) \in Nat
        BY <2>0, FS_RemoveElement, FS_CardinalityType
      <4>. QED BY <2>0, <4>1, <4>2
    <3>6. rest \in [1 .. n -> R] /\ \A i, j \in 1 .. n : i # j => rest[i] # rest[j]
      BY <3>4, <3>5 DEF SetToSeqs
    <3> DEFINE order == [k \in 1 .. n + 1 |-> IF k <= n THEN rest[k] ELSE x]
    <3>7. order \in [1 .. n + 1 -> T]
      BY <3>6
    <3>8. ASSUME NEW i \in 1 .. n + 1, NEW j \in 1 .. n + 1, i # j
          PROVE  order[i] # order[j]
      <4>1. CASE i <= n /\ j <= n
        BY <3>6, <3>8, <4>1
      <4>2. CASE i <= n /\ ~(j <= n)
        <5>1. order[i] = rest[i] /\ order[j] = x /\ rest[i] \in R
          BY <3>6, <4>2
        <5>. QED BY <5>1
      <4>3. CASE ~(i <= n) /\ j <= n
        <5>1. order[j] = rest[j] /\ order[i] = x /\ rest[j] \in R
          BY <3>6, <4>3
        <5>. QED BY <5>1
      <4>4. CASE ~(i <= n) /\ ~(j <= n)
        BY <3>8, <4>4
      <4>. QED BY <4>1, <4>2, <4>3, <4>4
    <3>9. order \in SetToSeqs(T)
      <4>. HIDE DEF order
      <4>. QED BY <3>5, <3>7, <3>8 DEF SetToSeqs
    <3>10. ASSUME NEW k \in 2 .. n + 1 PROVE rate[order[k]] <= rate[order[k - 1]]
      <4>1. k - 1 \in 1 .. n /\ order[k - 1] = rest[k - 1] /\ rest[k - 1] \in T
        BY <3>6
      <4>2. CASE k <= n
        <5>1. order[k] = rest[k] /\ k \in 2 .. n
          BY <4>2
        <5>. QED BY <3>4, <3>5, <4>1, <5>1 DEF LargestFirst
      <4>3. CASE ~(k <= n)
        <5>1. order[k] = x
          BY <4>3
        <5>. QED BY <3>3, <4>1, <5>1
      <4>. QED BY <4>2, <4>3
    <3>11. LargestFirst(order, rate, Cardinality(T))
      <4>. HIDE DEF order
      <4>. QED BY <3>5, <3>10 DEF LargestFirst
    <3>. QED BY <3>9, <3>11
  <2>. QED BY <2>1, <2>2
<1>2. SUBSET S \subseteq G
  <2>. HIDE DEF G
  <2>. QED BY <1>1, SubsetInduction
<1>. QED BY <1>2

-----------------------------------------------------------------------------
(* The total can be divided by any number of sockets. *)
LEMMA TotalDivides ==
  ASSUME NEW previous \in Samples, NEW current \in Samples, NEW n \in 1 .. MaxSockets
  PROVE  /\ Total(previous, current) \in Nat
         /\ \E q \in Nat : Total(previous, current) = q * n
<1> DEFINE rates == Rates(previous, current)
           listed == Listed(current.stats)
<1>1. Total(previous, current) = SumFunctionOnSet(rates, listed) /\ IsFiniteSet(listed)
      /\ \A i \in listed : rates[i] \in Nat
  BY TotalIs
<1>2. n \in Nat
  BY BandwidthAssumption
<1>3. ASSUME NEW i \in listed PROVE \E q \in Nat : rates[i] = q * n
  <2>1. Delta(previous.stats, current.stats, i) \in Nat
    BY DeltaIs
  <2>2. rates[i] = (Unit * Delta(previous.stats, current.stats, i))
                     \div Elapsed(previous, current)
    BY DEF Rates
  <2> DEFINE d == Delta(previous.stats, current.stats, i)
  <2>. HIDE DEF d
  <2>3. \E q \in Nat : (Unit * d) \div Elapsed(previous, current) = q * n
    <3>1. d \in Nat
      BY <2>1 DEF d
    <3>. QED BY <3>1, RateIs
  <2>4. rates[i] = (Unit * d) \div Elapsed(previous, current)
    BY <2>2 DEF d
  <2>. HIDE DEF rates
  <2>. QED BY <2>3, <2>4
<1>. HIDE DEF rates, listed
<1>4. \E q \in Nat : SumFunctionOnSet(rates, listed) = q * n
  BY <1>1, <1>2, <1>3, SumMultiple
<1>5. SumFunctionOnSet(rates, listed) \in Nat
  BY <1>1, SumNat
<1>. QED BY <1>1, <1>4, <1>5

(* So many rates, none above the one before, share out a total. *)
Decreasing(rates) == \A k \in 2 .. Len(rates) : rates[k] <= rates[k - 1]

LEMMA SocketFlowsShare ==
  ASSUME NEW total \in Nat, NEW owned \in 1 .. MaxSockets, NEW q \in Nat, total = q * owned
  PROVE  /\ Len(SocketFlows(total, owned)) <= FLOWS
         /\ SumFunction(SocketFlows(total, owned)) <= total
         /\ owned <= FLOWS => SumFunction(SocketFlows(total, owned)) = total
         /\ Decreasing(SocketFlows(total, owned))
<1> DEFINE m == IF owned < FLOWS THEN owned ELSE FLOWS
           rates == SocketFlows(total, owned)
<1>1. owned \in Nat \ {0} /\ FLOWS \in Nat
  BY BandwidthAssumption
<1>2. m \in Nat /\ m <= FLOWS /\ m <= owned /\ (owned <= FLOWS => m = owned)
  BY <1>1
<1>3. total \div owned = q
  BY <1>1, Divided
<1>. HIDE DEF m
<1>4. rates = [k \in 1 .. m |-> q]
  BY <1>3 DEF SocketFlows, m
<1>. HIDE DEF rates
<1>5. Len(rates) = m /\ DOMAIN rates = 1 .. m /\ \A k \in 1 .. m : rates[k] = q
  BY <1>2, <1>4
<1>6. IsFiniteSet(1 .. m) /\ Cardinality(1 .. m) = m
  BY <1>2, FS_Interval
<1>7. SumFunctionOnSet(rates, 1 .. m) = m * q
  BY <1>5, <1>6, SumConstant
<1>8. SumFunction(rates) = m * q
  BY <1>5, <1>7 DEF SumFunction
<1>9. m * q <= owned * q /\ owned * q = q * owned
  BY <1>1, <1>2
<1>10. Decreasing(rates)
  BY <1>2, <1>5 DEF Decreasing
<1>. QED BY <1>2, <1>5, <1>8, <1>9, <1>10 DEF rates

LEMMA ProcessFlowsShare ==
  ASSUME NEW total \in Nat, NEW owners \in Owners, owners # << >>,
         NEW q \in Nat, total = q * SocketsShared(owners)
  PROVE  /\ Len(ProcessFlows(total, owners)) <= FLOWS
         /\ SumFunction(ProcessFlows(total, owners)) = total
         /\ Decreasing(ProcessFlows(total, owners))
<1> DEFINE groups == Groups(owners)
           n == Cardinality(groups)
           held == Held(owners)
           rate == [p \in groups |-> (total * SocketsOf(owners, p)) \div SocketsShared(owners)]
           order == Sorted(rate)
           rates == ProcessFlows(total, owners)
<1>1. IsFiniteSet(groups) /\ n \in Nat /\ n <= FLOWS
  BY GroupsAre, FS_CardinalityType
<1>2. /\ SocketsShared(owners) \in Nat \ {0}
      /\ \A p \in groups : held[p] \in Nat /\ SocketsOf(owners, p) = held[p]
      /\ SocketsShared(owners) = SumFunctionOnSet(held, groups)
  BY SharedIs, BandwidthAssumption
<1>3. ASSUME NEW p \in groups PROVE rate[p] = q * held[p] /\ rate[p] \in Nat
  <2> DEFINE a == SocketsOf(owners, p)
             b == SocketsShared(owners)
  <2>1. a \in Nat /\ b \in Nat \ {0} /\ held[p] = a
    BY <1>2
  <2>2. rate[p] = ((q * b) * a) \div b
    OBVIOUS
  <2>. HIDE DEF a, b
  <2>3. (q * b) * a = (q * a) * b /\ q * a \in Nat
    BY <2>1
  <2>4. ((q * a) * b) \div b = q * a
    BY <2>1, <2>3, Divided
  <2>. QED BY <2>1, <2>2, <2>3, <2>4
<1>4. SumFunctionOnSet(rate, groups) = total
  <2>1. SumFunctionOnSet(rate, groups) = q * SumFunctionOnSet(held, groups)
    <3>. HIDE DEF rate, held, groups
    <3>. QED BY <1>1, <1>2, <1>3, SumScaled
  <2>. QED BY <1>2, <2>1
<1>5. DOMAIN rate = groups /\ rates = [k \in 1 .. n |-> rate[order[k]]]
  BY DEF ProcessFlows
<1>. HIDE DEF rate, held, rates, groups
<1>6. order \in SetToSeqs(groups) /\ LargestFirst(order, rate, n)
  <2>1. \E o \in SetToSeqs(groups) : LargestFirst(o, rate, n)
    BY <1>1, <1>3, SortedExists
  <2>2. order = CHOOSE o \in SetToSeqs(groups) : LargestFirst(o, rate, n)
    BY <1>5 DEF Sorted, LargestFirst
  <2>. HIDE DEF order, n
  <2>. QED BY <2>1, <2>2
<1>. HIDE DEF order
<1>7. order \in [1 .. n -> groups] /\ \A i, j \in 1 .. n : order[i] = order[j] => i = j
  BY <1>6 DEF SetToSeqs
<1>8. IsFiniteSet(1 .. n) /\ Cardinality(1 .. n) = n
  BY <1>1, FS_Interval
<1>9. \A p \in groups : \E k \in 1 .. n : order[k] = p
  <2>1. order \in Injection(1 .. n, groups)
    BY <1>7 DEF Injection, IsInjective
  <2>2. order \in Surjection(1 .. n, groups)
    <3>. HIDE DEF n
    <3>1. Cardinality(1 .. n) = Cardinality(groups)
      BY <1>8 DEF n
    <3>. QED BY <1>1, <2>1, <3>1, FS_Injection
  <2>. QED BY <2>2 DEF Surjection
<1>. HIDE DEF n
<1>10. Len(rates) = n /\ DOMAIN rates = 1 .. n /\ \A k \in 1 .. n : rates[k] = rate[order[k]]
  BY <1>1, <1>5
<1>11. SumFunctionOnSet(rates, 1 .. n) = SumFunctionOnSet(rate, groups)
  <2>1. Reorders(order, rates, 1 .. n, rate, groups)
    BY <1>1, <1>3, <1>7, <1>8, <1>9, <1>10 DEF Reorders
  <2>. QED BY <2>1, SumReordered
<1>12. SumFunction(rates) = total
  BY <1>4, <1>10, <1>11 DEF SumFunction
<1>13. Decreasing(rates)
  <2>. SUFFICES ASSUME NEW k \in 2 .. n PROVE rates[k] <= rates[k - 1]
    BY <1>10 DEF Decreasing
  <2>1. k \in 1 .. n /\ k - 1 \in 1 .. n
    BY <1>1
  <2>2. rate[order[k]] <= rate[order[k - 1]]
    BY <1>6 DEF LargestFirst
  <2>. QED BY <1>10, <2>1, <2>2
<1>. QED BY <1>1, <1>10, <1>12, <1>13 DEF rates

(* What FlowsShareTotal says of one report. *)
Shares(report, total, owned) ==
  /\ Len(report.rates) <= FLOWS
  /\ SumFunction(report.rates) <= total
  /\ report.mode # "interface" /\ owned <= FLOWS => SumFunction(report.rates) = total
  /\ Decreasing(report.rates)

(* The flows of a report together have its total, unless connections beyond *)
(* the last flow are left out, and the largest comes first: for any number  *)
(* of flows, connections and processes, any counters and any clock          *)
(* (trfx_collect_bandwidth_report).                                         *)
THEOREM FlowsAlwaysShareTotal == Spec => []FlowsShareTotal
<1>1. SamplesInv => FlowsShareTotal
  <2>. SUFFICES ASSUME SamplesInv, count = 2,
                       NEW owned \in 0 .. MaxSockets, NEW owners \in Owners
       PROVE  Shares(Report(ReportTotal, owned, owners), ReportTotal, owned)
    BY DEF FlowsShareTotal, Owners, Shares, Decreasing
  <2> DEFINE report == Report(ReportTotal, owned, owners)
  <2>1. PICK previous \in Samples, current \in Samples :
          ReportTotal = Total(previous, current)
    <3>1. ReportTotal = Total(latest[count - 1], latest[count])
      BY RingReads DEF ReportTotal
    <3>. QED BY <3>1, RingReads
  <2>2. owned \in Nat /\ FLOWS \in Nat /\ 1 \in 1 .. MaxSockets
    BY BandwidthAssumption
  <2>3. ReportTotal \in Nat
    BY <2>1, <2>2, TotalDivides
  <2>4. CASE owned > 0
    <3>1. owned \in 1 .. MaxSockets
      BY <2>2, <2>4, BandwidthAssumption
    <3>2. PICK q \in Nat : ReportTotal = q * owned
      BY <2>1, <3>1, TotalDivides
    <3>3. report.rates = SocketFlows(ReportTotal, owned)
      BY <2>4 DEF Report
    <3>. HIDE DEF report
    <3>4. /\ Len(report.rates) <= FLOWS /\ Decreasing(report.rates)
          /\ SumFunction(report.rates) <= ReportTotal
          /\ owned <= FLOWS => SumFunction(report.rates) = ReportTotal
      BY <2>3, <3>1, <3>2, <3>3, SocketFlowsShare
    <3>5. Shares(report, ReportTotal, owned)
      BY <3>4 DEF Shares
    <3>. QED BY <3>5 DEF report
  <2>5. CASE ~(owned > 0) /\ owners # << >>
    <3>1. SocketsShared(owners) \in 1 .. MaxSockets
      BY <2>5, SharedIs
    <3>2. PICK q \in Nat : ReportTotal = q * SocketsShared(owners)
      BY <2>1, <3>1, TotalDivides
    <3>3. report.rates = ProcessFlows(ReportTotal, owners)
      BY <2>5 DEF Report
    <3>. HIDE DEF report
    <3>4. /\ Len(report.rates) <= FLOWS /\ Decreasing(report.rates)
          /\ SumFunction(report.rates) = ReportTotal
      BY <2>3, <2>5, <3>2, <3>3, ProcessFlowsShare
    <3>5. Shares(report, ReportTotal, owned)
      BY <2>3, <3>4 DEF Shares
    <3>. QED BY <3>5 DEF report
  <2>6. CASE ~(owned > 0) /\ owners = << >>
    <3>1. report.mode = "interface" /\ report.rates = << >>
      BY <2>6 DEF Report
    <3>. HIDE DEF report
    <3>2. SumFunction(report.rates) = 0
      <4>1. DOMAIN report.rates = {}
        BY <3>1
      <4>. QED BY <4>1, SumEmpty DEF SumFunction
    <3>3. Len(report.rates) = 0 /\ Decreasing(report.rates)
      BY <3>1 DEF Decreasing
    <3>4. Shares(report, ReportTotal, owned)
      BY <2>2, <2>3, <3>1, <3>2, <3>3 DEF Shares
    <3>. QED BY <3>4 DEF report
  <2>. QED BY <2>4, <2>5, <2>6
<1>. QED BY <1>1, SamplesInvInit, SamplesInvNext, PTL DEF Spec
=============================================================================
