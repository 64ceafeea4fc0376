----------------------------- MODULE TrfxSamples -----------------------------
(***************************************************************************)
(* The history of network samples and the rates between two of them        *)
(* (src/trfx_netinfo.c).  The thread of the network module and the support *)
(* thread have one history each, which no other thread sees; this is one   *)
(* of them.  A sample is what the kernel's counters were at a second of    *)
(* the clock.  The two directions of an interface are alike, so one is     *)
(* modelled.                                                               *)
(*                                                                         *)
(* The kernel is the environment: an interface counts on, wraps around,    *)
(* starts again from zero, is taken away or cannot be read, or comes back. *)
(***************************************************************************)
EXTENDS Integers, Sequences

CONSTANTS
  HISTORY,     \* TRFX_NETWORK_SAMPLE_HISTORY
  Interfaces,
  Modulus,     \* counters are unsigned: 2^64 in the kernel
  MaxBytes,    \* bound on the bytes of an interface between two samples
  Times,       \* what time() may return; the clock may be set back
  Absent,      \* no such interface
  Unused       \* a slot never written

Counters == 0 .. Modulus - 1
Bytes == 0 .. MaxBytes
Stats == [Interfaces -> Counters \cup {Absent}]
Samples == [at : Times, stats : Stats]

ASSUME SamplesAssumption ==
  /\ HISTORY \in Nat \ {0}
  /\ Modulus \in Nat \ {0}
  /\ MaxBytes \in Nat
  /\ Times \subseteq Int
  /\ Absent \notin Counters
  /\ Unused \notin Samples

VARIABLES
  samples, head, count,   \* the ring
  kernel,                 \* the counters now
  moved,                  \* bytes of each interface since the sample before the last
  latest                  \* what the ring has to hold, oldest first

ring == <<samples, head, count>>
vars == <<ring, kernel, moved, latest>>

Slots == 0 .. HISTORY - 1

TypeOK ==
  /\ samples \in [Slots -> Samples \cup {Unused}]
  /\ head \in Slots
  /\ count \in 0 .. HISTORY
  /\ kernel \in Stats
  /\ moved \in [Interfaces -> Bytes]
  /\ latest \in Seq(Samples)

(* trfx_init_network_sample_buffer *)
Init ==
  /\ samples = [slot \in Slots |-> Unused]
  /\ head = 0
  /\ count = 0
  /\ kernel \in Stats
  /\ moved = [i \in Interfaces |-> 0]
  /\ latest = << >>

-----------------------------------------------------------------------------
(* Mutants for Push: a ring that does not know when it is full; a full      *)
(* ring overwrites its oldest sample and forgets that the next one is the   *)
(* oldest now.                                                              *)
PushUncapped(sample) ==
  /\ samples' = [samples EXCEPT ![(head + count) % HISTORY] = sample]
  /\ count' = count + 1
  /\ UNCHANGED head

PushKeepsHead(sample) ==
  /\ samples' = [samples EXCEPT ![(head + count) % HISTORY] = sample]
  /\ count' = IF count < HISTORY THEN count + 1 ELSE count
  /\ UNCHANGED head

(* trfx_network_sample_buffer_push *)
Push(sample) ==
  /\ samples' = [samples EXCEPT ![(head + count) % HISTORY] = sample]
  /\ IF count < HISTORY
     THEN count' = count + 1 /\ UNCHANGED head
     ELSE head' = (head + 1) % HISTORY /\ UNCHANGED count

(* trfx_network_sample_buffer_at, for index < count *)
At(index) == samples[(head + index) % HISTORY]

(* Mutant for Delta: the counters are subtracted as they are. *)
DeltaUnguarded(previous, current, i) ==
  IF previous[i] # Absent THEN (current[i] - previous[i]) % Modulus ELSE 0

(* What trfx_calculate_interface_rates takes an interface of the current   *)
(* sample to have moved.                                                   *)
Delta(previous, current, i) ==
  IF previous[i] # Absent /\ current[i] >= previous[i]
  THEN current[i] - previous[i]
  ELSE 0

Listed(stats) == {i \in Interfaces : stats[i] # Absent}

-----------------------------------------------------------------------------
CountsOn(i, bytes, counter) ==
  kernel[i] # Absent /\ counter = (kernel[i] + bytes) % Modulus

Restarts(i, bytes, counter) == counter = bytes

(* Taken away, or not to be read this time. *)
Vanishes(i, bytes, counter) == counter = Absent /\ bytes = 0

(* To be read again, or moved here, with a counter of any value. *)
Appears(i, bytes, counter) == kernel[i] = Absent /\ counter \in Counters /\ bytes = 0

(* The latest samples with one more, as many as fit. *)
Extended(sample) ==
  IF Len(latest) < HISTORY THEN Append(latest, sample) ELSE Append(Tail(latest), sample)

(* One round of the thread: the kernel's counters are read and pushed.     *)
Round ==
  \E bytes \in [Interfaces -> Bytes], stats \in Stats, at \in Times :
    /\ \A i \in Interfaces :
         \/ CountsOn(i, bytes[i], stats[i])
         \/ Restarts(i, bytes[i], stats[i])
         \/ Vanishes(i, bytes[i], stats[i])
         \/ Appears(i, bytes[i], stats[i])
    /\ Push([at |-> at, stats |-> stats])
    /\ kernel' = stats
    /\ moved' = bytes
    /\ latest' = Extended([at |-> at, stats |-> stats])

Next == Round

Spec == Init /\ [][Next]_vars

-----------------------------------------------------------------------------
(* Read by trfx_network_sample_buffer_at from 0, the ring holds the latest  *)
(* samples, as many as fit, oldest first, however often it went round.      *)
RingIsLatest ==
  /\ count = Len(latest)
  /\ \A k \in 1 .. count : At(k - 1) = latest[k]

(* The bytes an interface is said to have moved between the two newest      *)
(* samples are never more than it moved: a counter that was reset or has    *)
(* wrapped, or an interface that came back, shows no traffic that was not.  *)
NoPhantomBytes ==
  count >= 2 =>
    \A i \in Listed(At(count - 1).stats) :
      Delta(At(count - 2).stats, At(count - 1).stats, i) <= moved[i]
=============================================================================
