---------------------------- MODULE TrfxBandwidth ----------------------------
(***************************************************************************)
(* What is computed from a history of samples: the totals and flows of the *)
(* report and the points of the trend (src/trfx_bandwidth.c).              *)
(*                                                                         *)
(* A rate is a whole number of 1/Unit bytes per second.  Unit is chosen so *)
(* that every division is exact; the rounding of doubles is not modelled.  *)
(***************************************************************************)
EXTENDS TrfxSamples, FiniteSets, Functions, SequencesExt

CONSTANTS
  Unit,
  POINTS,      \* TRFX_MAX_BANDWIDTH_TREND_POINTS
  FLOWS,       \* TRFX_MAX_BANDWIDTH_FLOWS
  Processes,
  MaxSockets   \* bound on connections and on socket owners

ASSUME BandwidthAssumption ==
  /\ POINTS \in Nat \ {0} /\ FLOWS \in Nat \ {0} /\ MaxSockets \in Nat \ {0}
  /\ Unit \in Nat \ {0}
  /\ IsFiniteSet(Interfaces)  \* TRFX_MAX_INTERFACES of them
  /\ \A n \in 1 .. MaxSockets : Unit % n = 0
  /\ \A n \in 1 .. MaxSockets, s, t \in Times : s > t => Unit % (n * (s - t)) = 0

-----------------------------------------------------------------------------
(* Mutant for Elapsed: a clock that stands still is not noticed. *)
ElapsedAsIs(previous, current) == current.at - previous.at

(* Whole seconds; a clock that stands still or goes back counts as one. *)
Elapsed(previous, current) ==
  IF current.at > previous.at THEN current.at - previous.at ELSE 1

(* trfx_calculate_interface_rates refuses an interval that is not positive, *)
(* and its callers then have no rates.                                      *)
Total(previous, current) ==
  LET seconds == Elapsed(previous, current)
      rates == [i \in Listed(current.stats) |->
                  (Unit * Delta(previous.stats, current.stats, i)) \div seconds]
  IN  IF seconds > 0 THEN SumFunction(rates) ELSE 0

(* The total of trfx_collect_bandwidth_report. *)
ReportTotal == IF count < 2 THEN 0 ELSE Total(At(count - 2), At(count - 1))

PointCount == IF count < 2 THEN 0 ELSE IF count - 1 > POINTS THEN POINTS ELSE count - 1

(* Mutant for Trend: it begins with the oldest sample. *)
TrendFromOldest ==
  [k \in 1 .. PointCount |->
     [at |-> At(k).at, total |-> Total(At(k - 1), At(k))]]

(* trfx_collect_bandwidth_trend *)
Trend ==
  LET start == count - PointCount - 1
  IN  [k \in 1 .. PointCount |->
         [at |-> At(start + k).at, total |-> Total(At(start + k - 1), At(start + k))]]

-----------------------------------------------------------------------------
(* The flows of a report with this total, of a history of two samples or    *)
(* more, when the newest has so many connections that have an owner, and    *)
(* these owners of sockets.                                                 *)

SocketFlows(total, owned) ==
  [k \in 1 .. (IF owned < FLOWS THEN owned ELSE FLOWS) |-> total \div owned]

FirstSocket(owners, p) ==
  CHOOSE k \in DOMAIN owners : owners[k] = p /\ \A j \in 1 .. k - 1 : owners[j] # p

(* The processes that get a group: the first FLOWS to be met. *)
Groups(owners) ==
  LET Before(p) == {q \in ToSet(owners) : FirstSocket(owners, q) < FirstSocket(owners, p)}
  IN  {p \in ToSet(owners) : Cardinality(Before(p)) < FLOWS}

SocketsOf(owners, p) == Cardinality({k \in DOMAIN owners : owners[k] = p})

(* Mutant for SocketsShared: the sockets of processes that got no group     *)
(* have a share too.                                                        *)
SocketsSharedByAll(owners) == Len(owners)

SocketsShared(owners) == SumFunction([p \in Groups(owners) |-> SocketsOf(owners, p)])

(* sort_bandwidth_flows: the largest first; ties do not show in the rates. *)
Sorted(rate) ==
  CHOOSE order \in SetToSeqs(DOMAIN rate) :
    \A k \in 2 .. Cardinality(DOMAIN rate) : rate[order[k]] <= rate[order[k - 1]]

ProcessFlows(total, owners) ==
  LET rate  == [p \in Groups(owners) |->
                  (total * SocketsOf(owners, p)) \div SocketsShared(owners)]
      order == Sorted(rate)
  IN  [k \in 1 .. Cardinality(Groups(owners)) |-> rate[order[k]]]

Report(total, owned, owners) ==
  IF owned > 0
  THEN [mode |-> "socket", rates |-> SocketFlows(total, owned)]
  ELSE IF owners # << >>
  THEN [mode |-> "process", rates |-> ProcessFlows(total, owners)]
  ELSE [mode |-> "interface", rates |-> << >>]

-----------------------------------------------------------------------------
(* Traffic is not swallowed: bytes that an interface counted on, without    *)
(* wrapping, between the two newest samples make the report's total         *)
(* positive, whatever the clock did meanwhile.                              *)
TrafficIsSeen ==
  count >= 2 =>
    LET previous == latest[count - 1].stats
        current  == latest[count].stats
    IN  (\E i \in Interfaces : previous[i] # Absent /\ current[i] # Absent
                               /\ previous[i] < current[i])
          => ReportTotal > 0

(* The trend is the recent past in order: its points are the rates between  *)
(* neighbours in the history, without a gap, and the last of them is the    *)
(* total that the report shows beside it.                                   *)
TrendEndsInReport ==
  /\ Len(Trend) = (IF Len(latest) < 2 THEN 0
                   ELSE IF Len(latest) - 1 < POINTS THEN Len(latest) - 1 ELSE POINTS)
  /\ \A k \in DOMAIN Trend :
       LET last == Len(latest) - (Len(Trend) - k)
       IN  Trend[k] = [at |-> latest[last].at, total |-> Total(latest[last - 1], latest[last])]
  /\ Trend # << >> => Trend[Len(Trend)].total = ReportTotal

(* The flows share out the traffic: together they have what the interfaces  *)
(* moved, unless connections beyond the last flow are left out, and never   *)
(* more; the largest comes first.  The report reads two samples, so a       *)
(* history of two shows them all.                                           *)
FlowsShareTotal ==
  count = 2 =>
    \A owned \in 0 .. MaxSockets, owners \in BoundedSeq(Processes, MaxSockets) :
      LET report == Report(ReportTotal, owned, owners)
          sum    == SumFunction(report.rates)
      IN  /\ Len(report.rates) <= FLOWS
          /\ sum <= ReportTotal
          /\ report.mode # "interface" /\ owned <= FLOWS => sum = ReportTotal
          /\ \A k \in 2 .. Len(report.rates) : report.rates[k] <= report.rates[k - 1]
=============================================================================
