-------------------------- MODULE MonitorHistory --------------------------
(***************************************************************************)
(* What is kept of one monitor's probes (internal/monitor/rollup.go): the  *)
(* samples, folded into minutes and later into hours by a sweep that runs  *)
(* every few minutes while samples arrive, and the reports read from the   *)
(* three.  Each fold is a transaction of its own; the sweep may stop after *)
(* any of them.  Time is in ticks, and a sample is known by its time.      *)
(***************************************************************************)
EXTENDS Integers, FiniteSets, FiniteSetsExt

CONSTANTS
    Minute, Hour,                               \* ticks in each, an hour of whole minutes
    RawRetention, MinRetention, HourRetention,  \* how long samples, minutes and hours are kept
    MonthWindow,                                \* the longest window of UptimeAt, within the hours kept
    MaxSamplesPerMonitor,                       \* the cap of prune
    Latency,                                    \* tick: what an answered probe took
    Gaps,                                       \* ticks between two events
    MaxTime,                                    \* bound: ticks
    MaxKept                                     \* bound: probes

VARIABLES
    time,    \* now
    raw,     \* monitor_sample: time and outcome
    rolled,  \* monitor_rollup: period, bucket, counts, and the least, mean and greatest latency of what was answered
    sweep,   \* the sweep under way: its next step and the time it began with, or Resting
    kept,    \* history: every sample there ever was
    pruned   \* history: whether the cap ever dropped a sample

historyVars == <<time, raw, rolled, sweep, kept, pruned>>

Resting == [at |-> "rest", since |-> 0]
HistoryInit == time = HourRetention /\ raw = {} /\ rolled = {} /\ sweep = Resting /\ kept = {} /\ pruned = FALSE

Floor(t, period) == (t \div period) * period
Length(period) == IF period = "1m" THEN Minute ELSE Hour
Sum(set, f(_)) == MapThenSumSet(f, set)
LeastOf(set) == IF set = {} THEN 0 ELSE CHOOSE x \in set : \A y \in set : x <= y
MostOf(set) == IF set = {} THEN 0 ELSE CHOOSE x \in set : \A y \in set : x >= y

\* One row of a GROUP BY: the samples of a minute; the rows of an hour, their means weighted by their counts.
\* A mean is kept as the sum it divides.
MinuteOf(bucket, set) ==
    LET ok == {s \in set : s.ok}  took == {Latency[s.t] : s \in ok} IN
    [period |-> "1m", bucket |-> bucket, ok |-> Cardinality(ok), total |-> Cardinality(set),
     min |-> LeastOf(took), sum |-> Sum(ok, LAMBDA s : Latency[s.t]), max |-> MostOf(took)]
HourOf(bucket, rows) ==
    LET ok == {r \in rows : r.ok > 0} IN
    [period |-> "1h", bucket |-> bucket, ok |-> Sum(rows, LAMBDA r : r.ok), total |-> Sum(rows, LAMBDA r : r.total),
     min |-> LeastOf({r.min : r \in ok}), sum |-> Sum(ok, LAMBDA r : r.sum), max |-> MostOf({r.max : r \in ok})]
ByMinute(set) == {MinuteOf(b, {s \in set : Floor(s.t, Minute) = b}) : b \in {Floor(s.t, Minute) : s \in set}}
ByHour(rows) == {HourOf(b, {r \in rows : Floor(r.bucket, Hour) = b}) : b \in {Floor(r.bucket, Hour) : r \in rows}}
\* ON CONFLICT: a bucket that is there is replaced.
Upsert(rows) == {r \in rolled : ~\E n \in rows : n.period = r.period /\ n.bucket = r.bucket} \cup rows

-----------------------------------------------------------------------------
Probe(gap, ok) ==
    /\ time + gap <= MaxTime /\ Cardinality(kept) < MaxKept
    /\ time' = time + gap
    /\ raw' = raw \cup {[t |-> time', ok |-> ok]}
    /\ kept' = kept \cup {[t |-> time', ok |-> ok]}
    /\ UNCHANGED <<rolled, sweep, pruned>>
\* The monitor is paused, or the process is down.
Wait(gap) ==
    /\ time + gap <= MaxTime
    /\ time' = time + gap
    /\ UNCHANGED <<raw, rolled, sweep, kept, pruned>>

\* The cuts of a sweep are taken from the time it begins, on whole buckets.
StartSweep ==
    /\ sweep = Resting
    /\ sweep' = [at |-> "raw", since |-> time]
    /\ UNCHANGED <<time, raw, rolled, kept, pruned>>
RawCutExact == sweep.since - RawRetention  \* mutant: the cut falls within a minute
RawCut == Floor(sweep.since - RawRetention, Minute)
MinCutExact == sweep.since - MinRetention  \* mutant: the cut falls within an hour
MinCut == Floor(sweep.since - MinRetention, Hour)
FoldRaw ==
    /\ sweep.at = "raw"
    /\ LET old == {s \in raw : s.t < RawCut} IN rolled' = Upsert(ByMinute(old)) /\ raw' = raw \ old
    /\ sweep' = [sweep EXCEPT !.at = "minutes"]
    /\ UNCHANGED <<time, kept, pruned>>
FoldMinutes ==
    /\ sweep.at = "minutes"
    /\ LET old == {r \in rolled : r.period = "1m" /\ r.bucket < MinCut} IN rolled' = Upsert(ByHour(old)) \ old
    /\ sweep' = [sweep EXCEPT !.at = "hours"]
    /\ UNCHANGED <<time, raw, kept, pruned>>
DropHours ==
    /\ sweep.at = "hours"
    /\ rolled' = {r \in rolled : ~(r.period = "1h" /\ r.bucket < sweep.since - HourRetention)}
    /\ sweep' = [sweep EXCEPT !.at = "prune"]
    /\ UNCHANGED <<time, raw, kept, pruned>>
Prune ==
    /\ sweep.at = "prune"
    /\ raw' = {s \in raw : Cardinality({n \in raw : n.t > s.t}) < MaxSamplesPerMonitor}
    /\ pruned' = (pruned \/ raw' # raw)
    /\ sweep' = Resting
    /\ UNCHANGED <<time, rolled, kept>>
\* A statement fails, or the process ends: the sweep is not resumed.
Stops == sweep # Resting /\ sweep' = Resting /\ UNCHANGED <<time, raw, rolled, kept, pruned>>

HistoryNext ==
    \/ \E gap \in Gaps : Wait(gap) \/ \E ok \in BOOLEAN : Probe(gap, ok)
    \/ StartSweep \/ FoldRaw \/ FoldMinutes \/ DropHours \/ Prune \/ Stops

-----------------------------------------------------------------------------
(* Reports.                                                                *)

\* mutant: a row is counted when it ends in the window
RowsTouched(since) ==
    [ok |-> Cardinality({s \in raw : s.t >= since /\ s.ok}) + Sum({r \in rolled : r.bucket + Length(r.period) > since}, LAMBDA r : r.ok),
     total |-> Cardinality({s \in raw : s.t >= since}) + Sum({r \in rolled : r.bucket + Length(r.period) > since}, LAMBDA r : r.total)]
CountsSince(since) ==
    [ok |-> Cardinality({s \in raw : s.t >= since /\ s.ok}) + Sum({r \in rolled : r.bucket >= since}, LAMBDA r : r.ok),
     total |-> Cardinality({s \in raw : s.t >= since}) + Sum({r \in rolled : r.bucket >= since}, LAMBDA r : r.total)]

\* The rows of a chart; the one of minutes does not look into the hours.
Within(x, from, to) == from <= x /\ x <= to
Series(from, to, period) ==
    LET fresh == ByMinute({s \in raw : Within(s.t, from, to)})
        old == {r \in rolled : Within(r.bucket, from, to)}
    IN  IF period = "1m" THEN {r \in old : r.period = "1m"} \cup fresh ELSE ByHour(old \cup fresh)

-----------------------------------------------------------------------------
\* Every sample of an hour that is still kept is counted once, in the samples, a minute or the hour, and its
\* outcome and latency with it, wherever a sweep stopped.
AllCounted ==
    LET gone == {r \in kept : Floor(r.t, Hour) < time - HourRetention} IN
    Series(Floor(time - HourRetention, Hour), time, "1h") \cup ByHour(ByMinute(gone)) = ByHour(ByMinute(kept)) \cup ByHour(ByMinute(gone))
\* Nor is a minute drawn twice.
DrawnOnce == \A r, s \in Series(0, time, "1m") : r.bucket = s.bucket => r = s
\* The availability of a window counts no sample from before it, and misses samples of the one bucket its start
\* falls into, if any: none of 24 hours, those of less than a minute of 7 days, and of less than an hour of 30 days,
\* whose oldest rows are hours (rollup.go says of all three that they miss less than a minute; README, section 6).
Windows == {[span |-> RawRetention, bucket |-> 1], [span |-> MinRetention, bucket |-> Minute], [span |-> MonthWindow, bucket |-> Hour]}
UptimeClose == \A w \in Windows :
    LET since == time - w.span
        inside == {s \in kept : s.t >= since}
        whole == {s \in kept : Floor(s.t, w.bucket) >= since}
        counts == CountsSince(since)
        ok(set) == Cardinality({s \in set : s.ok})
    IN  /\ counts.total \in Cardinality(whole)..Cardinality(inside)
        /\ counts.ok \in ok(whole)..ok(inside)
\* What the cap leaves are the latest samples.
LatestKept == \A s \in kept : Cardinality({n \in kept : n.t > s.t}) < MaxSamplesPerMonitor =>
    s \in raw \/ s.t < time - RawRetention
HistoryKept == (~pruned => AllCounted /\ DrawnOnce /\ UptimeClose) /\ LatestKept
=============================================================================
