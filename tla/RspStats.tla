------------------------------ MODULE RspStats ------------------------------
(***************************************************************************)
(* smallfile_rsptimes_stats.py: which response times are in the statistics *)
(* of a time interval.  A thread's file is a sequence of samples, records  *)
(* of the time at which the operation began (at) and of how long it took   *)
(* (rsp).  start_time and the interval are whole seconds; a time here is   *)
(* in the unit of the samples, of which Second make a second.              *)
(*                                                                         *)
(* Left out: names of files and hosts, and the statistics themselves.      *)
(***************************************************************************)
EXTENDS Integers, Sequences, FiniteSets, Functions, FiniteSetsExt

CONSTANTS
  Second,
  min_rsptime_samples    \* 5 in the code

ASSUME RspStatsAssumption == {Second, min_rsptime_samples} \subseteq Nat \ {0}

\* The samples of all threads, each known by its thread and its place there.
Samples(threads) == UNION {{k} \X DOMAIN threads[k] : k \in DOMAIN threads}

AtTime(threads, s) == threads[s[1]][s[2]].at

\* The order into which do_sorting puts the samples of one thread after the
\* other, by time; a stable sort.
Before(threads, s, q) ==
  \/ AtTime(threads, s) < AtTime(threads, q)
  \/ AtTime(threads, s) = AtTime(threads, q) /\ s[1] < q[1]
  \/ AtTime(threads, s) = AtTime(threads, q) /\ s[1] = q[1] /\ s[2] < q[2]

\* The index of a sample in the sorted list, from 0.
Index(threads, s) == Cardinality({q \in Samples(threads) : Before(threads, q, s)})

\* bisect_right and bisect_left on the sorted times.
find_le(threads, x) == Cardinality({q \in Samples(threads) : AtTime(threads, q) <= x})

\* Mutant: the other bisect.
Mutfind_gt(threads, x) == Cardinality({q \in Samples(threads) : AtTime(threads, q) <= x})

find_gt(threads, x) == Cardinality({q \in Samples(threads) : AtTime(threads, q) < x})

\* The slice of reduce_thread_set for an interval.
InInterval(threads, from_time, to_time) ==
  LET start_index == find_le(threads, from_time)
      end_index == find_gt(threads, to_time)
  IN {s \in Samples(threads) : Index(threads, s) \in start_index .. end_index - 1}

\* The samples that the statistics are made of, none if they are too few.
ReduceThreadSet(threads, from_time, to_time) ==
  LET slice == InInterval(threads, from_time, to_time)
  IN IF Cardinality(slice) < min_rsptime_samples THEN {} ELSE slice

\* The end of the last operation of any thread, rounded down to intervals.
ThreadEnds(threads) ==
  [k \in DOMAIN threads |->
     LET s == threads[k] IN IF s = <<>> THEN 0 ELSE s[Len(s)].at + s[Len(s)].rsp]

QuantizedEnd(threads, time_interval) ==
  LET end == Max(Range(ThreadEnds(threads))) \div Second
  IN (end \div time_interval) * time_interval

\* Where the intervals begin, in seconds; none if there is but one interval.
IntervalStarts(threads, start_time, time_interval) ==
  LET end == QuantizedEnd(threads, time_interval)
  IN IF end > 0
     THEN {t \in start_time .. end - 1 : (t - start_time) % time_interval = 0}
     ELSE {}

\* The samples in the statistics of every interval.
Slices(threads, start_time, time_interval) ==
  [t \in IntervalStarts(threads, start_time, time_interval) |->
     ReduceThreadSet(threads, t * Second, (t + time_interval) * Second)]
=============================================================================
