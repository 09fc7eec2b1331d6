------------------------------ MODULE Results -------------------------------
(***************************************************************************)
(* output_results: the roll-up of the workers' invokes over threads and    *)
(* hosts, and the warnings.  The driver passes the invokes of the hosts    *)
(* whose pickles it could read (module TestDriver).                        *)
(*                                                                         *)
(* An invoke is a record of onhost, tid, status (0 is OK), elapsed_time,   *)
(* filenum_final and rq_final, which are None if the thread never measured.*)
(* Rates are in units small enough to be whole numbers.                    *)
(***************************************************************************)
EXTENDS Integers, Sequences, SequencesExt

CONSTANT RateUnit      \* a common multiple of the elapsed times

ASSUME ResultsAssumption == RateUnit \in Nat \ {0}

OK == 0
None == -1
NeverElapsed == 100000000
pct_files_min == 70

-----------------------------------------------------------------------------
\* result_stats

NoStats == [status |-> OK, elapsed |-> 0, files |-> 0, records |-> 0,
            files_per_sec |-> 0, IOPS |-> 0]

OrElse(value, default) == IF value = None THEN default ELSE value

GetFromInvoke(invk) ==
  LET rate(n) == IF invk.elapsed_time > 0
                 THEN (n * RateUnit) \div invk.elapsed_time ELSE 0
  IN [status |-> invk.status,
      elapsed |-> OrElse(invk.elapsed_time, NeverElapsed),
      files |-> OrElse(invk.filenum_final, 0),
      records |-> OrElse(invk.rq_final, 0),
      files_per_sec |-> rate(invk.filenum_final),
      IOPS |-> rate(invk.rq_final)]

\* Mutant: the status of the last one counts.
MutAddTo(stats, c) ==
  [status |-> c.status,
   elapsed |-> IF c.elapsed > stats.elapsed THEN c.elapsed ELSE stats.elapsed,
   files |-> stats.files + c.files,
   records |-> stats.records + c.records,
   files_per_sec |-> stats.files_per_sec + c.files_per_sec,
   IOPS |-> stats.IOPS + c.IOPS]

AddTo(stats, c) ==
  [status |-> IF stats.status = OK THEN c.status ELSE stats.status,
   elapsed |-> IF c.elapsed > stats.elapsed THEN c.elapsed ELSE stats.elapsed,
   files |-> stats.files + c.files,
   records |-> stats.records + c.records,
   files_per_sec |-> stats.files_per_sec
                       + (IF c.elapsed > 0 THEN c.files_per_sec ELSE 0),
   IOPS |-> stats.IOPS + (IF c.elapsed > 0 THEN c.IOPS ELSE 0)]

\* The statistics of the first invokes, of those that are to be counted.
Total(invokes, counted) ==
  LET stats[n \in 0 .. Len(invokes)] ==
        IF n = 0 THEN NoStats
        ELSE IF n \in counted THEN AddTo(stats[n - 1], GetFromInvoke(invokes[n]))
        ELSE stats[n - 1]
  IN stats

-----------------------------------------------------------------------------
\* output_results; with no invoke at all it raises SMFResultException.

Cluster(invokes) == Total(invokes, DOMAIN invokes)[Len(invokes)]

HostStats(invokes, h) ==
  Total(invokes, {i \in DOMAIN invokes : invokes[i].onhost = h})[Len(invokes)]

\* Mutant: the missing are not counted.
MutTooFewResponses(invokes, hosts, thread_count) == Len(invokes) < hosts

TooFewResponses(invokes, hosts, thread_count) == Len(invokes) < hosts * thread_count

\* The files requested are those of the invokes that came.
TooFewFiles(invokes, iterations) ==
  100 * Cluster(invokes).files < pct_files_min * iterations * Len(invokes)

\* The warnings it prints.
Warnings(invokes, hosts, thread_count, iterations) ==
  {w \in {"never completed", "responses", "too short", "thread error", "files"} :
     CASE w = "never completed" ->
            \E i \in DOMAIN invokes : invokes[i].elapsed_time = None
       [] w = "responses" -> TooFewResponses(invokes, hosts, thread_count)
       [] w = "too short" -> Cluster(invokes).elapsed = 0
       [] w = "thread error" -> Cluster(invokes).status # OK
       [] w = "files" ->
            Cluster(invokes).status = OK /\ TooFewFiles(invokes, iterations)}
=============================================================================
