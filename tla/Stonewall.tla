----------------------------- MODULE Stonewall -----------------------------
(***************************************************************************)
(* The measurement loop of a worker: SmallfileWorkload.do_workload from    *)
(* the starting gate on, with do_another_file, end_test, test_ended and    *)
(* the shape that every do_<operation> method has, do_create's directory   *)
(* on demand included.  The threads of all hosts run at once and share     *)
(* nothing but the stonewall file (and, under same-dir, a directory tree). *)
(*                                                                         *)
(* One step is what a thread does between two accesses to shared state:    *)
(* the look for the stonewall file, the second look inside end_test, the   *)
(* touch, the file operation and the makedirs are separate steps.          *)
(*                                                                         *)
(* Left out: self.abort (no code sets it), pauses, response times, what is *)
(* read and written.  reset() guarantees the initial state; the network    *)
(* directory was emptied by create_top_dirs before any thread starts.      *)
(***************************************************************************)
EXTENDS Naturals

CONSTANTS
  Threads,              \* worker threads, over all hosts
  Iterations,           \* files per thread
  FilesBetweenChecks,   \* look for the stonewall file every so many files
  FilesPerDir,          \* files in one directory, the sequential layout
  RqPerFile,            \* read or write calls per file
  StonewallOn,          \* --stonewall
  FinishAllRq,          \* --finish
  DirsOnDemand,         \* the dirs_on_demand attribute
  SameDir,              \* --same-dir: all threads use one directory tree
  ClockAdvances,        \* an operation takes at least one tick of time.time()
  IOFaults,             \* calls on the file system may fail
  None                  \* Python's None

\* do_workload uses 20 or at least 10 files between two checks.
ASSUME StonewallAssumption ==
  /\ Iterations \in Nat \ {0}
  /\ FilesBetweenChecks \in Nat \ {0, 1}
  /\ FilesPerDir \in Nat \ {0}
  /\ RqPerFile \in Nat
  /\ StonewallOn \in BOOLEAN
  /\ FinishAllRq \in BOOLEAN
  /\ DirsOnDemand \in BOOLEAN
  /\ SameDir \in BOOLEAN
  /\ ClockAdvances \in BOOLEAN
  /\ IOFaults \in BOOLEAN
  /\ None \notin Nat
  /\ None \notin {"start", "later"}

VARIABLES
  pc,              \* where each thread is
  filenum,         \* self.filenum
  rq,              \* self.rq
  status,          \* self.status: "OK", or "err" for any errno
  clock,           \* time.time() against self.start_time: "start" is a
                   \* reading no later than it, "later" one after it
  end_time,        \* self.end_time in the same terms, or None
  filenum_final,   \* self.filenum_final
  rq_final,        \* self.rq_final
  stonewall_file,  \* the stonewall file exists
  made,            \* directories that exist, when they are made on demand
  flag_filenum     \* history: filenum when the stonewall file appeared

measured == <<end_time, filenum_final, rq_final>>
flag == <<stonewall_file, flag_filenum>>
vars == <<pc, filenum, rq, status, clock, measured, flag, made>>

Running == {"gate", "check", "decide", "op", "mkdir", "touch"}

\* How a workload method ends: it returns; an exception of an operation
\* leaves it; the assertion of end_test leaves it.
Ended == {"done", "failed", "asserted"}

Goto(t, where) == pc' = [pc EXCEPT ![t] = where]

Init ==
  /\ pc = [t \in Threads |-> "gate"]
  /\ filenum = [t \in Threads |-> 0]
  /\ rq = [t \in Threads |-> 0]
  /\ status = [t \in Threads |-> "OK"]
  /\ clock = [t \in Threads |-> "start"]
  /\ end_time = [t \in Threads |-> None]
  /\ filenum_final = [t \in Threads |-> None]
  /\ rq_final = [t \in Threads |-> None]
  /\ stonewall_file = FALSE
  /\ made = {}
  /\ flag_filenum = None

-----------------------------------------------------------------------------
\* wait_for_gate returns and start_time is read.
Start(t) ==
  /\ pc[t] = "gate"
  /\ Goto(t, "check")
  /\ UNCHANGED <<filenum, rq, status, clock, measured, flag, made>>

\* Mutant: the comparison of the two times is the wrong way round.
MutTestEnded(t) == end_time[t] = "start"

TestEnded(t) == end_time[t] = "later"

\* Mutant: end_test records again whenever it is called.
MutEndTest(t, where) ==
  /\ end_time' = [end_time EXCEPT ![t] = clock[t]]
  /\ filenum_final' = [filenum_final EXCEPT ![t] = filenum[t]]
  /\ rq_final' = [rq_final EXCEPT ![t] = rq[t]]
  /\ Goto(t, IF filenum[t] >= Iterations /\ ~stonewall_file
             THEN "touch" ELSE where)

\* end_test, called where a thread goes on to `where`.  A second call returns
\* at once if the first one is seen; the assertion catches the call that
\* test_ended cannot tell from the first.  The look for the stonewall file is
\* here, the touch that follows it is a step of its own.
EndTest(t, where) ==
  \/ /\ TestEnded(t)
     /\ Goto(t, where)
     /\ UNCHANGED measured
  \/ /\ end_time[t] = None
     /\ end_time' = [end_time EXCEPT ![t] = clock[t]]
     /\ filenum_final' = [filenum_final EXCEPT ![t] = filenum[t]]
     /\ rq_final' = [rq_final EXCEPT ![t] = rq[t]]
     /\ Goto(t, IF filenum[t] >= Iterations /\ ~stonewall_file
                THEN "touch" ELSE where)
  \/ /\ ~TestEnded(t) /\ end_time[t] # None
     /\ Goto(t, "asserted")
     /\ UNCHANGED measured

\* Mutant: the stonewall file is looked for once and not again.
MutCheckDue(t) == StonewallOn /\ filenum[t] + 1 = FilesBetweenChecks

\* The first half of do_another_file.
CheckDue(t) == StonewallOn /\ (filenum[t] + 1) % FilesBetweenChecks = 0

\* Mutant: a check counts as a sighting.
MutCheck(t) ==
  /\ pc[t] = "check"
  /\ \/ CheckDue(t) /\ EndTest(t, "decide")
     \/ ~CheckDue(t) /\ Goto(t, "decide") /\ UNCHANGED measured
  /\ UNCHANGED <<filenum, rq, status, clock, flag, made>>

Check(t) ==
  /\ pc[t] = "check"
  /\ \/ /\ CheckDue(t) /\ stonewall_file
        /\ EndTest(t, "decide")
     \/ /\ ~(CheckDue(t) /\ stonewall_file)
        /\ Goto(t, "decide")
        /\ UNCHANGED measured
  /\ UNCHANGED <<filenum, rq, status, clock, flag, made>>

\* Mutants: --finish is ignored; one file too many; no end_test at the end.
MutStopEarly(t) == TestEnded(t)

MutLastFile(t) == status[t] # "OK" \/ filenum[t] > Iterations

\* The second half of do_another_file: stop early, stop at the end, go on.
StopEarly(t) == ~FinishAllRq /\ TestEnded(t)

LastFile(t) == status[t] # "OK" \/ filenum[t] >= Iterations

MutDecide(t) ==
  /\ pc[t] = "decide"
  /\ \/ /\ StopEarly(t) \/ LastFile(t)
        /\ Goto(t, "done")
        /\ UNCHANGED filenum
     \/ /\ ~StopEarly(t) /\ ~LastFile(t)
        /\ filenum' = [filenum EXCEPT ![t] = @ + 1]
        /\ Goto(t, "op")
  /\ UNCHANGED <<rq, status, clock, measured, flag, made>>

Decide(t) ==
  /\ pc[t] = "decide"
  /\ \/ /\ StopEarly(t)
        /\ Goto(t, "done")
        /\ UNCHANGED <<filenum, measured>>
     \/ /\ ~StopEarly(t) /\ LastFile(t)
        /\ EndTest(t, "done")
        /\ UNCHANGED filenum
     \/ /\ ~StopEarly(t) /\ ~LastFile(t)
        /\ filenum' = [filenum EXCEPT ![t] = @ + 1]
        /\ Goto(t, "op")
        /\ UNCHANGED measured
  /\ UNCHANGED <<rq, status, clock, flag, made>>

\* The touch of end_test.  EEXIST and EINVAL are ignored, another error
\* becomes the status; in each case the file may be there or not.
Touch(t) ==
  /\ pc[t] = "touch"
  /\ \/ stonewall_file' = TRUE /\ UNCHANGED status
     \/ /\ IOFaults
        /\ stonewall_file' \in {stonewall_file, TRUE}
        /\ \E s \in {"OK", "err"} : status' = [status EXCEPT ![t] = s]
  /\ flag_filenum' = IF stonewall_file' /\ ~stonewall_file
                     THEN filenum ELSE flag_filenum
  /\ Goto(t, "done")
  /\ UNCHANGED <<filenum, rq, clock, measured, made>>

-----------------------------------------------------------------------------
\* The body of a do_<operation> loop, for file number filenum.

DirOf(t) == <<IF SameDir THEN "shared" ELSE t, filenum[t] \div FilesPerDir>>

DirMissing(t) == DirsOnDemand /\ DirOf(t) \notin made

OpDone(t) ==
  /\ pc[t] = "op" /\ ~DirMissing(t)
  /\ rq' = [rq EXCEPT ![t] = @ + RqPerFile]
  /\ \E c \in IF ClockAdvances THEN {"later"} ELSE {clock[t], "later"} :
       clock' = [clock EXCEPT ![t] = c]
  /\ Goto(t, "check")
  /\ UNCHANGED <<filenum, status, measured, flag, made>>

\* An OSError or a short transfer is caught by do_workload and becomes the
\* status; an SMFRunException leaves do_workload with the status as it was.
\* end_test is not called either way.
OpFails(t) ==
  /\ IOFaults
  /\ pc[t] = "op" /\ ~DirMissing(t)
  /\ \E n \in 0 .. RqPerFile : rq' = [rq EXCEPT ![t] = @ + n]
  /\ \E s \in {"OK", "err"} : status' = [status EXCEPT ![t] = s]
  /\ Goto(t, "failed")
  /\ UNCHANGED <<filenum, clock, measured, flag, made>>

\* do_create's open gets ENOENT.
OpNoDir(t) ==
  /\ pc[t] = "op" /\ DirMissing(t)
  /\ Goto(t, "mkdir")
  /\ UNCHANGED <<filenum, rq, status, clock, measured, flag, made>>

\* Mutants: the file that needed the directory is not tried again; the
\* directory is not made.
MutMakeDirSkips(t) ==
  /\ pc[t] = "mkdir"
  /\ made' = made \cup {DirOf(t)}
  /\ Goto(t, "check")
  /\ UNCHANGED <<filenum, rq, status, clock, measured, flag>>

MutMakeDirNever(t) ==
  /\ pc[t] = "mkdir"
  /\ filenum' = [filenum EXCEPT ![t] = @ - 1]
  /\ Goto(t, "check")
  /\ UNCHANGED <<rq, status, clock, measured, flag, made>>

\* do_create's makedirs; the same file is tried again.  makedirs fails with
\* EEXIST when another thread has made the directory in the meantime.
MakeDir(t) ==
  /\ pc[t] = "mkdir"
  /\ \/ /\ DirOf(t) \notin made
        /\ made' = made \cup {DirOf(t)}
        /\ filenum' = [filenum EXCEPT ![t] = @ - 1]
        /\ Goto(t, "check")
        /\ UNCHANGED status
     \/ /\ DirOf(t) \in made \/ IOFaults
        /\ status' = [status EXCEPT ![t] = "err"]
        /\ Goto(t, "failed")
        /\ UNCHANGED <<filenum, made>>
  /\ UNCHANGED <<rq, clock, measured, flag>>

-----------------------------------------------------------------------------
Step(t) == \/ Start(t) \/ Check(t) \/ Decide(t) \/ Touch(t)
           \/ OpDone(t) \/ OpFails(t) \/ OpNoDir(t) \/ MakeDir(t)

\* Every thread has left its workload; nothing is left to do.
Terminated == (\A t \in Threads : pc[t] \in Ended) /\ UNCHANGED vars

Next == (\E t \in Threads : Step(t)) \/ Terminated

Spec == Init /\ [][Next]_vars

\* Workers are processes of the operating system and no call they make here
\* blocks for ever, so each of them keeps running.
FairSpec == Spec /\ \A t \in Threads : WF_vars(Step(t))

-----------------------------------------------------------------------------
TypeOK ==
  /\ pc \in [Threads -> Running \cup Ended]
  /\ filenum \in [Threads -> 0 .. Iterations]
  /\ rq \in [Threads -> Nat]
  /\ status \in [Threads -> {"OK", "err"}]
  /\ clock \in [Threads -> {"start", "later"}]
  /\ end_time \in [Threads -> {None, "start", "later"}]
  /\ filenum_final \in [Threads -> (0 .. Iterations) \cup {None}]
  /\ rq_final \in [Threads -> Nat \cup {None}]
  /\ stonewall_file \in BOOLEAN
  /\ made \subseteq (Threads \cup {"shared"}) \X Nat
  /\ flag_filenum \in [Threads -> 0 .. Iterations] \cup {None}

\* A thread is measured over fewer files than requested only if some thread
\* was measured over all of them: the flag is never waved, and never seen,
\* before somebody has finished.
ShortMeasureJustified ==
  \A t \in Threads :
     filenum_final[t] \in 0 .. Iterations - 1 =>
        \E u \in Threads : filenum_final[u] = Iterations

\* The two counts that output_results divides by the same elapsed time, files
\* and read or write requests, belong to the same moment, whatever was retried
\* or cut short in between.
CountsConsistent ==
  \A t \in Threads :
     /\ filenum_final[t] = None <=> rq_final[t] = None
     /\ filenum_final[t] # None => rq_final[t] = RqPerFile * filenum_final[t]

\* Looking only every few files costs at most that many: what a thread counts
\* after the stonewall file has appeared is less than two checks apart.
BoundedOverrun ==
  StonewallOn /\ stonewall_file =>
     \A t \in Threads :
        filenum_final[t] # None =>
           filenum_final[t] <= flag_filenum[t] + FilesBetweenChecks

\* end_test says of itself that it is "not called more than once"
\* (smallfile.py:831): its assertion is never the end of a thread.
EndTestOnce == \A t \in Threads : pc[t] # "asserted"

\* A workload method that returns leaves the numbers output_results needs;
\* without them the thread is reported as never completed.
ResultsRecorded ==
  \A t \in Threads : pc[t] = "done" => end_time[t] # None

\* With --finish every thread that returns has processed all of its files,
\* flagged down or not.
FinishCompletes ==
  FinishAllRq =>
     \A t \in Threads : pc[t] = "done" => filenum[t] = Iterations

\* Files a thread has completed: the one it is working on does not count.
Completed(t) ==
  IF pc[t] \in {"op", "mkdir", "failed"} THEN filenum[t] - 1 ELSE filenum[t]

\* The credited counts obey the race of module Race.
RaceOf == INSTANCE Race WITH progress <- [t \in Threads |-> Completed(t)],
                             result <- filenum_final

RaceSpec == RaceOf!Spec

\* Every thread's part ends, with a measurement or with an exception of an
\* operation: no thread waits for, or is kept busy by, another one.
AllMeasured ==
  <>[](\A t \in Threads :
         pc[t] = "failed" \/ (pc[t] = "done" /\ end_time[t] # None))
=============================================================================
