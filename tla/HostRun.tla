------------------------------ MODULE HostRun ------------------------------
(***************************************************************************)
(* One host's part of a test: run_multi_thread_workload, the launcher,     *)
(* and its worker processes up to and after the measured loop, which is    *)
(* the subject of module Stonewall and one step here.  They synchronise    *)
(* through files alone: thread_ready in a directory of the machine; gate,  *)
(* abort, host_ready and result in the network directory.                  *)
(*                                                                         *)
(* With Slave = FALSE this is a whole test (no --host-set, one host).      *)
(* With Slave = TRUE it is the part of every host of a multi-host test;    *)
(* module TestDriver adds the driver and the slaves' wait for the gate.    *)
(* A host is named by its as-host identity.  One step is one access to a   *)
(* file, pipe or process.                                                  *)
(*                                                                         *)
(* Left out: sleeps and polling periods (a poll is a step that may find    *)
(* nothing; when a poll loop runs out is left open), log files, verbosity. *)
(***************************************************************************)
EXTENDS Naturals

CONSTANTS
  Hosts,         \* hosts of the test
  ThreadCount,   \* --threads
  MachineOf,     \* the machine whose temporary directory a host uses
  Slave,         \* prm.is_slave
  SameDir,       \* --same-dir
  Faults         \* what may go wrong: see FaultKinds

\* A poll loop runs out; a worker's call on the file system fails, or its
\* workload raises; the launcher cannot write a file others wait for; a worker
\* is killed from outside; a host crashes.
FaultKinds == {"timeout", "io", "sync_io", "kill", "crash"}

ASSUME HostRunAssumption ==
  /\ ThreadCount \in Nat \ {0}
  /\ Slave \in BOOLEAN
  /\ SameDir \in BOOLEAN
  /\ Faults \subseteq FaultKinds

Tids == 1 .. ThreadCount      \* "00", "01", ...
Workers == Hosts \X Tids
HostOf(w) == w[1]
TidOf(w) == w[2]

VARIABLES
  lpc,           \* where each launcher is
  k,             \* its loop variable: threads it is through with
  reported,      \* status of the invoke received from each worker
  wpc,           \* where each worker is
  wstatus,       \* the status in its invoke
  raised,        \* workers whose do_workload raised an exception
  sent,          \* workers whose invoke is in the pipe, or was
  thread_ready,  \* thread-ready files, by machine and thread
  trees,         \* directory trees that are complete
  gate, abort,   \* these files exist
  host_ready,    \* hosts whose ready file exists
  result,        \* hosts whose pickle of invokes exists
  announced      \* history: workers that have created their ready file

lvars == <<lpc, k, reported>>
wvars == <<wpc, wstatus, raised, sent>>
netdir == <<gate, abort, host_ready, result>>
vars == <<lvars, wvars, thread_ready, trees, netdir, announced>>

LauncherRunning ==
  {"idle", "topdirs", "clear", "start", "scan", "missing", "abort", "kill",
   "ready", "gatewait", "recv", "join", "report", "raised"}
LauncherEnded == {"exit_ok", "exit_err"}

WorkerRunning == {"prep", "announce", "gate", "poll", "run", "send"}
WorkerEnded == {"exited", "dead"}

ReadyFile(w) == <<MachineOf[HostOf(w)], TidOf(w)>>
Tree(w) == IF SameDir THEN "shared" ELSE w

\* The network and temporary directories may hold files of an earlier run.
Init ==
  /\ lpc = [h \in Hosts |-> IF Slave THEN "idle" ELSE "topdirs"]
  /\ k = [h \in Hosts |-> 0]
  /\ reported = [w \in Workers |-> "none"]
  /\ wpc = [w \in Workers |-> "none"]
  /\ wstatus = [w \in Workers |-> "OK"]
  /\ raised = {} /\ sent = {} /\ announced = {} /\ trees = {}
  /\ thread_ready \in SUBSET {ReadyFile(w) : w \in Workers}
  /\ gate \in BOOLEAN /\ abort \in BOOLEAN
  /\ host_ready \in SUBSET Hosts
  /\ result \in SUBSET Hosts

-----------------------------------------------------------------------------
\* The launcher.

At(h, where) == lpc[h] = where
LGoto(h, where) == lpc' = [lpc EXCEPT ![h] = where]

\* The worker the loop of h is at.
Current(h) == <<h, k[h] + 1>>

\* Mutant: one round too many.
MutNextRound(h, n, same, after) ==
  IF k[h] < n THEN k' = [k EXCEPT ![h] = @ + 1] /\ LGoto(h, same)
              ELSE k' = [k EXCEPT ![h] = 0] /\ LGoto(h, after)

\* The next of the n rounds of a loop, or what comes after it.
NextRound(h, n, same, after) ==
  IF k[h] + 1 < n THEN k' = [k EXCEPT ![h] = @ + 1] /\ LGoto(h, same)
                  ELSE k' = [k EXCEPT ![h] = 0] /\ LGoto(h, after)

\* create_top_dirs(False) empties the network directory.
TopDirs(h) ==
  /\ At(h, "topdirs")
  /\ gate' = FALSE /\ abort' = FALSE /\ host_ready' = {} /\ result' = {}
  /\ LGoto(h, "clear")
  /\ UNCHANGED <<k, reported, wvars, thread_ready, trees, announced>>

\* Mutant: the old thread-ready files stay.
MutClearReady(h) ==
  /\ At(h, "clear")
  /\ LGoto(h, "start")
  /\ UNCHANGED <<k, reported, wvars, thread_ready, trees, netdir, announced>>

\* Every thread-ready file is deleted in create_worker_list, and all of them
\* once more before the first worker starts.
ClearReady(h) ==
  /\ At(h, "clear")
  /\ thread_ready' = thread_ready \ {<<MachineOf[h], (k[h] % ThreadCount) + 1>>}
  /\ NextRound(h, 2 * ThreadCount, "clear", "start")
  /\ UNCHANGED <<reported, wvars, trees, netdir, announced>>

StartWorker(h) ==
  /\ At(h, "start")
  /\ wpc' = [wpc EXCEPT ![Current(h)] = "prep"]
  /\ NextRound(h, ThreadCount, "start", "scan")
  /\ UNCHANGED <<reported, wstatus, raised, sent, thread_ready, trees, netdir,
                 announced>>

\* The poll resumes with the first thread whose file was not found.
ScanReady(h) ==
  /\ At(h, "scan")
  /\ \/ /\ ReadyFile(Current(h)) \in thread_ready
        /\ NextRound(h, ThreadCount, "scan", "ready")
     \/ /\ ReadyFile(Current(h)) \notin thread_ready
        /\ LGoto(h, "missing")
        /\ UNCHANGED k
  /\ UNCHANGED <<reported, wvars, thread_ready, trees, netdir, announced>>

\* A file was missing: sleep and poll again, or give up, which the launcher
\* must do if it sees the abort file and does when its polls are used up.
ScanAgain(h) ==
  /\ At(h, "missing") /\ ~abort
  /\ LGoto(h, "scan")
  /\ UNCHANGED <<k, reported, wvars, thread_ready, trees, netdir, announced>>

\* Mutant: the number of polls is not bounded.
MutScanGiveUp(h) ==
  /\ At(h, "missing") /\ abort
  /\ LGoto(h, "abort")
  /\ UNCHANGED <<k, reported, wvars, thread_ready, trees, netdir, announced>>

ScanGiveUp(h) ==
  /\ At(h, "missing") /\ (abort \/ "timeout" \in Faults)
  /\ LGoto(h, "abort")
  /\ UNCHANGED <<k, reported, wvars, thread_ready, trees, netdir, announced>>

\* abort_test: touch the abort file, then terminate the workers one by one.
\* If the touch fails its exception skips the rest.
AbortTest(h) ==
  /\ At(h, "abort")
  /\ k' = [k EXCEPT ![h] = 0]
  /\ \/ abort' = TRUE /\ LGoto(h, "kill")
     \/ "sync_io" \in Faults /\ ~abort /\ UNCHANGED abort /\ LGoto(h, "raised")
  /\ UNCHANGED <<reported, wvars, thread_ready, trees, gate, host_ready,
                 result, announced>>

Terminate(h) ==
  /\ At(h, "kill")
  /\ wpc' = [wpc EXCEPT ![Current(h)] = IF @ = "exited" THEN @ ELSE "dead"]
  /\ NextRound(h, ThreadCount, "kill", "raised")
  /\ UNCHANGED <<reported, wstatus, raised, sent, thread_ready, trees, netdir,
                 announced>>

\* All threads of this host are ready.  If it is the only one, the launcher
\* opens the gate, and prints it, no more, when that fails.  (What a slave
\* does here, up to "recv", is in TestDriver.)
OpenGate(h) ==
  /\ At(h, "ready") /\ ~Slave
  /\ \/ gate' = TRUE
     \/ "sync_io" \in Faults /\ UNCHANGED gate
  /\ LGoto(h, "recv")
  /\ UNCHANGED <<k, reported, wvars, thread_ready, trees, abort, host_ready,
                 result, announced>>

\* recv() waits for the worker's invoke, join() for the end of its process.
Receive(h) ==
  /\ At(h, "recv")
  /\ Current(h) \in sent
  /\ reported' = [reported EXCEPT ![Current(h)] = wstatus[Current(h)]]
  /\ LGoto(h, "join")
  /\ UNCHANGED <<k, wvars, thread_ready, trees, netdir, announced>>

JoinWorker(h) ==
  /\ At(h, "join")
  /\ wpc[Current(h)] \in WorkerEnded
  /\ NextRound(h, ThreadCount, "recv", "report")
  /\ UNCHANGED <<reported, wvars, thread_ready, trees, netdir, announced>>

\* output_results, or the pickle for the driver.  Neither looks at a status
\* to decide how the program exits.
Report(h) ==
  /\ At(h, "report")
  /\ \/ /\ result' = IF Slave THEN result \cup {h} ELSE result
        /\ LGoto(h, "exit_ok")
     \/ Slave /\ "sync_io" \in Faults /\ UNCHANGED result /\ LGoto(h, "raised")
  /\ UNCHANGED <<k, reported, wvars, thread_ready, trees, gate, abort,
                 host_ready, announced>>

\* An uncaught exception ends the launcher, but multiprocessing joins the
\* children first.
ExitRaised(h) ==
  /\ At(h, "raised")
  /\ \A t \in Tids : wpc[<<h, t>>] \in WorkerEnded
  /\ LGoto(h, "exit_err")
  /\ UNCHANGED <<k, reported, wvars, thread_ready, trees, netdir, announced>>

LauncherStep(h) ==
  \/ TopDirs(h) \/ ClearReady(h) \/ StartWorker(h) \/ ScanReady(h)
  \/ ScanAgain(h) \/ ScanGiveUp(h) \/ AbortTest(h) \/ Terminate(h)
  \/ OpenGate(h) \/ Receive(h) \/ JoinWorker(h) \/ Report(h) \/ ExitRaised(h)

-----------------------------------------------------------------------------
\* A worker process.

WAt(w, where) == wpc[w] = where
WGoto(w, where) == wpc' = [wpc EXCEPT ![w] = where]

\* Mutant: no thread is taken for thread "00".
MutPrepare(w) ==
  /\ WAt(w, "prep")
  /\ trees' = IF abort \/ SameDir THEN trees ELSE trees \cup {Tree(w)}
  /\ WGoto(w, "announce")
  /\ UNCHANGED <<lvars, wstatus, raised, sent, thread_ready, netdir, announced>>

\* do_workload before the gate.  make_all_subdirs stops, quietly, when it
\* sees the abort file; under same-dir only thread "00" makes directories.
\* An exception here is not caught by do_workload.
Prepare(w) ==
  /\ WAt(w, "prep")
  /\ \/ /\ trees' = IF abort \/ (SameDir /\ TidOf(w) # 1)
                    THEN trees ELSE trees \cup {Tree(w)}
        /\ WGoto(w, "announce")
        /\ UNCHANGED raised
     \/ /\ "io" \in Faults
        /\ raised' = raised \cup {w}
        /\ WGoto(w, "send")
        /\ UNCHANGED trees
  /\ UNCHANGED <<lvars, wstatus, sent, thread_ready, netdir, announced>>

MakeReadyFile(w) ==
  /\ thread_ready' = thread_ready \cup {ReadyFile(w)}
  /\ announced' = announced \cup {w}

\* wait_for_gate: the ready file, then the gate and the abort file in turns.  A
\* touch that fails may have made the file; the error is the worker's status.
Announce(w) ==
  /\ WAt(w, "announce")
  /\ \/ MakeReadyFile(w) /\ WGoto(w, "gate") /\ UNCHANGED wstatus
     \/ /\ "io" \in Faults
        /\ MakeReadyFile(w) \/ UNCHANGED <<thread_ready, announced>>
        /\ wstatus' = [wstatus EXCEPT ![w] = "err"]
        /\ WGoto(w, "send")
  /\ UNCHANGED <<lvars, raised, sent, trees, netdir>>

LookForGate(w) ==
  /\ WAt(w, "gate")
  /\ WGoto(w, IF gate THEN "run" ELSE "poll")
  /\ UNCHANGED <<lvars, wstatus, raised, sent, thread_ready, trees, netdir,
                 announced>>

LookForAbort(w) ==
  /\ WAt(w, "poll")
  /\ \/ abort /\ raised' = raised \cup {w} /\ WGoto(w, "send")
     \/ ~abort /\ UNCHANGED raised /\ WGoto(w, "gate")
  /\ UNCHANGED <<lvars, wstatus, sent, thread_ready, trees, netdir, announced>>

\* The measured loop: it returns, ends with an error status, or raises.
RunWorkload(w) ==
  /\ WAt(w, "run")
  /\ \/ UNCHANGED <<wstatus, raised>>
     \/ /\ "io" \in Faults
        /\ \/ wstatus' = [wstatus EXCEPT ![w] = "err"] /\ UNCHANGED raised
           \/ raised' = raised \cup {w} /\ UNCHANGED wstatus
  /\ WGoto(w, "send")
  /\ UNCHANGED <<lvars, sent, thread_ready, trees, netdir, announced>>

\* run() in invoke_process: whatever happened, the invoke goes into the pipe,
\* where it fits; the handler of the exception has set the status of the
\* process object, not of the invoke.
SendInvoke(w) ==
  /\ WAt(w, "send")
  /\ sent' = sent \cup {w}
  /\ WGoto(w, "exited")
  /\ UNCHANGED <<lvars, wstatus, raised, thread_ready, trees, netdir,
                 announced>>

WorkerStep(w) ==
  \/ Prepare(w) \/ Announce(w) \/ LookForGate(w) \/ LookForAbort(w)
  \/ RunWorkload(w) \/ SendInvoke(w)

\* The operating system ends a worker.
Killed(w) ==
  /\ "kill" \in Faults
  /\ wpc[w] \in WorkerRunning
  /\ WGoto(w, "dead")
  /\ UNCHANGED <<lvars, wstatus, raised, sent, thread_ready, trees, netdir,
                 announced>>

-----------------------------------------------------------------------------
HostsEnded == /\ \A h \in Hosts : lpc[h] \in LauncherEnded
              /\ \A w \in Workers : wpc[w] \in WorkerEnded

Terminated == HostsEnded /\ UNCHANGED vars

Next == \/ \E h \in Hosts : LauncherStep(h)
        \/ \E w \in Workers : WorkerStep(w) \/ Killed(w)
        \/ Terminated

Spec == Init /\ [][Next]_vars

\* Launcher and workers are processes that keep running.  A launcher cannot
\* poll for ever: range() of run_multi_thread_workload is finite.
Fairness == /\ \A h \in Hosts : /\ WF_vars(LauncherStep(h))
                                /\ SF_vars(ScanGiveUp(h))
            /\ \A w \in Workers : WF_vars(WorkerStep(w))

FairSpec == Spec /\ Fairness

-----------------------------------------------------------------------------
TypeOK ==
  /\ lpc \in [Hosts -> LauncherRunning \cup LauncherEnded]
  /\ k \in [Hosts -> 0 .. 2 * ThreadCount - 1]
  /\ reported \in [Workers -> {"none", "OK", "err"}]
  /\ wpc \in [Workers -> {"none"} \cup WorkerRunning \cup WorkerEnded]
  /\ wstatus \in [Workers -> {"OK", "err"}]
  /\ raised \subseteq Workers /\ sent \subseteq Workers
  /\ announced \subseteq Workers
  /\ thread_ready \subseteq {ReadyFile(w) : w \in Workers}
  /\ trees \subseteq {Tree(w) : w \in Workers}
  /\ gate \in BOOLEAN /\ abort \in BOOLEAN
  /\ host_ready \subseteq Hosts /\ result \subseteq Hosts

\* README.md:650-656: no thread passes the starting gate before every thread
\* of every host has arrived at it, whatever files an earlier run has left.
NoFalseStart == (\E w \in Workers : wpc[w] = "run") => announced = Workers

\* README.md:465: a thread that passes the gate finds the directories of its
\* test in place, also when another thread had to make them.
TreesReady == \A w \in Workers : wpc[w] = "run" => Tree(w) \in trees

\* What invoke_process.py:134 expects of a status: a worker whose workload
\* raised an exception is not reported as a success.
RaisedIsReported ==
  \A w \in Workers : w \in raised => reported[w] # "OK"

\* The launcher waits for a worker that will not answer: it was killed, or it
\* never saw a gate because the gate could not be written, nor the abort file.
Stuck(h) ==
  \/ At(h, "recv") /\ (wpc[Current(h)] = "dead" \/ ~gate)
  \/ At(h, "raised") /\ ~abort

\* Every launcher ends, and with it every worker, whichever poll loops run out
\* and whatever fails, but for the cases of Stuck: recv() has no timeout
\* (multi_thread_workload.py:159, "FIXME").
AllEnd == <>[](HostsEnded \/ \E h \in Hosts : Stuck(h))
=============================================================================
