----------------------------- MODULE TestDriver -----------------------------
(***************************************************************************)
(* A multi-host test: run_multi_host_workload, the thread it starts for    *)
(* each remote host (ssh_thread, or launcher_thread together with the      *)
(* launch_smf_host daemon of that host), and HostRun for every slave.      *)
(*                                                                         *)
(* Thread r launches the slave on the r-th host of --host-set.  The slave  *)
(* goes by its as-host identity, which --permute-host-dirs makes another   *)
(* one: AsHost[r].  All of HostRun is indexed by that identity.            *)
(*                                                                         *)
(* Left out: the pickle of the parameters (written before any thread       *)
(* starts, never changed), what KeyboardInterrupt does, sleeps for NFS:    *)
(* a file that is written or deleted is seen at once.                      *)
(***************************************************************************)
EXTENDS HostRun, Sequences

CONSTANTS
  HostList,      \* --host-set, a sequence of Hosts without duplicates
  AsHost,        \* the as-host identity of the slave each thread launches
  ByDaemon       \* --launch-by-daemon

\* Hosts are the hosts of --host-set; a permutation gives no two of them the
\* same identity.
ASSUME TestDriverAssumption ==
  /\ Slave
  /\ HostList \in Seq(Hosts) \ {<<>>}
  /\ \A a, b \in DOMAIN HostList : HostList[a] = HostList[b] => a = b
  /\ \A h \in Hosts : \E a \in DOMAIN HostList : HostList[a] = h
  /\ AsHost \in [Hosts -> Hosts]
  /\ \A g, h \in Hosts : AsHost[g] = AsHost[h] => g = h
  /\ ByDaemon \in BOOLEAN

VARIABLES
  dpc,           \* where the driver is
  j,             \* hosts its current loop is through with
  tpc,           \* the driver's thread for each host
  launch_file,   \* hosts whose launch file exists
  daemon,        \* the daemon on each host: "down", "up", "busy"
  collected      \* hosts whose pickle the driver has read

dvars == <<dpc, j, tpc, collected>>
allvars == <<vars, dvars, launch_file, daemon>>

ThreadEnded == {"OK", "NOTOK"}
DriverEnded == {"exit_ok", "exit_err"}

DInit ==
  /\ Init
  /\ dpc = "topdirs"
  /\ j = 0
  /\ tpc = [h \in Hosts |-> "new"]
  /\ launch_file = {}
  /\ daemon = [h \in Hosts |-> "down"]
  /\ collected = {}

-----------------------------------------------------------------------------
\* The driver.

Here == HostList[j + 1]

\* Mutant: one round too many.
MutDNext(same, after) ==
  IF j < Len(HostList) THEN j' = j + 1 /\ dpc' = same
                       ELSE j' = 0 /\ dpc' = after

DNext(same, after) ==
  IF j + 1 < Len(HostList) THEN j' = j + 1 /\ dpc' = same
                           ELSE j' = 0 /\ dpc' = after

\* Mutant: an existing network directory is used as it is.
MutDTopDirs ==
  /\ dpc = "topdirs"
  /\ dpc' = "launch"
  /\ UNCHANGED <<vars, j, tpc, collected, launch_file, daemon>>

\* create_top_dirs(True)
DTopDirs ==
  /\ dpc = "topdirs"
  /\ gate' = FALSE /\ abort' = FALSE /\ host_ready' = {} /\ result' = {}
  /\ dpc' = "launch"
  /\ UNCHANGED <<lvars, wvars, thread_ready, trees, announced, j, tpc,
                 collected, launch_file, daemon>>

StartThread ==
  /\ dpc = "launch"
  /\ tpc' = [tpc EXCEPT ![Here] = "started"]
  /\ DNext("launch", "poll")
  /\ UNCHANGED <<vars, collected, launch_file, daemon>>

\* A round of the wait loop: the abort file, then the ready files from the
\* first one not yet seen (j survives the round), then the threads.
PollAbort ==
  /\ dpc = "poll"
  /\ dpc' = IF abort THEN "abort" ELSE "hosts"
  /\ UNCHANGED <<vars, j, tpc, collected, launch_file, daemon>>

PollHost ==
  /\ dpc = "hosts"
  /\ \/ Here \in host_ready /\ DNext("hosts", "opengate")
     \/ Here \notin host_ready /\ dpc' = "threads" /\ UNCHANGED j
  /\ UNCHANGED <<vars, tpc, collected, launch_file, daemon>>

SomeThreadDied == \E h \in Hosts : tpc[h] \in ThreadEnded

PollAgain ==
  /\ dpc = "threads" /\ ~SomeThreadDied
  /\ dpc' = "poll"
  /\ UNCHANGED <<vars, j, tpc, collected, launch_file, daemon>>

PollGiveUp ==
  /\ dpc = "threads" /\ (SomeThreadDied \/ "timeout" \in Faults)
  /\ dpc' = "abort"
  /\ UNCHANGED <<vars, j, tpc, collected, launch_file, daemon>>

\* abort_test, without workers; the program ends when its threads have.
DAbort ==
  /\ dpc = "abort"
  /\ \/ abort' = TRUE
     \/ "sync_io" \in Faults /\ UNCHANGED abort
  /\ dpc' = "failed"
  /\ UNCHANGED <<lvars, wvars, thread_ready, trees, gate, host_ready, result,
                 announced, j, tpc, collected, launch_file, daemon>>

DExitFailed ==
  /\ dpc = "failed"
  /\ \A h \in Hosts : tpc[h] \in ThreadEnded
  /\ dpc' = "exit_err"
  /\ UNCHANGED <<vars, j, tpc, collected, launch_file, daemon>>

\* A failure to write the gate is printed, no more.
DOpenGate ==
  /\ dpc = "opengate"
  /\ \/ gate' = TRUE
     \/ "sync_io" \in Faults /\ UNCHANGED gate
  /\ dpc' = "join"
  /\ UNCHANGED <<lvars, wvars, thread_ready, trees, abort, host_ready, result,
                 announced, j, tpc, collected, launch_file, daemon>>

JoinThread ==
  /\ dpc = "join"
  /\ tpc[Here] \in ThreadEnded
  /\ DNext("join", "collect")
  /\ UNCHANGED <<vars, tpc, collected, launch_file, daemon>>

\* Read a host's pickle if there is one, and delete it.
Collect ==
  /\ dpc = "collect"
  /\ collected' = collected \cup ({Here} \cap result)
  /\ result' = result \ {Here}
  /\ DNext("collect", "report")
  /\ UNCHANGED <<lvars, wvars, thread_ready, trees, gate, abort, host_ready,
                 announced, tpc, launch_file, daemon>>

\* output_results raises only when there is no invoke at all; the statuses of
\* the threads and of the invokes do not change the exit status.
DReport ==
  /\ dpc = "report"
  /\ dpc' = IF collected = {} THEN "exit_err" ELSE "exit_ok"
  /\ UNCHANGED <<vars, j, tpc, collected, launch_file, daemon>>

DriverStep ==
  \/ DTopDirs \/ StartThread \/ PollAbort \/ PollHost \/ PollAgain
  \/ PollGiveUp \/ DAbort \/ DExitFailed \/ DOpenGate \/ JoinThread
  \/ Collect \/ DReport

-----------------------------------------------------------------------------
\* The driver's threads and the daemons.

TGoto(r, where) == tpc' = [tpc EXCEPT ![r] = where]

StartSlave(r) ==
  /\ lpc' = [lpc EXCEPT ![AsHost[r]] = "clear"]
  /\ UNCHANGED <<k, reported, wvars, thread_ready, trees, netdir, announced>>

SlaveOf(r) == lpc[AsHost[r]]

\* ssh_thread.run: the command ends with the slave, or never reaches it.
Ssh(r) ==
  /\ ~ByDaemon
  /\ \/ /\ tpc[r] = "started"
        /\ StartSlave(r)
        /\ TGoto(r, "wait")
     \/ /\ tpc[r] = "started" /\ "crash" \in Faults
        /\ TGoto(r, "NOTOK")
        /\ UNCHANGED vars
     \/ /\ tpc[r] = "wait" /\ SlaveOf(r) \in LauncherEnded
        /\ TGoto(r, IF SlaveOf(r) = "exit_ok" THEN "OK" ELSE "NOTOK")
        /\ UNCHANGED vars
  /\ UNCHANGED <<dpc, j, collected, launch_file, daemon>>

\* launcher_thread.run: delete the old files, write the launch file, wait for
\* the pickle named after the host or for the abort file.  An exception before
\* the launch file has its name ends the thread.
WriteLaunchFile(r) ==
  /\ ByDaemon
  /\ tpc[r] = "started"
  /\ \/ /\ result' = result \ {r}
        /\ launch_file' = launch_file \cup {r}
        /\ TGoto(r, "wait")
     \/ /\ "sync_io" \in Faults
        /\ result' \in {result, result \ {r}}
        /\ TGoto(r, "NOTOK")
        /\ UNCHANGED launch_file
  /\ UNCHANGED <<lvars, wvars, thread_ready, trees, gate, abort, host_ready,
                 announced, dpc, j, collected, daemon>>

\* Mutant: the thread does not look for the abort file.
MutAwaitPickle(r) ==
  /\ ByDaemon
  /\ tpc[r] = "wait" /\ r \in result
  /\ TGoto(r, "OK")
  /\ UNCHANGED <<vars, dpc, j, collected, launch_file, daemon>>

AwaitPickle(r) ==
  /\ ByDaemon
  /\ tpc[r] = "wait"
  /\ \/ r \in result /\ TGoto(r, "OK")
     \/ r \notin result /\ abort /\ TGoto(r, "NOTOK")
  /\ UNCHANGED <<vars, dpc, j, collected, launch_file, daemon>>

\* launch_smf_host: discard a launch file that is older than the daemon; then
\* take one, run the slave to its end, and look again.
DaemonStarts(r) ==
  /\ ByDaemon
  /\ daemon[r] = "down"
  /\ launch_file' = launch_file \ {r}
  /\ daemon' = [daemon EXCEPT ![r] = "up"]
  /\ UNCHANGED <<vars, dvars>>

DaemonTakes(r) ==
  /\ daemon[r] = "up" /\ r \in launch_file
  /\ launch_file' = launch_file \ {r}
  /\ daemon' = [daemon EXCEPT ![r] = "busy"]
  /\ StartSlave(r)
  /\ UNCHANGED dvars

DaemonDone(r) ==
  /\ daemon[r] = "busy" /\ SlaveOf(r) \in LauncherEnded
  /\ daemon' = [daemon EXCEPT ![r] = "up"]
  /\ UNCHANGED <<vars, dvars, launch_file>>

ThreadStep(r) == Ssh(r) \/ WriteLaunchFile(r) \/ AwaitPickle(r)
DaemonStep(r) == DaemonStarts(r) \/ DaemonTakes(r) \/ DaemonDone(r)

\* A host stops with everything on it.  (An ssh to it then fails.)
HostCrashes(h) ==
  /\ "crash" \in Faults
  /\ lpc[h] \in LauncherRunning \ {"idle"}
  /\ LGoto(h, "exit_err")
  /\ wpc' = [w \in Workers |->
               IF HostOf(w) = h /\ wpc[w] \in WorkerRunning
               THEN "dead" ELSE wpc[w]]
  /\ UNCHANGED <<k, reported, wstatus, raised, sent, thread_ready, trees,
                 netdir, announced, dvars, launch_file, daemon>>

-----------------------------------------------------------------------------
\* What a slave's launcher does at the gate.

others == <<dvars, launch_file, daemon>>

\* A failed touch is not caught.
HostReady(h) ==
  /\ At(h, "ready")
  /\ \/ host_ready' = host_ready \cup {h} /\ LGoto(h, "gatewait")
     \/ "sync_io" \in Faults /\ UNCHANGED host_ready /\ LGoto(h, "raised")
  /\ UNCHANGED <<k, reported, wvars, thread_ready, trees, gate, abort, result,
                 announced, others>>

\* Mutant: a slave waits for the gate until it is there.
MutGateWait(h) ==
  /\ At(h, "gatewait") /\ gate
  /\ LGoto(h, "recv")
  /\ UNCHANGED <<k, reported, wvars, thread_ready, trees, netdir, announced,
                 others>>

\* A slave waits for the gate.  It does not look for the abort file, and it
\* looks for the gate once more when its time is up.
GateWait(h) ==
  /\ At(h, "gatewait")
  /\ \/ gate /\ LGoto(h, "recv")
     \/ ~gate /\ "timeout" \in Faults /\ LGoto(h, "abort")
  /\ UNCHANGED <<k, reported, wvars, thread_ready, trees, netdir, announced,
                 others>>

-----------------------------------------------------------------------------
SlaveLauncher(h) ==
  HostReady(h) \/ GateWait(h) \/ (LauncherStep(h) /\ UNCHANGED others)

SlaveWorker(w) == (WorkerStep(w) \/ Killed(w)) /\ UNCHANGED others

\* The driver is gone and no slave is at work; daemons wait for more.
TestOver ==
  /\ dpc \in DriverEnded
  /\ \A h \in Hosts : lpc[h] \in LauncherEnded \cup {"idle"}
  /\ UNCHANGED allvars

DNextState ==
  \/ DriverStep
  \/ \E r \in Hosts : ThreadStep(r) \/ DaemonStep(r) \/ HostCrashes(r)
  \/ \E h \in Hosts : SlaveLauncher(h)
  \/ \E w \in Workers : SlaveWorker(w)
  \/ TestOver

DSpec == DInit /\ [][DNextState]_allvars

\* Driver, threads and slaves are scheduled; poll loops are finite.
DFairness ==
  /\ WF_allvars(DriverStep)
  /\ SF_allvars(PollGiveUp)
  /\ \A r \in Hosts : WF_allvars(ThreadStep(r))
  /\ \A r \in Hosts : WF_allvars(DaemonStep(r))
  /\ \A h \in Hosts :
       /\ WF_allvars(SlaveLauncher(h))
       /\ SF_allvars(ScanGiveUp(h) /\ UNCHANGED others)
  /\ \A w \in Workers :
       WF_allvars(WorkerStep(w) /\ UNCHANGED others)

DFairSpec == DSpec /\ DFairness

-----------------------------------------------------------------------------
DTypeOK ==
  /\ TypeOK
  /\ dpc \in {"topdirs", "launch", "poll", "hosts", "threads", "abort",
              "failed", "opengate", "join", "collect", "report"} \cup DriverEnded
  /\ j \in 0 .. Len(HostList) - 1
  /\ tpc \in [Hosts -> {"new", "started", "wait"} \cup ThreadEnded]
  /\ launch_file \subseteq Hosts
  /\ daemon \in [Hosts -> {"down", "up", "busy"}]
  /\ collected \subseteq Hosts

\* The driver adds up results of this run only: every thread of a host whose
\* pickle it has read has handed in its invoke, whatever was left in the
\* shared directory and however the hosts were permuted.
FreshResults ==
  \A w \in Workers : HostOf(w) \in collected => reported[w] # "none"

\* launcher_thread waits for a pickle that nobody will write: its slave is over,
\* or was never started, and the driver could not write the abort file.
Abandoned(r) ==
  /\ ByDaemon
  /\ tpc[r] = "wait" /\ r \notin result /\ ~abort
  /\ lpc[r] \in LauncherEnded \/ (lpc[r] = "idle" /\ dpc = "failed")

\* The driver ends, whichever poll loops run out, whatever fails and whichever
\* hosts crash, unless a launcher is stuck or, with daemons, a host is lost
\* after the gate has opened.
DriverEnds ==
  <>[](\/ dpc \in DriverEnded
       \/ \E h \in Hosts : Stuck(h) \/ Abandoned(h))
=============================================================================
