--------------------------- MODULE TestDriver_proofs ---------------------------
(***************************************************************************)
(* Proofs about module TestDriver, for any number of hosts and threads,    *)
(* launched by ssh or by daemons, with any permutation of the identities,  *)
(* any files left by an earlier run and any faults, host crashes included. *)
(***************************************************************************)
EXTENDS TestDriver, HostRun_proofs

-----------------------------------------------------------------------------
\* Types.

\* What the driver's own steps leave alone.
local == <<lvars, wvars, thread_ready, trees, announced>>

LEMMA DriverLocal == DriverStep => UNCHANGED local
  BY DEF DriverStep, DTopDirs, StartThread, PollAbort, PollHost, PollAgain,
         PollGiveUp, DAbort, DExitFailed, DOpenGate, JoinThread, Collect,
         DReport, local, vars

LEMMA ListLength == Len(HostList) \in Nat /\ Len(HostList) > 0
<1>1. HostList \in Seq(Hosts) /\ HostList # <<>>
  BY TestDriverAssumption
<1> QED
  BY <1>1

\* The host a loop of the driver is at is one of the list.
LEMMA HereType ==
  ASSUME DTypeOK
  PROVE  /\ j + 1 \in DOMAIN HostList
         /\ Here \in Hosts
         /\ DOMAIN HostList = 1 .. Len(HostList)
<1>1. HostList \in Seq(Hosts) /\ j \in 0 .. Len(HostList) - 1
  BY TestDriverAssumption DEF DTypeOK
<1> QED
  BY <1>1, ListLength DEF Here

LEMMA DNextType ==
  ASSUME DTypeOK, NEW same, NEW after, DNext(same, after)
  PROVE  j' \in 0 .. Len(HostList) - 1 /\ dpc' \in {same, after}
  BY ListLength DEF DTypeOK, DNext

LEMMA DInitType == DInit => DTypeOK
<1>1. DInit => TypeOK
  BY TypeInit DEF DInit
<1> QED
  BY <1>1, ListLength DEF DInit, DTypeOK

LEMMA DriverType ==
  ASSUME DTypeOK, DriverStep
  PROVE  DTypeOK'
<1>1. TypeOK'
  <2>1. /\ gate' \in BOOLEAN /\ abort' \in BOOLEAN
        /\ host_ready' \subseteq Hosts /\ result' \subseteq Hosts
    BY DEF DTypeOK, TypeOK, DriverStep, DTopDirs, StartThread, PollAbort,
           PollHost, PollAgain, PollGiveUp, DAbort, DExitFailed, DOpenGate,
           JoinThread, Collect, DReport, vars, netdir
  <2> QED
    BY <2>1, DriverLocal DEF DTypeOK, TypeOK, local, lvars, wvars
<1> USE DEF DTypeOK, DriverEnded, ThreadEnded
<1>2. CASE DTopDirs \/ PollAbort \/ PollAgain \/ PollGiveUp
  BY <1>1, <1>2 DEF DTopDirs, PollAbort, PollAgain, PollGiveUp
<1>3. CASE StartThread
  BY <1>1, <1>3, DNextType DEF StartThread
<1>4. CASE PollHost
  <2>1. CASE DNext("hosts", "opengate")
    BY <1>1, <1>4, <2>1, DNextType DEF PollHost
  <2>2. CASE dpc' = "threads" /\ UNCHANGED j
    BY <1>1, <1>4, <2>2 DEF PollHost
  <2> QED
    BY <1>4, <2>1, <2>2 DEF PollHost
<1>5. CASE DAbort \/ DExitFailed \/ DOpenGate \/ DReport
  BY <1>1, <1>5 DEF DAbort, DExitFailed, DOpenGate, DReport
<1>6. CASE JoinThread
  BY <1>1, <1>6, DNextType DEF JoinThread
<1>7. CASE Collect
  BY <1>1, <1>7, DNextType, HereType DEF Collect
<1> QED
  BY <1>2, <1>3, <1>4, <1>5, <1>6, <1>7 DEF DriverStep

LEMMA StartSlaveType ==
  ASSUME TypeOK, NEW r \in Hosts, StartSlave(r)
  PROVE  TypeOK'
  BY DEF TypeOK, StartSlave, LauncherRunning, wvars, netdir

LEMMA ThreadType ==
  ASSUME DTypeOK, NEW r \in Hosts, ThreadStep(r) \/ DaemonStep(r)
  PROVE  DTypeOK'
<1> USE DEF TGoto, ThreadEnded, dvars
<1>1. CASE Ssh(r)
  <2>1. TypeOK'
    BY <1>1, StartSlaveType, StutterType DEF DTypeOK, Ssh
  <2> QED
    BY <1>1, <2>1 DEF DTypeOK, Ssh
<1>2. CASE WriteLaunchFile(r)
  <2>1. TypeOK'
    BY <1>2 DEF DTypeOK, TypeOK, WriteLaunchFile, lvars, wvars
  <2> QED
    BY <1>2, <2>1 DEF DTypeOK, WriteLaunchFile
<1>3. CASE AwaitPickle(r)
  BY <1>3, StutterType DEF DTypeOK, AwaitPickle
<1>4. CASE DaemonStarts(r) \/ DaemonDone(r)
  BY <1>4, StutterType DEF DTypeOK, DaemonStarts, DaemonDone
<1>5. CASE DaemonTakes(r)
  BY <1>5, StartSlaveType DEF DTypeOK, DaemonTakes
<1> QED
  BY <1>1, <1>2, <1>3, <1>4, <1>5 DEF ThreadStep, DaemonStep

LEMMA CrashType ==
  ASSUME DTypeOK, NEW h \in Hosts, HostCrashes(h)
  PROVE  DTypeOK'
<1>1. TypeOK'
  BY DEF DTypeOK, TypeOK, HostCrashes, LGoto, LauncherEnded, WorkerEnded, netdir
<1> QED
  BY <1>1 DEF DTypeOK, HostCrashes, dvars

LEMMA SlaveType ==
  ASSUME DTypeOK,
         \/ \E h \in Hosts : SlaveLauncher(h)
         \/ \E w \in Workers : SlaveWorker(w)
  PROVE  DTypeOK'
<1>1. ASSUME NEW h \in Hosts, HostReady(h) \/ GateWait(h)
      PROVE  TypeOK' /\ UNCHANGED others
  BY <1>1 DEF DTypeOK, TypeOK, HostReady, GateWait, LGoto, LauncherRunning,
              wvars, netdir
<1>2. ASSUME NEW h \in Hosts, LauncherStep(h) PROVE TypeOK'
  BY <1>2, LauncherType DEF DTypeOK
<1>3. ASSUME NEW w \in Workers, WorkerStep(w) \/ Killed(w) PROVE TypeOK'
  BY <1>3, WorkerType DEF DTypeOK
<1>4. TypeOK' /\ UNCHANGED others
  BY <1>1, <1>2, <1>3 DEF SlaveLauncher, SlaveWorker
<1> QED
  BY <1>4 DEF DTypeOK, others, dvars

LEMMA DStutterType == DTypeOK /\ UNCHANGED allvars => DTypeOK'
<1> SUFFICES ASSUME DTypeOK, UNCHANGED allvars PROVE DTypeOK'
  OBVIOUS
<1>1. TypeOK'
  BY StutterType DEF DTypeOK, allvars
<1> QED
  BY <1>1 DEF DTypeOK, allvars, dvars

LEMMA DTypeNext == DTypeOK /\ [DNextState]_allvars => DTypeOK'
  BY DriverType, ThreadType, CrashType, SlaveType, DStutterType
  DEF DNextState, TestOver

\* Every variable keeps its type; the driver's loops stay within the list of
\* hosts, also where a poll resumes in the middle of it.
THEOREM DriverTypeCorrect == DSpec => []DTypeOK
  BY DInitType, DTypeNext, PTL DEF DSpec

-----------------------------------------------------------------------------
(***************************************************************************)
(* A slave is started once.  Until then its launcher is idle, however it   *)
(* is started; were it started again, it would delete the thread-ready     *)
(* files of threads that are waiting already.                              *)
(***************************************************************************)

StartedOnce ==
  /\ \A h \in Hosts : lpc[h] # "topdirs"
  /\ \A r \in Hosts :
       /\ tpc[r] \in {"new", "started"} \/ r \in launch_file => lpc[AsHost[r]] = "idle"
       /\ r \in launch_file => tpc[r] \notin {"new", "started"}
  /\ dpc = "launch" =>
       \A a \in DOMAIN HostList : a > j => tpc[HostList[a]] = "new"
  /\ dpc = "topdirs" =>
       /\ j = 0 /\ launch_file = {}
       /\ \A h \in Hosts : lpc[h] = "idle" /\ tpc[h] = "new"

LEMMA SlaveGoesOn ==
  ASSUME DTypeOK, NEW h \in Hosts, \A g \in Hosts : lpc[g] # "topdirs",
         SlaveLauncher(h) \/ HostCrashes(h)
  PROVE  \A g \in Hosts : /\ lpc[g] = "idle" => lpc'[g] = "idle"
                          /\ lpc'[g] # "topdirs"
<1> SUFFICES ASSUME NEW g \in Hosts
             PROVE  /\ lpc[g] = "idle" => lpc'[g] = "idle"
                    /\ lpc'[g] # "topdirs"
  OBVIOUS
<1>1. CASE HostReady(h) \/ GateWait(h) \/ HostCrashes(h)
  <2>1. /\ lpc[h] # "idle"
        /\ \E where \in {"gatewait", "raised", "recv", "abort", "exit_err"} :
              lpc' = [lpc EXCEPT ![h] = where]
    BY <1>1 DEF HostReady, GateWait, HostCrashes, LGoto, At
  <2> QED
    BY <2>1 DEF DTypeOK, TypeOK
<1>2. CASE LauncherStep(h)
  <2>1. lpc[h] # "idle"
    BY <1>2 DEF LauncherStep, TopDirs, ClearReady, StartWorker, ScanReady,
                ScanAgain, ScanGiveUp, AbortTest, Terminate, OpenGate, Receive,
                JoinWorker, Report, ExitRaised, At
  <2>2. g # h => lpc'[g] = lpc[g]
    BY <1>2, OtherHost DEF DTypeOK
  <2>3. lpc'[h] # "topdirs"
    BY <1>2, LauncherGate DEF DTypeOK
  <2> QED
    BY <2>1, <2>2, <2>3
<1> QED
  BY <1>1, <1>2 DEF SlaveLauncher

LEMMA StartedOnceNext ==
  DTypeOK /\ StartedOnce /\ [DNextState]_allvars => StartedOnce'
<1> SUFFICES ASSUME DTypeOK, StartedOnce, [DNextState]_allvars PROVE StartedOnce'
  OBVIOUS
<1>0. /\ \A r \in Hosts : AsHost[r] \in Hosts
      /\ \A g, h \in Hosts : AsHost[g] = AsHost[h] => g = h
  BY TestDriverAssumption
<1>1. CASE DriverStep
  <2>1. lpc' = lpc
    BY <1>1, DriverLocal DEF local, lvars
  <2>2. CASE StartThread
    <3>1. /\ j + 1 \in DOMAIN HostList /\ Here \in Hosts /\ j \in Nat
          /\ DOMAIN HostList = 1 .. Len(HostList)
      BY HereType DEF DTypeOK
    <3>2. tpc[Here] = "new"
      BY <2>2, <3>1 DEF StartThread, StartedOnce, Here
    <3>3. tpc' = [tpc EXCEPT ![Here] = "started"] /\ launch_file' = launch_file
      BY <2>2 DEF StartThread
    <3>4. \A a \in DOMAIN HostList :
             a > j + 1 => HostList[a] \in Hosts /\ HostList[a] # Here
      BY <3>1, TestDriverAssumption DEF Here
    <3>5. \A a \in DOMAIN HostList : a > j + 1 => tpc'[HostList[a]] = "new"
      BY <2>2, <3>1, <3>3, <3>4 DEF DTypeOK, StartThread, StartedOnce
    <3>6. \/ dpc' = "launch" /\ j' = j + 1
          \/ dpc' = "poll"
      BY <2>2 DEF StartThread, DNext
    <3>7. \A r \in Hosts : tpc'[r] \in {"new", "started"} =>
                               tpc[r] \in {"new", "started"}
      BY <3>1, <3>2, <3>3 DEF DTypeOK
    <3> QED
      BY <2>1, <3>3, <3>5, <3>6, <3>7 DEF StartedOnce
  <2>3. CASE DTopDirs
    <3>1. \A a \in DOMAIN HostList : HostList[a] \in Hosts
      BY TestDriverAssumption
    <3> QED
      BY <2>1, <2>3, <3>1 DEF DTopDirs, StartedOnce
  <2>4. CASE ~StartThread /\ ~DTopDirs
    <3>1. /\ tpc' = tpc /\ launch_file' = launch_file
          /\ dpc' \notin {"topdirs", "launch"}
      BY <1>1, <2>4
      DEF DriverStep, PollAbort, PollHost, PollAgain, PollGiveUp, DAbort,
          DExitFailed, DOpenGate, JoinThread, Collect, DReport, DNext
    <3> QED
      BY <2>1, <3>1 DEF StartedOnce
  <2> QED
    BY <2>2, <2>3, <2>4
<1>2. ASSUME NEW r \in Hosts, ThreadStep(r) PROVE StartedOnce'
  <2>1. tpc[r] \in {"started", "wait"}
    BY <1>2 DEF ThreadStep, Ssh, WriteLaunchFile, AwaitPickle
  <2>2. dpc # "topdirs" /\ dpc' = dpc /\ j' = j
    BY <1>2, <2>1 DEF ThreadStep, Ssh, WriteLaunchFile, AwaitPickle, StartedOnce
  <2>3. /\ tpc'[r] \notin {"new", "started"}
        /\ \A g \in Hosts : g # r => tpc'[g] = tpc[g]
    BY <1>2 DEF DTypeOK, ThreadStep, Ssh, WriteLaunchFile, AwaitPickle, TGoto
  <2>4. dpc = "launch" =>
          \A a \in DOMAIN HostList : a > j => tpc'[HostList[a]] = "new"
    <3> SUFFICES ASSUME dpc = "launch", NEW a \in DOMAIN HostList, a > j
                 PROVE  tpc'[HostList[a]] = "new"
      OBVIOUS
    <3>1. tpc[HostList[a]] = "new" /\ HostList[a] \in Hosts
      BY TestDriverAssumption DEF StartedOnce
    <3> QED
      BY <2>1, <2>3, <3>1
  <2>5. CASE StartSlave(r) /\ launch_file' = launch_file /\ ~ByDaemon /\ tpc[r] = "started"
    <3>1. r \notin launch_file
      BY <2>5 DEF StartedOnce
    <3> QED
      BY <1>0, <3>1, <2>2, <2>3, <2>4, <2>5 DEF StartSlave, StartedOnce, DTypeOK, TypeOK
  <2>6. CASE lpc' = lpc /\ launch_file' \subseteq launch_file \cup {r}
             /\ (tpc[r] = "started" \/ launch_file' = launch_file)
    BY <2>2, <2>3, <2>4, <2>6 DEF StartedOnce
  <2> QED
    BY <1>2, <2>5, <2>6
    DEF ThreadStep, Ssh, WriteLaunchFile, AwaitPickle, vars, lvars
<1>3. ASSUME NEW r \in Hosts, DaemonStep(r) PROVE StartedOnce'
  <2>1. dpc' = dpc /\ j' = j /\ tpc' = tpc /\ launch_file' \subseteq launch_file
    BY <1>3 DEF DaemonStep, DaemonStarts, DaemonTakes, DaemonDone, dvars
  <2>2. CASE DaemonTakes(r)
    <3>1. /\ dpc # "topdirs" /\ r \notin launch_file'
          /\ lpc' = [lpc EXCEPT ![AsHost[r]] = "clear"]
      BY <2>2 DEF DaemonTakes, StartSlave, StartedOnce
    <3>2. tpc[r] \notin {"new", "started"}
      BY <2>2 DEF DaemonTakes, StartedOnce
    <3>3. ASSUME NEW g \in Hosts, tpc[g] \in {"new", "started"} \/ g \in launch_file'
          PROVE  lpc'[AsHost[g]] = "idle"
      <4>1. AsHost[g] # AsHost[r] /\ lpc[AsHost[g]] = "idle"
        BY <1>0, <2>1, <3>1, <3>2, <3>3 DEF StartedOnce
      <4> QED
        BY <1>0, <3>1, <4>1 DEF DTypeOK, TypeOK
    <3>4. \A h \in Hosts : lpc'[h] # "topdirs"
      BY <3>1 DEF StartedOnce, DTypeOK, TypeOK
    <3> QED
      BY <2>1, <3>1, <3>3, <3>4 DEF StartedOnce
  <2>3. CASE lpc' = lpc
    BY <2>1, <2>3 DEF StartedOnce
  <2> QED
    BY <1>3, <2>2, <2>3 DEF DaemonStep, DaemonStarts, DaemonDone, vars, lvars
<1>4. ASSUME NEW h \in Hosts, SlaveLauncher(h) \/ HostCrashes(h) PROVE StartedOnce'
  <2>1. UNCHANGED <<dvars, launch_file>>
    BY <1>4 DEF SlaveLauncher, HostReady, GateWait, HostCrashes, others, dvars
  <2>2. \A g \in Hosts : /\ lpc[g] = "idle" => lpc'[g] = "idle"
                         /\ lpc'[g] # "topdirs"
    BY <1>4, SlaveGoesOn DEF StartedOnce
  <2> QED
    BY <1>0, <2>1, <2>2 DEF StartedOnce, dvars
<1>5. ASSUME NEW w \in Workers, SlaveWorker(w) PROVE StartedOnce'
  BY <1>5, WorkerGate DEF SlaveWorker, others, dvars, StartedOnce, DTypeOK
<1>6. CASE UNCHANGED allvars
  BY <1>6 DEF allvars, vars, lvars, dvars, StartedOnce
<1> QED
  BY <1>1, <1>2, <1>3, <1>4, <1>5, <1>6 DEF DNextState, TestOver

-----------------------------------------------------------------------------
(***************************************************************************)
(* The barrier over hosts.  The invariant of HostRun_proofs for each host, *)
(* also one that is started late or crashes; and what a ready file, the    *)
(* position of the driver's poll and the gate each stand for.              *)
(***************************************************************************)

LEMMA LocalBarrier ==
  ASSUME UNCHANGED local, \A h \in Hosts : BarrierInv(h)
  PROVE  \A h \in Hosts : BarrierInv(h)'
  BY DEF local, lvars, wvars, BarrierInv, NotStarted, Cleared, Honest, Scanned,
         Arrived

LEMMA StartBarrier ==
  ASSUME DTypeOK, NEW r \in Hosts, StartSlave(r), lpc[AsHost[r]] = "idle",
         \A h \in Hosts : BarrierInv(h)
  PROVE  \A h \in Hosts : BarrierInv(h)'
<1> SUFFICES ASSUME NEW h \in Hosts PROVE BarrierInv(h)'
  OBVIOUS
<1>1. AsHost[r] \in Hosts
  BY TestDriverAssumption
<1>2. /\ lpc' = [lpc EXCEPT ![AsHost[r]] = "clear"]
      /\ k' = k /\ wpc' = wpc /\ thread_ready' = thread_ready
      /\ announced' = announced
  BY DEF StartSlave, wvars
<1>3. CASE h = AsHost[r]
  <2>1. lpc'[h] = "clear" /\ lpc[h] = "idle" /\ k[h] = 0
    BY <1>1, <1>2, <1>3 DEF DTypeOK, TypeOK, BarrierInv, NotStarted
  <2> QED
    BY <1>2, <2>1
    DEF BarrierInv, NotStarted, Cleared, Honest, Scanned, Tids
<1>4. CASE h # AsHost[r]
  <2>1. lpc'[h] = lpc[h]
    BY <1>1, <1>2, <1>4 DEF DTypeOK, TypeOK
  <2> QED
    BY <1>2, <2>1
    DEF BarrierInv, NotStarted, Cleared, Honest, Scanned, Arrived
<1> QED
  BY <1>3, <1>4

LEMMA CrashBarrier ==
  ASSUME DTypeOK, NEW h \in Hosts, HostCrashes(h), \A g \in Hosts : BarrierInv(g)
  PROVE  \A g \in Hosts : BarrierInv(g)'
<1> SUFFICES ASSUME NEW g \in Hosts PROVE BarrierInv(g)'
  OBVIOUS
<1>1. /\ lpc' = [lpc EXCEPT ![h] = "exit_err"]
      /\ k' = k /\ thread_ready' = thread_ready /\ announced' = announced
  BY DEF HostCrashes, LGoto
<1>2. CASE g = h
  <2>1. lpc'[g] = "exit_err"
    BY <1>1, <1>2 DEF DTypeOK, TypeOK
  <2> QED
    BY <2>1 DEF BarrierInv, NotStarted, Cleared, Honest, Scanned
<1>3. CASE g # h
  <2>1. lpc'[g] = lpc[g]
    BY <1>1, <1>3 DEF DTypeOK, TypeOK
  <2>2. \A t \in Tids : wpc'[<<g, t>>] = wpc[<<g, t>>]
    BY <1>3 DEF HostCrashes, Workers, HostOf
  <2> QED
    BY <1>1, <2>1, <2>2
    DEF BarrierInv, NotStarted, Cleared, Honest, Scanned, Arrived
<1> QED
  BY <1>2, <1>3

LEMMA AtGateBarrier ==
  ASSUME DTypeOK, NEW h \in Hosts, HostReady(h) \/ GateWait(h),
         \A g \in Hosts : BarrierInv(g)
  PROVE  \A g \in Hosts : BarrierInv(g)'
<1> SUFFICES ASSUME NEW g \in Hosts PROVE BarrierInv(g)'
  OBVIOUS
<1>1. /\ k' = k /\ thread_ready' = thread_ready /\ announced' = announced
      /\ wpc' = wpc
      /\ \E where \in {"gatewait", "raised", "recv", "abort"} :
            lpc' = [lpc EXCEPT ![h] = where]
  BY DEF HostReady, GateWait, LGoto, wvars
<1>2. CASE g = h
  <2>1. lpc'[g] \in {"gatewait", "raised", "recv", "abort"}
    BY <1>1, <1>2 DEF DTypeOK, TypeOK
  <2> QED
    BY <2>1 DEF BarrierInv, NotStarted, Cleared, Honest, Scanned
<1>3. CASE g # h
  <2>1. lpc'[g] = lpc[g]
    BY <1>1, <1>3 DEF DTypeOK, TypeOK
  <2> QED
    BY <1>1, <2>1
    DEF BarrierInv, NotStarted, Cleared, Honest, Scanned, Arrived
<1> QED
  BY <1>2, <1>3

LEMMA BarrierEverywhere ==
  ASSUME DTypeOK, OneHostPerMachine, StartedOnce,
         \A h \in Hosts : BarrierInv(h), [DNextState]_allvars
  PROVE  \A h \in Hosts : BarrierInv(h)'
<1>1. CASE DriverStep
  BY <1>1, DriverLocal, LocalBarrier
<1>2. ASSUME NEW r \in Hosts, ThreadStep(r) \/ DaemonStep(r)
      PROVE  \A h \in Hosts : BarrierInv(h)'
  <2>1. CASE StartSlave(r) /\ (tpc[r] = "started" \/ r \in launch_file)
    <3>1. lpc[AsHost[r]] = "idle"
      BY <2>1 DEF StartedOnce
    <3> QED
      BY <2>1, <3>1, StartBarrier
  <2>2. CASE UNCHANGED local
    BY <2>2, LocalBarrier
  <2> QED
    BY <1>2, <2>1, <2>2
    DEF ThreadStep, Ssh, WriteLaunchFile, AwaitPickle, DaemonStep, DaemonStarts,
        DaemonTakes, DaemonDone, vars, local
<1>3. ASSUME NEW h \in Hosts, HostCrashes(h) PROVE \A g \in Hosts : BarrierInv(g)'
  BY <1>3, CrashBarrier
<1>4. ASSUME NEW h \in Hosts, SlaveLauncher(h) PROVE \A g \in Hosts : BarrierInv(g)'
  BY <1>4, AtGateBarrier, LauncherBarrier DEF SlaveLauncher, DTypeOK
<1>5. ASSUME NEW w \in Workers, SlaveWorker(w) PROVE \A g \in Hosts : BarrierInv(g)'
  BY <1>5, WorkerBarrier DEF SlaveWorker, DTypeOK
<1>6. CASE UNCHANGED allvars
  BY <1>6, LocalBarrier DEF allvars, vars, local
<1> QED
  BY <1>1, <1>2, <1>3, <1>4, <1>5, <1>6 DEF DNextState, TestOver

\* What ready files, the driver's position in the list and the gate stand for.
Seen ==
  /\ dpc # "topdirs" => \A h \in host_ready : Arrived(h)
  /\ dpc \in {"poll", "hosts", "threads"} =>
        \A a \in DOMAIN HostList : a <= j => Arrived(HostList[a])
  /\ dpc = "opengate" => \A h \in Hosts : Arrived(h)
  /\ dpc # "topdirs" /\ gate => \A h \in Hosts : Arrived(h)

DBarrierInv == StartedOnce /\ (\A h \in Hosts : BarrierInv(h)) /\ Seen /\ RunAfterGate

\* What anyone but the driver does to the state the barrier rests on.
LEMMA OutsideDriver ==
  ASSUME DTypeOK, StartedOnce, \A h \in Hosts : BarrierInv(h),
         \/ \E r \in Hosts : ThreadStep(r) \/ DaemonStep(r) \/ HostCrashes(r)
         \/ \E h \in Hosts : SlaveLauncher(h)
         \/ \E w \in Workers : SlaveWorker(w)
  PROVE  /\ dpc' = dpc /\ j' = j /\ gate' = gate
         /\ announced \subseteq announced'
         /\ \A h \in host_ready' : h \in host_ready \/ Arrived(h)
         /\ \A w \in Workers : wpc'[w] = "run" => wpc[w] = "run" \/ gate
<1> DEFINE Good == /\ dpc' = dpc /\ j' = j /\ gate' = gate
                   /\ announced \subseteq announced'
                   /\ \A h \in host_ready' : h \in host_ready \/ Arrived(h)
                   /\ \A w \in Workers : wpc'[w] = "run" => wpc[w] = "run" \/ gate
<1>1. ASSUME NEW r \in Hosts, ThreadStep(r) \/ DaemonStep(r) PROVE Good
  BY <1>1 DEF ThreadStep, Ssh, WriteLaunchFile, AwaitPickle, DaemonStep,
              DaemonStarts, DaemonTakes, DaemonDone, StartSlave, vars, wvars,
              netdir, dvars
<1>2. ASSUME NEW h \in Hosts, HostCrashes(h) PROVE Good
  BY <1>2 DEF HostCrashes, netdir, dvars
<1>3. ASSUME NEW h \in Hosts, HostReady(h) \/ GateWait(h) PROVE Good
  BY <1>3 DEF HostReady, GateWait, At, BarrierInv, Scanned, others, dvars,
              wvars, netdir
<1>4. ASSUME NEW h \in Hosts, LauncherStep(h), UNCHANGED others PROVE Good
  <2>1. ~TopDirs(h) /\ ~OpenGate(h)
    BY TestDriverAssumption DEF StartedOnce, TopDirs, OpenGate, At
  <2>2. host_ready' = host_ready
    BY <1>4, <2>1
    DEF LauncherStep, ClearReady, StartWorker, ScanReady, ScanAgain, ScanGiveUp,
        AbortTest, Terminate, Receive, JoinWorker, Report, ExitRaised, netdir
  <2>3. TypeOK
    BY DEF DTypeOK
  <2> QED
    BY <1>4, <2>1, <2>2, <2>3, LauncherGate, LauncherAnnouncesNone
    DEF others, dvars
<1>5. ASSUME NEW w \in Workers, WorkerStep(w) \/ Killed(w), UNCHANGED others PROVE Good
  <2>1. host_ready' = host_ready
    BY <1>5 DEF WorkerStep, Prepare, Announce, LookForGate, LookForAbort,
                RunWorkload, SendInvoke, Killed, netdir
  <2>2. TypeOK
    BY DEF DTypeOK
  <2> QED
    BY <1>5, <2>1, <2>2, WorkerGate DEF others, dvars
<1> QED
  BY <1>1, <1>2, <1>3, <1>4, <1>5 DEF SlaveLauncher, SlaveWorker

LEMMA DriverSeen ==
  ASSUME DTypeOK, DBarrierInv, DriverStep
  PROVE  Seen' /\ RunAfterGate'
<1> USE DEF DBarrierInv
<1>1. announced' = announced /\ wpc' = wpc
  BY DriverLocal DEF local, wvars
<1>2. CASE DTopDirs
  <2>1. \A w \in Workers : wpc[w] = "none"
    <3> SUFFICES ASSUME NEW w \in Workers PROVE wpc[w] = "none"
      OBVIOUS
    <3>1. lpc[HostOf(w)] = "idle"
      BY <1>2, WorkerPair DEF DTopDirs, StartedOnce
    <3> QED
      BY <3>1, WorkerPair DEF BarrierInv, NotStarted
  <2> QED
    BY <1>1, <1>2, <2>1 DEF DTopDirs, Seen, RunAfterGate
<1>3. CASE StartThread
  <2>1. dpc # "topdirs" /\ UNCHANGED <<gate, host_ready>>
    BY <1>3 DEF StartThread, vars, netdir
  <2>2. dpc' = "launch" \/ (dpc' = "poll" /\ j' = 0)
    BY <1>3 DEF StartThread, DNext
  <2>3. \A a \in DOMAIN HostList : ~(a <= 0)
    BY HereType
  <2> QED
    BY <1>1, <2>1, <2>2, <2>3 DEF Seen, RunAfterGate, Arrived
<1>4. CASE PollHost
  <2>1. UNCHANGED <<gate, host_ready>> /\ dpc = "hosts"
    BY <1>4 DEF PollHost, vars, netdir
  <2>2. /\ j \in Nat /\ j + 1 \in DOMAIN HostList
        /\ DOMAIN HostList = 1 .. Len(HostList)
    BY HereType DEF DTypeOK
  <2>3. CASE Here \in host_ready /\ DNext("hosts", "opengate")
    <3>1. \A a \in DOMAIN HostList : a <= j + 1 => Arrived(HostList[a])
      BY <2>1, <2>2, <2>3 DEF Seen, Here
    <3>2. CASE j + 1 < Len(HostList)
      BY <1>1, <2>1, <2>3, <3>1, <3>2 DEF DNext, Seen, RunAfterGate, Arrived
    <3>3. CASE ~(j + 1 < Len(HostList))
      <4>1. \A h \in Hosts : Arrived(h)
        <5> SUFFICES ASSUME NEW h \in Hosts PROVE Arrived(h)
          OBVIOUS
        <5>1. PICK a \in DOMAIN HostList : HostList[a] = h
          BY TestDriverAssumption
        <5>2. a <= j + 1
          BY <2>2, <3>3, <5>1, ListLength
        <5> QED
          BY <3>1, <5>1, <5>2
      <4> QED
        BY <1>1, <2>1, <2>3, <3>3, <4>1 DEF DNext, Seen, RunAfterGate, Arrived
    <3> QED
      BY <3>2, <3>3
  <2>4. CASE dpc' = "threads" /\ UNCHANGED j
    BY <1>1, <2>1, <2>4 DEF Seen, RunAfterGate, Arrived
  <2> QED
    BY <1>4, <2>3, <2>4 DEF PollHost
<1>5. CASE PollAbort \/ PollAgain \/ PollGiveUp
  <2>1. /\ UNCHANGED <<gate, host_ready, j>>
        /\ dpc \in {"poll", "threads"}
        /\ dpc' \in {"abort", "hosts", "poll"}
    BY <1>5 DEF PollAbort, PollAgain, PollGiveUp, vars, netdir
  <2> QED
    BY <1>1, <2>1 DEF Seen, RunAfterGate, Arrived
<1>6. CASE DOpenGate
  <2>1. (\A h \in Hosts : Arrived(h)) /\ dpc' = "join"
    BY <1>6 DEF DOpenGate, Seen
  <2>2. gate => gate'
    BY <1>6 DEF DOpenGate
  <2>3. host_ready' = host_ready /\ dpc # "topdirs"
    BY <1>6 DEF DOpenGate
  <2> QED
    BY <1>1, <2>1, <2>2, <2>3 DEF Seen, RunAfterGate, Arrived
<1>7. CASE DAbort \/ DExitFailed \/ JoinThread \/ Collect \/ DReport
  <2>1. /\ UNCHANGED <<gate, host_ready>> /\ dpc # "topdirs"
        /\ dpc' \notin {"poll", "hosts", "threads", "opengate"}
    BY <1>7 DEF DAbort, DExitFailed, JoinThread, Collect, DReport, DNext, vars,
                netdir
  <2> QED
    BY <1>1, <2>1 DEF Seen, RunAfterGate, Arrived
<1> QED
  BY <1>2, <1>3, <1>4, <1>5, <1>6, <1>7 DEF DriverStep

LEMMA DBarrierNext ==
  ASSUME OneHostPerMachine
  PROVE  DTypeOK /\ DBarrierInv /\ [DNextState]_allvars => DBarrierInv'
<1> SUFFICES ASSUME DTypeOK, DBarrierInv, [DNextState]_allvars PROVE DBarrierInv'
  OBVIOUS
<1>1. StartedOnce' /\ \A h \in Hosts : BarrierInv(h)'
  BY StartedOnceNext, BarrierEverywhere DEF DBarrierInv
<1>2. CASE DriverStep
  BY <1>1, <1>2, DriverSeen DEF DBarrierInv
<1>3. CASE \/ \E r \in Hosts : ThreadStep(r) \/ DaemonStep(r) \/ HostCrashes(r)
           \/ \E h \in Hosts : SlaveLauncher(h)
           \/ \E w \in Workers : SlaveWorker(w)
  <2>1. /\ dpc' = dpc /\ j' = j /\ gate' = gate
        /\ announced \subseteq announced'
        /\ \A h \in host_ready' : h \in host_ready \/ Arrived(h)
        /\ \A w \in Workers : wpc'[w] = "run" => wpc[w] = "run" \/ gate
    BY <1>3, OutsideDriver DEF DBarrierInv
  <2>2. Seen'
    BY <2>1 DEF DBarrierInv, Seen, Arrived
  <2>3. RunAfterGate'
    BY <2>1 DEF DBarrierInv, RunAfterGate
  <2> QED
    BY <1>1, <2>2, <2>3 DEF DBarrierInv
<1>4. CASE UNCHANGED allvars
  BY <1>1, <1>4 DEF DBarrierInv, Seen, RunAfterGate, Arrived, allvars, vars,
                    wvars, netdir, dvars
<1> QED
  BY <1>2, <1>3, <1>4 DEF DNextState, TestOver

LEMMA DBarrierInit == DInit => DBarrierInv
<1> SUFFICES ASSUME DInit PROVE DBarrierInv
  OBVIOUS
<1>1. \A h \in Hosts : BarrierInv(h)
  BY BarrierInit DEF DInit
<1>2. \A h \in Hosts : lpc[h] = "idle"
  BY TestDriverAssumption DEF DInit, Init
<1>3. StartedOnce
  BY <1>2, TestDriverAssumption DEF DInit, StartedOnce
<1>4. Seen /\ RunAfterGate
  BY DEF DInit, Init, Seen, RunAfterGate
<1> QED
  BY <1>1, <1>3, <1>4 DEF DBarrierInv

\* No thread of any host passes the gate before every thread of every host
\* has arrived at it, if no two hosts share a temporary directory.
THEOREM DriverNoFalseStart ==
  ASSUME OneHostPerMachine PROVE DSpec => []NoFalseStart
<1>1. DTypeOK /\ DBarrierInv => NoFalseStart
  <2> SUFFICES ASSUME DTypeOK, DBarrierInv, NEW w \in Workers, wpc[w] = "run"
               PROVE  announced = Workers
    BY DEF NoFalseStart
  <2>1. gate
    BY DEF DBarrierInv, RunAfterGate
  <2>2. dpc # "topdirs"
    <3>1. lpc[HostOf(w)] # "idle"
      BY WorkerPair DEF DBarrierInv, BarrierInv, NotStarted
    <3> QED
      BY <3>1, WorkerPair DEF DBarrierInv, StartedOnce
  <2>3. \A h \in Hosts : Arrived(h)
    BY <2>1, <2>2 DEF DBarrierInv, Seen
  <2>4. ASSUME NEW v \in Workers PROVE v \in announced
    <3>1. HostOf(v) \in Hosts /\ TidOf(v) \in Tids /\ v = <<HostOf(v), TidOf(v)>>
      BY WorkerPair
    <3> QED
      BY <2>3, <3>1 DEF Arrived
  <2>5. announced \subseteq Workers
    BY DEF DTypeOK, TypeOK
  <2> QED
    BY <2>4, <2>5
<1>2. DTypeOK /\ DBarrierInv /\ [DNextState]_allvars => DBarrierInv'
  BY DBarrierNext
<1> QED
  BY DInitType, DTypeNext, DBarrierInit, <1>1, <1>2, PTL DEF DSpec

-----------------------------------------------------------------------------
(***************************************************************************)
(* Fresh results.  A pickle in the emptied network directory is there      *)
(* because a launcher has been through all of its threads.                 *)
(***************************************************************************)

AllReported(h) == \A t \in Tids : reported[<<h, t>>] # "none"

\* The launcher has received from the threads it is through with.
Receiving(h) ==
  /\ lpc[h] \in {"ready", "gatewait"} => k[h] = 0
  /\ lpc[h] = "recv" => \A t \in Tids : t <= k[h] => reported[<<h, t>>] # "none"
  /\ lpc[h] = "join" => \A t \in Tids : t <= k[h] + 1 => reported[<<h, t>>] # "none"
  /\ lpc[h] = "report" => AllReported(h)

Fresh ==
  /\ dpc # "topdirs" => \A h \in result : AllReported(h)
  /\ \A h \in collected : AllReported(h)

ResultInv == Fresh /\ \A h \in Hosts : Receiving(h)

\* A launcher only adds to what is reported, and writes a pickle at the end.
LEMMA LauncherReports ==
  ASSUME TypeOK, NEW h \in Hosts, LauncherStep(h)
  PROVE  /\ \A w \in Workers : reported[w] # "none" => reported'[w] # "none"
         /\ result' \subseteq result \/ (lpc[h] = "report" /\ result' \subseteq result \cup {h})
<1>1. CASE Receive(h)
  <2>1. \/ reported' = [reported EXCEPT ![Current(h)] = "OK"]
        \/ reported' = [reported EXCEPT ![Current(h)] = "err"]
    BY <1>1 DEF TypeOK, Receive
  <2> QED
    BY <1>1, <2>1 DEF TypeOK, Receive, netdir
<1>2. CASE ~Receive(h)
  BY <1>2
  DEF LauncherStep, TopDirs, ClearReady, StartWorker, ScanReady, ScanAgain,
      ScanGiveUp, AbortTest, Terminate, OpenGate, JoinWorker, Report,
      ExitRaised, At, netdir
<1> QED
  BY <1>1, <1>2

LEMMA LauncherReceiving ==
  ASSUME TypeOK, NEW h \in Hosts, LauncherStep(h), Slave, Receiving(h)
  PROVE  Receiving(h)'
<1>1. ThreadCount \in Nat /\ ThreadCount > 0 /\ k[h] \in Nat
  BY HostRunAssumption DEF TypeOK
<1>2. CASE Receive(h)
  <2>1. lpc'[h] = "join" /\ k'[h] = k[h]
    BY <1>2 DEF Receive, LGoto, TypeOK
  <2>2. ASSUME NEW t \in Tids, t <= k[h] + 1
        PROVE  reported'[<<h, t>>] # "none"
    <3>1. CASE t <= k[h]
      <4>1. reported[<<h, t>>] # "none" /\ <<h, t>> \in Workers
        BY <1>2, <3>1 DEF Receive, At, Receiving, Workers
      <4> QED
        BY <4>1, LauncherReports
    <3>2. CASE t = k[h] + 1
      <4>1. <<h, t>> = Current(h) /\ <<h, t>> \in Workers
        BY <3>2 DEF Current, Workers
      <4> QED
        BY <1>2, <4>1 DEF Receive, TypeOK
    <3> QED
      BY <1>1, <2>2, <3>1, <3>2 DEF Tids
  <2> QED
    BY <2>1, <2>2 DEF Receiving
<1>3. CASE JoinWorker(h)
  <2>1. reported' = reported
    BY <1>3 DEF JoinWorker
  <2>2. \A t \in Tids : t <= k[h] + 1 => reported[<<h, t>>] # "none"
    BY <1>3 DEF JoinWorker, At, Receiving
  <2>3. CASE k[h] + 1 < ThreadCount
    <3>1. lpc'[h] = "recv" /\ k'[h] = k[h] + 1
      BY <1>3, <2>3 DEF JoinWorker, NextRound, LGoto, TypeOK
    <3> QED
      BY <2>1, <2>2, <3>1 DEF Receiving
  <2>4. CASE ~(k[h] + 1 < ThreadCount)
    <3>1. lpc'[h] = "report"
      BY <1>3, <2>4 DEF JoinWorker, NextRound, LGoto, TypeOK
    <3>2. AllReported(h)'
      BY <1>1, <2>1, <2>2, <2>4 DEF AllReported, Tids
    <3> QED
      BY <3>1, <3>2 DEF Receiving
  <2> QED
    BY <2>3, <2>4
<1>4. CASE ScanReady(h)
  <2>1. lpc'[h] \in {"scan", "missing"} \/ (lpc'[h] = "ready" /\ k'[h] = 0)
    BY <1>4 DEF ScanReady, NextRound, LGoto, TypeOK
  <2> QED
    BY <2>1 DEF Receiving
<1>5. CASE ~Receive(h) /\ ~JoinWorker(h) /\ ~ScanReady(h)
  <2>1. lpc'[h] \notin {"ready", "gatewait", "recv", "join", "report"}
    BY <1>5
    DEF LauncherStep, TopDirs, ClearReady, StartWorker, ScanAgain, ScanGiveUp,
        AbortTest, Terminate, OpenGate, Report, ExitRaised, NextRound, LGoto,
        TypeOK
  <2> QED
    BY <2>1 DEF Receiving
<1> QED
  BY <1>2, <1>3, <1>4, <1>5

\* A step that leaves a launcher where it is leaves its claim in place.
LEMMA StaysReceiving ==
  ASSUME NEW g \in Hosts, Receiving(g), lpc'[g] = lpc[g], k'[g] = k[g],
         \A w \in Workers : reported[w] # "none" => reported'[w] # "none"
  PROVE  Receiving(g)'
<1>1. \A t \in Tids : reported[<<g, t>>] # "none" => reported'[<<g, t>>] # "none"
  BY DEF Workers
<1> QED
  BY <1>1 DEF Receiving, AllReported

LEMMA StaysReported ==
  ASSUME NEW g \in Hosts, AllReported(g),
         \A w \in Workers : reported[w] # "none" => reported'[w] # "none"
  PROVE  AllReported(g)'
  BY DEF AllReported, Workers

LEMMA ResultNext ==
  DTypeOK /\ StartedOnce /\ ResultInv /\ [DNextState]_allvars => ResultInv'
<1> SUFFICES ASSUME DTypeOK, StartedOnce, ResultInv, [DNextState]_allvars
             PROVE  ResultInv'
  OBVIOUS
<1> USE DEF ResultInv
<1>0. result \subseteq Hosts /\ collected \subseteq Hosts
  BY DEF DTypeOK, TypeOK
<1>1. CASE DriverStep
  <2>1. UNCHANGED <<lpc, k, reported>>
    BY <1>1, DriverLocal DEF local, lvars
  <2>2. \A h \in Hosts : Receiving(h)'
    BY <2>1, StaysReceiving
  <2>3. CASE DTopDirs
    BY <2>1, <2>2, <2>3 DEF DTopDirs, Fresh, AllReported
  <2>4. CASE Collect
    <3>1. /\ dpc # "topdirs" /\ result' \subseteq result
          /\ collected' \subseteq collected \cup result
      BY <2>4 DEF Collect
    <3> QED
      BY <2>1, <2>2, <3>1 DEF Fresh, AllReported
  <2>5. CASE ~DTopDirs /\ ~Collect
    <3>1. UNCHANGED <<result, collected>> /\ dpc # "topdirs"
      BY <1>1, <2>5
      DEF DriverStep, StartThread, PollAbort, PollHost, PollAgain, PollGiveUp,
          DAbort, DExitFailed, DOpenGate, JoinThread, DReport, vars, netdir
    <3> QED
      BY <2>1, <2>2, <3>1 DEF Fresh, AllReported
  <2> QED
    BY <2>2, <2>3, <2>4, <2>5
<1>2. ASSUME NEW r \in Hosts, ThreadStep(r) \/ DaemonStep(r) PROVE ResultInv'
  <2>1. /\ result' \subseteq result /\ collected' = collected /\ dpc' = dpc
        /\ k' = k /\ reported' = reported
    BY <1>2 DEF ThreadStep, Ssh, WriteLaunchFile, AwaitPickle, DaemonStep,
                DaemonStarts, DaemonTakes, DaemonDone, StartSlave, vars, lvars,
                netdir, dvars
  <2>2. lpc' = lpc \/ lpc' = [lpc EXCEPT ![AsHost[r]] = "clear"]
    BY <1>2 DEF ThreadStep, Ssh, WriteLaunchFile, AwaitPickle, DaemonStep,
                DaemonStarts, DaemonTakes, DaemonDone, StartSlave, vars, lvars
  <2>3. ASSUME NEW g \in Hosts PROVE Receiving(g)'
    <3>1. lpc'[g] = lpc[g] \/ lpc'[g] = "clear"
      BY <2>2 DEF DTypeOK, TypeOK
    <3> QED
      BY <2>1, <3>1 DEF Receiving, AllReported
  <2> QED
    BY <2>1, <2>3 DEF Fresh, AllReported
<1>3. ASSUME NEW h \in Hosts, HostCrashes(h) PROVE ResultInv'
  <2>1. /\ UNCHANGED <<result, collected, dpc, k, reported>>
        /\ lpc' = [lpc EXCEPT ![h] = "exit_err"]
    BY <1>3 DEF HostCrashes, LGoto, netdir, dvars
  <2>2. ASSUME NEW g \in Hosts PROVE Receiving(g)'
    <3>1. lpc'[g] = lpc[g] \/ lpc'[g] = "exit_err"
      BY <2>1 DEF DTypeOK, TypeOK
    <3> QED
      BY <2>1, <3>1 DEF Receiving, AllReported
  <2> QED
    BY <2>1, <2>2 DEF Fresh, AllReported
<1>4. ASSUME NEW h \in Hosts, HostReady(h) \/ GateWait(h) PROVE ResultInv'
  <2>1. UNCHANGED <<result, collected, dpc, k, reported>>
    BY <1>4 DEF HostReady, GateWait, others, dvars, netdir
  <2>2. /\ lpc[h] \in {"ready", "gatewait"}
        /\ \E where \in {"gatewait", "raised", "recv", "abort"} :
             lpc' = [lpc EXCEPT ![h] = where]
    BY <1>4 DEF HostReady, GateWait, LGoto, At
  <2>3. k[h] = 0 /\ \A t \in Tids : ~(t <= 0)
    BY <2>2 DEF Receiving, Tids
  <2>4. ASSUME NEW g \in Hosts PROVE Receiving(g)'
    <3>1. \/ lpc'[g] = lpc[g]
          \/ g = h /\ lpc'[g] \in {"gatewait", "raised", "recv", "abort"}
      BY <2>2 DEF DTypeOK, TypeOK
    <3> QED
      BY <2>1, <2>3, <3>1 DEF Receiving, AllReported
  <2> QED
    BY <2>1, <2>4 DEF Fresh, AllReported
<1>5. ASSUME NEW h \in Hosts, LauncherStep(h), UNCHANGED others PROVE ResultInv'
  <2>0. TypeOK
    BY DEF DTypeOK
  <2>1. \A w \in Workers : reported[w] # "none" => reported'[w] # "none"
    BY <1>5, <2>0, LauncherReports
  <2>2. ASSUME NEW g \in Hosts PROVE Receiving(g)'
    <3>1. CASE g = h
      BY <1>5, <2>0, <3>1, LauncherReceiving, TestDriverAssumption
    <3>2. CASE g # h
      BY <1>5, <2>0, <2>1, <3>2, OtherHost, StaysReceiving
    <3> QED
      BY <3>1, <3>2
  <2>3. dpc' = dpc /\ collected' = collected
    BY <1>5 DEF others, dvars
  <2>4. dpc # "topdirs" => \A g \in result' : AllReported(g)
    BY <1>5, <2>0, LauncherReports DEF Fresh, Receiving
  <2>5. result' \subseteq Hosts
    BY <1>0, <1>5, <2>0, LauncherReports
  <2>6. Fresh'
    BY <1>0, <2>1, <2>3, <2>4, <2>5, StaysReported DEF Fresh
  <2> QED
    BY <2>2, <2>6
<1>6. ASSUME NEW w \in Workers, SlaveWorker(w) PROVE ResultInv'
  <2>1. UNCHANGED <<lpc, k, reported, result, dpc, collected>>
    BY <1>6 DEF SlaveWorker, WorkerStep, Prepare, Announce, LookForGate,
                LookForAbort, RunWorkload, SendInvoke, Killed, others, dvars,
                lvars, netdir
  <2> QED
    BY <2>1 DEF Fresh, Receiving, AllReported
<1>7. CASE UNCHANGED allvars
  BY <1>7 DEF Fresh, Receiving, AllReported, allvars, vars, lvars, netdir, dvars
<1> QED
  BY <1>1, <1>2, <1>3, <1>4, <1>5, <1>6, <1>7
  DEF DNextState, TestOver, SlaveLauncher

LEMMA ResultInit == DInit => ResultInv
<1> SUFFICES ASSUME DInit PROVE ResultInv
  OBVIOUS
<1>1. \A h \in Hosts : lpc[h] = "idle"
  BY TestDriverAssumption DEF DInit, Init
<1> QED
  BY <1>1 DEF DInit, ResultInv, Fresh, Receiving

\* What the driver adds up was measured in this run, and by all threads of a
\* host: no pickle of an earlier run and no partial one is ever read.
THEOREM DriverFreshResults == DSpec => []FreshResults
<1>1. ResultInv => FreshResults
  <2> SUFFICES ASSUME ResultInv, NEW w \in Workers, HostOf(w) \in collected
               PROVE  reported[w] # "none"
    BY DEF FreshResults
  <2>1. HostOf(w) \in Hosts /\ TidOf(w) \in Tids /\ w = <<HostOf(w), TidOf(w)>>
    BY WorkerPair
  <2> QED
    BY <2>1 DEF ResultInv, Fresh, AllReported
<1>2. DTypeOK /\ StartedOnce /\ [DNextState]_allvars => StartedOnce'
  BY StartedOnceNext
<1>3. DInit => StartedOnce
  BY DBarrierInit DEF DBarrierInv
<1>4. DTypeOK /\ StartedOnce /\ ResultInv /\ [DNextState]_allvars => ResultInv'
  BY ResultNext
<1> QED
  BY DInitType, DTypeNext, ResultInit, <1>1, <1>2, <1>3, <1>4, PTL DEF DSpec
=============================================================================
