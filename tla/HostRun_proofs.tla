---------------------------- MODULE HostRun_proofs ----------------------------
(***************************************************************************)
(* Proofs about module HostRun, for any number of threads, any files left  *)
(* by an earlier run and any faults.  The lemmas on the steps of launchers *)
(* and workers hold for any number of hosts as well; TestDriver_proofs     *)
(* uses them for the slaves of a multi-host test.                          *)
(***************************************************************************)
EXTENDS HostRun, TLAPS

-----------------------------------------------------------------------------
\* Types.

LEMMA WorkerPair ==
  ASSUME NEW w \in Workers
  PROVE  HostOf(w) \in Hosts /\ TidOf(w) \in Tids /\ w = <<HostOf(w), TidOf(w)>>
  BY DEF Workers, HostOf, TidOf

LEMMA TypeInit == Init => TypeOK
  BY HostRunAssumption
  DEF Init, TypeOK, LauncherRunning, LauncherEnded

\* A round of a loop keeps the loop variable below the number of rounds.
LEMMA RoundType ==
  ASSUME TypeOK, NEW h \in Hosts, NEW n \in {ThreadCount, 2 * ThreadCount},
         NEW same \in LauncherRunning, NEW after \in LauncherRunning,
         NextRound(h, n, same, after)
  PROVE  /\ lpc' \in [Hosts -> LauncherRunning \cup LauncherEnded]
         /\ k' \in [Hosts -> 0 .. 2 * ThreadCount - 1]
<1>1. k[h] \in 0 .. 2 * ThreadCount - 1 /\ ThreadCount \in Nat \ {0}
  BY HostRunAssumption DEF TypeOK
<1>2. k[h] + 1 < n => k[h] + 1 \in 0 .. 2 * ThreadCount - 1
  BY <1>1
<1>3. 0 \in 0 .. 2 * ThreadCount - 1
  BY <1>1
<1> QED
  BY <1>2, <1>3 DEF TypeOK, NextRound, LGoto

LEMMA LauncherType ==
  ASSUME TypeOK, NEW h \in Hosts, LauncherStep(h)
  PROVE  TypeOK'
<1> USE DEF LGoto, At, LauncherRunning, LauncherEnded, lvars, wvars, netdir
<1>0. 0 \in 0 .. 2 * ThreadCount - 1
  BY HostRunAssumption
<1>1. CASE TopDirs(h)
  BY <1>1 DEF TypeOK, TopDirs
<1>2. CASE ClearReady(h)
  BY <1>2, RoundType DEF TypeOK, ClearReady
<1>3. CASE StartWorker(h)
  BY <1>3, RoundType DEF TypeOK, StartWorker, WorkerRunning, WorkerEnded
<1>4. CASE ScanReady(h)
  <2>1. CASE NextRound(h, ThreadCount, "scan", "ready")
    BY <1>4, <2>1, RoundType DEF TypeOK, ScanReady
  <2>2. CASE LGoto(h, "missing") /\ UNCHANGED k
    BY <1>4, <2>2 DEF TypeOK, ScanReady
  <2> QED
    BY <1>4, <2>1, <2>2 DEF ScanReady
<1>5. CASE ScanAgain(h) \/ ScanGiveUp(h)
  BY <1>5 DEF TypeOK, ScanAgain, ScanGiveUp
<1>6. CASE AbortTest(h)
  BY <1>0, <1>6 DEF TypeOK, AbortTest
<1>7. CASE Terminate(h)
  BY <1>7, RoundType DEF TypeOK, Terminate, WorkerRunning, WorkerEnded
<1>8. CASE OpenGate(h)
  BY <1>8 DEF TypeOK, OpenGate
<1>10. CASE Receive(h)
  BY <1>10 DEF TypeOK, Receive
<1>11. CASE JoinWorker(h)
  BY <1>11, RoundType DEF TypeOK, JoinWorker
<1>12. CASE Report(h) \/ ExitRaised(h)
  BY <1>12 DEF TypeOK, Report, ExitRaised
<1> QED
  BY <1>1, <1>2, <1>3, <1>4, <1>5, <1>6, <1>7, <1>8, <1>10, <1>11, <1>12
  DEF LauncherStep

LEMMA WorkerType ==
  ASSUME TypeOK, NEW w \in Workers, WorkerStep(w) \/ Killed(w)
  PROVE  TypeOK'
<1> USE DEF WGoto, WAt, WorkerRunning, WorkerEnded, lvars, wvars, netdir
<1>1. CASE Prepare(w)
  BY <1>1 DEF TypeOK, Prepare
<1>2. CASE Announce(w)
  BY <1>2 DEF TypeOK, Announce, MakeReadyFile
<1>3. CASE LookForGate(w) \/ LookForAbort(w)
  BY <1>3 DEF TypeOK, LookForGate, LookForAbort
<1>4. CASE RunWorkload(w)
  BY <1>4 DEF TypeOK, RunWorkload
<1>5. CASE SendInvoke(w) \/ Killed(w)
  BY <1>5 DEF TypeOK, SendInvoke, Killed
<1> QED
  BY <1>1, <1>2, <1>3, <1>4, <1>5 DEF WorkerStep

LEMMA StutterType == TypeOK /\ UNCHANGED vars => TypeOK'
  BY DEF TypeOK, vars, lvars, wvars, netdir

LEMMA TypeNext == TypeOK /\ [Next]_vars => TypeOK'
  BY LauncherType, WorkerType, StutterType DEF Next, Terminated

\* Every variable keeps its type; the loop variable of a launcher stays
\* within the rounds of its loop.
THEOREM HostTypeCorrect == Spec => []TypeOK
  BY TypeInit, TypeNext, PTL DEF Spec

-----------------------------------------------------------------------------
(***************************************************************************)
(* The barrier.  That a thread-ready file stands for a thread that has     *)
(* arrived is not so from the start: files of an earlier run lie about.    *)
(* It is so for a host from the moment it has deleted them, all before its *)
(* first worker starts, and only if no other host uses the same directory. *)
(***************************************************************************)

OneHostPerMachine == \A g, h \in Hosts : MachineOf[g] = MachineOf[h] => g = h

Arrived(h) == \A t \in Tids : <<h, t>> \in announced

\* Before its launcher has deleted the old files a host has no worker.
NotStarted(h) ==
  /\ lpc[h] \in {"idle", "topdirs", "clear"} =>
        \A t \in Tids : wpc[<<h, t>>] = "none"
  /\ lpc[h] \in {"idle", "topdirs"} => k[h] = 0

\* The thread-ready files the launcher has been through are gone.
Cleared(h) ==
  lpc[h] = "clear" =>
     \A t \in Tids : t <= k[h] => <<MachineOf[h], t>> \notin thread_ready

\* While the launcher looks for them, a thread-ready file is one of this run.
Honest(h) ==
  lpc[h] \in {"start", "scan", "missing"} =>
     \A t \in Tids : <<MachineOf[h], t>> \in thread_ready => <<h, t>> \in announced

\* The poll has seen the threads it is through with, in the end all of them.
Scanned(h) ==
  /\ lpc[h] \in {"scan", "missing"} =>
        \A t \in Tids : t <= k[h] => <<h, t>> \in announced
  /\ lpc[h] = "ready" => Arrived(h)

BarrierInv(h) == NotStarted(h) /\ Cleared(h) /\ Honest(h) /\ Scanned(h)

\* What a step of one host's launcher does not touch on another host.
LEMMA OtherHost ==
  ASSUME TypeOK, NEW h \in Hosts, NEW g \in Hosts, g # h, LauncherStep(h)
  PROVE  /\ lpc'[g] = lpc[g] /\ k'[g] = k[g]
         /\ \A t \in Tids : wpc'[<<g, t>>] = wpc[<<g, t>>]
<1> USE DEF TypeOK, LGoto, NextRound, lvars, wvars, netdir
<1>1. lpc'[g] = lpc[g]
  BY DEF LauncherStep, TopDirs, ClearReady, StartWorker, ScanReady, ScanAgain,
         ScanGiveUp, AbortTest, Terminate, OpenGate,
         Receive, JoinWorker, Report, ExitRaised
<1>2. k'[g] = k[g]
  BY DEF LauncherStep, TopDirs, ClearReady, StartWorker, ScanReady, ScanAgain,
         ScanGiveUp, AbortTest, Terminate, OpenGate,
         Receive, JoinWorker, Report, ExitRaised
<1>3. \A t \in Tids : wpc'[<<g, t>>] = wpc[<<g, t>>]
  <2> SUFFICES ASSUME NEW t \in Tids PROVE wpc'[<<g, t>>] = wpc[<<g, t>>]
    OBVIOUS
  <2>1. <<g, t>> \in Workers /\ <<g, t>> # Current(h)
    BY DEF Workers, Current
  <2>2. CASE StartWorker(h) \/ Terminate(h)
    BY <2>1, <2>2 DEF StartWorker, Terminate
  <2>3. CASE wpc' = wpc
    BY <2>3
  <2> QED
    BY <2>2, <2>3
    DEF LauncherStep, TopDirs, ClearReady, ScanReady, ScanAgain,
        ScanGiveUp, AbortTest, OpenGate,
        Receive, JoinWorker, Report, ExitRaised
<1> QED
  BY <1>1, <1>2, <1>3

\* A launcher announces nobody and writes no thread-ready file.
LEMMA LauncherAnnouncesNone ==
  ASSUME NEW h \in Hosts, LauncherStep(h)
  PROVE  announced' = announced /\ thread_ready' \subseteq thread_ready
  BY DEF LauncherStep, TopDirs, ClearReady, StartWorker, ScanReady, ScanAgain,
         ScanGiveUp, AbortTest, Terminate, OpenGate,
         Receive, JoinWorker, Report, ExitRaised

\* The two passes of the deletion leave no thread out.
LEMMA ClearBarrier ==
  ASSUME TypeOK, NEW h \in Hosts, BarrierInv(h), ClearReady(h)
  PROVE  BarrierInv(h)'
<1> DEFINE gone == (k[h] % ThreadCount) + 1
<1>1. /\ ThreadCount \in Nat /\ ThreadCount > 0
      /\ k[h] \in 0 .. 2 * ThreadCount - 1
  BY HostRunAssumption DEF TypeOK
<1>2. k[h] < ThreadCount => gone = k[h] + 1
  BY <1>1
<1>3. ASSUME NEW t \in Tids, t <= k[h] + 1
      PROVE  <<MachineOf[h], t>> \notin thread_ready'
  <2>1. CASE t <= k[h]
    BY <2>1 DEF BarrierInv, Cleared, ClearReady, At
  <2>2. CASE t = k[h] + 1
    <3>1. k[h] < ThreadCount
      BY <1>1, <2>2 DEF Tids
    <3> QED
      BY <1>2, <2>2, <3>1 DEF ClearReady
  <2> QED
    BY <1>1, <1>3, <2>1, <2>2 DEF Tids
<1>4. CASE k[h] + 1 < 2 * ThreadCount
  <2>1. lpc'[h] = "clear" /\ k'[h] = k[h] + 1
    BY <1>4 DEF ClearReady, NextRound, LGoto, TypeOK
  <2>2. wpc' = wpc
    BY DEF ClearReady, wvars
  <2> QED
    BY <1>3, <2>1, <2>2
    DEF BarrierInv, NotStarted, Cleared, Honest, Scanned, ClearReady, At
<1>5. CASE ~(k[h] + 1 < 2 * ThreadCount)
  <2>1. lpc'[h] = "start"
    BY <1>5 DEF ClearReady, NextRound, LGoto, TypeOK
  <2>2. \A t \in Tids : <<MachineOf[h], t>> \notin thread_ready'
    BY <1>1, <1>3, <1>5 DEF Tids
  <2> QED
    BY <2>1, <2>2 DEF BarrierInv, NotStarted, Cleared, Honest, Scanned
<1> QED
  BY <1>4, <1>5

LEMMA ScanBarrier ==
  ASSUME TypeOK, NEW h \in Hosts, BarrierInv(h), ScanReady(h)
  PROVE  BarrierInv(h)'
<1>1. k[h] \in Nat /\ ThreadCount \in Nat
  BY HostRunAssumption DEF TypeOK
<1>2. CASE ReadyFile(Current(h)) \in thread_ready /\ NextRound(h, ThreadCount, "scan", "ready")
  <2>1. ASSUME NEW t \in Tids, t <= k[h] + 1
        PROVE  <<h, t>> \in announced
    <3>1. CASE t <= k[h]
      BY <3>1 DEF BarrierInv, Scanned, ScanReady, At
    <3>2. CASE t = k[h] + 1
      BY <1>2, <3>2
      DEF BarrierInv, Honest, ScanReady, At, ReadyFile, Current, HostOf, TidOf
    <3> QED
      BY <1>1, <2>1, <3>1, <3>2 DEF Tids
  <2>2. CASE k[h] + 1 < ThreadCount
    <3>1. lpc'[h] = "scan" /\ k'[h] = k[h] + 1
      BY <1>2, <2>2 DEF NextRound, LGoto, TypeOK
    <3> QED
      BY <2>1, <3>1
      DEF BarrierInv, NotStarted, Cleared, Honest, Scanned, ScanReady, At
  <2>3. CASE ~(k[h] + 1 < ThreadCount)
    <3>1. lpc'[h] = "ready"
      BY <1>2, <2>3 DEF NextRound, LGoto, TypeOK
    <3>2. \A t \in Tids : <<h, t>> \in announced
      BY <1>1, <2>1, <2>3 DEF Tids
    <3> QED
      BY <3>1, <3>2
      DEF BarrierInv, NotStarted, Cleared, Honest, Scanned, Arrived, ScanReady, At
  <2> QED
    BY <2>2, <2>3
<1>3. CASE LGoto(h, "missing") /\ UNCHANGED k
  BY <1>3
  DEF TypeOK, BarrierInv, NotStarted, Cleared, Honest, Scanned, ScanReady, At, LGoto
<1> QED
  BY <1>2, <1>3 DEF ScanReady

LEMMA LauncherBarrier ==
  ASSUME TypeOK, NEW h \in Hosts, \A g \in Hosts : BarrierInv(g), LauncherStep(h)
  PROVE  \A g \in Hosts : BarrierInv(g)'
<1> SUFFICES ASSUME NEW g \in Hosts PROVE BarrierInv(g)'
  OBVIOUS
<1>1. CASE g # h
  BY <1>1, OtherHost, LauncherAnnouncesNone
  DEF BarrierInv, NotStarted, Cleared, Honest, Scanned, Arrived
<1>2. CASE g = h
  <2> USE DEF TypeOK, LGoto, At, BarrierInv
  <2>1. CASE ClearReady(h)
    BY <1>2, <2>1, ClearBarrier
  <2>2. CASE ScanReady(h)
    BY <1>2, <2>2, ScanBarrier
  <2>3. CASE TopDirs(h)
    <3>1. k[h] = 0 /\ k' = k /\ wpc' = wpc /\ lpc'[h] = "clear"
      BY <2>3 DEF TopDirs, NotStarted, wvars
    <3> QED
      BY <1>2, <2>3, <3>1
      DEF TopDirs, NotStarted, Cleared, Honest, Scanned, Tids
  <2>4. CASE StartWorker(h)
    <3>1. \/ lpc'[h] = "start"
          \/ lpc'[h] = "scan" /\ k'[h] = 0
      BY <2>4 DEF StartWorker, NextRound
    <3> QED
      BY <1>2, <2>4, <3>1
      DEF StartWorker, NotStarted, Cleared, Honest, Scanned, Tids
  <2>5. CASE ScanAgain(h) \/ ScanGiveUp(h)
    BY <1>2, <2>5
    DEF ScanAgain, ScanGiveUp, NotStarted, Cleared, Honest, Scanned
  <2>6. CASE \/ AbortTest(h) \/ Terminate(h) \/ OpenGate(h)
             \/ Receive(h) \/ JoinWorker(h) \/ Report(h)
             \/ ExitRaised(h)
    <3>1. lpc'[h] \notin {"idle", "topdirs", "clear", "start", "scan", "missing",
                         "ready"}
      BY <2>6
      DEF AbortTest, Terminate, OpenGate, Receive,
          JoinWorker, Report, ExitRaised, NextRound
    <3>2. thread_ready' = thread_ready /\ announced' = announced
      BY <2>6
      DEF AbortTest, Terminate, OpenGate, Receive,
          JoinWorker, Report, ExitRaised
    <3> QED
      BY <1>2, <3>1, <3>2 DEF NotStarted, Cleared, Honest, Scanned
  <2> QED
    BY <2>1, <2>2, <2>3, <2>4, <2>5, <2>6 DEF LauncherStep
<1> QED
  BY <1>1, <1>2

LEMMA WorkerBarrier ==
  ASSUME TypeOK, OneHostPerMachine, NEW w \in Workers,
         \A g \in Hosts : BarrierInv(g), WorkerStep(w) \/ Killed(w)
  PROVE  \A g \in Hosts : BarrierInv(g)'
<1> SUFFICES ASSUME NEW g \in Hosts PROVE BarrierInv(g)'
  OBVIOUS
<1>1. lpc' = lpc /\ k' = k
  BY DEF WorkerStep, Prepare, Announce, MakeReadyFile, LookForGate, LookForAbort, RunWorkload,
         SendInvoke, Killed, lvars
<1>2. wpc[w] # "none" /\ \A v \in Workers : v # w => wpc'[v] = wpc[v]
  BY DEF TypeOK, WorkerStep, Prepare, Announce, MakeReadyFile, LookForGate, LookForAbort,
         RunWorkload, SendInvoke, Killed, WAt, WGoto, WorkerRunning
<1>3. lpc[HostOf(w)] \notin {"idle", "topdirs", "clear"}
  BY <1>2, WorkerPair DEF BarrierInv, NotStarted
<1>4. /\ announced \subseteq announced'
      /\ thread_ready' \subseteq thread_ready \cup {ReadyFile(w)}
      /\ ReadyFile(w) \in thread_ready' \ thread_ready => w \in announced'
  BY DEF WorkerStep, Prepare, Announce, MakeReadyFile, LookForGate, LookForAbort, RunWorkload,
         SendInvoke, Killed
<1>5. ASSUME NEW t \in Tids, <<MachineOf[g], t>> \in thread_ready' \ thread_ready
      PROVE  g = HostOf(w) /\ <<g, t>> \in announced'
  <2>1. <<MachineOf[g], t>> = ReadyFile(w) /\ w \in announced'
    BY <1>4, <1>5
  <2>2. g = HostOf(w) /\ t = TidOf(w)
    BY <2>1, WorkerPair DEF OneHostPerMachine, ReadyFile
  <2> QED
    BY <2>1, <2>2, WorkerPair
<1>6. NotStarted(g)'
  <2> SUFFICES ASSUME NEW t \in Tids, lpc[g] \in {"idle", "topdirs", "clear"}
               PROVE  wpc'[<<g, t>>] = "none"
    BY <1>1 DEF BarrierInv, NotStarted
  <2>1. <<g, t>> \in Workers /\ <<g, t>> # w
    BY <1>3 DEF Workers, HostOf
  <2> QED
    BY <1>2, <2>1 DEF BarrierInv, NotStarted
<1>7. Cleared(g)'
  BY <1>1, <1>3, <1>5 DEF BarrierInv, Cleared
<1>8. Honest(g)'
  BY <1>1, <1>4, <1>5 DEF BarrierInv, Honest
<1>9. Scanned(g)'
  BY <1>1, <1>4 DEF BarrierInv, Scanned, Arrived
<1> QED
  BY <1>6, <1>7, <1>8, <1>9 DEF BarrierInv

-----------------------------------------------------------------------------
(***************************************************************************)
(* A test on one host.  Its launcher opens the gate when it has seen all   *)
(* threads, and gives up only while the gate is closed.                    *)
(***************************************************************************)

GateJustified(h) == lpc[h] # "topdirs" /\ gate => Arrived(h)

RunAfterGate == \A w \in Workers : wpc[w] = "run" => gate

LoneInv == \A h \in Hosts : BarrierInv(h) /\ GateJustified(h) /\ RunAfterGate

LEMMA BarrierInit == Init => \A h \in Hosts : BarrierInv(h)
<1> SUFFICES ASSUME Init, NEW h \in Hosts PROVE BarrierInv(h)
  OBVIOUS
<1>1. /\ lpc[h] \in {"idle", "topdirs"} /\ k[h] = 0
      /\ \A t \in Tids : wpc[<<h, t>>] = "none"
  BY DEF Init, Workers
<1> QED
  BY <1>1 DEF BarrierInv, NotStarted, Cleared, Honest, Scanned

\* A launcher touches no gate but in TopDirs and OpenGate, and sets nobody
\* running.
LEMMA LauncherGate ==
  ASSUME TypeOK, NEW h \in Hosts, LauncherStep(h)
  PROVE  /\ gate' = gate \/ TopDirs(h) \/ (OpenGate(h) /\ gate')
         /\ lpc'[h] # "topdirs"
         /\ \A w \in Workers : wpc'[w] = "run" => wpc[w] = "run"
<1>1. gate' = gate \/ TopDirs(h) \/ (OpenGate(h) /\ gate')
  BY DEF LauncherStep, ClearReady, StartWorker, ScanReady, ScanAgain,
         ScanGiveUp, AbortTest, Terminate, OpenGate,
         Receive, JoinWorker, Report, ExitRaised, netdir
<1>2. lpc'[h] # "topdirs"
  BY DEF TypeOK, LauncherStep, TopDirs, ClearReady, StartWorker, ScanReady,
         ScanAgain, ScanGiveUp, AbortTest, Terminate, OpenGate, 
         Receive, JoinWorker, Report, ExitRaised, NextRound, LGoto
<1>3. \A w \in Workers : wpc'[w] = "run" => wpc[w] = "run"
  <2>1. CASE StartWorker(h) \/ Terminate(h)
    BY <2>1 DEF TypeOK, StartWorker, Terminate
  <2>2. CASE wpc' = wpc
    BY <2>2
  <2> QED
    BY <2>1, <2>2
    DEF LauncherStep, TopDirs, ClearReady, ScanReady, ScanAgain, ScanGiveUp,
        AbortTest, OpenGate, Receive, JoinWorker, Report,
        ExitRaised, wvars
<1> QED
  BY <1>1, <1>2, <1>3

\* A worker that starts running has seen the gate.
LEMMA WorkerGate ==
  ASSUME TypeOK, NEW w \in Workers, WorkerStep(w) \/ Killed(w)
  PROVE  /\ lpc' = lpc /\ gate' = gate /\ abort' = abort
         /\ announced \subseteq announced'
         /\ \A v \in Workers : wpc'[v] = "run" => wpc[v] = "run" \/ gate
  BY DEF TypeOK, WorkerStep, Prepare, Announce, MakeReadyFile, LookForGate, LookForAbort,
         RunWorkload, SendInvoke, Killed, WAt, WGoto, lvars, netdir

LEMMA LoneNext ==
  ASSUME NEW host, Hosts = {host}
  PROVE  TypeOK /\ LoneInv /\ [Next]_vars => LoneInv'
<1> SUFFICES ASSUME TypeOK, LoneInv, [Next]_vars PROVE LoneInv'
  OBVIOUS
<1>0. OneHostPerMachine /\ host \in Hosts
  BY DEF OneHostPerMachine
<1>1. CASE LauncherStep(host)
  <2>1. BarrierInv(host)'
    BY <1>0, <1>1, LauncherBarrier DEF LoneInv
  <2>2. GateJustified(host)'
    <3>1. CASE TopDirs(host)
      BY <3>1 DEF TopDirs, GateJustified
    <3>2. CASE OpenGate(host)
      BY <1>0, <3>2 DEF OpenGate, At, LoneInv, BarrierInv, Scanned, Arrived,
                        GateJustified
    <3>3. CASE gate' = gate /\ ~TopDirs(host)
      <4>1. lpc[host] # "topdirs"
        BY <1>1, <3>3
        DEF LauncherStep, ClearReady, StartWorker, ScanReady, ScanAgain,
            ScanGiveUp, AbortTest, Terminate, OpenGate,
            Receive, JoinWorker, Report, ExitRaised, At
      <4>2. announced' = announced
        BY <1>0, <1>1, LauncherAnnouncesNone
      <4> QED
        BY <1>0, <3>3, <4>1, <4>2 DEF LoneInv, GateJustified, Arrived
    <3> QED
      BY <1>0, <1>1, <3>1, <3>2, <3>3, LauncherGate
  <2>3. RunAfterGate'
    <3>1. CASE TopDirs(host)
      <4>1. \A w \in Workers : wpc[w] = "none"
        BY <1>0, <3>1, WorkerPair DEF TopDirs, At, LoneInv, BarrierInv, NotStarted
      <4> QED
        BY <3>1, <4>1 DEF TopDirs, RunAfterGate, wvars
    <3>2. CASE gate' = gate \/ gate'
      BY <1>0, <1>1, <3>2, LauncherGate DEF LoneInv, RunAfterGate
    <3> QED
      BY <1>0, <1>1, <3>1, <3>2, LauncherGate
  <2> QED
    BY <2>1, <2>2, <2>3 DEF LoneInv
<1>2. ASSUME NEW w \in Workers, WorkerStep(w) \/ Killed(w) PROVE LoneInv'
  <2>1. \A g \in Hosts : BarrierInv(g)'
    BY <1>0, <1>2, WorkerBarrier DEF LoneInv
  <2>2. GateJustified(host)' /\ RunAfterGate'
    BY <1>0, <1>2, WorkerGate DEF LoneInv, GateJustified, RunAfterGate, Arrived
  <2> QED
    BY <2>1, <2>2 DEF LoneInv
<1>3. CASE UNCHANGED vars
  BY <1>3 DEF LoneInv, BarrierInv, NotStarted, Cleared, Honest, Scanned,
              Arrived, GateJustified, RunAfterGate, vars, lvars, wvars, netdir
<1> QED
  BY <1>1, <1>2, <1>3 DEF Next, Terminated

LEMMA LoneInit ==
  ASSUME ~Slave PROVE Init => LoneInv
<1> SUFFICES ASSUME Init, NEW h \in Hosts
             PROVE  GateJustified(h) /\ RunAfterGate
  BY BarrierInit DEF LoneInv
<1> QED
  BY DEF Init, GateJustified, RunAfterGate

\* No thread passes the gate before all threads have arrived at it: for any
\* number of threads, with any files left over, and with any fault.
THEOREM HostNoFalseStart ==
  ASSUME ~Slave, NEW host, Hosts = {host} PROVE Spec => []NoFalseStart
<1>1. TypeOK /\ LoneInv => NoFalseStart
  <2> SUFFICES ASSUME TypeOK, LoneInv, NEW w \in Workers, wpc[w] = "run"
               PROVE  announced = Workers
    BY DEF NoFalseStart
  <2>1. lpc[host] # "topdirs"
    BY WorkerPair DEF LoneInv, BarrierInv, NotStarted
  <2>2. Arrived(host)
    BY <2>1 DEF LoneInv, RunAfterGate, GateJustified
  <2>3. ASSUME NEW v \in Workers PROVE v \in announced
    <3>1. HostOf(v) = host /\ TidOf(v) \in Tids /\ v = <<HostOf(v), TidOf(v)>>
      BY WorkerPair
    <3> QED
      BY <2>2, <3>1 DEF Arrived
  <2>4. announced \subseteq Workers
    BY DEF TypeOK
  <2> QED
    BY <2>3, <2>4
<1>2. TypeOK /\ LoneInv /\ [Next]_vars => LoneInv'
  BY LoneNext
<1> QED
  BY TypeInit, TypeNext, LoneInit, <1>1, <1>2, PTL DEF Spec

-----------------------------------------------------------------------------
(***************************************************************************)
(* The directories.  On one host the abort file appears only when the gate *)
(* will not, so no thread that runs has skipped its directories; under     *)
(* same-dir the barrier makes thread "00" precede all others.              *)
(***************************************************************************)

\* After this program counter the gate may be open, and no abort follows.
GateOpened == {"recv", "join", "report", "exit_ok"}

NoGateAndAbort(h) ==
  /\ lpc[h] \notin GateOpened \cup {"topdirs"} => ~gate
  /\ lpc[h] \notin {"topdirs", "kill", "raised", "exit_err"} => ~abort
  /\ lpc[h] = "topdirs" => announced = {}

\* A worker that is past its preparations has made what it had to make.
Prepared ==
  (\A h \in Hosts : lpc[h] # "topdirs") /\ ~abort =>
     \A w \in Workers :
        /\ w \in announced \/ wpc[w] \in {"announce", "gate", "poll", "run"}
        /\ ~SameDir \/ TidOf(w) = 1
        => Tree(w) \in trees

TreeInv == Prepared /\ \A h \in Hosts : NoGateAndAbort(h)

LEMMA TreeNext ==
  ASSUME NEW host, Hosts = {host}, ~Slave
  PROVE  TypeOK /\ LoneInv /\ TreeInv /\ [Next]_vars => TreeInv'
<1> SUFFICES ASSUME TypeOK, LoneInv, TreeInv, [Next]_vars PROVE TreeInv'
  OBVIOUS
<1>0. host \in Hosts
  OBVIOUS
<1>1. CASE LauncherStep(host)
  <2>1. NoGateAndAbort(host)'
    BY <1>0, <1>1
    DEF TreeInv, NoGateAndAbort, GateOpened, TypeOK, LauncherStep, TopDirs,
        ClearReady, StartWorker, ScanReady, ScanAgain, ScanGiveUp, AbortTest,
        Terminate, OpenGate, Receive, JoinWorker, Report,
        ExitRaised, NextRound, LGoto, At, netdir
  <2>2. Prepared'
    <3>1. CASE TopDirs(host)
      <4>1. \A w \in Workers : wpc[w] = "none"
        BY <1>0, <3>1, WorkerPair DEF TopDirs, At, LoneInv, BarrierInv, NotStarted
      <4> QED
        BY <1>0, <3>1, <4>1
        DEF TopDirs, At, TreeInv, NoGateAndAbort, Prepared, wvars
    <3>2. CASE StartWorker(host) \/ Terminate(host)
      BY <1>0, <3>2
      DEF TypeOK, StartWorker, Terminate, At, TreeInv, Prepared, netdir, LGoto, NextRound
    <3>3. CASE AbortTest(host)
      BY <1>0, <3>3 DEF AbortTest, At, LGoto, TreeInv, Prepared, wvars
    <3>4. CASE UNCHANGED <<wpc, trees, announced, abort>> /\ lpc[host] # "topdirs"
      BY <1>0, <3>4 DEF TreeInv, Prepared
    <3> QED
      BY <1>1, <3>1, <3>2, <3>3, <3>4
      DEF LauncherStep, ClearReady, ScanReady, ScanAgain, ScanGiveUp, OpenGate,
          Receive, JoinWorker, Report, ExitRaised, At,
          wvars, netdir
  <2> QED
    BY <2>1, <2>2 DEF TreeInv
<1>2. ASSUME NEW w \in Workers, WorkerStep(w) \/ Killed(w) PROVE TreeInv'
  <2>1. lpc[host] # "topdirs"
    <3>1. wpc[w] # "none"
      BY <1>2 DEF WorkerStep, Prepare, Announce, MakeReadyFile, LookForGate, LookForAbort,
                  RunWorkload, SendInvoke, Killed, WAt, WorkerRunning
    <3> QED
      BY <1>0, <3>1, WorkerPair DEF LoneInv, BarrierInv, NotStarted
  <2>2. NoGateAndAbort(host)'
    BY <1>0, <1>2, <2>1, WorkerGate DEF TreeInv, NoGateAndAbort
  <2>3. Prepared'
    <3>1. CASE Prepare(w)
      BY <1>0, <2>1, <3>1
      DEF TypeOK, Prepare, WAt, WGoto, TreeInv, Prepared, Tree, lvars, netdir
    <3>2. CASE Announce(w)
      BY <1>0, <2>1, <3>2
      DEF TypeOK, Announce, MakeReadyFile, WAt, WGoto, TreeInv, Prepared, lvars, netdir
    <3>3. CASE \/ LookForGate(w) \/ LookForAbort(w) \/ RunWorkload(w)
               \/ SendInvoke(w) \/ Killed(w)
      BY <1>0, <2>1, <3>3
      DEF TypeOK, LookForGate, LookForAbort, RunWorkload, SendInvoke, Killed,
          WAt, WGoto, TreeInv, Prepared, lvars, netdir
    <3> QED
      BY <1>2, <3>1, <3>2, <3>3 DEF WorkerStep
  <2> QED
    BY <2>2, <2>3 DEF TreeInv
<1>3. CASE UNCHANGED vars
  BY <1>3 DEF TreeInv, Prepared, NoGateAndAbort, vars, lvars, wvars, netdir
<1> QED
  BY <1>1, <1>2, <1>3 DEF Next, Terminated

\* A thread that runs on the only host has its directories, whichever of the
\* threads had to make them.
THEOREM HostTreesReady ==
  ASSUME ~Slave, NEW host, Hosts = {host} PROVE Spec => []TreesReady
<1>1. Init => TreeInv
  BY DEF Init, TreeInv, Prepared, NoGateAndAbort, GateOpened
<1>2. TypeOK /\ LoneInv /\ TreeInv => TreesReady
  <2> SUFFICES ASSUME TypeOK, LoneInv, TreeInv, NEW w \in Workers, wpc[w] = "run"
               PROVE  Tree(w) \in trees
    BY DEF TreesReady
  <2>1. lpc[host] # "topdirs"
    BY WorkerPair DEF LoneInv, BarrierInv, NotStarted
  <2>2. gate /\ Arrived(host)
    BY <2>1 DEF LoneInv, RunAfterGate, GateJustified
  <2>3. ~abort
    <3>1. lpc[host] \in GateOpened
      BY <2>1, <2>2 DEF TreeInv, NoGateAndAbort
    <3> QED
      BY <3>1 DEF TreeInv, NoGateAndAbort, GateOpened
  <2>4. CASE ~SameDir
    BY <2>1, <2>3, <2>4 DEF TreeInv, Prepared
  <2>5. CASE SameDir
    <3>1. 1 \in Tids
      BY HostRunAssumption DEF Tids
    <3>2. <<host, 1>> \in Workers /\ <<host, 1>> \in announced
      BY <2>2, <3>1 DEF Arrived, Workers
    <3>3. Tree(<<host, 1>>) \in trees
      BY <2>1, <2>3, <3>2 DEF TreeInv, Prepared, TidOf
    <3> QED
      BY <2>5, <3>3 DEF Tree
  <2> QED
    BY <2>4, <2>5
<1>3. TypeOK /\ LoneInv /\ [Next]_vars => LoneInv'
  BY LoneNext
<1>4. TypeOK /\ LoneInv /\ TreeInv /\ [Next]_vars => TreeInv'
  BY TreeNext
<1> QED
  BY TypeInit, TypeNext, LoneInit, <1>1, <1>2, <1>3, <1>4, PTL DEF Spec
=============================================================================
