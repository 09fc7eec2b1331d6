-------------------------- MODULE Stonewall_proofs --------------------------
(***************************************************************************)
(* Proofs about module Stonewall, for any set of threads, any number of    *)
(* files and any setting of the options.                                   *)
(***************************************************************************)
EXTENDS Stonewall, TLAPS

-----------------------------------------------------------------------------
\* The directory of a file is a tree and a number.
LEMMA DirOfType ==
  ASSUME TypeOK, NEW t \in Threads
  PROVE  DirOf(t) \in (Threads \cup {"shared"}) \X Nat
<1>1. filenum[t] \in Nat /\ FilesPerDir \in Nat /\ FilesPerDir > 0
  BY StonewallAssumption DEF TypeOK
<1>2. filenum[t] \div FilesPerDir \in Nat
  BY <1>1
<1> QED
  BY <1>2 DEF DirOf

\* A thread that is at a file has a file number to go back from.
AtAFile == \A t \in Threads : pc[t] \in {"op", "mkdir", "failed"} => filenum[t] >= 1

\* AtAFile is what keeps the retry of MakeDir from making filenum negative.
TypeInv == TypeOK /\ AtAFile

LEMMA TypeInit == Init => TypeInv
<1> SUFFICES ASSUME Init PROVE TypeInv
  OBVIOUS
<1>1. pc \in [Threads -> Running \cup Ended] /\ AtAFile
  BY DEF Init, AtAFile, Running, Ended
<1>2. filenum \in [Threads -> 0 .. Iterations] /\ rq \in [Threads -> Nat]
  BY StonewallAssumption DEF Init
<1>3. /\ status \in [Threads -> {"OK", "err"}]
      /\ clock \in [Threads -> {"start", "later"}]
  BY DEF Init
<1>4. /\ end_time \in [Threads -> {None, "start", "later"}]
      /\ filenum_final \in [Threads -> (0 .. Iterations) \cup {None}]
      /\ rq_final \in [Threads -> Nat \cup {None}]
  BY DEF Init
<1>5. /\ stonewall_file \in BOOLEAN
      /\ made \subseteq (Threads \cup {"shared"}) \X Nat
      /\ flag_filenum \in [Threads -> 0 .. Iterations] \cup {None}
  BY DEF Init
<1> QED
  BY <1>1, <1>2, <1>3, <1>4, <1>5 DEF TypeInv, TypeOK

LEMMA TypeNext == TypeInv /\ [Next]_vars => TypeInv'
<1> SUFFICES ASSUME TypeInv, [Next]_vars PROVE TypeInv'
  OBVIOUS
<1> USE StonewallAssumption DEF TypeInv, Running, Ended
<1>1. ASSUME NEW t \in Threads, Start(t) PROVE TypeInv'
  BY <1>1 DEF TypeOK, AtAFile, Start, Goto, measured, flag
<1>2. ASSUME NEW t \in Threads, Check(t) PROVE TypeInv'
  BY <1>2 DEF TypeOK, AtAFile, Check, EndTest, Goto, measured, flag
<1>3. ASSUME NEW t \in Threads, Decide(t) PROVE TypeInv'
  <2>1. CASE StopEarly(t)
    BY <1>3, <2>1 DEF TypeOK, AtAFile, Decide, Goto, measured, flag
  <2>2. CASE ~StopEarly(t) /\ LastFile(t)
    BY <1>3, <2>2 DEF TypeOK, AtAFile, Decide, EndTest, Goto, measured, flag
  <2>3. CASE ~StopEarly(t) /\ ~LastFile(t)
    BY <1>3, <2>3 DEF TypeOK, AtAFile, Decide, LastFile, Goto, measured, flag
  <2> QED
    BY <2>1, <2>2, <2>3
<1>4. ASSUME NEW t \in Threads, Touch(t) PROVE TypeInv'
  BY <1>4 DEF TypeOK, AtAFile, Touch, Goto, measured
<1>5. ASSUME NEW t \in Threads, OpDone(t) PROVE TypeInv'
  BY <1>5 DEF TypeOK, AtAFile, OpDone, Goto, measured, flag
<1>6. ASSUME NEW t \in Threads, OpFails(t) PROVE TypeInv'
  BY <1>6 DEF TypeOK, AtAFile, OpFails, Goto, measured, flag
<1>7. ASSUME NEW t \in Threads, OpNoDir(t) PROVE TypeInv'
  BY <1>7 DEF TypeOK, AtAFile, OpNoDir, Goto, measured, flag
<1>8. ASSUME NEW t \in Threads, MakeDir(t) PROVE TypeInv'
  BY <1>8, DirOfType DEF TypeOK, AtAFile, MakeDir, Goto, measured, flag
<1>9. CASE UNCHANGED vars
  BY <1>9 DEF TypeOK, AtAFile, vars, measured, flag
<1> QED
  BY <1>1, <1>2, <1>3, <1>4, <1>5, <1>6, <1>7, <1>8, <1>9
  DEF Next, Step, Terminated

LEMMA TypeInvCorrect == Spec => []TypeInv
  BY TypeInit, TypeNext, PTL DEF Spec

\* Every variable keeps its type, in every behaviour.
THEOREM TypeCorrect == Spec => []TypeOK
<1>1. TypeInv => TypeOK
  BY DEF TypeInv
<1> QED
  BY TypeInvCorrect, <1>1, PTL

-----------------------------------------------------------------------------
(***************************************************************************)
(* No short measurement without a complete one.  The measurements alone    *)
(* are not inductive: the stonewall file, and a thread that is about to    *)
(* write it, must each stand for a complete measurement; that a thread     *)
(* ends its measurement because of an error must be excluded; and the      *)
(* fields of a measurement must be set together, as it is end_time that    *)
(* protects filenum_final from being written again.                        *)
(***************************************************************************)

NoErrorYet == \A t \in Threads : pc[t] \in Running => status[t] = "OK"

OneMeasurement ==
  \A t \in Threads : /\ end_time[t] = None <=> filenum_final[t] = None
                     /\ end_time[t] = None <=> rq_final[t] = None

SomebodyFinished == \E u \in Threads : filenum_final[u] = Iterations

FlagJustified == stonewall_file => SomebodyFinished

TouchJustified ==
  \A t \in Threads : pc[t] = "touch" => filenum_final[t] = Iterations

ShortJustified ==
  \A t \in Threads :
     filenum_final[t] # None /\ filenum_final[t] # Iterations => SomebodyFinished

IInv == /\ NoErrorYet
        /\ OneMeasurement
        /\ FlagJustified
        /\ TouchJustified
        /\ ShortJustified

LEMMA IInvInit == Init => IInv
  BY StonewallAssumption
  DEF Init, IInv, NoErrorYet, OneMeasurement, FlagJustified, TouchJustified,
      ShortJustified, Running

\* A call of end_test preserves the invariant if the caller has seen the
\* stonewall file or has gone through all of its files.
LEMMA EndTestJustified ==
  ASSUME TypeOK, IInv, NEW t \in Threads, NEW where \in {"decide", "done"},
         EndTest(t, where),
         stonewall_file \/ filenum[t] = Iterations,
         status' = status, stonewall_file' = stonewall_file,
         pc[t] \in {"check", "decide"}
  PROVE  IInv'
<1> USE StonewallAssumption
<1>1. CASE UNCHANGED measured
  <2>1. pc' \in {[pc EXCEPT ![t] = where], [pc EXCEPT ![t] = "asserted"]}
    BY <1>1 DEF EndTest, Goto, measured, TypeOK
  <2> QED
    BY <1>1, <2>1
    DEF TypeOK, IInv, NoErrorYet, OneMeasurement, FlagJustified,
        TouchJustified, ShortJustified, SomebodyFinished, Running, measured
<1>2. CASE /\ end_time[t] = None
           /\ end_time' = [end_time EXCEPT ![t] = clock[t]]
           /\ filenum_final' = [filenum_final EXCEPT ![t] = filenum[t]]
           /\ rq_final' = [rq_final EXCEPT ![t] = rq[t]]
           /\ Goto(t, IF filenum[t] >= Iterations /\ ~stonewall_file
                      THEN "touch" ELSE where)
  <2>1. /\ filenum_final[t] = None
        /\ clock[t] # None /\ filenum[t] # None /\ rq[t] # None
    BY <1>2 DEF TypeOK, IInv, OneMeasurement
  <2>2. OneMeasurement'
    BY <1>2, <2>1 DEF TypeOK, IInv, OneMeasurement
  <2>3. NoErrorYet'
    BY <1>2 DEF TypeOK, IInv, NoErrorYet, Goto, Running
  <2>4. SomebodyFinished'
    <3>1. CASE filenum[t] = Iterations
      BY <1>2, <3>1 DEF TypeOK, SomebodyFinished
    <3>2. CASE stonewall_file
      <4>1. PICK u \in Threads : filenum_final[u] = Iterations
        BY <3>2 DEF IInv, FlagJustified, SomebodyFinished
      <4>2. u # t
        BY <2>1, <4>1
      <4> QED
        BY <1>2, <4>1, <4>2 DEF TypeOK, SomebodyFinished
    <3> QED
      BY <3>1, <3>2
  <2>5. TouchJustified'
    BY <1>2, <2>1 DEF TypeOK, IInv, TouchJustified, Goto
  <2> QED
    BY <2>2, <2>3, <2>4, <2>5 DEF IInv, FlagJustified, ShortJustified
<1> QED
  BY <1>1, <1>2 DEF EndTest

LEMMA IInvNext == TypeOK /\ IInv /\ [Next]_vars => IInv'
<1> SUFFICES ASSUME TypeOK, IInv, [Next]_vars PROVE IInv'
  OBVIOUS
<1> USE StonewallAssumption
<1>1. ASSUME NEW t \in Threads, Start(t) PROVE IInv'
  BY <1>1
  DEF TypeOK, IInv, NoErrorYet, OneMeasurement, FlagJustified, TouchJustified,
      ShortJustified, SomebodyFinished, Running, Start, Goto, measured, flag
<1>2. ASSUME NEW t \in Threads, Check(t) PROVE IInv'
  <2>1. CASE stonewall_file /\ EndTest(t, "decide")
    BY <1>2, <2>1, EndTestJustified DEF Check, flag
  <2>2. CASE Goto(t, "decide") /\ UNCHANGED measured
    BY <1>2, <2>2
    DEF TypeOK, IInv, NoErrorYet, OneMeasurement, FlagJustified,
        TouchJustified, ShortJustified, SomebodyFinished, Running, Check, Goto,
        measured, flag
  <2> QED
    BY <1>2, <2>1, <2>2 DEF Check
<1>3. ASSUME NEW t \in Threads, Decide(t) PROVE IInv'
  <2>1. CASE LastFile(t) /\ EndTest(t, "done")
    <3>1. filenum[t] = Iterations
      BY <1>3, <2>1 DEF TypeOK, IInv, NoErrorYet, Running, LastFile, Decide
    <3> QED
      BY <1>3, <2>1, <3>1, EndTestJustified DEF Decide, flag
  <2>2. CASE UNCHANGED measured /\ (Goto(t, "done") \/ Goto(t, "op"))
    BY <1>3, <2>2
    DEF TypeOK, IInv, NoErrorYet, OneMeasurement, FlagJustified,
        TouchJustified, ShortJustified, SomebodyFinished, Running, Decide,
        Goto, measured, flag
  <2> QED
    BY <1>3, <2>1, <2>2 DEF Decide, measured
<1>4. ASSUME NEW t \in Threads, Touch(t) PROVE IInv'
  <2>1. SomebodyFinished
    BY <1>4 DEF Touch, IInv, TouchJustified, SomebodyFinished
  <2> QED
    BY <1>4, <2>1
    DEF TypeOK, IInv, NoErrorYet, OneMeasurement, FlagJustified,
        TouchJustified, ShortJustified, SomebodyFinished, Running, Touch, Goto,
        measured
<1>5. ASSUME NEW t \in Threads, OpDone(t) \/ OpFails(t) \/ OpNoDir(t)
      PROVE IInv'
  BY <1>5
  DEF TypeOK, IInv, NoErrorYet, OneMeasurement, FlagJustified, TouchJustified,
      ShortJustified, SomebodyFinished, Running, OpDone, OpFails, OpNoDir,
      Goto, measured, flag
<1>6. ASSUME NEW t \in Threads, MakeDir(t) PROVE IInv'
  BY <1>6
  DEF TypeOK, IInv, NoErrorYet, OneMeasurement, FlagJustified, TouchJustified,
      ShortJustified, SomebodyFinished, Running, MakeDir, Goto, measured, flag
<1>7. CASE UNCHANGED vars
  BY <1>7
  DEF IInv, NoErrorYet, OneMeasurement, FlagJustified, TouchJustified,
      ShortJustified, SomebodyFinished, vars, measured, flag
<1> QED
  BY <1>1, <1>2, <1>3, <1>4, <1>5, <1>6, <1>7 DEF Next, Step, Terminated

LEMMA IInvCorrect == Spec => []IInv
  BY TypeCorrect, IInvInit, IInvNext, PTL DEF Spec

\* A thread is credited with fewer files than requested only when a thread
\* has been credited with all of them: in every interleaving of any number of
\* threads, with any failure of the file operations and of the touch.
THEOREM ShortMeasure == Spec => []ShortMeasureJustified
<1>1. IInv => ShortMeasureJustified
  <2> SUFFICES ASSUME IInv, NEW t \in Threads,
                      filenum_final[t] \in 0 .. Iterations - 1
               PROVE  \E u \in Threads : filenum_final[u] = Iterations
    BY DEF ShortMeasureJustified
  <2>1. filenum_final[t] # None /\ filenum_final[t] # Iterations
    BY StonewallAssumption
  <2> QED
    BY <2>1 DEF IInv, ShortJustified, SomebodyFinished
<1> QED
  BY IInvCorrect, <1>1, PTL

-----------------------------------------------------------------------------
(***************************************************************************)
(* If an operation takes at least a tick of the clock, end_test can tell   *)
(* its second call from its first.  Every look at the stonewall file comes *)
(* after at least one operation: FilesBetweenChecks is greater than one.   *)
(***************************************************************************)

ClockInv ==
  \A t \in Threads :
     /\ end_time[t] # "start"
     /\ pc[t] # "asserted"
     /\ pc[t] = "gate" => filenum[t] = 0
     /\ pc[t] \in {"check", "decide"} /\ filenum[t] >= 1 => clock[t] = "later"
     /\ pc[t] \in {"op", "mkdir"} /\ filenum[t] >= 2 => clock[t] = "later"

LEMMA DueAfterFirst ==
  ASSUME NEW t \in Threads, TypeOK, CheckDue(t)
  PROVE  filenum[t] >= 1
<1>1. /\ filenum[t] \in Nat
      /\ FilesBetweenChecks \in Nat /\ FilesBetweenChecks > 1
      /\ (filenum[t] + 1) % FilesBetweenChecks = 0
  BY StonewallAssumption DEF TypeOK, CheckDue
<1>2. 1 % FilesBetweenChecks = 1
  BY <1>1
<1> QED
  BY <1>1, <1>2

\* An end_test that finds the clock moved on leaves nothing to trip over.
LEMMA EndTestClock ==
  ASSUME TypeOK, ClockInv, NEW t \in Threads, NEW where \in {"decide", "done"},
         EndTest(t, where), clock[t] = "later",
         filenum' = filenum, clock' = clock,
         pc[t] \in {"check", "decide"}, filenum[t] >= 1
  PROVE  ClockInv'
<1>1. pc' = [pc EXCEPT ![t] = where] \/ pc' = [pc EXCEPT ![t] = "touch"]
  BY DEF EndTest, Goto, ClockInv, TestEnded, TypeOK
<1>2. end_time' = end_time \/ end_time' = [end_time EXCEPT ![t] = "later"]
  BY DEF EndTest, measured
<1> QED
  BY <1>1, <1>2 DEF TypeOK, ClockInv

LEMMA ClockNext ==
  ASSUME ClockAdvances
  PROVE  TypeOK /\ AtAFile /\ NoErrorYet /\ ClockInv /\ [Next]_vars => ClockInv'
<1> SUFFICES ASSUME TypeOK, AtAFile, NoErrorYet, ClockInv, [Next]_vars
             PROVE  ClockInv'
  OBVIOUS
<1> USE StonewallAssumption
<1>1. ASSUME NEW t \in Threads, Start(t) PROVE ClockInv'
  BY <1>1 DEF TypeOK, ClockInv, Start, Goto, measured
<1>2. ASSUME NEW t \in Threads, Check(t) PROVE ClockInv'
  <2>1. CASE CheckDue(t) /\ EndTest(t, "decide")
    BY <1>2, <2>1, DueAfterFirst, EndTestClock DEF Check, ClockInv
  <2>2. CASE Goto(t, "decide") /\ UNCHANGED measured
    BY <1>2, <2>2 DEF TypeOK, ClockInv, Check, Goto, measured
  <2> QED
    BY <1>2, <2>1, <2>2 DEF Check
<1>3. ASSUME NEW t \in Threads, Decide(t) PROVE ClockInv'
  <2>1. CASE LastFile(t) /\ EndTest(t, "done") /\ UNCHANGED filenum
    <3>1. filenum[t] >= 1
      BY <1>3, <2>1 DEF TypeOK, NoErrorYet, Running, LastFile, Decide
    <3> QED
      BY <1>3, <2>1, <3>1, EndTestClock DEF Decide, ClockInv
  <2>2. CASE UNCHANGED <<filenum, measured>> /\ Goto(t, "done")
    BY <1>3, <2>2 DEF TypeOK, ClockInv, Decide, Goto, measured
  <2>3. CASE /\ filenum' = [filenum EXCEPT ![t] = @ + 1]
             /\ Goto(t, "op")
             /\ UNCHANGED measured
    BY <1>3, <2>3 DEF TypeOK, ClockInv, Decide, Goto, measured
  <2> QED
    BY <1>3, <2>1, <2>2, <2>3 DEF Decide
<1>4. ASSUME NEW t \in Threads, Touch(t) PROVE ClockInv'
  BY <1>4 DEF TypeOK, ClockInv, Touch, Goto, measured
<1>5. ASSUME NEW t \in Threads, OpDone(t) PROVE ClockInv'
  BY <1>5, ClockAdvances DEF TypeOK, ClockInv, OpDone, Goto, measured
<1>6. ASSUME NEW t \in Threads, OpFails(t) \/ OpNoDir(t) PROVE ClockInv'
  BY <1>6 DEF TypeOK, ClockInv, OpFails, OpNoDir, Goto, measured
<1>7. ASSUME NEW t \in Threads, MakeDir(t) PROVE ClockInv'
  BY <1>7 DEF TypeOK, AtAFile, ClockInv, MakeDir, Goto, measured
<1>8. CASE UNCHANGED vars
  BY <1>8 DEF ClockInv, vars, measured
<1> QED
  BY <1>1, <1>2, <1>3, <1>4, <1>5, <1>6, <1>7, <1>8
  DEF Next, Step, Terminated

LEMMA ClockCorrect == ASSUME ClockAdvances PROVE Spec => []ClockInv
<1>1. Init => ClockInv
  <2> SUFFICES ASSUME Init, NEW t \in Threads
               PROVE  /\ end_time[t] = None /\ None # "start"
                      /\ pc[t] = "gate" /\ filenum[t] = 0
    BY DEF ClockInv
  <2>1. None # "start"
    BY StonewallAssumption
  <2> QED
    BY <2>1 DEF Init
<1>2. TypeInv /\ IInv /\ ClockInv /\ [Next]_vars => ClockInv'
  BY ClockNext DEF TypeInv, IInv
<1> QED
  BY TypeInvCorrect, IInvCorrect, <1>1, <1>2, PTL DEF Spec

\* The assertion in end_test never fails, given a clock that is fine enough.
THEOREM EndTestOnceProved == ASSUME ClockAdvances PROVE Spec => []EndTestOnce
<1>1. ClockInv => EndTestOnce
  BY DEF ClockInv, EndTestOnce
<1> QED
  BY ClockCorrect, <1>1, PTL

-----------------------------------------------------------------------------
(***************************************************************************)
(* Stonewall implements Race.  A step of Stonewall either leaves both the  *)
(* completed files and the results alone, or completes one file of one     *)
(* thread, or credits one thread.                                          *)
(***************************************************************************)

\* Without --finish a thread that is at a file has not been credited yet.
AtFileUncredited ==
  ~FinishAllRq => \A t \in Threads : pc[t] \in {"op", "mkdir"} => end_time[t] = None

LEMMA AtFileUncreditedNext ==
  TypeOK /\ ClockInv /\ AtFileUncredited /\ [Next]_vars => AtFileUncredited'
<1> SUFFICES ASSUME TypeOK, ClockInv, AtFileUncredited, [Next]_vars, ~FinishAllRq
             PROVE  \A t \in Threads : pc'[t] \in {"op", "mkdir"} => end_time'[t] = None
  BY DEF AtFileUncredited
<1>1. ASSUME NEW t \in Threads, Check(t) \/ Touch(t) \/ Start(t)
      PROVE  AtFileUncredited'
  BY <1>1 DEF TypeOK, AtFileUncredited, Check, Touch, Start, EndTest, Goto, measured
<1>2. ASSUME NEW t \in Threads, Decide(t) PROVE AtFileUncredited'
  <2>1. CASE StopEarly(t)
    BY <1>2, <2>1 DEF TypeOK, AtFileUncredited, Decide, Goto, measured
  <2>2. CASE ~StopEarly(t) /\ LastFile(t)
    BY <1>2, <2>2 DEF TypeOK, AtFileUncredited, Decide, EndTest, Goto, measured
  <2>3. CASE ~StopEarly(t) /\ ~LastFile(t)
    <3>1. end_time[t] = None
      BY <2>3 DEF StopEarly, TestEnded, TypeOK, ClockInv
    <3> QED
      BY <1>2, <2>3, <3>1 DEF TypeOK, AtFileUncredited, Decide, Goto, measured
  <2> QED
    BY <2>1, <2>2, <2>3
<1>3. ASSUME NEW t \in Threads,
             OpDone(t) \/ OpFails(t) \/ OpNoDir(t) \/ MakeDir(t)
      PROVE  AtFileUncredited'
  BY <1>3 DEF TypeOK, AtFileUncredited, OpDone, OpFails, OpNoDir, MakeDir, Goto,
              measured
<1>4. CASE UNCHANGED vars
  BY <1>4 DEF AtFileUncredited, vars, measured
<1> QED
  BY <1>1, <1>2, <1>3, <1>4 DEF Next, Step, Terminated, AtFileUncredited

\* What Race sees of the state, as one function of the threads.
Progress == [t \in Threads |-> Completed(t)]

LEMMA ProgressType ==
  ASSUME TypeInv, NEW t \in Threads
  PROVE  Completed(t) \in 0 .. Iterations
  BY StonewallAssumption DEF TypeInv, TypeOK, AtAFile, Completed

\* end_test credits its caller, or does nothing that Race can see.
LEMMA EndTestCredits ==
  ASSUME TypeInv, IInv, ClockInv, NEW t \in Threads,
         NEW where \in {"decide", "done"}, EndTest(t, where),
         stonewall_file \/ filenum[t] = Iterations,
         filenum' = filenum, pc[t] \in {"check", "decide"}
  PROVE  RaceOf!Credit(t) \/ (UNCHANGED filenum_final /\ Progress' = Progress)
<1>1. \A u \in Threads : (Completed(u))' = Completed(u)
  BY DEF TypeInv, TypeOK, EndTest, Goto, Completed
<1>2. Progress' = Progress
  BY <1>1 DEF Progress
<1>3. CASE UNCHANGED measured
  BY <1>2, <1>3 DEF measured
<1>4. CASE /\ end_time[t] = None
           /\ filenum_final' = [filenum_final EXCEPT ![t] = filenum[t]]
  <2>1. filenum_final[t] = None
    BY <1>4 DEF IInv, OneMeasurement
  <2>2. Progress[t] = filenum[t]
    BY DEF Progress, Completed
  <2>3. Progress[t] = Iterations \/ \E u \in Threads : filenum_final[u] = Iterations
    BY <2>2 DEF IInv, FlagJustified, SomebodyFinished
  <2> QED
    BY <1>2, <1>4, <2>1, <2>2, <2>3 DEF RaceOf!Credit, Progress
<1> QED
  BY <1>3, <1>4 DEF EndTest

LEMMA StepRefines ==
  ASSUME TypeInv, IInv, ClockInv, AtFileUncredited, [Next]_vars
  PROVE  [RaceOf!Next]_RaceOf!vars
<1> DEFINE Stutter == UNCHANGED filenum_final /\ Progress' = Progress
<1>0. Stutter => UNCHANGED RaceOf!vars
  BY DEF RaceOf!vars, Progress
<1>1. ASSUME NEW t \in Threads,
             Start(t) \/ Touch(t) \/ OpNoDir(t) \/ OpFails(t) \/ MakeDir(t)
      PROVE  Stutter
  <2>1. CASE Start(t) \/ Touch(t)
    <3>1. \A u \in Threads : (Completed(u))' = Completed(u)
      BY <2>1 DEF TypeInv, TypeOK, Completed, Start, Touch, Goto
    <3> QED
      BY <2>1, <3>1 DEF Progress, Start, Touch, measured
  <2>2. CASE OpNoDir(t) \/ OpFails(t)
    <3>1. \A u \in Threads : (Completed(u))' = Completed(u)
      BY <2>2 DEF TypeInv, TypeOK, Completed, OpNoDir, OpFails, Goto
    <3> QED
      BY <2>2, <3>1 DEF Progress, OpNoDir, OpFails, measured
  <2>3. CASE MakeDir(t)
    <3>1. \A u \in Threads : (Completed(u))' = Completed(u)
      BY <2>3 DEF TypeInv, TypeOK, Completed, MakeDir, Goto
    <3> QED
      BY <2>3, <3>1 DEF Progress, MakeDir, measured
  <2> QED
    BY <1>1, <2>1, <2>2, <2>3
<1>2. ASSUME NEW t \in Threads, Check(t) PROVE Stutter \/ RaceOf!Credit(t)
  <2>1. CASE stonewall_file /\ EndTest(t, "decide")
    BY <1>2, <2>1, EndTestCredits DEF Check
  <2>2. CASE Goto(t, "decide") /\ UNCHANGED measured
    <3>1. \A u \in Threads : (Completed(u))' = Completed(u)
      BY <1>2, <2>2 DEF TypeInv, TypeOK, Completed, Check, Goto
    <3> QED
      BY <2>2, <3>1 DEF Progress, measured
  <2> QED
    BY <1>2, <2>1, <2>2 DEF Check
<1>3. ASSUME NEW t \in Threads, Decide(t) PROVE Stutter \/ RaceOf!Credit(t)
  <2>1. CASE LastFile(t) /\ EndTest(t, "done") /\ UNCHANGED filenum
    <3>1. filenum[t] = Iterations
      BY <1>3, <2>1, StonewallAssumption
      DEF TypeInv, TypeOK, IInv, NoErrorYet, Running, LastFile, Decide
    <3> QED
      BY <1>3, <2>1, <3>1, EndTestCredits DEF Decide
  <2>2. CASE UNCHANGED <<filenum, measured>> /\ Goto(t, "done")
    <3>1. \A u \in Threads : (Completed(u))' = Completed(u)
      BY <1>3, <2>2 DEF TypeInv, TypeOK, Completed, Decide, Goto
    <3> QED
      BY <2>2, <3>1 DEF Progress, measured
  <2>3. CASE /\ filenum' = [filenum EXCEPT ![t] = @ + 1]
             /\ Goto(t, "op")
             /\ UNCHANGED measured
    <3>1. \A u \in Threads : (Completed(u))' = Completed(u)
      BY <1>3, <2>3 DEF TypeInv, TypeOK, Completed, Decide, Goto
    <3> QED
      BY <2>3, <3>1 DEF Progress, measured
  <2> QED
    BY <1>3, <2>1, <2>2, <2>3 DEF Decide
<1>4. ASSUME NEW t \in Threads, OpDone(t) PROVE RaceOf!Advance(t)
  <2>1. Completed(t) < Iterations /\ (Completed(t))' = Completed(t) + 1
    BY <1>4, StonewallAssumption
    DEF TypeInv, TypeOK, AtAFile, Completed, OpDone, Goto
  <2>2. \A u \in Threads \ {t} : (Completed(u))' = Completed(u)
    BY <1>4 DEF TypeInv, TypeOK, Completed, OpDone, Goto
  <2>3. Progress' = [Progress EXCEPT ![t] = @ + 1]
    BY <2>1, <2>2 DEF Progress
  <2>4. filenum_final[t] = None \/ FinishAllRq
    BY <1>4 DEF AtFileUncredited, OpDone, IInv, OneMeasurement
  <2> QED
    BY <1>4, <2>1, <2>3, <2>4 DEF RaceOf!Advance, Progress, OpDone, measured
<1>5. CASE UNCHANGED vars
  <2>1. \A u \in Threads : (Completed(u))' = Completed(u)
    BY <1>5 DEF Completed, vars
  <2> QED
    BY <1>0, <1>5, <2>1 DEF Progress, vars, measured
<1> QED
  BY <1>0, <1>1, <1>2, <1>3, <1>4, <1>5
  DEF Next, Step, Terminated, RaceOf!Next

\* The stonewall protocol implements the race: files are completed one at a
\* time, also across retries; a credited count is the number of files
\* completed at that moment, is justified, and never changes.
THEOREM RaceRefinement == ASSUME ClockAdvances PROVE Spec => RaceSpec
<1>1. Init => RaceOf!Init
  BY DEF Init, RaceOf!Init, Completed
<1>2. Init => AtFileUncredited
  BY StonewallAssumption DEF Init, AtFileUncredited
<1>3. TypeInv /\ ClockInv /\ AtFileUncredited /\ [Next]_vars => AtFileUncredited'
  BY AtFileUncreditedNext DEF TypeInv
<1>4. TypeInv /\ IInv /\ ClockInv /\ AtFileUncredited /\ [Next]_vars
        => [RaceOf!Next]_RaceOf!vars
  BY StepRefines
<1>5. Spec => []ClockInv
  BY ClockCorrect
<1>6. Spec => []AtFileUncredited
  BY TypeInvCorrect, <1>5, <1>2, <1>3, PTL DEF Spec
<1> QED
  BY TypeInvCorrect, IInvCorrect, <1>1, <1>4, <1>5, <1>6, PTL
  DEF Spec, RaceSpec, RaceOf!Spec
=============================================================================
