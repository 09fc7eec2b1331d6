------------------------ MODULE StonewallResults_proofs ------------------------
(***************************************************************************)
(* What a thread hands to output_results: that it is there, that its two   *)
(* counts belong together, that --finish leaves no file out, and how far   *)
(* behind the flag it may be.                                              *)
(***************************************************************************)
EXTENDS Stonewall_proofs, Integers

-----------------------------------------------------------------------------
\* A thread that goes to the touch, or returns, has a measurement; with
\* --finish it has been through all of its files.
Recorded ==
  \A t \in Threads :
     pc[t] \in {"touch", "done"} =>
        /\ end_time[t] # None
        /\ FinishAllRq => filenum[t] = Iterations

LEMMA EndTestRecords ==
  ASSUME TypeOK, Recorded, NEW t \in Threads, NEW where \in {"decide", "done"},
         EndTest(t, where), filenum' = filenum,
         where = "done" => filenum[t] = Iterations,
         pc[t] \in {"check", "decide"}
  PROVE  Recorded'
<1>1. \/ TestEnded(t) /\ pc' = [pc EXCEPT ![t] = where] /\ UNCHANGED measured
      \/ /\ end_time' = [end_time EXCEPT ![t] = clock[t]]
         /\ \/ pc' = [pc EXCEPT ![t] = where]
            \/ filenum[t] >= Iterations /\ pc' = [pc EXCEPT ![t] = "touch"]
      \/ pc' = [pc EXCEPT ![t] = "asserted"] /\ UNCHANGED measured
  BY DEF EndTest, Goto
<1>2. /\ clock[t] # None /\ filenum[t] <= Iterations
      /\ filenum[t] \in Nat /\ Iterations \in Nat
  BY StonewallAssumption DEF TypeOK
<1>3. None # "later"
  BY StonewallAssumption
<1> QED
  BY <1>1, <1>2, <1>3 DEF TypeOK, Recorded, TestEnded, measured

LEMMA RecordedNext ==
  TypeOK /\ NoErrorYet /\ Recorded /\ [Next]_vars => Recorded'
<1> SUFFICES ASSUME TypeOK, NoErrorYet, Recorded, [Next]_vars PROVE Recorded'
  OBVIOUS
<1>1. ASSUME NEW t \in Threads, Check(t) PROVE Recorded'
  <2>1. CASE EndTest(t, "decide")
    BY <1>1, <2>1, EndTestRecords DEF Check
  <2>2. CASE Goto(t, "decide") /\ UNCHANGED measured
    BY <1>1, <2>2 DEF TypeOK, Recorded, Check, Goto, measured
  <2> QED
    BY <1>1, <2>1, <2>2 DEF Check
<1>2. ASSUME NEW t \in Threads, Decide(t) PROVE Recorded'
  <2>1. CASE LastFile(t) /\ EndTest(t, "done") /\ UNCHANGED filenum
    <3>1. filenum[t] = Iterations
      BY <1>2, <2>1, StonewallAssumption
      DEF TypeOK, NoErrorYet, Running, LastFile, Decide
    <3> QED
      BY <1>2, <2>1, <3>1, EndTestRecords DEF Decide
  <2>2. CASE StopEarly(t) /\ Goto(t, "done") /\ UNCHANGED <<filenum, measured>>
    <3>1. end_time[t] # None /\ ~FinishAllRq
      BY <2>2, StonewallAssumption DEF StopEarly, TestEnded
    <3> QED
      BY <2>2, <3>1 DEF TypeOK, Recorded, Goto, measured
  <2>3. CASE /\ filenum' = [filenum EXCEPT ![t] = @ + 1]
             /\ Goto(t, "op")
             /\ UNCHANGED measured
    BY <1>2, <2>3 DEF TypeOK, Recorded, Decide, Goto, measured
  <2> QED
    BY <1>2, <2>1, <2>2, <2>3 DEF Decide
<1>3. ASSUME NEW t \in Threads, Touch(t) \/ Start(t) PROVE Recorded'
  BY <1>3 DEF TypeOK, Recorded, Touch, Start, Goto, measured
<1>4. ASSUME NEW t \in Threads,
             OpDone(t) \/ OpFails(t) \/ OpNoDir(t) \/ MakeDir(t)
      PROVE  Recorded'
  BY <1>4 DEF TypeOK, Recorded, OpDone, OpFails, OpNoDir, MakeDir, Goto, measured
<1>5. CASE UNCHANGED vars
  BY <1>5 DEF Recorded, vars, measured
<1> QED
  BY <1>1, <1>2, <1>3, <1>4, <1>5 DEF Next, Step, Terminated

LEMMA RecordedCorrect == Spec => []Recorded
<1>1. Init => Recorded
  BY DEF Init, Recorded
<1>2. IInv => NoErrorYet
  BY DEF IInv
<1> QED
  BY TypeCorrect, IInvCorrect, RecordedNext, <1>1, <1>2, PTL DEF Spec

\* A workload method that returns, however early, leaves a measurement.
THEOREM ResultsRecordedProved == Spec => []ResultsRecorded
<1>1. Recorded => ResultsRecorded
  BY DEF Recorded, ResultsRecorded
<1> QED
  BY RecordedCorrect, <1>1, PTL

\* With --finish a thread that returns has processed all of its files.
THEOREM FinishCompletesProved == Spec => []FinishCompletes
<1>1. Recorded => FinishCompletes
  BY DEF Recorded, FinishCompletes
<1> QED
  BY RecordedCorrect, <1>1, PTL

-----------------------------------------------------------------------------
(***************************************************************************)
(* The two counts.  Between files a thread has made RqPerFile requests for *)
(* each file behind it; at a file it has not counted those of that file.   *)
(***************************************************************************)

Counting ==
  \A t \in Threads :
     /\ pc[t] \in {"gate", "check", "decide"} => rq[t] = RqPerFile * filenum[t]
     /\ pc[t] \in {"op", "mkdir"} => rq[t] = RqPerFile * (filenum[t] - 1)
     /\ filenum_final[t] # None => rq_final[t] = RqPerFile * filenum_final[t]

LEMMA OneMoreFile ==
  ASSUME NEW n \in Nat
  PROVE  /\ RqPerFile * ((n + 1) - 1) = RqPerFile * n
         /\ RqPerFile * (n + 1) = RqPerFile * n + RqPerFile
  BY StonewallAssumption

LEMMA EndTestCounts ==
  ASSUME TypeOK, Counting, NEW t \in Threads, NEW where \in {"decide", "done"},
         EndTest(t, where), filenum' = filenum, rq' = rq,
         pc[t] \in {"check", "decide"}
  PROVE  Counting'
<1>1. \/ pc' = [pc EXCEPT ![t] = where]
      \/ pc' = [pc EXCEPT ![t] = "touch"]
      \/ pc' = [pc EXCEPT ![t] = "asserted"]
  BY DEF EndTest, Goto
<1>2. \/ filenum_final' = filenum_final /\ rq_final' = rq_final
      \/ /\ filenum_final' = [filenum_final EXCEPT ![t] = filenum[t]]
         /\ rq_final' = [rq_final EXCEPT ![t] = rq[t]]
  BY DEF EndTest, measured
<1>3. rq[t] = RqPerFile * filenum[t]
  BY DEF Counting
<1> QED
  BY <1>1, <1>2, <1>3 DEF TypeOK, Counting

LEMMA CountingNext ==
  TypeOK /\ AtAFile /\ Counting /\ [Next]_vars => Counting'
<1> SUFFICES ASSUME TypeOK, AtAFile, Counting, [Next]_vars PROVE Counting'
  OBVIOUS
<1>0. \A t \in Threads : filenum[t] \in Nat
  BY StonewallAssumption DEF TypeOK
<1>1. ASSUME NEW t \in Threads, Check(t) PROVE Counting'
  <2>1. CASE EndTest(t, "decide")
    BY <1>1, <2>1, EndTestCounts DEF Check
  <2>2. CASE Goto(t, "decide") /\ UNCHANGED measured
    BY <1>1, <2>2 DEF TypeOK, Counting, Check, Goto, measured
  <2> QED
    BY <1>1, <2>1, <2>2 DEF Check
<1>2. ASSUME NEW t \in Threads, Decide(t) PROVE Counting'
  <2>1. CASE EndTest(t, "done") /\ UNCHANGED filenum
    BY <1>2, <2>1, EndTestCounts DEF Decide
  <2>2. CASE Goto(t, "done") /\ UNCHANGED <<filenum, measured>>
    BY <1>2, <2>2 DEF TypeOK, Counting, Decide, Goto, measured
  <2>3. CASE /\ filenum' = [filenum EXCEPT ![t] = @ + 1]
             /\ Goto(t, "op")
             /\ UNCHANGED measured
    <3>1. RqPerFile * ((filenum[t] + 1) - 1) = RqPerFile * filenum[t]
      BY <1>0, OneMoreFile
    <3> QED
      BY <1>2, <2>3, <3>1 DEF TypeOK, Counting, Decide, Goto, measured
  <2> QED
    BY <1>2, <2>1, <2>2, <2>3 DEF Decide
<1>3. ASSUME NEW t \in Threads, OpDone(t) PROVE Counting'
  <2>1. filenum[t] - 1 \in Nat /\ (filenum[t] - 1) + 1 = filenum[t]
    BY <1>0, <1>3 DEF AtAFile, OpDone
  <2>2. RqPerFile * filenum[t] = RqPerFile * (filenum[t] - 1) + RqPerFile
    BY <2>1, OneMoreFile
  <2>3. rq'[t] = RqPerFile * filenum[t]
    BY <1>3, <2>2 DEF TypeOK, Counting, OpDone
  <2>4. \A u \in Threads : u # t => rq'[u] = rq[u] /\ pc'[u] = pc[u]
    BY <1>3 DEF TypeOK, OpDone, Goto
  <2>5. pc'[t] = "check"
    BY <1>3 DEF TypeOK, OpDone, Goto
  <2> QED
    BY <1>3, <2>3, <2>4, <2>5 DEF Counting, OpDone, measured
<1>4. ASSUME NEW t \in Threads, MakeDir(t) \/ OpNoDir(t) \/ Touch(t) \/ Start(t)
      PROVE  Counting'
  BY <1>4 DEF TypeOK, Counting, MakeDir, OpNoDir, Touch, Start, Goto, measured
<1>5. ASSUME NEW t \in Threads, OpFails(t) PROVE Counting'
  BY <1>5 DEF TypeOK, Counting, OpFails, Goto, measured
<1>6. CASE UNCHANGED vars
  BY <1>6 DEF Counting, vars, measured
<1> QED
  BY <1>1, <1>2, <1>3, <1>4, <1>5, <1>6 DEF Next, Step, Terminated

\* Files and requests of a measurement belong to the same moment, after any
\* number of retries and failures, for any number of requests per file.
THEOREM CountsConsistentProved == Spec => []CountsConsistent
<1>1. Init => Counting
  <2>1. RqPerFile * 0 = 0
    BY StonewallAssumption
  <2> QED
    BY <2>1 DEF Init, Counting
<1>2. IInv /\ Counting => CountsConsistent
  BY DEF IInv, OneMeasurement, Counting, CountsConsistent
<1>3. TypeInv /\ Counting /\ [Next]_vars => Counting'
  BY CountingNext DEF TypeInv
<1> QED
  BY TypeInvCorrect, IInvCorrect, <1>1, <1>2, <1>3, PTL DEF Spec

-----------------------------------------------------------------------------
(***************************************************************************)
(* The overrun.  Once the flag is up, a thread that is not measured yet    *)
(* has not passed its next look at the stonewall file, and every           *)
(* FilesBetweenChecks files there is one.                                  *)
(***************************************************************************)

LEMMA MultipleModulo ==
  ASSUME NEW m \in Nat, NEW d \in Nat, d > 0
  PROVE  (d * m) % d = 0
<1> DEFINE n == d * m
<1>1. n \in Nat
  OBVIOUS
<1>2. /\ n \div d \in Int /\ n % d \in Int
      /\ n = d * (n \div d) + (n % d)
      /\ 0 <= n % d /\ n % d < d
  BY <1>1
<1> DEFINE e == m - (n \div d)
<1> HIDE DEF n
<1>3. d * e = n % d
  <2>1. d * e = d * m - d * (n \div d)
    BY <1>2
  <2> QED
    BY <1>2, <2>1 DEF n
<1>4. e \in Int
  BY <1>2
<1> HIDE DEF e
<1>5. ~(e >= 1)
  <2>1. e >= 1 => d * e >= d
    BY <1>4
  <2> QED
    BY <1>2, <1>3, <2>1
<1>6. ~(e <= -1)
  <2>1. e <= -1 => d * e <= -d
    BY <1>4
  <2> QED
    BY <1>2, <1>3, <1>4, <2>1
<1>7. e = 0
  BY <1>4, <1>5, <1>6
<1>8. n % d = 0
  BY <1>3, <1>7
<1> QED
  BY <1>8 DEF n

\* Of any FilesBetweenChecks numbers in a row, one is a file to look at.
LEMMA LookWithin ==
  ASSUME NEW f \in Nat
  PROVE  \E c \in Nat : /\ c > f /\ c <= f + FilesBetweenChecks
                        /\ (c + 1) % FilesBetweenChecks = 0
<1> DEFINE d == FilesBetweenChecks
           q == (f + 1) \div d
           r == (f + 1) % d
<1>1. d \in Nat /\ d > 0
  BY StonewallAssumption
<1> HIDE DEF d
<1>2. /\ q \in Nat /\ r \in Nat
      /\ f + 1 = d * q + r /\ r < d
  BY <1>1
<1> HIDE DEF q, r
<1> DEFINE c == f + d - r
<1>3. c \in Nat /\ c > f /\ c <= f + d
  BY <1>1, <1>2
<1>4. c + 1 = d * (q + 1)
  <2>1. d * (q + 1) = d * q + d
    BY <1>1, <1>2
  <2> QED
    BY <1>1, <1>2, <2>1
<1>5. (c + 1) % d = 0
  <2>1. q + 1 \in Nat
    BY <1>2
  <2>2. (d * (q + 1)) % d = 0
    BY <1>1, <2>1, MultipleModulo
  <2> QED
    BY <1>4, <2>2
<1> QED
  BY <1>3, <1>5 DEF d

\* What has been counted is behind the thread.
FinalBehind ==
  \A t \in Threads :
     filenum_final[t] # None =>
        /\ filenum_final[t] <= filenum[t]
        /\ pc[t] \in {"op", "mkdir"} => filenum_final[t] <= filenum[t] - 1

LookAhead ==
  StonewallOn /\ stonewall_file =>
     /\ flag_filenum \in [Threads -> 0 .. Iterations]
     /\ \A t \in Threads, c \in Nat :
          c > flag_filenum[t] /\ (c + 1) % FilesBetweenChecks = 0 =>
             /\ end_time[t] = None => filenum[t] <= c
             /\ end_time[t] = None /\ pc[t] = "decide" => filenum[t] < c
             /\ filenum_final[t] # None => filenum_final[t] <= c

LEMMA FinalBehindNext ==
  TypeOK /\ FinalBehind /\ [Next]_vars => FinalBehind'
<1> SUFFICES ASSUME TypeOK, FinalBehind, [Next]_vars PROVE FinalBehind'
  OBVIOUS
<1> USE StonewallAssumption
<1>1. ASSUME NEW t \in Threads, NEW where \in {"decide", "done"},
             EndTest(t, where), filenum' = filenum
      PROVE  FinalBehind'
  <2>1. \/ pc' = [pc EXCEPT ![t] = where]
        \/ pc' = [pc EXCEPT ![t] = "touch"]
        \/ pc' = [pc EXCEPT ![t] = "asserted"]
    BY <1>1 DEF EndTest, Goto
  <2>2. \/ filenum_final' = filenum_final
        \/ filenum_final' = [filenum_final EXCEPT ![t] = filenum[t]]
    BY <1>1 DEF EndTest, measured
  <2> QED
    BY <1>1, <2>1, <2>2 DEF TypeOK, FinalBehind
<1>2. ASSUME NEW t \in Threads, Check(t) PROVE FinalBehind'
  <2>1. CASE EndTest(t, "decide")
    BY <1>1, <1>2, <2>1 DEF Check
  <2>2. CASE Goto(t, "decide") /\ UNCHANGED measured
    BY <1>2, <2>2 DEF TypeOK, FinalBehind, Check, Goto, measured
  <2> QED
    BY <1>2, <2>1, <2>2 DEF Check
<1>3. ASSUME NEW t \in Threads, Decide(t) PROVE FinalBehind'
  <2>1. CASE EndTest(t, "done") /\ UNCHANGED filenum
    BY <1>1, <2>1
  <2>2. CASE Goto(t, "done") /\ UNCHANGED <<filenum, measured>>
    BY <2>2 DEF TypeOK, FinalBehind, Goto, measured
  <2>3. CASE /\ filenum' = [filenum EXCEPT ![t] = @ + 1]
             /\ Goto(t, "op")
             /\ UNCHANGED measured
    BY <2>3 DEF TypeOK, FinalBehind, Goto, measured
  <2> QED
    BY <1>3, <2>1, <2>2, <2>3 DEF Decide
<1>4. ASSUME NEW t \in Threads,
             \/ Start(t) \/ Touch(t) \/ OpDone(t) \/ OpFails(t) \/ OpNoDir(t)
             \/ MakeDir(t)
      PROVE  FinalBehind'
  BY <1>4 DEF TypeOK, FinalBehind, Start, Touch, OpDone, OpFails, OpNoDir,
              MakeDir, Goto, measured
<1>5. CASE UNCHANGED vars
  BY <1>5 DEF FinalBehind, vars, measured
<1> QED
  BY <1>2, <1>3, <1>4, <1>5 DEF Next, Step, Terminated

LEMMA LookAheadNext ==
  TypeOK /\ OneMeasurement /\ FinalBehind /\ LookAhead /\ [Next]_vars
     => LookAhead'
<1> SUFFICES ASSUME TypeOK, OneMeasurement, FinalBehind, LookAhead, [Next]_vars,
                    StonewallOn, stonewall_file'
             PROVE  LookAhead'
  BY DEF LookAhead
<1> USE StonewallAssumption
<1>0. /\ \A t \in Threads : filenum[t] \in Nat
      /\ \A t \in Threads : filenum_final[t] # None => filenum_final[t] \in Nat
  BY DEF TypeOK
<1>1. ASSUME NEW t \in Threads, Touch(t) PROVE LookAhead'
  <2>1. pc' = [pc EXCEPT ![t] = "done"] /\ UNCHANGED <<filenum, measured>>
    BY <1>1 DEF Touch, Goto
  <2>2. CASE stonewall_file
    <3>1. flag_filenum' = flag_filenum
      BY <1>1, <2>2 DEF Touch
    <3> QED
      BY <2>1, <2>2, <3>1 DEF TypeOK, LookAhead, measured
  <2>3. CASE ~stonewall_file
    <3>1. flag_filenum' = filenum
      BY <1>1, <2>3 DEF Touch
    <3> QED
      BY <1>0, <2>1, <3>1 DEF TypeOK, LookAhead, FinalBehind, measured
  <2> QED
    BY <2>2, <2>3
<1>2. ASSUME ~(\E t \in Threads : Touch(t)) PROVE LookAhead'
  <2>0. UNCHANGED flag /\ stonewall_file
    BY <1>2 DEF Next, Step, Terminated, vars, flag, Start, Check, Decide,
                OpDone, OpFails, OpNoDir, MakeDir
  <2>1. ASSUME NEW t \in Threads, NEW where \in {"decide", "done"},
               EndTest(t, where), filenum' = filenum,
               where = "decide" \/ pc[t] = "decide"
        PROVE  LookAhead'
    <3>1. \/ pc' = [pc EXCEPT ![t] = where]
          \/ pc' = [pc EXCEPT ![t] = "touch"]
          \/ pc' = [pc EXCEPT ![t] = "asserted"]
      BY <2>1 DEF EndTest, Goto
    <3>2. \/ end_time' = end_time /\ filenum_final' = filenum_final /\ end_time[t] # None
          \/ /\ end_time[t] = None
             /\ end_time' = [end_time EXCEPT ![t] = clock[t]]
             /\ filenum_final' = [filenum_final EXCEPT ![t] = filenum[t]]
      BY <2>1 DEF EndTest, measured, TestEnded
    <3>3. clock[t] # None
      BY DEF TypeOK
    <3> QED
      BY <2>0, <2>1, <3>1, <3>2, <3>3 DEF TypeOK, LookAhead, flag
  <2>2. ASSUME NEW t \in Threads, Check(t) PROVE LookAhead'
    <3>1. CASE EndTest(t, "decide")
      BY <2>1, <2>2, <3>1 DEF Check
    <3>2. CASE ~CheckDue(t) /\ Goto(t, "decide") /\ UNCHANGED measured
      <4>1. (filenum[t] + 1) % FilesBetweenChecks # 0
        BY <3>2 DEF CheckDue
      <4>2. UNCHANGED filenum
        BY <2>2 DEF Check
      <4>3. \A c \in Nat : filenum[t] <= c /\ (c + 1) % FilesBetweenChecks = 0
                             => filenum[t] < c
        BY <1>0, <4>1
      <4> QED
        BY <2>0, <3>2, <4>2, <4>3 DEF TypeOK, LookAhead, Goto, measured, flag
    <3> QED
      BY <2>0, <2>2, <3>1, <3>2 DEF Check
  <2>3. ASSUME NEW t \in Threads, Decide(t) PROVE LookAhead'
    <3>1. CASE EndTest(t, "done") /\ UNCHANGED filenum
      BY <2>1, <2>3, <3>1 DEF Decide
    <3>2. CASE Goto(t, "done") /\ UNCHANGED <<filenum, measured>>
      BY <2>0, <3>2 DEF TypeOK, LookAhead, Goto, measured, flag
    <3>3. CASE /\ filenum' = [filenum EXCEPT ![t] = @ + 1]
               /\ Goto(t, "op")
               /\ UNCHANGED measured
      <4>1. \A c \in Nat : filenum[t] < c => filenum[t] + 1 <= c
        BY <1>0
      <4>2. pc[t] = "decide" /\ filenum'[t] = filenum[t] + 1
        BY <2>3, <3>3 DEF TypeOK, Decide
      <4>3. \A u \in Threads : u # t => filenum'[u] = filenum[u] /\ pc'[u] = pc[u]
        BY <3>3 DEF TypeOK, Goto
      <4>4. pc'[t] = "op"
        BY <3>3 DEF TypeOK, Goto
      <4> QED
        BY <2>0, <3>3, <4>1, <4>2, <4>3, <4>4 DEF LookAhead, measured, flag
    <3> QED
      BY <2>3, <3>1, <3>2, <3>3 DEF Decide
  <2>4. ASSUME NEW t \in Threads, MakeDir(t) PROVE LookAhead'
    <3>1. /\ pc' = [pc EXCEPT ![t] = "check"] \/ pc' = [pc EXCEPT ![t] = "failed"]
          /\ UNCHANGED measured
          /\ \A u \in Threads : filenum'[u] = filenum[u] \/ filenum'[u] = filenum[u] - 1
      BY <2>4 DEF TypeOK, MakeDir, Goto
    <3>2. \A u \in Threads, c \in Nat : filenum[u] <= c => filenum'[u] <= c
      BY <1>0, <3>1
    <3>3. \A u \in Threads : pc'[u] = "decide" => u # t /\ pc[u] = "decide"
      BY <3>1 DEF TypeOK
    <3>4. \A u \in Threads : u # t => filenum'[u] = filenum[u]
      BY <2>4 DEF TypeOK, MakeDir
    <3> QED
      BY <2>0, <3>1, <3>2, <3>3, <3>4 DEF LookAhead, measured, flag
  <2>5. ASSUME NEW t \in Threads, Start(t) \/ OpDone(t) \/ OpFails(t) \/ OpNoDir(t)
        PROVE  LookAhead'
    BY <2>0, <2>5
    DEF TypeOK, LookAhead, Start, OpDone, OpFails, OpNoDir, Goto, measured, flag
  <2>6. CASE UNCHANGED vars
    BY <2>0, <2>6 DEF LookAhead, vars, measured, flag
  <2> QED
    BY <1>2, <2>2, <2>3, <2>4, <2>5, <2>6 DEF Next, Step, Terminated
<1> QED
  BY <1>1, <1>2

\* Once the stonewall file is there, a thread counts at most
\* FilesBetweenChecks files beyond the one it was at.
THEOREM BoundedOverrunProved == Spec => []BoundedOverrun
<1>1. Init => FinalBehind /\ LookAhead
  BY DEF Init, FinalBehind, LookAhead
<1>2. TypeOK /\ LookAhead => BoundedOverrun
  <2> SUFFICES ASSUME TypeOK, LookAhead, StonewallOn, stonewall_file,
                      NEW t \in Threads, filenum_final[t] # None
               PROVE  filenum_final[t] <= flag_filenum[t] + FilesBetweenChecks
    BY DEF BoundedOverrun
  <2>1. flag_filenum[t] \in Nat /\ filenum_final[t] \in Nat
    BY StonewallAssumption DEF TypeOK, LookAhead
  <2>2. PICK c \in Nat : /\ c > flag_filenum[t]
                         /\ c <= flag_filenum[t] + FilesBetweenChecks
                         /\ (c + 1) % FilesBetweenChecks = 0
    BY <2>1, LookWithin
  <2>3. filenum_final[t] <= c
    BY <2>2 DEF LookAhead
  <2> QED
    BY <2>1, <2>2, <2>3, StonewallAssumption
<1>3. TypeOK /\ IInv /\ FinalBehind /\ LookAhead /\ [Next]_vars
        => FinalBehind' /\ LookAhead'
  BY FinalBehindNext, LookAheadNext DEF IInv
<1> QED
  BY TypeCorrect, IInvCorrect, <1>1, <1>2, <1>3, PTL DEF Spec
=============================================================================
