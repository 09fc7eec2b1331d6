-------------------------------- MODULE Race --------------------------------
(***************************************************************************)
(* What the checkered flag of smallfile promises about the numbers that    *)
(* are reported.  README.md ("Synchronization") calls it "borrowing from   *)
(* car racing": every thread processes its files one after the other; the  *)
(* race is on until some thread has processed all of them; a thread that   *)
(* is flagged down early is credited with what it has completed so far,    *)
(* and a credited count never changes again.                               *)
(*                                                                         *)
(* Stonewall implements this with a file that threads look for every few   *)
(* files.  Nothing here knows of that file, of clocks or of directories.   *)
(***************************************************************************)
EXTENDS Naturals

CONSTANTS
  Threads,       \* the threads of the test, over all hosts
  Iterations,    \* files requested of each thread
  FinishAllRq,   \* a flagged thread goes on to process its other files
  None           \* no result yet

VARIABLES
  progress,      \* files each thread has completed
  result         \* the count each thread is credited with

vars == <<progress, result>>

Init == /\ progress = [t \in Threads |-> 0]
        /\ result = [t \in Threads |-> None]

\* A thread completes one more file.
Advance(t) ==
  /\ progress[t] < Iterations
  /\ result[t] = None \/ FinishAllRq
  /\ progress' = [progress EXCEPT ![t] = @ + 1]
  /\ UNCHANGED result

\* A thread is credited: with everything it was asked to do, or with less
\* once somebody has been credited with everything.
Credit(t) ==
  /\ result[t] = None
  /\ \/ progress[t] = Iterations
     \/ \E u \in Threads : result[u] = Iterations
  /\ result' = [result EXCEPT ![t] = progress[t]]
  /\ UNCHANGED progress

Next == \E t \in Threads : Advance(t) \/ Credit(t)

Spec == Init /\ [][Next]_vars
=============================================================================
