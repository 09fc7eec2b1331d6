----------------------------- MODULE AutoPause ------------------------------
(***************************************************************************)
(* --auto-pause: op_endtime gives the response time of every operation to  *)
(* adjust_pause_time, which keeps the last ones in a ring and now and then *)
(* calls calculate_pause_time.  Time is in ticks of the clock, so that an  *)
(* operation may take none.                                                *)
(*                                                                         *)
(* The pause that comes out is left out, but for the division it needs.    *)
(***************************************************************************)
EXTENDS Integers

CONSTANTS
  pause_rsptime_count,      \* 100 in the code
  pause_history_duration,   \* one second in the code, in ticks
  MaxTicks,                 \* bound: ticks an operation takes, or lies between two
  MaxTime                   \* bound: when the test is over

ASSUME AutoPauseAssumption ==
  /\ pause_rsptime_count \in Nat \ {0, 1}
  /\ {pause_history_duration, MaxTicks, MaxTime} \subseteq Nat

pause_rsptime_unmeasured == -11

Slots == 0 .. pause_rsptime_count - 1

VARIABLES
  pause_rsptime_index,
  pause_rsptime_history,
  pause_sample_count,
  pause_history_start_time,
  now,                      \* end time of the last operation
  divided_by_zero,          \* the exception that ends the thread
  same_tick                 \* history: operations that have ended at this tick

pausevars == <<pause_rsptime_index, pause_rsptime_history, pause_sample_count,
               pause_history_start_time, now, divided_by_zero, same_tick>>

PauseInit ==
  /\ pause_rsptime_index = pause_rsptime_unmeasured
  /\ pause_rsptime_history = [s \in Slots |-> 0]
  /\ pause_sample_count = 0
  /\ pause_history_start_time = 0
  /\ now = 0 /\ divided_by_zero = FALSE /\ same_tick = 0

\* An operation ends, some ticks after the one before.
Ends(waited, rsp_time) ==
  /\ ~divided_by_zero /\ now + waited + rsp_time <= MaxTime
  /\ now' = now + waited + rsp_time
  /\ same_tick' = IF waited + rsp_time = 0 THEN same_tick + 1 ELSE 1

\* The first response time fills the ring.
FirstSample(waited, rsp_time) ==
  /\ pause_rsptime_index = pause_rsptime_unmeasured
  /\ Ends(waited, rsp_time)
  /\ pause_history_start_time' = now + waited
  /\ pause_rsptime_history' = [s \in Slots |-> rsp_time]
  /\ pause_rsptime_index' = 1
  /\ pause_sample_count' = 1
  /\ UNCHANGED divided_by_zero

\* Mutant: the ring wraps one slot late.
MutNextSlot(s) == IF s + 1 > pause_rsptime_count THEN 0 ELSE s + 1

NextSlot(s) == IF s + 1 >= pause_rsptime_count THEN 0 ELSE s + 1

\* Mutant: at half of the ring, not above.
MutTimeToAdjust(end_time, samples) ==
  \/ pause_history_start_time + pause_history_duration < end_time
  \/ 2 * samples >= pause_rsptime_count

\* sample_count > count / 2, the division one of real numbers.
TimeToAdjust(end_time, samples) ==
  \/ pause_history_start_time + pause_history_duration < end_time
  \/ 2 * samples > pause_rsptime_count

NextSample(waited, rsp_time) ==
  LET end_time == now + waited + rsp_time
  IN /\ pause_rsptime_index # pause_rsptime_unmeasured
     /\ Ends(waited, rsp_time)
     /\ pause_rsptime_history' =
          [pause_rsptime_history EXCEPT ![pause_rsptime_index] = rsp_time]
     /\ pause_rsptime_index' = NextSlot(pause_rsptime_index)
     /\ IF TimeToAdjust(end_time, pause_sample_count + 1)
        THEN /\ divided_by_zero' = (end_time = pause_history_start_time)
             /\ pause_history_start_time' = end_time
             /\ pause_sample_count' = 0
        ELSE /\ pause_sample_count' = pause_sample_count + 1
             /\ UNCHANGED <<divided_by_zero, pause_history_start_time>>
=============================================================================
