------------------------------ MODULE Timeouts -------------------------------
(***************************************************************************)
(* The time-outs of the start of a test on several hosts, and the race they*)
(* decide: the driver polls for the hosts' ready files and opens the       *)
(* starting gate when it has seen all; a host that is ready waits for the  *)
(* gate, and aborts the test if it does not come.                          *)
(*                                                                         *)
(* Times are in half seconds from the driver's first poll; polls take none.*)
(* What else may end the wait is in module TestDriver.                     *)
(***************************************************************************)
EXTENDS Integers, Sequences, FiniteSetsExt, Functions

CONSTANT min_directories_per_sec     \* 50 in the code

ASSUME TimeoutsAssumption == min_directories_per_sec \in Nat \ {0}

-----------------------------------------------------------------------------
\* recalculate_timeouts, in seconds; q is a record of iterations, thread_count,
\* hosts and files_per_dir.

StartupTimeout(q) ==
  LET total_files == q.iterations * q.thread_count * q.hosts
      dirs == total_files \div q.files_per_dir
      file_creation == q.files_per_dir \div 300000
  IN 2 + (IF file_creation > 1 THEN file_creation ELSE 1)
       + (q.thread_count \div 30) + ((dirs * 2) \div min_directories_per_sec)

HostStartupTimeout(q) == StartupTimeout(q) + 5 + (q.hosts \div 2)

-----------------------------------------------------------------------------
\* The driver. ready[i] is the time at which the i-th host of --host-set has its
\* ready file.

\* last_host_seen: hosts are looked for in order.
HostsSeen(ready, now) ==
  CHOOSE j \in 0 .. Len(ready) :
    /\ \A i \in 1 .. j : ready[i] <= now
    /\ j < Len(ready) => ready[j + 1] > now

Never == -1

\* Poll k is at time k * k, since the sleep between polls grows by a second
\* every time.
SeesAHost(ready, k) == HostsSeen(ready, k * k) > HostsSeen(ready, (k - 1) * (k - 1))

\* sec: the time at poll k since a host was last seen, or since the first poll.
SinceSeen(ready, k) ==
  k * k - Max({0} \cup {j * j : j \in {i \in 1 .. k - 1 : SeesAHost(ready, i)}})

\* The loop ends, without looking again, when sec is the time-out, or when it has
\* seen all hosts.
GateOpens(q, ready) ==
  LET timeout(k) == SinceSeen(ready, k) >= 2 * HostStartupTimeout(q)
      all(k) == HostsSeen(ready, k * k) = Len(ready)
      last == CHOOSE k \in 0 .. Max(Range(ready)) :
                /\ timeout(k) \/ all(k)
                /\ \A j \in 0 .. k - 1 : ~timeout(j) /\ ~all(j)
  IN IF timeout(last) THEN Never ELSE last * last

\* Mutant: the host waits for its time-out, and no longer.
MutGateWait(q) == HostStartupTimeout(q)

\* How long a host waits for the gate: some polls more than its time-out, but
\* twice a second.
GateWait(q) == HostStartupTimeout(q) + 10

HostSeesGate(q, ready, i) == GateOpens(q, ready) <= ready[i] + GateWait(q)
=============================================================================
