# Verification of smallfile

smallfile is a distributed benchmark for small-file workloads: a driver starts
a launcher on every host, each launcher starts worker processes, all workers
start their measured loop together, and the first one to finish waves the
others down so that the rates are taken while everybody is busy. The parts
coordinate only through files in a shared *network directory*, pipes and exit
statuses. This directory holds TLA+ models of that coordination, TLC
configurations that check them on small instances, and TLAPS proofs.

`src/` below is the repository; `smf.py` abbreviates `src/smallfile.py`,
`mtw.py` `src/multi_thread_workload.py`, `cli.py` `src/smallfile_cli.py`.

## 1. Inventory

| component | state | operations | how it interacts | what is hard | what must hold |
|---|---|---|---|---|---|
| measured loop and stonewall (`SmallfileWorkload`, smf.py:502-535, 830-898, 1233-1856) | `filenum`, `rq`, `status`, `end_time`, `filenum_final`, `rq_final` per thread; the stonewall file | `do_another_file`, `end_test`, `test_ended`, the `do_<operation>` loops, retry after `makedirs` | the stonewall file, for all threads of all hosts; under `--same-dir` one directory tree | several threads finish at once; the flag is looked for only every few files; `end_test` is reached from two places; the clock may not move; the touch may fail | a short measurement is justified by a full one; counts belong to one moment; measured once; nobody counts long after the flag; everybody ends |
| launcher and workers of a host (mtw.py, `invoke_process.py`, smf.py:170-174, 553-566, 798-818, 1109-1157) | thread-ready, host-ready, gate, abort and result files; one pipe and one process per worker | delete stale files, start workers, poll for ready files, open or await the gate, receive, join, report, abort | files in the machine's temporary directory and in the network directory; pipes; `terminate()` | stale files of a killed run; time-outs racing late arrivals; gate racing abort; killed workers; an exception in a worker | no false start; the directories are there; a failure is reported; the launcher ends |
| test driver, ssh threads, launch daemons (cli.py:49-260, `ssh_thread.py`, `launcher_thread.py`, `launch_smf_host.py`, `smallfile_remote.py`) | poll position, a thread per host, launch files, pickles of results | launch slaves, poll for abort file, hosts and dead threads, open the gate, join, collect, report | network directory, ssh exit statuses | hosts lost at any time; daemons that come up late; permuted host names; abort seen in one round and not in another | only fresh results are added up; the driver ends |
| directory and file naming (smf.py:905-981, 1109-1227) | none (pure functions of the file number) | `mk_seq_dir_name`, `mk_hashed_dir_name`, `mk_file_nm`, `make_all_subdirs`, `clean_all_subdirs` | every operation and the cleanup | boundaries of the options; several top directories; an rmdir that fails | terminates; every file's directory is made and no name is beyond the list; no directory gets more than it should; a cleanup leaves a directory only for a reason |
| file operations and cleanup (smf.py:1233-1807) | the file tree | create, append, read, rename, symlink, mkdir, ... and cleanup in sequence | the tree left by the operation before | order of operations; shared trees; partial runs | a test that finds what it needs fails only by a fault; a put is atomic; cleanup leaves no file, and no directory but where an rmdir was refused |
| records, buffers, file sizes (smf.py:778-792, 986-1103) | random-number state, the big buffer | `get_next_file_size`, `create_biggest_buf`, `prepare_buf`, `get_record_size_to_use` | writer and reader must agree | offsets at the end of the buffer; zero sizes | records add up to the file and fit the buffer; a reader finds what was written |
| auto-pause (smf.py:637-701) | ring of response times, pause | `calculate_pause_time`, `adjust_pause_time` | called at the end of every operation | a clock that does not move; start of the ring | the ring stays in its bounds; no division by zero while the clock goes |
| results (`output_results.py`) | none | `result_stats`, `output_results` | reads all invokes | missing hosts, failed threads | totals add up over hosts; without a warning nothing is missing |
| response time statistics (`smallfile_rsptimes_stats.py`) | none | intervals, percentiles | reads per-thread files | samples on a boundary | no sample in two intervals, none within one lost |
| parameters and time-outs (`parse.py`, `yaml_parser.py`, `parser_data_types.py`, `smf_test_params.py`) | parameter record | command-line and YAML parsing, `recalculate_timeouts` | everything | two parsers for one language; time-outs of driver and slave | the checks hold against both parsers; hosts that come in time start together |
| system-call wrappers, profiling (`fallocate.py`, `drop_buffer_cache.py`, `profile_workload.py`) | none | one call each | - | - | not modelled |
| packaging, shell tests, examples | none | - | - | - | not modelled |

The hazards, line by line, with the properties that cover them, are in
`PROJECT.json`.

## 2. Modules

### Race (abstract)

What the stonewall is for, without files, flags or clocks: every thread makes
`progress` file by file and at some moment is credited, once and for good, with
a `result`; a result short of the requested number is only given when some
thread has been credited with all of them (`Credit`). A thread may advance after
it has been credited (`--finish`).

### Stonewall (core)

A worker's loop from the starting gate on, for all threads of all hosts at
once. One step lies between two accesses to something shared.

| in the module | in the code |
|---|---|
| `Check` | first half of `do_another_file`: every `files_between_checks` files look for the stonewall file, on sight `end_test` (smf.py:868-881) |
| `Decide` | second half: stop early, stop at the end with `end_test`, or take the next file (883-898) |
| `EndTest` | `end_test` up to its own look for the file; three disjuncts: already ended, first call, and the call that fails the assertion (830-845) |
| `Touch` | the touch and its error handling (845-860) |
| `OpDone`, `OpFails` | body of a `do_<operation>` loop, and its exceptions as `do_workload` sees them |
| `OpNoDir`, `MakeDir` | `do_create` with `dirs_on_demand`: ENOENT, `makedirs`, `filenum -= 1`, `continue` (1260-1264) |
| `clock`, `end_time` | `time.time()` matters only against `start_time`, in `test_ended`: a reading is "start" (not later) or "later" |

Abstractions. The number of read or write calls per file is a constant
(`RqPerFile`), as it is with a fixed file and record size. `FilesBetweenChecks`
is at least 2: the code uses 20 or at least 10. Pauses, response times and file
contents do not matter to the control and are left out, as is `self.abort`, which no
code sets. `flag_filenum` is a history variable.

### HostRun

The launcher of a host (`lpc`, loop variable `k`) and its workers (`wpc`)
around the loop of Stonewall, which is one step (`RunWorkload`) here. The launcher
actions follow mtw.py from top to bottom: `TopDirs`, `ClearReady` (the deletions
of `create_worker_list` and of `run_multi_thread_workload`, in order),
`StartWorker`, `ScanReady` / `ScanAgain` / `ScanGiveUp`, `AbortTest` and
`Terminate`, `OpenGate` (single host; what a slave does there is in TestDriver),
`Receive` and `JoinWorker`, `Report`, `ExitRaised`. The worker actions are
`Prepare` (`make_all_subdirs`), `Announce`, `LookForGate` and
`LookForAbort` (`wait_for_gate`), `RunWorkload` and `SendInvoke`
(`invoke_process.subprocess.run`).

The files are the sets `thread_ready` (per machine and thread: the name has no
host in it), `host_ready`, `result`, and the flags `gate`, `abort`. `Init` lets
any of them be left over from an earlier run. `Faults` chooses what may go
wrong: "timeout" (a poll loop runs out, at any moment), "io" (a worker's call
fails or its workload raises), "sync_io" (the launcher or driver cannot write
one of the files), "kill" (a worker is killed), "crash" (a host is lost).

Abstractions. Making the directories is one step. How many polls there are is
left open. A write or a deletion is seen at once by every host (the sleeps of
the code are there to make that so on NFS). The pipe of a worker takes its
invoke without blocking. KeyboardInterrupt is left out. A touch that fails may
have made the file all the same (`Announce`, like `Touch` in Stonewall).

### TestDriver

EXTENDS HostRun for the slaves of a multi-host test. It adds what a slave does
in place of `OpenGate` (`HostReady`, `GateWait`), the driver
(`dpc`, loop variable `j`), its thread per host (`tpc`: `Ssh`, or
`WriteLaunchFile` and `AwaitPickle`), the daemons (`DaemonStarts`, `DaemonTakes`,
`DaemonDone`) and `HostCrashes`. `AsHost` is the identity the slave on a host is
given by `--permute-host-dirs`; the state of HostRun is indexed by that identity.
The driver's poll round is three steps, as in cli.py:132-173: abort file
(`PollAbort`), ready files (`PollHost`), threads and time-out (`PollAgain`,
`PollGiveUp`). A launch file may fail to be written (`WriteLaunchFile`, "sync_io"),
which ends that thread of the driver. That the gate is opened later in a round than the abort file was
looked for is what one of the findings is about. Left out: the
pickle of the parameters, the daemon's shutdown file, KeyboardInterrupt.

### TestSequence (abstract) and FileOps

*TestSequence* is what a user may expect of tests run one after the other. Of
each thing (source files, renamed files, directories, symbolic links, temporary
files; source files with the contents, or the attributes, of the saved seed) it
knows whether it is there for none, some or all of the files, and a test is two
steps, `Begin` and `End`. `Needs` says what each operation must find, `Leaves`
what a complete one changes. An error outcome is allowed only for a fault or an
unmet need, and "stopped" only without `--finish`.

*FileOps* has the files. One step is one file of one thread; `StartTest` is
`do_workload` up to the gate (`make_all_subdirs`, `init_random_seed`: no file is
touched before all threads have passed the gate, see HostRun). Contents and attributes are the
seed they were made with, or 0 when broken. The user runs any operation of a
`campaign` at any time; any call may fail before or half-way through its
operation, and any thread may be killed (`MaxFaults`). So may fail the handler of a
failed put, which then leaves its temporary file (`torn_puts` remembers this, and kills at that
moment), and any rmdir of a cleanup.

| in the module | in the code |
|---|---|
| `Takes`, `StopsEarly`, `LoopEnds` | `do_another_file`, as in Stonewall but in one step |
| `File` | the frame of a `do_` loop: done, an error that changes nothing, or a fault |
| `Create`, `Write`, `Read`, `SwiftGet`, `Lookup` (stat, chmod), `ListLong`, `Readdir`, `SetXattr`, `GetXattr`, `Symlink`, `Mkdir`, `Rmdir`, `Rename`, `Delete`, `DeleteRenamed` | the `do_` method of that name |
| `PutTemp`, `PutRename` | `do_swift_put` up to its rename, and the rename; `PutFails` is its handler, with `DropTemp` or without |
| `Cleanup`, `CleanSubdirs` | `do_cleanup` for a file, then `clean_all_subdirs` for each of the two trees; `CleanTree` has its three ends (smf.py:1212-1224): all empty directories go; an rmdir is refused with EACCES or EBUSY, or fails otherwise under same-dir, and the cleanup goes on with status OK; an error is raised |
| `Killed` | a signal: no handler runs, so a temporary file stays |

Abstractions. The sizes, or the contents, of two seeds may differ or not, so a
reader with another seed may fail or not. What append adds lies behind what is
read. A name in a tree is thread and file number. The paths of the top directories have
one length: `clean_all_subdirs`, `do_readdir` and `do_ls_l` take that of the first for all
(section 3, "Observed"; CleanDirs has the cleanup with different ones). `setxattr` and `getxattr`
have an `--xattr-count` above 0; with the default of 0 they touch no file. Destination and source trees differ, as they do on the command line
(the suffix `.rnm` is for callers that make them the same); directories on
demand are in Stonewall; hashed names are in DirNames. `await-create` is left
out: it changes no file and waits for files another site replicates.

### CleanDirs

The walk of `clean_all_subdirs` (smf.py:1162-1227) through one tree, for which FileOps takes
one step, turn by turn of its loops: `NextDir` (the `for` over the set of named directories, in
any order), `Skips` (it does not exist), `Removes`, `NotEmpty`, `Refused` (an
empty directory that rmdir fails for, with the three things that may follow), and `GoesUp` and
`GoesUpAfterRmdir`, the two conditions under which the walk goes to the directory
above. `PathLength` is there for the second one, which compares with the path of the first top
directory. It is run from *Algorithms* on every tree of `CleanInputs`. Every path element has six
characters here (`d_000`, and so with up to 1000 directories per directory).

### DirNames, Buffers, AutoPause, Results, RspStats, Params, Timeouts; Algorithms

The calculations, one module each, as operators on a record of the fields they
read, so that every function in the code is an operator of the same or a similar
name (`Levels` and `SeqDir` for the two loops of `mk_seq_dir_name`, `RecordSize`
for `get_record_size_to_use`, `AddTo` for `add_to`, ...). A loop that counts is
given by the number of its rounds, one that adds up by a recursive function of
its index; *Powers* has the powers that several count with. *Algorithms* extends
them all; a behaviour makes one calculation, of
one of the inputs the instance gives. AutoPause and CleanDirs alone have state, a step per
operation and per turn.

- *DirNames*: a directory is top and path. A loop that does not end is a
  predicate (`NamingEnds`, `HashingEnds`), a name outside `file_dirs` is `NamesInRange`.
  The constant `some_prime` of the hashing is a constant here, any prime
  (`DirNamesAssumption`); the code's 900593 is one.
- *Buffers*: a byte is the position in the random bytes it was made from, so that
  equal bytes are equal only when they must be.
- *AutoPause*: time in ticks of the clock. The pause that results is left out; nothing
  else depends on it but the division that it needs, which may be by zero.
- *Results*: rates in units that make them whole numbers; wording and JSON left out.
- *RspStats*: which samples are in the statistics of which interval; not the percentiles.
  A sample is known by its thread and its place; its index in the sorted list, and what
  `bisect` returns, are counts of the samples before.
- *Params*: command line, then YAML, then checks, for the options that checks read or
  change. `thread_count` and `threads` are two fields because the code keeps two.
- *Timeouts*: the driver's polls are at 0, 1, 4, 9, ... half seconds, since each sleep is a
  second longer; a slave's wait is (T + 10) / 2 seconds. The polls of HostRun and
  TestDriver leave times open and allow every race; here the times decide it.

### MC modules

`MCStonewall`, `MCHostRun`, `MCTestDriver`, `MCFileOps`, `MCAlgorithms` hold TLC's values for the constants
and the symmetry set. Symmetry is used in the run `stop` alone, which checks
invariants only: threads are told apart by no action of Stonewall. In HostRun
they are (thread "00", loops in order), so no symmetry there.

## 3. Runs

| run | instance | shows |
|---|---|---|
| `stop` | 3 threads, 5 files, check every 2, 3 files per directory, shared tree, directories on demand, coarse clock, I/O faults | `TypeOK`, `ShortMeasureJustified`, `CountsConsistent`, `BoundedOverrun`, `ResultsRecorded` |
| `finish` | 2 threads, 4 files, `--finish`, a clock that advances, I/O faults, directories on demand | `EndTestOnce`, `FinishCompletes`, implements Race (`RaceSpec`), every thread ends (`AllMeasured`) |
| `single_host` | 1 host, 3 threads, one tree, stale files, all faults but crash | `TypeOK`, `NoFalseStart`, `TreesReady`, `AllEnd` |
| `driver_ssh` | 2 hosts, 1 thread each, ssh, stale files, all faults | `DTypeOK`, `NoFalseStart`, `FreshResults`, `DriverEnds` |
| `driver_daemon` | 2 hosts, daemons, permuted names, time-outs, files that cannot be written | `DriverEnds` |
| `sequence` | 2 threads with 2 files each, 2 tops, three campaigns of 7 to 9 operations, 2 seeds, one fault | `FTypeOK`, `CleanupComplete`, `NoTempLeft`, `PutIsAtomic`, implements TestSequence (`SequenceSpec`) |
| `algorithms` | inputs of `MCAlgorithms`, 3.7 million states, most of them of walks | `NamingTerminates`, `DirsMade`, `DirCapacity`, `OnlyUsedDirsStay`, `BuffersSuffice`, `ReadersAgree`, `PauseBounds`, `DivideByZeroOnlyIfClockStands`, `SilentMeansComplete`, `TotalsAddUp`, `EachSampleOnce`, `OptionsConsistent`, `HostsInTimeStart` |
| `coarse_clock` | 2 threads, 3 files, clock may stand still | violates `EndTestOnce` |
| `exception_status` | 1 host, 2 threads | violates `RaisedIsReported` |
| `abort_race` | 2 hosts, ssh, time-outs | violates `TreesReady` |
| `one_machine` | 2 daemons on one machine, no fault | violates `NoFalseStart` |
| `tops` | 2 threads, 3 files, 2 per directory, 2 tops | violates `TopsSupported` |

Why the bounds are enough. In Stonewall a thread can see the flag, wave it, or
both at once with another; three threads have one of each, and five files with
a check every second one put checks before, at and after the flag, with files
before and behind a directory boundary. In HostRun a poll resumes in the middle
of its threads, which needs two; the third makes the order of arrivals matter.
In TestDriver the smallest interesting test has one host that arrives and one
that does not; two hosts with two threads over ssh with time-outs
were also checked once for `NoFalseStart` (1.4 million states).

In FileOps two files are one that was done and one that was not, when a test
stops, fails or is killed between them, and two seeds are one that is saved and one that
files were made with; the campaigns cut the operations into sets that act on the
same things, with `create`, `swift-put` and `cleanup` in each. `truncate-overwrite` is the action
of `overwrite`, `chmod` that of `stat`. In Algorithms the constants of the code
are scaled down (a KB is 4 bytes, the ring has 4 slots, the prime is 7) and the inputs lie on
both sides of every comparison: one and more directories per directory, full and half-full
last directories, sizes below and above a record and the buffer, missing and
failed threads, samples on boundaries, numbers of files that the prime divides, hosts ready at
every poll and between and, for two of them, at any two times. The walks of a cleanup are
in trees of up to two tops, whose paths are as long as each other, shorter or longer by a
directory, or by one character less; any one directory is gone, any one has files, and
one rmdir is refused (`MaxRefusals`), anywhere in any order.

In FileOps a refused cleanup leaves up to `MaxFaults` directories and those above them.

`CHECK_DEADLOCK FALSE` is set in `algorithms`, where a calculation is one state, a walk
ends, and a pause ends with `MaxTime` or the exception; and in `single_host`, `driver_ssh`
and `driver_daemon`, where the system really can stop. A launcher whose worker was killed waits in
`recv()` for ever, and so it does when the gate could not be written; `Stuck`
names exactly these states. `Abandoned` names those of a launcher thread that waits for a pickle
nobody will write: its slave is over, or was never started (a daemon that came up late
deleted the launch file) and the driver could not write the abort file. `AllEnd` and
`DriverEnds` say that there are no others; that these exist is a hazard of the code
(mtw.py:133 and 168, `launcher_thread.py:54`) that no property here excludes.

Every property of a passing run has a mutant beside the definition it
replaces (`Mut...`), a plausible slip in that code that TLC then catches.

### Fairness

Every process (thread of the driver, launcher, worker, daemon) is weakly fair:
an operating-system process with an enabled step keeps running, and each step
here is a call that does not block. A poll loop runs over a `range()`, so it cannot go
on for ever: its exit by exhaustion is strongly fair (`ScanGiveUp`,
`PollGiveUp`), since the polls between disable it again and again. No fairness is
put on faults; with weak fairness alone on `ScanGiveUp` a launcher could poll
for ever, which the code excludes. `GateWait` needs no strong fairness: the
model does not leave the state between polls.

### What the violations say

1. `coarse_clock`: `test_ended` compares `end_time > start_time`. When the
   clock has not moved (coarse, or stepped back), `end_test` is called again and
   its assertion ends the thread, against smf.py:831.
2. `exception_status`: `invoke_process.py:49` sets the status of the process object and
   sends the invoke, whose status is still OK.
3. `abort_race`: `make_all_subdirs` stops quietly at the abort file,
   `wait_for_gate` prefers the gate to it, and the driver can open the gate after
   a slave has given up: threads then run without directories.
4. `one_machine`: thread-ready files carry no host name, so slaves on one
   machine take each other's for their own.

5. `tops`: `make_all_subdirs` (and `clean_all_subdirs`) names file `j + k` for every
   top directory `k`, up to a multiple of `files_per_dir` past the last file, and
   `file_dirs` ends before that: with 2 top directories and 201 files at the default
   of 100 per directory, `create` ends in an IndexError before the gate. README.md:486 says
   that several mountpoints are supported. `DirsMade` says, and `DirectoriesAreMade` proves,
   exactly for which parameters it happens; `TopsInRange` gives the bound in closed form.

Observed while reading or modelling, without a violation of their own:

- `do_create` with `dirs_on_demand` in a shared tree can fail with EEXIST (`MakeDir`).
- README.md:664-666 describes a default in which threads go on after the flag, but
  `finish_all_rq` is False unless `--finish` is given.
- A `rename` that stops at the flag leaves files under both names, and
  `delete-renamed` after it fails; in README.md:389 these operations follow each other.
- `create` and `swift-put` save a new seed before they touch a file. When the files are there
  already the `create` fails, and `read` then fails too, for the seed is another.
- `readdir` counts its own files but lists those of all threads, so it cannot work
  under `--same-dir` with several threads, nor beside `.tmp` files. (`.d` directories are
  listed as well: only names that begin with "d" are left out.)
- `clean_all_subdirs` takes EACCES and EBUSY for ENOTEMPTY: one rmdir that fails so leaves a
  directory, and all above it, and the cleanup ends with status OK and without a message.
  (`CleanupComplete` excepts it; the next cleanup removes them.) Under `--same-dir` other errors
  are logged and ignored as well.
- After an rmdir `clean_all_subdirs` compares with `len(self.src_dirs[0])` (smf.py:1226) and not
  with the top directory the path is below, though its comment (1187-1189) says that the walk
  goes up to the top directory or a directory that is not empty. With `--top` directories of different
  length empty directories stay below the shorter ones (`OnlyUsedDirsStay` says which; the
  property fails without its last disjunct). `do_readdir` and `do_ls_l` cut `len(self.top_dirs[0])`
  characters off a path below any top directory (smf.py:1472, 1526), and so look in the wrong place.
- A `swift-put` that is killed or interrupted leaves a `.tmp` file that no operation
  deletes, so `cleanup` cannot remove the directory.
- One directory per directory (`--dirs-per-dir 1`) is accepted and the naming loops do not end,
  unless hashing puts all files into the root (`NamingTerminates` is exact).
- With `--hash-into-dirs` a directory can get twice the files per directory; and when the
  prime 900593 divides the number of files, all of them are hashed into one directory
  (`Hashes` is the condition under which `DirCapacity` bounds it).
- Data written as incompressible and read with another record size does not verify.
- A slave waits for the gate (T + 10) / 2 seconds though its message says T. Hosts that are
  ready more than a third of the time-out apart can abort a test that the driver still starts
  (`HostsInTimeStart` says that others do not). Half of it is too much: with T = 25 s and hosts
  ready at 20 s and 32.5 s, the driver sees the second at its poll at 40.5 s, and the first
  has given up at 37.5 s.
- A sample exactly on the boundary of two intervals is in neither. `find_le` returns the lowest
  index with a value > x, while its comment says the highest with a value < x (that on `find_gt` is right).
- The percentage of files done is of the invokes that arrived, and too low a percentage is a
  warning; the driver exits with success when hosts have failed.
- In a YAML file `threads` sets one of the two copies of the thread count,
  `network-sync-dir` is parsed as a boolean, and `record-time-size` is the
  name of what the command line calls `--record-ctime-size`.

## 4. Proofs

The proofs are for every value of the constants: any number of threads, hosts,
files and requests, any interval between checks, any set of faults, any files
left over. The assumptions are those named in the modules
(`StonewallAssumption`, `HostRunAssumption`, `FileOpsAssumption`, the
assumptions of the calculations, and `TestDriverAssumption`: the host
list names every host once, and a permutation gives no two hosts one identity;
`FileOpsAssumption`: a user can only run the operations of `all_op_names`),
and those a theorem states itself. Eight modules hold them.

**`Stonewall_proofs`**

- `TypeCorrect`: `[]TypeOK`. Not quite free: the retry after `makedirs`
  decrements `filenum`, which stays a natural number only because a thread that
  is at an operation has taken a file (`AtAFile`, the added conjunct of `TypeInv`).
- `ShortMeasure`: `[]ShortMeasureJustified`. A thread that is credited short
  has seen the stonewall file, which is only touched by a thread credited with
  everything. The invariant `IInv` adds that: a stonewall file, and a thread on
  its way to touch it, imply that somebody holds a full result; and a thread
  that decides to end at the last file has status OK or a result already.
- `EndTestOnceProved`: with `ClockAdvances`, `[]EndTestOnce`. `ClockInv`
  (`ClockCorrect`) ties an `end_time` to a clock that has moved on: no check is due before the
  first operation because `FilesBetweenChecks` is at least 2, so whoever calls
  `end_test` has completed one. The run `coarse_clock` shows that the assumption is needed.
- `RaceRefinement`: with `ClockAdvances`, `Spec => RaceSpec`. Each action is shown
  to be a step of Race or to leave its variables alone; the lemma
  `AtFileUncredited` and the invariants above supply the rest.

**`StonewallResults_proofs`**: what the measurement of a thread contains.

- `ResultsRecordedProved`, `FinishCompletesProved`: by `Recorded`, which says of each
  control point whether the measurement is made yet.
- `CountsConsistentProved`: by `Counting`. `rq` is `RqPerFile` times the files behind
  the thread, less one file while it is at an operation; a retry and a failure
  both keep to that, and the pair credited is taken at such a moment.
- `BoundedOverrunProved`: by `LookAhead`, an invariant about the future of the file
  counter: from where the flag went up, no thread is beyond the next multiple of
  `FilesBetweenChecks`, unless it has been credited before. `LookWithin` (from
  `MultipleModulo`) shows that there is such a multiple near enough.

**`HostRun_proofs`**: the launcher and workers of one host.

- `HostTypeCorrect`: `[]TypeOK`, with the loops of a launcher inside their rounds.
- `HostNoFalseStart` and `HostTreesReady`, for the test without remote hosts
  (`~Slave`, one host). A thread-ready file does not always stand for a thread
  that has arrived, since files of an earlier run lie about. `BarrierInv` says
  from when on it does: no worker exists before the launcher has deleted all
  (`NotStarted`, `Cleared`), from then on a file is honest (`Honest`), and what the
  poll has passed has arrived (`Scanned`). `GateJustified` and `RunAfterGate` carry that over
  the gate. `TreesReady` needs more: a thread that skipped its directories did so
  on seeing the abort file, and the one launcher never makes both gate and abort
  (`NoGateAndAbort`). With a driver that last step fails; see `abort_race`.

**`TestDriver_proofs`**: the driver, its threads, the daemons, and all slaves.

- `DriverTypeCorrect`: `[]DTypeOK`; a poll that resumes in the middle stays in the list.
- `DriverNoFalseStart`: `[]NoFalseStart`, if no two hosts share a temporary directory
  (`OneHostPerMachine`, which `one_machine` shows is needed). The lemmas of
  HostRun_proofs give `BarrierInv` for every host; `StartedOnce` is needed because a
  slave started twice would delete the files of threads that wait; `Seen` carries
  the barrier from a host to the driver: a host-ready file the driver has passed
  in this poll, not one left over, means that the threads of that host have arrived.
- `DriverFreshResults`: `[]FreshResults`. A pickle exists only when every thread of its
  host has reported in this run (`Fresh`, by `Receiving` over the receive loop), since the
  driver has deleted all pickles before any thread of its own starts.

**`FileOps_proofs`**: tests in sequence, for any operations, threads, files and faults.

- `FileOpsTypes`: `[]FTypeOK`, with `AtRename`: a thread about to rename has taken a file.
- `TempFilesGo`: `[]NoTempLeft`. `NoNewTemp` shows that nothing but a put makes a
  temporary file; the two steps of a put account for it in every outcome.
- `PutsAreAtomic`: `PutIsAtomic` as an action property, one step per action.
- `CleanupLeavesNothing`: `[]CleanupComplete`: no file but those of torn puts and, without same-dir and
  unless an rmdir was refused in this cleanup, no directory. Needs an invariant over the whole cleanup of each
  thread: `Cleaning` (files below its counter are gone), `Cleaned` and `TreeClean` (so are all of
  them, and then its directories, one tree after the other); `CleanedStays` shows that another
  thread does not disturb it, since every name has its thread in it.
- `TestsInSequence`: `SequenceSpec`, FileOps implements TestSequence. The abstract state is a function of
  the concrete one (`Extent`: none, some or all of the files have a thing), so the proof is an invariant,
  `SeqInv`, and then a step or a stutter for each action (`AbsBegin`, `AbsEnd`, `AbsNext`). Its parts:
  - `Done`: the files a thread that goes well has passed are as `Leaves` says; at its end they are all, which
    is what makes "all" or "none" of the extent.
  - `Frame`: a thing the operation does not change is there for none, some or all of the files as `before`.
  - `Rest`: the files a thread has not come to have what the operation needs, or lack it, as the test found
    them; whether the next file can go wrong depends on that.
  - `Cause`: nothing fails but by a fault or an unmet need. Where a test finds what it needs, every operation's
    `Effect` lemma says that its error branches are out; for `readdir` and `ls-l` that rests on the directories.
  - `NoHope`: where a test is without hope no thread passes its first file, so none ends well.
  - `Control`: where a thread can be and with what status, and that a thread which ended well has done
    all its files unless `--finish` is not given.
  - `Marked`: a thread with files has saved a seed, so contents of the seed are not broken ones; only files have attributes.
  - `DirsThere`: where there are files, or a test makes or needs them, the directories are complete. A listing then holds exactly the files of
    its directory (`ListingAgrees`), as files of one path have one directory (`PathByNumber`,
    from `SeqDirInjective`), which `readdir` compares with what it expects.
- Its hypothesis is `NamesInRange(P)`: otherwise a test that makes directories ends before it begins, and
  TestSequence allows no such end. `TopsInRange` says when that is, `--top` names at most
  `(files - 1) % files_per_dir + 1` directories; `TopsThatWork` (`[]TopsSupported`) and `TopsThatFail` (every test that
  makes directories is raised in all threads) are the two sides, and what the run `tops` shows for one
  instance holds for every one beyond the bound.
  One top directory is always in range, and so are as many as `--files-per-dir` when that divides `--files`.

**`DirNames_proofs`**: what the proofs about calculations rest on.

- Induction over the natural numbers with a set for the property (`NatSetInduction`, from the
  least element of a set of naturals), and with it that a recursive function has the values its
  definition says (`NatRecursion`). Every recursive function of the models is then treated alike:
  its defining equation, its type, a characterisation (`PowerDef`, `SumDef`, `TotalDef`, ...).
- Digits: `SeqDirInjective`, two directory numbers have one path only if they are equal
  (`DigitsDetermine` by induction from the last digit); `HashInjective`, multiplication by a prime that does not
  divide the modulus loses nothing (`PrimeDivides` is Euclid's lemma, by descent); `HashedDirTwice`,
  a hashed path is shared by two numbers at most, since the loop stops at 1 as it does at 0.

**`Algorithms_proofs`**: names, options, auto-pause, the gate and buffers.

- `PauseStaysInBounds`: `[]PauseBounds`; `DivisionNeedsTime`:
  `[]DivideByZeroOnlyIfClockStands`. `PauseInv` adds that the history started
  no later than now, and that if it started at this very tick then all its
  samples ended at it.
- `OptionsAreChecked`: `[]OptionsConsistent`, for any command line and YAML file.
- `DirectoriesAreMade`: `[]DirsMade`. The directory of a file depends on its number divided
  by `files_per_dir` alone (`SameDirNumber`), so the name computed for the multiple below
  it, moved to the file's top directory, is its own (`FileDirNamed`); `RangeRule` is the
  arithmetic of the last index.
- `NamesTerminate`: `[]NamingTerminates`, both directions: powers of two or more outgrow every
  number, and with one directory per directory some file's hash is not the root unless there are too few.
- `DirectoriesHoldWhatTheyMay`: `[]DirCapacity`, by counting numbers instead of names
  (`AtMost`: an injection into an interval).
- `GateOpensInTime`: `[]HostsInTimeStart`. The driver polls at squares, counted from its start;
  `LastPoll` finds the poll that opens the gate, `GapsBounded` that the last gap is
  shorter than the time-out allows, and `GateInTime` is the arithmetic of a third.
- `CleanupLeavesUsedDirs`: `[]OnlyUsedDirsStay`. `WalkInv`: every directory that exists is above one that
  the walk is still to visit (`ToVisit`), or may be kept for good (`Keeps`); `WalkStep` has a case
  for each turn of the loops, and `AboveIs` and `ParentIs` are what "above" means for paths.
- `BuffersAreThere`: `[]BuffersSuffice`, `ReadersFindWhatIsWritten`: `[]ReadersAgree`. `RecordsRule` is
  the loop over the records; `ModMod` and `ModSum` carry a position through two record
  sizes that are both multiples of the random segment, and `RecordsDiffer` finds the byte that
  an incompressible buffer gives differently.

**`Reports_proofs`**: results and response times.

- `ResultsAddUp`: `[]TotalsAddUp`. `TotalRule` gives the fields of a total step by step;
  `SumByHost`, that a sum over threads is the sum over hosts of their sums, and
  `SumReverse` are inductions; `TotalExtremes` is the longest time and the status.
- `NothingIsMissing`: `[]SilentMeansComplete`. As many invokes as threads, no two of one thread:
  the injection into host and thread is onto (`AllThreads`).
- `EverySampleCounts`: `[]EachSampleOnce`. A sample is in the slice of `bisect` exactly if its time
  is strictly between the boundaries (`SliceRule`, by comparing the sets that are counted);
  `IntervalsApart` and `WithinOne` are about the boundaries.

Model-checked only:

- liveness under fairness (`AllMeasured`, `AllEnd`, `DriverEnds`), which is out of the
  prover's reach.

Every other property of a passing run has a theorem, under the assumption named there. The inductive
invariants were model-checked on the instances of the runs before they were proved, `SeqInv` on that of `sequence`
(1132038 distinct states), `WalkInv` on the smaller half of that of `algorithms`.

## 5. Not modelled

- `await-create`, which waits for files of another site and changes none.
- The pickle of the parameters, the daemon's shutdown file and KeyboardInterrupt in the
  launchers and the driver: the first is written before any thread starts, the others end processes
  at a moment that "kill" and "crash" already choose.
- The length of the pause of `--auto-pause`, percentiles and deviations: floating-point
  arithmetic on which no control depends.
- Parsing of single values, options that are only copied, JSON and printed output, logging.
- The system-call wrappers, `profile_workload.py`, packaging, shell tests and container examples.

Further work would join StartTest of FileOps with the gate of HostRun, so that a test that
was aborted is one of the tests of a sequence; as it is, HostRun shows that
the directories are there when a thread starts, and FileOps starts from there.
