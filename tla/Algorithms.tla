----------------------------- MODULE Algorithms -----------------------------
(***************************************************************************)
(* The calculations of smallfile, each for the inputs an instance gives,   *)
(* compared with what they must come to.  A behaviour makes one of them;   *)
(* all are over at once, but the auto-pause, which takes a step for every  *)
(* operation of a thread, and the walk of clean_all_subdirs.               *)
(***************************************************************************)
EXTENDS DirNames, CleanDirs, Buffers, AutoPause, Results, RspStats, Params, Timeouts

CONSTANTS
  NameInputs,      \* records of the fields that DirNames needs
  CleanInputs,     \* of those that CleanDirs needs
  BufferInputs,    \* of those that Buffers needs, and reader_record_sz_kb
  ResultInputs,    \* hosts, thread_count, iterations and the invokes read
  SampleInputs,    \* the samples of all threads, start_time and time_interval
  OptionInputs,    \* options of a command line and of a YAML file
  GateInputs       \* of a test, and when its hosts are ready

BufferFields ==
  [record_sz_kb : Nat, reader_record_sz_kb : Nat, total_sz_kb : Nat,
   random : BOOLEAN, xattr_size : Nat, xattr_count : Nat,
   incompressible : BOOLEAN, tid : Nat]

\* Of a thread that was measured all three are known.
InvokesOf(hosts, thread_count) ==
  {invk \in [onhost : 1 .. hosts, tid : 1 .. thread_count, status : Nat,
             elapsed_time : Nat \cup {None}, filenum_final : Nat \cup {None},
             rq_final : Nat \cup {None}] :
     invk.elapsed_time # None => invk.filenum_final # None /\ invk.rq_final # None}

ASSUME AlgorithmsAssumption ==
  /\ NameInputs \subseteq [iterations : Nat \ {0}, files_per_dir : Nat \ {0},
                            dirs_per_dir : Nat \ {0}, tops : Nat \ {0},
                            hash_to_dir : BOOLEAN]
  /\ \A c \in CleanInputs :
       /\ c.names \in NameInputs
       /\ c.names.dirs_per_dir > 1 /\ NamesInRange(c.names)
       /\ c.lengths \in [0 .. c.names.tops - 1 -> Nat]
       /\ c.there \subseteq {dir \in AllSubdirs(c.names) : ~IsTop(dir)}
       /\ c.used \subseteq c.there
  /\ BufferInputs \subseteq BufferFields
  /\ \A p \in BufferInputs : p.random => p.total_sz_kb > 0
  /\ \A q \in ResultInputs :
       /\ q.hosts \in Nat \ {0} /\ q.thread_count \in Nat \ {0} /\ q.iterations \in Nat
       /\ q.invokes \in Seq(InvokesOf(q.hosts, q.thread_count))
       /\ \A i, j \in DOMAIN q.invokes :
            (/\ q.invokes[i].onhost = q.invokes[j].onhost
             /\ q.invokes[i].tid = q.invokes[j].tid) => i = j
  /\ SampleInputs \subseteq
       [threads : Seq(Seq([at : Nat, rsp : Nat])) \ {<<>>}, start_time : Nat,
        time_interval : Nat \ {0}]
  /\ \A o \in OptionInputs :
       /\ o.cli.files \in Nat
       /\ DOMAIN o.yaml \subseteq YamlKeys
       /\ "files" \in DOMAIN o.yaml => o.yaml["files"] \in Nat
  /\ GateInputs \subseteq [iterations : Nat, thread_count : Nat, hosts : Nat,
                            files_per_dir : Nat \ {0}, ready : Seq(Nat) \ {<<>>}]

VARIABLES
  calc,            \* which calculation this is
  input            \* of what

Init ==
  /\ \/ calc = "names" /\ input \in NameInputs
     \/ calc = "buffers" /\ input \in BufferInputs
     \/ calc = "results" /\ input \in ResultInputs
     \/ calc = "intervals" /\ input \in SampleInputs
     \/ calc = "options" /\ input \in OptionInputs
     \/ calc = "gate" /\ input \in GateInputs
     \/ calc = "pause" /\ input = <<>>
     \/ calc = "clean" /\ input \in CleanInputs
  /\ IF calc = "clean" THEN CleanInit(input) ELSE CleanIdle
  /\ PauseInit

PauseStarts ==
  /\ calc = "pause"
  /\ \E waited, rsp_time \in 0 .. MaxTicks : FirstSample(waited, rsp_time)
  /\ UNCHANGED <<calc, input, cleanvars>>

PauseGoesOn ==
  /\ calc = "pause"
  /\ \E waited, rsp_time \in 0 .. MaxTicks : NextSample(waited, rsp_time)
  /\ UNCHANGED <<calc, input, cleanvars>>

CleaningGoesOn ==
  /\ calc = "clean" /\ CleanStep(input)
  /\ UNCHANGED <<calc, input, pausevars>>

Next == PauseStarts \/ PauseGoesOn \/ CleaningGoesOn

Spec == Init /\ [][Next]_<<calc, input, pausevars, cleanvars>>

\* The sums of the first values of a sequence of numbers.
SumOf(f) ==
  LET sum[n \in 0 .. Len(f)] == IF n = 0 THEN 0 ELSE sum[n - 1] + f[n] IN sum

-----------------------------------------------------------------------------
\* Names and directories.

FileNums(p) == 1 .. p.iterations

Named(p) == \A f \in FileDirs(p) : Terminates(p, f)

\* The names of all files are computed in finite time exactly when there are
\* two directories in a directory, or the files are hashed into so few that
\* there is only the root; that is more of them if some_prime divides their
\* number.  The options allow one directory per directory.
NamingTerminates ==
  calc = "names" =>
    (Named(input) <=>
       \/ input.dirs_per_dir > 1
       \/ /\ input.hash_to_dir
          /\ input.iterations <= 2 * input.files_per_dir
               + (IF input.iterations % some_prime = 0 THEN some_prime - 1 ELSE 0))

\* make_all_subdirs makes the directory of every file, although it computes the
\* name of one file in files_per_dir, and a few after it for the other top
\* directories; and it stays inside the list of names exactly when the top
\* directories are no more than that leaves room for.
DirsMade ==
  (calc = "names" /\ Named(input)) =>
    /\ {FileDir(input, f) : f \in FileNums(input)} \subseteq NamedDirs(input)
    /\ NamesInRange(input) <=>
         input.tops <= 1 + (IF input.hash_to_dir THEN input.files_per_dir - 1
                            ELSE (input.iterations - 1) % input.files_per_dir)

\* some_prime spreads the numbers that it does not divide.
Hashes(p) == p.iterations % some_prime # 0 /\ p.dirs_per_dir % some_prime # 0

\* No directory gets more than dirs_per_dir directories, and none more than
\* files_per_dir files; with hashing, twice as many, since two directory numbers
\* have the same name.
DirCapacity ==
  (calc = "names" /\ Named(input) /\ (input.hash_to_dir => Hashes(input))) =>
  LET paths == {DirName(input, f) : f \in FileNums(input)}
        inside(path) == {f \in FileNums(input) : DirName(input, f) = path}
        all == UNION {{SubSeq(path, 1, i) : i \in 0 .. Len(path)} : path \in paths}
        sub(path) == {q \in all : Len(q) = Len(path) + 1 /\ Front(q) = path}
    IN /\ \A path \in paths :
            Cardinality(inside(path)) <=
              (IF input.hash_to_dir THEN 2 ELSE 1) * input.files_per_dir
       /\ \A path \in all : Cardinality(sub(path)) <= input.dirs_per_dir

-----------------------------------------------------------------------------
\* Cleaning.

\* A directory that a whole walk leaves has files somewhere below it, or one there
\* was refused to rmdir; in whatever order the walk goes, and whatever was gone
\* before.  Only where its path is no longer than that of the first top directory,
\* which another top directory with a shorter path makes possible, may it stay
\* although it is empty.
OnlyUsedDirsStay ==
  (calc = "clean" /\ Walked) =>
    \A dir \in existing :
      \/ \E d \in input.used \cup refused : dir \in Above(d)
      \/ PathLength(input, dir) <= input.lengths[0]

-----------------------------------------------------------------------------
\* Buffers.

\* The records of a file of any size that may come are as long as they should
\* be, and add up to the file; so are the extended attributes.  The big buffer
\* has its size, and the assertion on the part taken from it cannot fail
\* as long as the attributes are not larger than the biggest buffer.
BuffersSuffice ==
  calc = "buffers" =>
    /\ \A kb \in FileSizes(input) :
         LET records == Records(input, kb)
         IN /\ \A i \in DOMAIN records :
                 records[i] * BYTES_PER_KB <= TotalSpace(input)
            /\ SumOf(records)[Len(records)] = kb
    /\ XattrSpace(input) <= TotalSpace(input)
    /\ XattrSpace(input) <= biggest_buf_size =>
         \A f \in 0 .. buf_offset_range : BufferIsThere(input, f)
    /\ SegmentsDoubled[biggest_buf_size_bits - random_seg_size_bits] = biggest_buf_size
    /\ RandomBytes = biggest_buf_size

\* A reader that verifies the data finds what was written although it uses
\* another record size; only incompressible data is different, if the file is
\* larger than the smaller record.
ReadersAgree ==
  calc = "buffers" =>
    LET reader == [input EXCEPT !.record_sz_kb = input.reader_record_sz_kb]
        record == Least(RecordSize(input), RecordSize(reader))
        same(bytes) == \A q \in 0 .. bytes - 1 :
                         Content(input, 1, q) = Content(reader, 1, q)
    IN \A kb \in FileSizes(input) :
         same(kb * BYTES_PER_KB) <=>
           \/ ~input.incompressible
           \/ RecordSize(input) = RecordSize(reader) \/ kb <= record

-----------------------------------------------------------------------------
\* Auto-pause.

\* The ring is never written outside its slots, and no more samples are counted
\* than make half of it.
PauseBounds ==
  /\ pause_rsptime_index \in Slots \cup {pause_rsptime_unmeasured}
  /\ 2 * pause_sample_count <= pause_rsptime_count

\* The division by the time so far fails only if the clock has stood still for
\* more operations than half of the ring.
DivideByZeroOnlyIfClockStands ==
  divided_by_zero => 2 * same_tick > pause_rsptime_count

-----------------------------------------------------------------------------
\* Results.

\* If no warning is printed then nothing is missing: there is an invoke of every
\* thread of every host, it is OK and was measured, and the files done are
\* enough of all that were asked for.
SilentMeansComplete ==
  (calc = "results" /\ input.invokes # <<>>
     /\ Warnings(input.invokes, input.hosts, input.thread_count, input.iterations) = {}) =>
    /\ \A h \in 1 .. input.hosts, t \in 1 .. input.thread_count :
         \E i \in DOMAIN input.invokes :
           LET invk == input.invokes[i]
           IN /\ invk.onhost = h /\ invk.tid = t
              /\ invk.status = OK /\ invk.elapsed_time # None
    /\ 100 * SumOf([i \in DOMAIN input.invokes |-> input.invokes[i].filenum_final])
               [Len(input.invokes)]
         >= pct_files_min * input.iterations * input.hosts * input.thread_count

\* The result is that of the hosts together, and does not depend on the order in
\* which they come: the work adds up, the longest time counts, and the status is
\* OK only if that of all threads is.
TotalsAddUp ==
  (calc = "results" /\ input.invokes # <<>>) =>
    LET cluster == Cluster(input.invokes)
        host == [h \in 1 .. input.hosts |-> HostStats(input.invokes, h)]
        sum(numbers) == SumOf(numbers)[input.hosts]
        back == Cluster(Reverse(input.invokes))
    IN /\ cluster.files = sum([h \in 1 .. input.hosts |-> host[h].files])
       /\ cluster.files_per_sec = sum([h \in 1 .. input.hosts |-> host[h].files_per_sec])
       /\ cluster.IOPS = sum([h \in 1 .. input.hosts |-> host[h].IOPS])
       /\ cluster.elapsed = Max({host[h].elapsed : h \in 1 .. input.hosts})
       /\ cluster.status = OK <=>
            \A i \in DOMAIN input.invokes : input.invokes[i].status = OK
       /\ [back EXCEPT !.status = cluster.status] = cluster
       /\ back.status = OK <=> cluster.status = OK

-----------------------------------------------------------------------------
\* Response times.

\* If there are statistics of an interval then every sample within it is in them,
\* and in no others; an interval with too few samples has no statistics.  A sample
\* between the first interval and the end, rounded down, is within an interval,
\* unless it is on the boundary of two: then it is in neither.
EachSampleOnce ==
  calc = "intervals" =>
    LET threads == input.threads
        interval == input.time_interval
        first == input.start_time * Second
        slices == Slices(threads, input.start_time, interval)
        at(s) == AtTime(threads, s)
        inside(t) == {s \in Samples(threads) :
                        t * Second < at(s) /\ at(s) < (t + interval) * Second}
    IN /\ \A t \in DOMAIN slices :
            /\ slices[t] \in {{}, inside(t)}
            /\ slices[t] = {} <=> Cardinality(inside(t)) < min_rsptime_samples
            /\ \A other \in DOMAIN slices \ {t} : slices[t] \cap slices[other] = {}
       /\ \A s \in Samples(threads) :
            first <= at(s) /\ at(s) < QuantizedEnd(threads, interval) * Second =>
              ((at(s) - first) % (interval * Second) # 0
                 <=> \E t \in DOMAIN slices : s \in inside(t))

-----------------------------------------------------------------------------
\* Parameters.

\* What parse_args makes sure of, it makes sure of against a YAML file: the
\* tests that others rely on finish all files, small ones are not stopped, only
\* one kind of pause is on, and cleanup, and a single thread as given on the
\* command line, do not pause.
OptionsConsistent ==
  calc = "options" =>
    LET inv == Parse(input.cli, input.yaml)
    IN /\ inv.opname \in {"create", "mkdir", "cleanup"} => inv.finish_all_rq
       /\ inv.iterations < 10 => ~inv.stonewall
       /\ ~(inv.auto_pause /\ inv.pause_between_files > 0)
       /\ (inv.opname = "cleanup" \/ inv.total_hosts * input.cli.threads = 1) =>
            ~inv.auto_pause /\ inv.pause_between_files = 0

-----------------------------------------------------------------------------
\* Time-outs.

\* Hosts that are ready within half the time-out are seen in time, for all that
\* the driver looks less and less often; and if it opens the gate, however late,
\* then hosts that were all ready within a third of the time-out of each other
\* are all still waiting for it.
HostsInTimeStart ==
  calc = "gate" =>
    LET ready == input.ready
        first == Min(Range(ready))
        latest == Max(Range(ready))
        timeout == HostStartupTimeout(input)
    IN /\ latest <= timeout => GateOpens(input, ready) # Never
       /\ 3 * (latest - first) <= 2 * timeout =>
            \A i \in DOMAIN ready : HostSeesGate(input, ready, i)
=============================================================================
