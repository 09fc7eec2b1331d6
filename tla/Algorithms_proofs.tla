-------------------------- MODULE Algorithms_proofs --------------------------
(***************************************************************************)
(* Proofs about module Algorithms, for any inputs of the right types.      *)
(***************************************************************************)
EXTENDS Algorithms, DirNames_proofs, TLAPS

-----------------------------------------------------------------------------
\* The input of a calculation never changes.
InputKept ==
  /\ calc = "names" => input \in NameInputs
  /\ calc = "buffers" => input \in BufferInputs
  /\ calc = "results" => input \in ResultInputs
  /\ calc = "intervals" => input \in SampleInputs
  /\ calc = "options" => input \in OptionInputs
  /\ calc = "gate" => input \in GateInputs
  /\ calc = "clean" => input \in CleanInputs

LEMMA InputInit == Init => InputKept
BY DEF Init, InputKept

LEMMA InputNext == InputKept /\ [Next]_<<calc, input, pausevars, cleanvars>> => InputKept'
BY DEF InputKept, Next, PauseStarts, PauseGoesOn, CleaningGoesOn

-----------------------------------------------------------------------------
\* Auto-pause.

PauseInv ==
  /\ pause_rsptime_index \in Slots \cup {pause_rsptime_unmeasured}
  /\ pause_sample_count \in Nat /\ 2 * pause_sample_count <= pause_rsptime_count
  /\ {pause_history_start_time, now, same_tick} \subseteq Nat
  /\ pause_history_start_time <= now
  /\ pause_history_start_time = now => same_tick >= pause_sample_count
  /\ divided_by_zero => 2 * same_tick > pause_rsptime_count

LEMMA PauseInvInit == Init => PauseInv
BY AutoPauseAssumption DEF Init, PauseInit, PauseInv

LEMMA PauseInvNext == PauseInv /\ [Next]_<<calc, input, pausevars, cleanvars>> => PauseInv'
<1> SUFFICES ASSUME PauseInv, [Next]_<<calc, input, pausevars, cleanvars>> PROVE PauseInv'
  OBVIOUS
<1> USE AutoPauseAssumption DEF PauseInv
<1>1. 0 .. MaxTicks \subseteq Nat /\ pause_rsptime_unmeasured \notin Slots
  BY DEF Slots, pause_rsptime_unmeasured
<1>2. ASSUME NEW waited \in 0 .. MaxTicks, NEW rsp_time \in 0 .. MaxTicks,
             FirstSample(waited, rsp_time)
      PROVE  PauseInv'
  <2>1. /\ waited \in Nat /\ rsp_time \in Nat /\ ~divided_by_zero
        /\ now' = now + waited + rsp_time
        /\ same_tick' = IF waited + rsp_time = 0 THEN same_tick + 1 ELSE 1
    BY <1>1, <1>2 DEF FirstSample, Ends
  <2>2. ~divided_by_zero'
    BY <2>1, <1>2 DEF FirstSample
  <2>3. /\ pause_history_start_time' = now + waited
        /\ pause_rsptime_index' = 1 /\ pause_sample_count' = 1
    BY <1>2 DEF FirstSample
  <2>4. same_tick' >= 1 /\ same_tick' \in Nat
    BY <2>1
  <2>5. 1 \in Slots
    BY DEF Slots
  <2> QED
    BY <2>1, <2>2, <2>3, <2>4, <2>5
<1>3. ASSUME NEW waited \in 0 .. MaxTicks, NEW rsp_time \in 0 .. MaxTicks,
             NextSample(waited, rsp_time)
      PROVE  PauseInv'
  <2>1. /\ waited \in Nat /\ rsp_time \in Nat /\ ~divided_by_zero
        /\ now' = now + waited + rsp_time
        /\ same_tick' = IF waited + rsp_time = 0 THEN same_tick + 1 ELSE 1
    BY <1>1, <1>3 DEF NextSample, Ends
  <2>2. pause_rsptime_index' \in Slots
    BY <1>3 DEF NextSample, NextSlot, Slots
  <2>3. CASE TimeToAdjust(now + waited + rsp_time, pause_sample_count + 1)
    <3>1. /\ pause_history_start_time' = now' /\ pause_sample_count' = 0
          /\ divided_by_zero' = (now' = pause_history_start_time)
      BY <1>3, <2>1, <2>3 DEF NextSample
    <3>2. ASSUME divided_by_zero' PROVE 2 * same_tick' > pause_rsptime_count
      <4>0. now' = pause_history_start_time
        BY <3>1, <3>2
      <4>1. now' = pause_history_start_time /\ now = now' /\ waited + rsp_time = 0
        BY <2>1, <4>0
      <4>2. 2 * (pause_sample_count + 1) > pause_rsptime_count
        BY <2>1, <2>3, <4>1 DEF TimeToAdjust
      <4> QED
        BY <2>1, <4>1, <4>2
    <3> QED
      BY <2>1, <2>2, <3>1, <3>2
  <2>4. CASE ~TimeToAdjust(now + waited + rsp_time, pause_sample_count + 1)
    <3>1. /\ pause_sample_count' = pause_sample_count + 1
          /\ UNCHANGED <<divided_by_zero, pause_history_start_time>>
      BY <1>3, <2>4 DEF NextSample
    <3>2. 2 * pause_sample_count' <= pause_rsptime_count
      BY <2>4, <3>1 DEF TimeToAdjust
    <3> QED
      BY <2>1, <2>2, <3>1, <3>2
  <2> QED
    BY <2>3, <2>4
<1>4. CASE UNCHANGED <<calc, input, pausevars, cleanvars>>
  BY <1>4 DEF pausevars
<1>5. CASE CleaningGoesOn
  BY <1>5 DEF CleaningGoesOn, pausevars
<1> QED
  BY <1>2, <1>3, <1>4, <1>5 DEF Next, PauseStarts, PauseGoesOn

\* The ring of response times is never left, for any size of it, and the samples
\* are counted up to half of it.
THEOREM PauseStaysInBounds == Spec => []PauseBounds
<1>1. PauseInv => PauseBounds
  BY DEF PauseInv, PauseBounds
<1> QED
  BY <1>1, PauseInvInit, PauseInvNext, PTL DEF Spec

\* Only a clock that stands still for half a ring of operations makes the
\* auto-pause divide by zero.
THEOREM DivisionNeedsTime == Spec => []DivideByZeroOnlyIfClockStands
<1>1. PauseInv => DivideByZeroOnlyIfClockStands
  BY DEF PauseInv, DivideByZeroOnlyIfClockStands
<1> QED
  BY <1>1, PauseInvInit, PauseInvNext, PTL DEF Spec

-----------------------------------------------------------------------------
\* Parameters.

LEMMA OptionsChecked ==
  ASSUME NEW o \in OptionInputs
  PROVE  LET inv == Parse(o.cli, o.yaml)
         IN /\ inv.opname \in {"create", "mkdir", "cleanup"} => inv.finish_all_rq
            /\ inv.iterations < 10 => ~inv.stonewall
            /\ ~(inv.auto_pause /\ inv.pause_between_files > 0)
            /\ (inv.opname = "cleanup" \/ inv.total_hosts * o.cli.threads = 1) =>
                 ~inv.auto_pause /\ inv.pause_between_files = 0
<1> DEFINE cl == CommandLine(o.cli)
           ya == ParseYaml(cl, o.yaml)
           ch == CountHosts(ya)
           st == NoStonewallIfSmall(ch)
           pa == Pauses(st)
           inv == ForceFinish(pa)
           fields == {"opname", "iterations", "thread_count", "threads",
                      "record_sz_kb", "total_sz_kb", "pause_between_files",
                      "auto_pause", "stonewall", "finish_all_rq", "hosts",
                      "total_hosts"}
<1>1. DOMAIN cl = fields /\ cl.iterations = o.cli.files /\ cl.threads = o.cli.threads
  BY DEF CommandLine
<1>2. \A key \in YamlKeys : FieldOf(key) # "threads"
                            /\ (FieldOf(key) = "iterations" <=> key = "files")
  BY DEF YamlKeys, FieldOf
<1>3. /\ o.cli.files \in Nat /\ DOMAIN o.yaml \subseteq YamlKeys
      /\ "files" \in DOMAIN o.yaml => o.yaml["files"] \in Nat
  BY AlgorithmsAssumption
<1> HIDE DEF cl
<1>4. DOMAIN ya = fields /\ ya.threads = o.cli.threads /\ ya.iterations \in Nat
  <2>1. DOMAIN ya = fields /\ ya.threads = cl.threads
    BY <1>1, <1>2, <1>3 DEF ParseYaml
  <2>2. ya.iterations \in {cl.iterations} \cup
          (IF "files" \in DOMAIN o.yaml THEN {o.yaml["files"]} ELSE {})
    BY <1>1, <1>2, <1>3 DEF ParseYaml
  <2> QED
    BY <1>1, <1>3, <2>1, <2>2
<1> HIDE DEF ya
<1>5. /\ DOMAIN ch = fields /\ ch.threads = o.cli.threads /\ ch.iterations \in Nat
  BY <1>4 DEF CountHosts
<1> HIDE DEF ch
<1>6. /\ DOMAIN st = fields /\ st.threads = o.cli.threads /\ st.iterations \in Nat
      /\ st.iterations < 10 => ~st.stonewall
  <2>1. /\ DOMAIN st = fields /\ st.threads = o.cli.threads /\ st.iterations \in Nat
        /\ st.iterations = ch.iterations
        /\ st.stonewall = (ch.stonewall /\ ch.iterations >= 10)
    BY <1>5 DEF NoStonewallIfSmall
  <2>2. ch.iterations < 10 => ~(ch.iterations >= 10)
    BY <1>5
  <2> HIDE DEF st
  <2>3. ch.iterations < 10 => ~st.stonewall
    BY <2>1, <2>2, Zenon
  <2> QED
    BY <2>1, <2>3
<1> HIDE DEF st
<1>7. /\ DOMAIN pa = fields /\ pa.threads = o.cli.threads
      /\ pa.iterations = st.iterations /\ pa.stonewall = st.stonewall
      /\ ~(pa.auto_pause /\ pa.pause_between_files > 0)
      /\ (pa.opname = "cleanup" \/ pa.total_hosts * o.cli.threads = 1) =>
           ~pa.auto_pause /\ pa.pause_between_files = 0
  BY <1>6 DEF Pauses, NoPauseIf
<1> HIDE DEF pa
<1>8. /\ inv.opname \in {"create", "mkdir", "cleanup"} => inv.finish_all_rq
      /\ \A x \in fields \ {"finish_all_rq"} : inv[x] = pa[x]
  BY <1>7 DEF ForceFinish
<1>9. Parse(o.cli, o.yaml) = inv
  BY DEF Parse, Check, cl, ya, ch, st, pa
<1> HIDE DEF inv
<1> QED
  BY <1>6, <1>7, <1>8, <1>9

\* What parse_args makes sure of holds for any options, whatever the YAML file
\* says.
THEOREM OptionsAreChecked == Spec => []OptionsConsistent
<1>1. InputKept => OptionsConsistent
  BY OptionsChecked DEF InputKept, OptionsConsistent
<1> QED
  BY <1>1, InputInit, InputNext, PTL DEF Spec

-----------------------------------------------------------------------------
\* Directories.

\* The first number of a directory and a few after it are of the same directory
\* as file f, and one of these is in the same top directory.
LEMMA SameDirNumber ==
  ASSUME NEW f \in Nat, NEW F \in Nat \ {0}, NEW L \in Nat \ {0}
  PROVE  LET n == F * (f \div F) + ((f % F) % L)
         IN n \div F = f \div F /\ n % L = f % L /\ n <= f /\ n \in Nat
<1> DEFINE d == f \div F
           m == f % F
           k == m % L
           q == m \div L
           n == F * d + k
           j == F * d
<1>1. d \in Nat /\ m \in 0 .. F - 1 /\ f = F * d + m
  BY DivModType
<1>2. m \in Nat
  BY <1>1
<1>3. q \in Nat /\ k \in 0 .. L - 1 /\ m = L * q + k
  BY <1>2, DivModType
<1> HIDE DEF d, m, q, k
<1>4. L * q \in Nat /\ j \in Nat
  BY <1>1, <1>3
<1>5. k \in 0 .. F - 1 /\ k \in Nat /\ k <= m
  BY <1>1, <1>3, <1>4
<1>6. n \in Nat /\ n <= f
  BY <1>1, <1>4, <1>5
<1>7. n \div F = d
  BY <1>1, <1>5, <1>6, DivModUnique
<1> DEFINE e == n \div L
           r == n % L
<1>8. e \in Nat /\ r \in 0 .. L - 1 /\ n = L * e + r
  BY <1>6, DivModType
<1> HIDE DEF e, r
<1>9. f = L * (e + q) + r
  <2>1. f = n + L * q
    BY <1>1, <1>3, <1>4, <1>5
  <2>2. L * (e + q) = L * e + L * q
    BY <1>3, <1>8
  <2> HIDE DEF n
  <2>3. L * e \in Nat
    BY <1>8
  <2> QED
    BY <1>4, <1>6, <1>8, <2>1, <2>2, <2>3
<1>10. f % L = r
  BY <1>3, <1>8, <1>9, DivModUnique
<1> QED
  BY <1>6, <1>7, <1>10 DEF d, m, k, r

\* A directory of a file is one that make_all_subdirs names.
LEMMA FileDirNamed ==
  ASSUME NEW p \in NameInputs, NEW f \in FileNums(p)
  PROVE  FileDir(p, f) \in NamedDirs(p)
<1> DEFINE N == p.iterations
           F == p.files_per_dir
           L == p.tops
<1>1. N \in Nat \ {0} /\ F \in Nat \ {0} /\ L \in Nat \ {0} /\ p.hash_to_dir \in BOOLEAN
      /\ f \in 1 .. N
  BY AlgorithmsAssumption DEF FileNums
<1>2. f \in Nat /\ f <= N
  BY <1>1
<1> HIDE DEF N, F, L
<1>3. CASE p.hash_to_dir
  <2>1. f \in DirRange(p) /\ 0 \in 0 .. p.tops - 1
    BY <1>1, <1>3 DEF DirRange, N, L
  <2>2. f = f + 0
    BY <1>2
  <2>3. f \in NamedFiles(p)
    BY <2>1, <2>2 DEF NamedFiles
  <2> QED
    BY <2>3 DEF NamedDirs
<1>4. CASE ~p.hash_to_dir
  <2> DEFINE j == F * (f \div F)
             k == (f % F) % L
             n == j + k
  <2>1. n \div F = f \div F /\ n % L = f % L /\ n <= f /\ n \in Nat
    BY <1>1, <1>2, SameDirNumber
  <2>2. f \div F \in Nat /\ f % F \in Nat /\ f = F * (f \div F) + (f % F)
    <3>1. /\ f \div F \in Nat /\ f % F \in 0 .. F - 1
          /\ f = F * (f \div F) + (f % F)
      BY <1>1, <1>2, DivModType
    <3> QED
      BY <1>1, <3>1
  <2>3. k \in 0 .. L - 1
    BY <1>1, <2>2, DivModType
  <2>4. j \in Nat /\ j <= N + F - 1
    <3>1. j \in Nat
      BY <1>1, <2>2
    <3> QED
      BY <1>1, <1>2, <2>2, <3>1
  <2>5. j = F * (f \div F) + 0 /\ 0 \in 0 .. F - 1
    BY <1>1, <2>4
  <2>6. j % F = 0
    BY <1>1, <2>2, <2>4, <2>5, DivModUnique
  <2>7. j \in DirRange(p)
    BY <1>1, <1>4, <2>4, <2>6 DEF DirRange, N, F
  <2>8. n \in NamedFiles(p)
    BY <2>3, <2>7 DEF NamedFiles, L
  <2>9. FileDir(p, n) = FileDir(p, f)
    BY <1>4, <2>1 DEF FileDir, DirName, SeqDir, DirNumber, F, L
  <2> QED
    BY <2>8, <2>9 DEF NamedDirs
<1> QED
  BY <1>1, <1>3, <1>4

\* The names that are asked for are in the list exactly when the last of the top
\* directories of the last directory is.
LEMMA RangeRule ==
  ASSUME NEW p \in NameInputs
  PROVE  NamesInRange(p) <=>
           p.tops <= 1 + (IF p.hash_to_dir THEN p.files_per_dir - 1
                          ELSE (p.iterations - 1) % p.files_per_dir)
<1> DEFINE N == p.iterations
           F == p.files_per_dir
           L == p.tops
           M == N + F - 1
<1>1. N \in Nat \ {0} /\ F \in Nat \ {0} /\ L \in Nat \ {0} /\ p.hash_to_dir \in BOOLEAN
  BY AlgorithmsAssumption
<1>2. M \in Nat /\ FileDirs(p) = 0 .. M /\ L - 1 \in 0 .. L - 1
  BY <1>1 DEF FileDirs
<1> HIDE DEF N, F, L
<1>3. CASE p.hash_to_dir
  <2>1. DirRange(p) = 0 .. N
    BY <1>3 DEF DirRange, N
  <2>2. ASSUME NamesInRange(p) PROVE L <= F
    <3>0. N \in DirRange(p)
      BY <1>1, <2>1
    <3>1. N + (L - 1) \in NamedFiles(p)
      BY <1>2, <3>0 DEF NamedFiles, L
    <3> QED
      BY <1>1, <1>2, <2>2, <3>1 DEF NamesInRange
  <2>3. ASSUME L <= F, NEW j \in DirRange(p), NEW k \in 0 .. L - 1
        PROVE  j + k \in 0 .. M
    BY <1>1, <2>1, <2>3
  <2> QED
    BY <1>1, <1>2, <1>3, <2>2, <2>3 DEF NamesInRange, NamedFiles, F, L
<1>4. CASE ~p.hash_to_dir
  <2> DEFINE r == (N - 1) % F
             q == (N - 1) \div F
             last == F * (q + 1)
  <2>1. q \in Nat /\ r \in 0 .. F - 1 /\ N - 1 = F * q + r
    <3>1. N - 1 \in Nat
      BY <1>1
    <3> QED
      BY <1>1, <3>1, DivModType
  <2> HIDE DEF q, r
  <2>2. M = F * (q + 1) + r
    <3>1. F * (q + 1) = F * q + F
      BY <1>1, <2>1
    <3>2. F * q \in Nat
      BY <1>1, <2>1
    <3> QED
      BY <1>1, <2>1, <3>1, <3>2
  <2>3. last \in Nat /\ M = last + r
    BY <1>1, <2>1, <2>2
  <2>4. last % F = 0
    <3>1. q + 1 \in Nat /\ 0 \in 0 .. F - 1 /\ last = F * (q + 1) + 0
      BY <1>1, <2>1, <2>3
    <3> QED
      BY <1>1, <2>3, <3>1, DivModUnique
  <2>5. last \in DirRange(p)
    BY <1>1, <1>4, <2>1, <2>3, <2>4 DEF DirRange, N, F
  <2>6. ASSUME NEW j \in DirRange(p) PROVE j \in Nat /\ j <= last
    <3>1. j \in 0 .. M /\ j % F = 0
      BY <1>4, <2>6 DEF DirRange, N, F
    <3> DEFINE d == j \div F
    <3>2. d \in Nat /\ j = F * d
      <4>1. j \in Nat
        BY <3>1
      <4> HIDE DEF last
      <4>2. d \in Nat /\ j % F \in 0 .. F - 1 /\ j = F * d + (j % F)
        BY <1>1, <4>1, DivModType
      <4> HIDE DEF d
      <4> QED
        BY <1>1, <3>1, <4>2
    <3> HIDE DEF d
    <3>3. ~(q + 1 < d)
      <4>1. ASSUME q + 1 < d PROVE F * (q + 1) + F <= F * d
        BY <1>1, <2>1, <3>2, <4>1, Multiples
      <4> QED
        BY <1>1, <2>1, <2>3, <3>1, <3>2, <4>1
    <3>4. CASE d = q + 1
      BY <3>1, <3>2, <3>4
    <3>5. CASE d < q + 1
      BY <1>1, <2>1, <2>3, <3>1, <3>2, <3>5, Multiples
    <3> QED
      BY <2>1, <3>2, <3>3, <3>4, <3>5
  <2> HIDE DEF last
  <2>7. ASSUME NamesInRange(p) PROVE L <= 1 + r
    <3>1. last + (L - 1) \in NamedFiles(p)
      BY <1>2, <2>5 DEF NamedFiles, L
    <3> QED
      BY <1>1, <1>2, <2>1, <2>3, <2>7, <3>1 DEF NamesInRange
  <2>8. ASSUME L <= 1 + r, NEW j \in DirRange(p), NEW k \in 0 .. L - 1
        PROVE  j + k \in 0 .. M
    <3>1. j \in Nat /\ j <= last /\ k \in Nat /\ k <= L - 1
      BY <1>1, <2>6, <2>8
    <3> HIDE DEF M
    <3> QED
      BY <1>1, <1>2, <2>1, <2>3, <2>8, <3>1
  <2>9. NamesInRange(p) <=> L <= 1 + r
    BY <1>2, <2>7, <2>8 DEF NamesInRange, NamedFiles, L
  <2> QED
    BY <1>4, <2>9 DEF r, N, F, L
<1> QED
  BY <1>1, <1>3, <1>4

\* For any number of files, files in a directory and top directories, the
\* directory of every file is made, unless a name outside the list is asked for;
\* and when that happens.
THEOREM DirectoriesAreMade == Spec => []DirsMade
<1>1. InputKept => DirsMade
  BY FileDirNamed, RangeRule DEF InputKept, DirsMade
<1> QED
  BY <1>1, InputInit, InputNext, PTL DEF Spec

-----------------------------------------------------------------------------
\* The loops of the names.

LEMMA NameInputType ==
  ASSUME NEW p \in NameInputs
  PROVE  /\ p.iterations \in Nat \ {0} /\ p.files_per_dir \in Nat \ {0}
         /\ p.dirs_per_dir \in Nat \ {0} /\ p.tops \in Nat \ {0}
         /\ p.hash_to_dir \in BOOLEAN
         /\ \A f \in FileDirs(p) : f \in Nat
BY AlgorithmsAssumption DEF FileDirs

LEMMA HashedNumberType ==
  ASSUME NEW p \in NameInputs, NEW f \in Nat
  PROVE  /\ f * some_prime \in Nat
         /\ (f * some_prime) % p.iterations \in 0 .. p.iterations - 1
         /\ HashedNumber(p, f) \in Nat
<1> DEFINE a == f * some_prime
           r == a % p.iterations
<1>1. a \in Nat
  BY DirNamesAssumption
<1> HIDE DEF a
<1>2. r \in 0 .. p.iterations - 1 /\ p.iterations \in Nat \ {0}
  BY <1>1, NameInputType, DivModType
<1>3. r \in Nat
  BY <1>2
<1> HIDE DEF r
<1>4. r \div p.files_per_dir \in Nat
  BY <1>3, NameInputType, DivModType
<1> QED
  BY <1>1, <1>2, <1>4 DEF HashedNumber, r, a

\* With two directories in a directory both loops end.
LEMMA LoopsEnd ==
  ASSUME NEW p \in NameInputs, p.dirs_per_dir # 1, NEW f \in Nat
  PROVE  Terminates(p, f)
<1> DEFINE w == Power(p.dirs_per_dir)
<1>1. \A k \in Nat : w[k] \in Nat \ {0} /\ w[k] > k
  BY NameInputType, PowerGrows
<1> HIDE DEF w
<1>2. ASSUME NEW n \in Nat PROVE NamingEnds(p, n)
  <2>1. n + 1 \in 1 .. n + 1 /\ w[n + 1] > n
    BY <1>1
  <2> QED
    BY <2>1 DEF NamingEnds, w
<1>3. ASSUME NEW n \in Nat PROVE HashingEnds(p, n)
  <2>1. n \in 0 .. n /\ n \div w[n] = 0
    <3>1. w[n] \in Nat \ {0} /\ n \in 0 .. w[n] - 1 /\ n = w[n] * 0 + n
      BY <1>1
    <3> QED
      BY <3>1, DivModUnique
  <2> QED
    BY <2>1 DEF HashingEnds, RoundsLeft, w
<1>4. DirNumber(p, f) \in Nat /\ HashedNumber(p, f) \in Nat
  BY NameInputType, DirNumberType, HashedNumberType
<1> QED
  BY <1>2, <1>3, <1>4 DEF Terminates

\* With one, only for the root, and for directory number 1 of a hash.
LEMMA LoopsEndAtRoot ==
  ASSUME NEW p \in NameInputs, p.dirs_per_dir = 1, NEW f \in Nat
  PROVE  Terminates(p, f) <=>
           IF p.hash_to_dir THEN HashedNumber(p, f) <= 1 ELSE DirNumber(p, f) = 0
<1> DEFINE w == Power(p.dirs_per_dir)
<1>1. \A k \in Nat : w[k] = 1
  BY PowerGrows
<1> HIDE DEF w
<1>2. DirNumber(p, f) \in Nat /\ HashedNumber(p, f) \in Nat
  BY NameInputType, DirNumberType, HashedNumberType
<1>3. ASSUME NEW n \in Nat PROVE NamingEnds(p, n) <=> n = 0
  <2>1. NamingEnds(p, n) <=> \E k \in 1 .. n + 1 : w[k] > n
    BY DEF NamingEnds, w
  <2>2. \A k \in 1 .. n + 1 : w[k] = 1
    BY <1>1
  <2>3. 1 \in 1 .. n + 1
    OBVIOUS
  <2> QED
    BY <2>1, <2>2, <2>3
<1>4. ASSUME NEW n \in Nat PROVE HashingEnds(p, n) <=> n <= 1
  <2>1. HashingEnds(p, n) <=> \E k \in 0 .. n : n \div w[k] <= 1
    BY DEF HashingEnds, RoundsLeft, w
  <2>2. \A k \in 0 .. n : n \div w[k] = n
    BY <1>1
  <2>3. 0 \in 0 .. n
    OBVIOUS
  <2> QED
    BY <2>1, <2>2, <2>3
<1> QED
  BY <1>2, <1>3, <1>4 DEF Terminates

\* If the prime does not divide the number of files then one of them has the
\* highest remainder.
LEMMA HashReachesAll ==
  ASSUME NEW b \in Nat \ {0}, b % some_prime # 0
  PROVE  \E f \in 0 .. b - 1 : (f * some_prime) % b = b - 1
<1> DEFINE S == 0 .. b - 1
           h == [f \in S |-> (f * some_prime) % b]
<1>1. some_prime \in Nat
  BY DirNamesAssumption
<1>2. \A f \in S : h[f] \in S
  <2>1. \A f \in S : f * some_prime \in Nat
    BY <1>1
  <2>2. \A a \in Nat : a % b \in S
    BY DivModType
  <2> QED
    BY <2>1, <2>2
<1>3. ASSUME NEW f \in S, NEW g \in S, h[f] = h[g] PROVE f = g
  <2>1. f \in Nat /\ g \in Nat /\ (f * some_prime) % b = (g * some_prime) % b
        /\ f < g + b /\ g < f + b
    BY <1>3
  <2>2. CASE f <= g
    BY <2>1, <2>2, HashInjective
  <2>3. CASE g <= f
    BY <2>1, <2>3, HashInjective
  <2> QED
    BY <2>1, <2>2, <2>3
<1>4. h \in [S -> S]
  BY <1>2
<1>5. IsFiniteSet(S) /\ b - 1 \in S
  BY FS_Interval
<1> HIDE DEF h, S
<1>6. h \in Injection(S, S)
  BY <1>3, <1>4 DEF Injection, IsInjective
<1>7. h \in Surjection(S, S)
  BY <1>5, <1>6, FS_Injection
<1>8. PICK f \in S : h[f] = b - 1
  BY <1>5, <1>7 DEF Surjection
<1> QED
  BY <1>8 DEF h, S

\* When all names of hashed files end with one directory in a directory.
LEMMA HashedIntoRoot ==
  ASSUME NEW p \in NameInputs
  PROVE  (\A f \in FileDirs(p) : HashedNumber(p, f) <= 1) <=>
           p.iterations <= 2 * p.files_per_dir
             + (IF p.iterations % some_prime = 0 THEN some_prime - 1 ELSE 0)
<1> DEFINE b == p.iterations
           F == p.files_per_dir
           r(f) == (f * some_prime) % b
<1>1. /\ b \in Nat \ {0} /\ F \in Nat \ {0} /\ some_prime \in Nat \ {0, 1}
      /\ FileDirs(p) = 0 .. b + F - 1
  BY NameInputType, DirNamesAssumption DEF FileDirs
<1>2. \A f \in Nat : r(f) \in 0 .. b - 1 /\ f * some_prime \in Nat
  BY HashedNumberType
<1>3. \A f \in Nat : HashedNumber(p, f) = r(f) \div F
  BY DEF HashedNumber
<1> HIDE DEF b, F
<1>4. ASSUME NEW f \in Nat PROVE HashedNumber(p, f) <= 1 <=> r(f) < 2 * F
  <2> DEFINE x == r(f)
             q == x \div F
  <2>1. x \in Nat
    BY <1>1, <1>2
  <2> HIDE DEF x
  <2>2. q \in Nat /\ x % F \in 0 .. F - 1 /\ x = F * q + (x % F)
    BY <1>1, <2>1, DivModType
  <2>3. HashedNumber(p, f) = q
    BY <1>3 DEF x
  <2> HIDE DEF q
  <2>4. q = 0 => x < F
    BY <1>1, <2>1, <2>2
  <2>5. q = 1 => x < 2 * F
    BY <1>1, <2>1, <2>2
  <2>6. q > 1 => x >= 2 * F
    <3>1. q > 1 => F * 1 + F <= F * q
      BY <1>1, <2>2, Multiples
    <3>2. F * q \in Nat
      BY <1>1, <2>2
    <3> QED
      BY <1>1, <2>2, <3>1, <3>2
  <2> QED
    BY <1>1, <2>1, <2>2, <2>3, <2>4, <2>5, <2>6 DEF x
<1> HIDE DEF r
<1>5. CASE b % some_prime # 0
  <2>1. PICK f \in 0 .. b - 1 : r(f) = b - 1
    BY <1>1, <1>5, HashReachesAll DEF r
  <2>2. f \in FileDirs(p) /\ f \in Nat
    BY <1>1
  <2>3. (\A g \in FileDirs(p) : HashedNumber(p, g) <= 1) => b <= 2 * F
    BY <1>1, <1>4, <2>1, <2>2
  <2>4. b <= 2 * F => \A g \in FileDirs(p) : HashedNumber(p, g) <= 1
    <3>1. ASSUME b <= 2 * F, NEW g \in FileDirs(p) PROVE HashedNumber(p, g) <= 1
      <4>1. g \in Nat /\ r(g) < 2 * F
        BY <1>1, <1>2, <3>1
      <4> QED
        BY <1>4, <4>1
    <3> QED
      BY <3>1
  <2> QED
    BY <1>1, <1>5, <2>3, <2>4 DEF b, F
<1>6. CASE b % some_prime = 0
  <2> DEFINE m == b \div some_prime
  <2>1. m \in Nat /\ b = some_prime * m
    <3>1. m \in Nat /\ b = some_prime * m + (b % some_prime)
      BY <1>1, DivModType
    <3> HIDE DEF m
    <3>2. some_prime * m \in Nat
      BY <1>1, <3>1
    <3> QED
      BY <1>6, <3>1, <3>2
  <2> HIDE DEF m
  <2>2. m - 1 \in Nat /\ some_prime * (m - 1) = b - some_prime
        /\ some_prime * (m - 1) \in Nat
    <3>1. m # 0
      BY <1>1, <2>1
    <3>2. m - 1 \in Nat
      BY <2>1, <3>1
    <3> QED
      BY <1>1, <2>1, <3>2
  <2>3. r(m - 1) = b - some_prime
    <3> DEFINE a == (m - 1) * some_prime
    <3>1. a = b - some_prime /\ a \in Nat
      BY <1>1, <2>1, <2>2
    <3> HIDE DEF a
    <3>2. a \in 0 .. b - 1 /\ a = b * 0 + a
      BY <1>1, <3>1
    <3>3. a % b = a
      BY <1>1, <3>1, <3>2, DivModUnique
    <3> QED
      BY <3>1, <3>3 DEF r, a
  <2>4. m - 1 \in FileDirs(p)
    <3>1. m <= b
      <4>1. some_prime - 1 \in Nat /\ b = m + (some_prime - 1) * m
            /\ (some_prime - 1) * m >= 0
        BY <1>1, <2>1
      <4> QED
        BY <2>1, <4>1
    <3> QED
      BY <1>1, <2>2, <3>1
  <2>5. ASSUME NEW g \in Nat PROVE r(g) <= b - some_prime
    <3> DEFINE a == g * some_prime
               q == a \div b
               x == g - m * q
    <3>1. a \in Nat
      BY <1>2
    <3>2. q \in Nat /\ r(g) = a % b /\ r(g) \in 0 .. b - 1 /\ a = b * q + (a % b)
      <4> HIDE DEF a
      <4>1. q \in Nat /\ a % b \in 0 .. b - 1 /\ a = b * q + (a % b)
        BY <1>1, <3>1, DivModType
      <4> QED
        BY <1>2, <4>1 DEF r, a
    <3>3. r(g) = some_prime * x /\ x \in Int
      <4> HIDE DEF q
      <4>1. m * q \in Nat /\ b * q = some_prime * (m * q)
        BY <1>1, <2>1, <3>2
      <4> DEFINE z == m * q
      <4>2. some_prime * (g - z) = some_prime * g - some_prime * z /\ z \in Nat
        BY <1>1, <4>1
      <4>3. some_prime * z \in Int /\ b * q \in Int /\ b * q = some_prime * z
        BY <1>1, <4>1
      <4> HIDE DEF z
      <4>4. a = some_prime * g
        BY <1>1
      <4> HIDE DEF a
      <4>5. r(g) = some_prime * g - some_prime * z
        BY <1>1, <3>1, <3>2, <4>3, <4>4
      <4> QED
        BY <4>2, <4>5 DEF z
    <3> HIDE DEF a, q, x
    <3>4. ~(m - 1 < x)
      <4>1. m - 1 < x => some_prime * (m - 1) + some_prime <= some_prime * x
        BY <1>1, <2>2, <3>3, Multiples
      <4> QED
        BY <1>1, <2>2, <3>2, <3>3, <4>1
    <3>5. x < m - 1 => some_prime * x + some_prime <= some_prime * (m - 1)
      BY <1>1, <2>2, <3>3, Multiples
    <3>6. CASE x = m - 1
      BY <2>2, <3>3, <3>6
    <3>7. CASE x < m - 1
      BY <1>1, <2>2, <3>3, <3>5, <3>7
    <3> QED
      BY <2>2, <3>3, <3>4, <3>6, <3>7
  <2>6. (\A g \in FileDirs(p) : HashedNumber(p, g) <= 1) <=> b - some_prime < 2 * F
    <3>1. ASSUME b - some_prime < 2 * F, NEW g \in FileDirs(p)
          PROVE  HashedNumber(p, g) <= 1
      <4>1. g \in Nat
        BY <1>1
      <4>2. r(g) < 2 * F
        BY <1>1, <1>2, <2>5, <3>1, <4>1
      <4> QED
        BY <1>4, <4>1, <4>2
    <3>2. HashedNumber(p, m - 1) <= 1 => b - some_prime < 2 * F
      BY <1>4, <2>2, <2>3
    <3> QED
      BY <2>4, <3>1, <3>2
  <2> QED
    BY <1>1, <1>6, <2>6 DEF b, F
<1> QED
  BY <1>5, <1>6

LEMMA NamingRule ==
  ASSUME NEW p \in NameInputs
  PROVE  Named(p) <=>
           \/ p.dirs_per_dir > 1
           \/ /\ p.hash_to_dir
              /\ p.iterations <= 2 * p.files_per_dir
                   + (IF p.iterations % some_prime = 0 THEN some_prime - 1 ELSE 0)
<1> USE NameInputType
<1>1. CASE p.dirs_per_dir > 1
  <2>1. p.dirs_per_dir # 1
    BY <1>1
  <2> QED
    BY <1>1, <2>1, LoopsEnd DEF Named
<1>2. CASE ~(p.dirs_per_dir > 1)
  <2>1. p.dirs_per_dir = 1
    BY <1>2
  <2>2. CASE p.hash_to_dir
    BY <1>2, <2>1, <2>2, LoopsEndAtRoot, HashedIntoRoot DEF Named
  <2>3. CASE ~p.hash_to_dir
    <3> DEFINE F == p.files_per_dir
    <3>1. F \in FileDirs(p) /\ F \in Nat
      BY DEF FileDirs
    <3>2. F \div F = 1
      <4>1. F = F * 1 + 0 /\ 0 \in 0 .. F - 1
        OBVIOUS
      <4> QED
        BY <3>1, <4>1, DivModUnique
    <3>3. ~Terminates(p, F)
      BY <2>1, <2>3, <3>1, <3>2, LoopsEndAtRoot DEF DirNumber
    <3> QED
      BY <1>2, <2>3, <3>1, <3>3 DEF Named
  <2> QED
    BY <2>2, <2>3
<1> QED
  BY <1>1, <1>2

\* For which options the names of all files are computed in finite time.
THEOREM NamesTerminate == Spec => []NamingTerminates
<1>1. InputKept => NamingTerminates
  BY NamingRule DEF InputKept, NamingTerminates
<1> QED
  BY <1>1, InputInit, InputNext, PTL DEF Spec

-----------------------------------------------------------------------------
\* How many files and directories a directory gets.

LEMMA AtMost ==
  ASSUME NEW S, NEW h, DOMAIN h = S, NEW a \in Nat, NEW n \in Nat,
         \A x \in S : h[x] \in a .. a + n - 1,
         \A x, y \in S : h[x] = h[y] => x = y,
         h = [x \in S |-> h[x]]
  PROVE  IsFiniteSet(S) /\ Cardinality(S) <= n
<1> DEFINE T == a .. a + n - 1
<1>1. IsFiniteSet(T) /\ Cardinality(T) = n
  <2>1. a \in Int /\ a + n - 1 \in Int
    OBVIOUS
  <2> QED
    BY <2>1, FS_Interval
<1> HIDE DEF T
<1>2. h \in Injection(S, T)
  <2>1. h \in [S -> T]
    BY DEF T
  <2> QED
    BY <2>1 DEF Injection, IsInjective
<1> QED
  BY <1>1, <1>2, FS_Injection

\* The numbers whose quotient is n are files_per_dir.
LEMMA QuotientInterval ==
  ASSUME NEW F \in Nat \ {0}, NEW x \in Nat, NEW n \in Nat, x \div F = n
  PROVE  F * n \in Nat /\ x \in F * n .. F * n + F - 1
<1>1. x = F * n + (x % F) /\ x % F \in 0 .. F - 1
  BY DivModType
<1>2. F * n \in Nat
  OBVIOUS
<1> QED
  BY <1>1, <1>2

LEMMA SeqDirCapacity ==
  ASSUME NEW p \in NameInputs, ~p.hash_to_dir, p.dirs_per_dir > 1,
         NEW f \in FileNums(p)
  PROVE  Cardinality({g \in FileNums(p) : DirName(p, g) = DirName(p, f)}) <= p.files_per_dir
<1> USE NameInputType
<1> DEFINE F == p.files_per_dir
           n == DirNumber(p, f)
           S == {g \in FileNums(p) : DirName(p, g) = DirName(p, f)}
           h == [g \in S |-> g]
<1>1. n \in Nat /\ F \in Nat \ {0} /\ f \in Nat
  BY DirNumberType DEF FileNums
<1>2. ASSUME NEW g \in S PROVE g \in Nat /\ DirNumber(p, g) = n
  <2>1. g \in Nat /\ SeqDir(p, g) = SeqDir(p, f)
    BY DEF FileNums, DirName
  <2>2. p.dirs_per_dir \in Nat \ {0, 1}
    OBVIOUS
  <2> QED
    BY <1>1, <2>1, <2>2, SeqDirInjective
<1>3. ASSUME NEW g \in S PROVE g \in F * n .. F * n + F - 1
  BY <1>1, <1>2, QuotientInterval DEF DirNumber
<1>4. F * n \in Nat
  BY <1>1
<1> HIDE DEF F, n, S
<1>5. Cardinality(S) <= F
  <2>1. /\ DOMAIN h = S /\ \A g \in S : h[g] \in F * n .. F * n + F - 1
        /\ \A x, y \in S : h[x] = h[y] => x = y
        /\ h = [g \in S |-> h[g]]
    BY <1>3
  <2>2. F \in Nat
    BY <1>1
  <2> HIDE DEF h
  <2> DEFINE a == F * n
  <2>3. a \in Nat /\ \A g \in S : h[g] \in a .. a + F - 1
    BY <1>4, <2>1
  <2> HIDE DEF a
  <2> QED
    BY <2>1, <2>2, <2>3, AtMost
<1> QED
  BY <1>5 DEF S, F

\* One hashed number is that of at most files_per_dir files.
LEMMA HashedNumberCapacity ==
  ASSUME NEW p \in NameInputs, Hashes(p), NEW n \in Nat
  PROVE  LET S == {g \in FileNums(p) : HashedNumber(p, g) = n}
         IN IsFiniteSet(S) /\ Cardinality(S) <= p.files_per_dir
<1> USE NameInputType
<1> DEFINE F == p.files_per_dir
           b == p.iterations
           S == {g \in FileNums(p) : HashedNumber(p, g) = n}
           r(g) == (g * some_prime) % b
           h == [g \in S |-> r(g)]
           a == F * n
<1>1. some_prime \in Nat /\ b \in Nat \ {0} /\ F \in Nat \ {0} /\ b % some_prime # 0
  BY DirNamesAssumption DEF Hashes
<1>2. ASSUME NEW g \in S PROVE g \in 1 .. b /\ r(g) \in a .. a + F - 1
  <2>1. g \in 1 .. b /\ r(g) \div F = n
    BY DEF FileNums, HashedNumber
  <2>2. g * some_prime \in Nat
    BY <1>1, <2>1
  <2>3. r(g) \in Nat
    <3>1. g \in Nat
      BY <2>1
    <3>2. r(g) \in 0 .. b - 1
      BY <3>1, HashedNumberType
    <3> QED
      BY <3>2
  <2> QED
    BY <1>1, <2>1, <2>3, QuotientInterval
<1>3. a \in Nat
  BY <1>1
<1> HIDE DEF F, b, S, a
<1>4. ASSUME NEW x \in S, NEW y \in S, r(x) = r(y) PROVE x = y
  <2>1. x \in 1 .. b /\ y \in 1 .. b
    BY <1>2
  <2>2. CASE x <= y
    <3>1. x \in Nat /\ y \in Nat /\ y < x + b
      BY <1>1, <2>1
    <3> QED
      BY <1>1, <1>4, <2>2, <3>1, HashInjective
  <2>3. CASE y <= x
    <3>1. x \in Nat /\ y \in Nat /\ x < y + b
      BY <1>1, <2>1
    <3> QED
      BY <1>1, <1>4, <2>3, <3>1, HashInjective
  <2> QED
    BY <2>1, <2>2, <2>3
<1> HIDE DEF r
<1>5. /\ DOMAIN h = S /\ \A g \in S : h[g] \in a .. a + F - 1
      /\ \A x, y \in S : h[x] = h[y] => x = y
      /\ h = [g \in S |-> h[g]]
  BY <1>2, <1>4
<1> HIDE DEF h
<1>6. F \in Nat
  BY <1>1
<1>7. IsFiniteSet(S) /\ Cardinality(S) <= F
  BY <1>3, <1>5, <1>6, AtMost
<1> QED
  BY <1>7 DEF S, F

LEMMA HashedDirCapacity ==
  ASSUME NEW p \in NameInputs, p.hash_to_dir, Hashes(p), Named(p), NEW f \in FileNums(p)
  PROVE  Cardinality({g \in FileNums(p) : DirName(p, g) = DirName(p, f)})
           <= 2 * p.files_per_dir
<1> USE NameInputType
<1> DEFINE S == {g \in FileNums(p) : DirName(p, g) = DirName(p, f)}
           d == p.dirs_per_dir
           path == HashedDir(p, f)
           n == HashedNumber(p, f)
           v == Power(d)[Len(path)]
           one == n % v
           two == v + (n % v)
           A == {g \in FileNums(p) : HashedNumber(p, g) = one}
           B == {g \in FileNums(p) : HashedNumber(p, g) = two}
<1>1. ASSUME NEW g \in FileNums(p)
      PROVE  /\ HashedNumber(p, g) \in Nat
             /\ HashedDir(p, g) \in Seq(0 .. d - 1)
             /\ HashedNumber(p, g) \div Power(d)[Len(HashedDir(p, g))] \in {0, 1}
             /\ \A i \in 1 .. Len(HashedDir(p, g)) :
                  HashedDir(p, g)[i]
                    = ((HashedNumber(p, g) \div Power(d)[Len(HashedDir(p, g)) - i])
                         * some_prime) % d
  <2>1. g \in Nat /\ g \in FileDirs(p)
    BY DEF FileNums, FileDirs
  <2>2. HashedNumber(p, g) \in Nat
    BY <2>1, HashedNumberType
  <2>3. HashingEnds(p, HashedNumber(p, g))
    BY <2>1 DEF Named, Terminates
  <2> QED
    BY <2>1, <2>2, <2>3, HashedDirType
<1>2. Len(path) \in Nat /\ n \in Nat
  <2>1. path \in Seq(0 .. d - 1) /\ n \in Nat
    BY <1>1
  <2> QED
    BY <2>1
<1>3. one \in Nat /\ two \in Nat
  <2>1. v \in Nat \ {0}
    BY <1>2, PowerGrows
  <2> HIDE DEF v, n
  <2>2. n % v \in Nat
    BY <1>2, <2>1, DivModType
  <2> QED
    BY <2>1, <2>2
<1>4. ASSUME NEW g \in S PROVE HashedNumber(p, g) \in {one, two}
  <2> DEFINE m == HashedNumber(p, g)
  <2>1. g \in FileNums(p) /\ HashedDir(p, g) = path
    BY DEF DirName
  <2>2. /\ n \div Power(d)[Len(path)] \in {0, 1}
        /\ \A i \in 1 .. Len(path) :
             path[i] = ((n \div Power(d)[Len(path) - i]) * some_prime) % d
    BY <1>1
  <2>3. /\ m \in Nat
        /\ m \div Power(d)[Len(path)] \in {0, 1}
        /\ \A i \in 1 .. Len(path) :
             path[i] = ((m \div Power(d)[Len(path) - i]) * some_prime) % d
    BY <1>1, <2>1
  <2>4. \A i \in 1 .. Len(path) :
             ((n \div Power(d)[Len(path) - i]) * some_prime) % d
                = ((m \div Power(d)[Len(path) - i]) * some_prime) % d
    <3> HIDE DEF n, m, path, d
    <3> QED
      BY <2>2, <2>3
  <2>5. d % some_prime # 0
    BY DEF Hashes
  <2> HIDE DEF n, m, path
  <2>6. m \in {one, two}
    BY <1>2, <2>2, <2>3, <2>4, <2>5, HashedDirTwice
  <2> QED
    BY <2>6 DEF m
<1> HIDE DEF one, two
<1>5. S \in SUBSET (A \cup B)
  BY <1>4
<1>6. /\ IsFiniteSet(A) /\ Cardinality(A) <= p.files_per_dir
      /\ IsFiniteSet(B) /\ Cardinality(B) <= p.files_per_dir
  BY <1>3, HashedNumberCapacity
<1> HIDE DEF A, B, S
<1>7. /\ IsFiniteSet(A \cup B)
      /\ Cardinality(A \cup B) = Cardinality(A) + Cardinality(B) - Cardinality(A \cap B)
  BY <1>6, FS_Union
<1>8. IsFiniteSet(A \cap B)
  <2>1. A \cap B \in SUBSET A
    OBVIOUS
  <2> QED
    BY <1>6, <2>1, FS_Subset
<1>9. Cardinality(A) \in Nat /\ Cardinality(B) \in Nat /\ Cardinality(A \cap B) \in Nat
  BY <1>6, <1>8, FS_CardinalityType
<1>10. IsFiniteSet(S) /\ Cardinality(S) <= Cardinality(A \cup B)
  BY <1>5, <1>7, FS_Subset
<1>11. Cardinality(S) \in Nat
  BY <1>10, FS_CardinalityType
<1>12. Cardinality(S) <= 2 * p.files_per_dir
  BY <1>6, <1>7, <1>9, <1>10, <1>11
<1> QED
  BY <1>12 DEF S

\* The directories below a directory differ in their last part.
LEMMA SubCapacity ==
  ASSUME NEW d \in Nat \ {0}, NEW all \in SUBSET Seq(0 .. d - 1), NEW path \in all
  PROVE  Cardinality({q \in all : Len(q) = Len(path) + 1 /\ Front(q) = path}) <= d
<1> DEFINE S == {q \in all : Len(q) = Len(path) + 1 /\ Front(q) = path}
           l == Len(path)
           h == [q \in S |-> q[l + 1]]
<1>1. path \in Seq(0 .. d - 1) /\ l \in Nat
  <2>1. path \in Seq(0 .. d - 1)
    OBVIOUS
  <2> QED
    BY <2>1
<1>2. ASSUME NEW q \in S
      PROVE  /\ q \in Seq(0 .. d - 1) /\ Len(q) = l + 1
             /\ \A i \in 1 .. l : q[i] = path[i]
             /\ q[l + 1] \in 0 .. 0 + d - 1
  <2>1. q \in Seq(0 .. d - 1) /\ Len(q) = l + 1 /\ SubSeq(q, 1, l) = path
    <3>1. l + 1 - 1 = l
      BY <1>1
    <3> QED
      BY <3>1 DEF Front
  <2> HIDE DEF l, S
  <2>2. \A i \in 1 .. l : q[i] = path[i]
    BY <1>1, <2>1
  <2>3. q[l + 1] \in 0 .. d - 1
    BY <1>1, <2>1
  <2> QED
    BY <2>1, <2>2, <2>3
<1> HIDE DEF S, l
<1>3. ASSUME NEW x \in S, NEW y \in S, x[l + 1] = y[l + 1] PROVE x = y
  <2>1. /\ x \in Seq(0 .. d - 1) /\ y \in Seq(0 .. d - 1) /\ Len(x) = Len(y)
        /\ Len(x) = l + 1
        /\ \A i \in 1 .. l : x[i] = y[i]
    BY <1>2
  <2>2. ASSUME NEW i \in 1 .. l + 1 PROVE x[i] = y[i]
    <3>1. i \in 1 .. l \/ i = l + 1
      BY <1>1
    <3> QED
      BY <1>3, <2>1, <3>1
  <2>3. \A z \in Seq(0 .. d - 1) : z = [i \in 1 .. Len(z) |-> z[i]]
    OBVIOUS
  <2> QED
    BY <2>1, <2>2, <2>3
<1>4. /\ DOMAIN h = S /\ \A q \in S : h[q] \in 0 .. 0 + d - 1
      /\ \A x, y \in S : h[x] = h[y] => x = y
      /\ h = [q \in S |-> h[q]]
  BY <1>2, <1>3
<1> HIDE DEF h
<1>5. Cardinality(S) <= d
  <2> DEFINE a == 0
  <2>1. a \in Nat /\ d \in Nat /\ \A q \in S : h[q] \in a .. a + d - 1
    BY <1>4
  <2> HIDE DEF a
  <2> QED
    BY <1>4, <2>1, AtMost
<1> QED
  BY <1>5 DEF S, l

LEMMA CapacityRule ==
  ASSUME NEW p \in NameInputs, Named(p), p.hash_to_dir => Hashes(p)
  PROVE  LET paths == {DirName(p, f) : f \in FileNums(p)}
             inside(path) == {f \in FileNums(p) : DirName(p, f) = path}
             all == UNION {{SubSeq(path, 1, i) : i \in 0 .. Len(path)} : path \in paths}
             sub(path) == {q \in all : Len(q) = Len(path) + 1 /\ Front(q) = path}
         IN /\ \A path \in paths :
                 Cardinality(inside(path)) <=
                   (IF p.hash_to_dir THEN 2 ELSE 1) * p.files_per_dir
            /\ \A path \in all : Cardinality(sub(path)) <= p.dirs_per_dir
<1> USE NameInputType
<1> DEFINE paths == {DirName(p, f) : f \in FileNums(p)}
           inside(path) == {f \in FileNums(p) : DirName(p, f) = path}
           all == UNION {{SubSeq(path, 1, i) : i \in 0 .. Len(path)} : path \in paths}
           sub(path) == {q \in all : Len(q) = Len(path) + 1 /\ Front(q) = path}
           d == p.dirs_per_dir
<1>1. ~p.hash_to_dir => p.dirs_per_dir > 1
  BY NamingRule
<1>2. ASSUME NEW f \in FileNums(p)
      PROVE  /\ DirName(p, f) \in Seq(0 .. d - 1)
             /\ Cardinality(inside(DirName(p, f)))
                  <= (IF p.hash_to_dir THEN 2 ELSE 1) * p.files_per_dir
  <2>1. f \in Nat /\ f \in FileDirs(p)
    BY DEF FileNums, FileDirs
  <2>2. CASE p.hash_to_dir
    <3>1. HashedNumber(p, f) \in Nat
      BY <2>1, HashedNumberType
    <3>2. HashingEnds(p, HashedNumber(p, f))
      BY <2>1, <2>2 DEF Named, Terminates
    <3>3. HashedDir(p, f) \in Seq(0 .. d - 1)
      BY <2>1, <3>1, <3>2, HashedDirType
    <3>4. Cardinality(inside(DirName(p, f))) <= 2 * p.files_per_dir
      BY <2>2, HashedDirCapacity
    <3> QED
      BY <2>2, <3>3, <3>4 DEF DirName
  <2>3. CASE ~p.hash_to_dir
    <3>1. p.dirs_per_dir \in Nat \ {0, 1}
      BY <1>1, <2>3
    <3>2. SeqDir(p, f) \in Seq(0 .. d - 1)
      BY <2>1, <3>1, SeqDirType
    <3>3. Cardinality(inside(DirName(p, f))) <= p.files_per_dir
      BY <1>1, <2>3, SeqDirCapacity
    <3>4. 1 * p.files_per_dir = p.files_per_dir
      OBVIOUS
    <3> QED
      BY <2>3, <3>2, <3>3, <3>4 DEF DirName
  <2> QED
    BY <2>2, <2>3
<1>3. ASSUME NEW path \in all PROVE Cardinality(sub(path)) <= d
  <2>1. all \in SUBSET Seq(0 .. d - 1)
    <3>1. ASSUME NEW whole \in paths, NEW i \in 0 .. Len(whole)
          PROVE  SubSeq(whole, 1, i) \in Seq(0 .. d - 1)
      <4>1. whole \in Seq(0 .. d - 1)
        BY <1>2
      <4> QED
        BY <4>1
    <3> QED
      BY <3>1
  <2> HIDE DEF all
  <2> QED
    BY <2>1, SubCapacity
<1> QED
  BY <1>2, <1>3

\* No directory gets more files and directories than the options say.
THEOREM DirectoriesHoldWhatTheyMay == Spec => []DirCapacity
<1>1. InputKept => DirCapacity
  BY CapacityRule DEF InputKept, DirCapacity
<1> QED
  BY <1>1, InputInit, InputNext, PTL DEF Spec

-----------------------------------------------------------------------------
\* The starting gate.

LEMMA SquareGrows ==
  ASSUME NEW a \in Nat, NEW b \in Nat
  PROVE  /\ a * a \in Nat /\ a <= a * a
         /\ a <= b => a * a <= b * b
         /\ a * a < b * b => a < b
<1>1. ASSUME NEW x \in Nat, NEW y \in Nat, x <= y PROVE x * x <= y * y
  <2>1. x * (y - x) >= 0 /\ y * (y - x) >= 0
    BY <1>1
  <2>2. x * (y - x) = x * y - x * x /\ y * (y - x) = y * y - y * x /\ x * y = y * x
    BY <1>1
  <2>3. x * x \in Nat /\ y * y \in Nat /\ x * y \in Nat
    BY <1>1
  <2> QED
    BY <2>1, <2>2, <2>3
<1>2. a * a \in Nat /\ b * b \in Nat
  OBVIOUS
<1>3. a <= a * a
  <2>1. CASE a = 0
    BY <2>1
  <2>2. CASE a # 0
    <3>1. a * (a - 1) >= 0 /\ a * (a - 1) = a * a - a
      BY <2>2
    <3> QED
      BY <1>2, <3>1
  <2> QED
    BY <2>1, <2>2
<1>4. b <= a => b * b <= a * a
  BY <1>1
<1> QED
  BY <1>1, <1>2, <1>3, <1>4

LEMMA GreatestNumber ==
  ASSUME NEW S \in SUBSET Nat, S # {}, NEW n \in Nat, \A m \in S : m <= n
  PROVE  Max(S) \in S /\ \A m \in S : m <= Max(S)
<1> DEFINE U == {u \in Nat : \A m \in S : m <= u}
<1>1. PICK u \in U : \A w \in U : u <= w
  <2>1. U \in SUBSET Nat /\ n \in U
    OBVIOUS
  <2> HIDE DEF U
  <2> QED
    BY <2>1, LeastNumber
<1>2. u \in S
  <2> SUFFICES ASSUME u \notin S PROVE FALSE
    OBVIOUS
  <2>1. \A m \in S : m < u
    BY <1>1
  <2>2. PICK m \in S : m \in Nat
    OBVIOUS
  <2>3. u - 1 \in Nat
    BY <2>1, <2>2
  <2>4. \A w \in S : w <= u - 1
    BY <2>1
  <2>5. u - 1 \in U
    BY <2>3, <2>4
  <2> QED
    BY <1>1, <2>2
<1>3. \E x \in S : \A y \in S : x >= y
  BY <1>1, <1>2
<1> QED
  BY <1>3 DEF Max

LEMMA RangeExtremes ==
  ASSUME NEW ready \in Seq(Nat), ready # <<>>
  PROVE  /\ \E i \in 1 .. Len(ready) : Max(Range(ready)) = ready[i]
         /\ \A i \in 1 .. Len(ready) : ready[i] <= Max(Range(ready))
         /\ \E i \in 1 .. Len(ready) : Min(Range(ready)) = ready[i]
         /\ \A i \in 1 .. Len(ready) : Min(Range(ready)) <= ready[i]
<1> DEFINE R == Range(ready)
           Bounded(n) ==
             \E b \in Nat : \A i \in 1 .. Len(ready) : i <= n => ready[i] <= b
           S == {n \in Nat : Bounded(n)}
<1>1. /\ Len(ready) \in Nat \ {0}
      /\ \A i \in 1 .. Len(ready) : ready[i] \in Nat
      /\ DOMAIN ready = 1 .. Len(ready)
  OBVIOUS
<1>2. R \in SUBSET Nat /\ R = {ready[i] : i \in 1 .. Len(ready)} /\ ready[1] \in R
  BY <1>1 DEF Range
<1>3. 0 \in S
  BY <1>1
<1>4. ASSUME NEW n \in Nat, n \in S PROVE n + 1 \in S
  <2>1. PICK b \in Nat : \A i \in 1 .. Len(ready) : i <= n => ready[i] <= b
    BY <1>4
  <2>2. ASSUME n + 1 <= Len(ready) PROVE Bounded(n + 1)
    <3> DEFINE c == b + ready[n + 1]
    <3>1. c \in Nat /\ c >= b /\ c >= ready[n + 1]
      BY <1>1, <2>2
    <3>2. ASSUME NEW i \in 1 .. Len(ready), i <= n + 1 PROVE ready[i] <= c
      <4>1. CASE i <= n
        BY <1>1, <2>1, <3>1, <4>1
      <4>2. CASE i = n + 1
        BY <3>1, <4>2
      <4> QED
        BY <3>2, <4>1, <4>2
    <3>3. \A i \in 1 .. Len(ready) : i <= n + 1 => ready[i] <= c
      BY <3>2
    <3> HIDE DEF c
    <3> QED
      BY <3>1, <3>3
  <2>3. ASSUME ~(n + 1 <= Len(ready)) PROVE Bounded(n + 1)
    <3>1. \A i \in 1 .. Len(ready) : i <= n + 1 => ready[i] <= b
      BY <1>1, <2>1, <2>3
    <3> QED
      BY <2>1, <3>1
  <2>4. Bounded(n + 1)
    BY <2>2, <2>3
  <2> HIDE DEF Bounded
  <2> QED
    BY <2>4
<1> HIDE DEF S
<1>5. Len(ready) \in S
  BY <1>1, <1>3, <1>4, NatSetInduction
<1>6. PICK b \in Nat : \A i \in 1 .. Len(ready) : ready[i] <= b
  BY <1>1, <1>5 DEF S
<1>7. Max(R) \in R /\ \A m \in R : m <= Max(R)
  <2>1. \A m \in R : m <= b
    BY <1>2, <1>6
  <2> HIDE DEF R
  <2> QED
    BY <1>2, <2>1, GreatestNumber
<1>8. Min(R) \in R /\ \A m \in R : Min(R) <= m
  <2>1. \E x \in R : \A y \in R : x <= y
    <3> HIDE DEF R
    <3> QED
      BY <1>2, LeastNumber
  <2> HIDE DEF R
  <2> QED
    BY <2>1 DEF Min
<1> QED
  BY <1>2, <1>7, <1>8

\* Hosts are looked for in order, up to the first that is not ready.
LEMMA HostsSeenRule ==
  ASSUME NEW ready \in Seq(Nat), ready # <<>>, NEW sec \in Nat
  PROVE  /\ HostsSeen(ready, sec) \in 0 .. Len(ready)
         /\ HostsSeen(ready, sec) = Len(ready)
              <=> \A i \in 1 .. Len(ready) : ready[i] <= sec
         /\ ready[1] > sec => HostsSeen(ready, sec) = 0
<1> DEFINE Is(j) == /\ \A i \in 1 .. j : ready[i] <= sec
                    /\ j < Len(ready) => ready[j + 1] > sec
           S == {i \in 1 .. Len(ready) : ready[i] > sec}
           seen == HostsSeen(ready, sec)
<1>1. Len(ready) \in Nat \ {0} /\ \A i \in 1 .. Len(ready) : ready[i] \in Nat
  OBVIOUS
<1>2. \E j \in 0 .. Len(ready) : Is(j)
  <2>1. CASE S = {}
    <3>1. Is(Len(ready))
      BY <1>1, <2>1
    <3> QED
      BY <1>1, <3>1
  <2>2. CASE S # {}
    <3>1. PICK m \in S : \A i \in S : m <= i
      <4>1. S \in SUBSET Nat
        OBVIOUS
      <4> HIDE DEF S
      <4> QED
        BY <2>2, <4>1, LeastNumber
    <3>2. m - 1 \in 0 .. Len(ready) /\ m - 1 + 1 = m /\ m \in 1 .. Len(ready)
      BY <1>1
    <3>3. \A i \in 1 .. m - 1 : ready[i] <= sec
      BY <1>1, <3>1, <3>2
    <3>4. Is(m - 1)
      BY <3>2, <3>3
    <3> QED
      BY <3>2, <3>4
  <2> QED
    BY <2>1, <2>2
<1>3. seen \in 0 .. Len(ready) /\ Is(seen)
  BY <1>2 DEF HostsSeen
<1> HIDE DEF seen
<1>4. seen = Len(ready) <=> \A i \in 1 .. Len(ready) : ready[i] <= sec
  <2>1. ASSUME \A i \in 1 .. Len(ready) : ready[i] <= sec PROVE seen = Len(ready)
    <3> SUFFICES ASSUME seen # Len(ready) PROVE FALSE
      OBVIOUS
    <3>1. seen < Len(ready) /\ seen + 1 \in 1 .. Len(ready)
      BY <1>1, <1>3
    <3> QED
      BY <1>1, <1>3, <2>1, <3>1
  <2> QED
    BY <1>3, <2>1
<1>5. ready[1] > sec => seen = 0
  <2> SUFFICES ASSUME ready[1] > sec, seen # 0 PROVE FALSE
    OBVIOUS
  <2>1. 1 \in 1 .. seen /\ 1 \in 1 .. Len(ready)
    BY <1>1, <1>3
  <2> QED
    BY <1>1, <1>3, <2>1
<1> QED
  BY <1>3, <1>4, <1>5 DEF seen

\* The time since a host was seen is not longer than that since the first poll,
\* and is that as long as the first host is not ready.
LEMMA SinceSeenRule ==
  ASSUME NEW ready \in Seq(Nat), ready # <<>>, NEW k \in Nat
  PROVE  /\ SinceSeen(ready, k) \in Int /\ SinceSeen(ready, k) <= k * k
         /\ (k > 0 => ready[1] > (k - 1) * (k - 1)) => SinceSeen(ready, k) = k * k
<1> DEFINE I == {i \in 1 .. k - 1 : SeesAHost(ready, i)}
           S == {0} \cup {j * j : j \in I}
<1>1. k * k \in Nat
  OBVIOUS
<1>2. Max(S) \in S /\ (\A m \in S : m <= Max(S)) /\ S \in SUBSET Nat /\ 0 \in S
  <2>1. ASSUME NEW i \in 1 .. k - 1 PROVE i * i \in Nat /\ i * i <= k * k
    BY <2>1, SquareGrows
  <2>2. S \in SUBSET Nat /\ (\A m \in S : m <= k * k) /\ 0 \in S
    BY <1>1, <2>1
  <2> HIDE DEF S
  <2> QED
    BY <1>1, <2>2, GreatestNumber
<1>3. SinceSeen(ready, k) = k * k - Max(S)
  BY DEF SinceSeen
<1>4. ASSUME k > 0 => ready[1] > (k - 1) * (k - 1) PROVE S = {0}
  <2>1. ASSUME NEW i \in I PROVE FALSE
    <3>1. i \in 1 .. k - 1 /\ SeesAHost(ready, i) /\ k - 1 \in Nat /\ i - 1 \in Nat
      OBVIOUS
    <3>2. i * i <= (k - 1) * (k - 1) /\ i * i \in Nat /\ (k - 1) * (k - 1) \in Nat
      BY <3>1, SquareGrows
    <3>3. (i - 1) * (i - 1) \in Nat
      BY <3>1, SquareGrows
    <3>4. ready[1] > i * i
      <4>1. ready[1] \in Nat
        OBVIOUS
      <4>2. ready[1] > (k - 1) * (k - 1)
        BY <1>4, <3>1
      <4> QED
        BY <3>2, <4>1, <4>2
    <3>5. HostsSeen(ready, i * i) = 0
      BY <3>2, <3>4, HostsSeenRule
    <3>6. HostsSeen(ready, (i - 1) * (i - 1)) \in Nat
      <4>1. HostsSeen(ready, (i - 1) * (i - 1)) \in 0 .. Len(ready)
        BY <3>3, HostsSeenRule
      <4> QED
        BY <4>1
    <3> QED
      BY <3>1, <3>5, <3>6 DEF SeesAHost
  <2> HIDE DEF I
  <2> QED
    BY <2>1
<1> HIDE DEF S
<1>5. Max(S) \in Nat
  BY <1>2
<1>6. S = {0} => Max(S) = 0
  BY <1>2
<1> QED
  BY <1>1, <1>3, <1>4, <1>5, <1>6

\* The wait ends at a poll.
LEMMA LastPoll ==
  ASSUME NEW q, HostStartupTimeout(q) \in Nat, NEW ready \in Seq(Nat), ready # <<>>
  PROVE  LET timeout(k) == SinceSeen(ready, k) >= 2 * HostStartupTimeout(q)
             all(k) == \A i \in 1 .. Len(ready) : ready[i] <= k * k
         IN \E k \in Nat :
              /\ timeout(k) \/ all(k)
              /\ \A j \in 0 .. k - 1 : ~timeout(j) /\ ~all(j)
              /\ GateOpens(q, ready) = IF timeout(k) THEN Never ELSE k * k
<1> DEFINE timeout(k) == SinceSeen(ready, k) >= 2 * HostStartupTimeout(q)
           seen(k) == HostsSeen(ready, k * k) = Len(ready)
           all(k) == \A i \in 1 .. Len(ready) : ready[i] <= k * k
           latest == Max(Range(ready))
           IsLast(k) == /\ timeout(k) \/ seen(k)
                        /\ \A j \in 0 .. k - 1 : ~timeout(j) /\ ~seen(j)
           S == {k \in Nat : timeout(k) \/ seen(k)}
<1>1. ASSUME NEW k \in Nat PROVE seen(k) <=> all(k)
  <2>1. k * k \in Nat
    OBVIOUS
  <2> QED
    BY <2>1, HostsSeenRule
<1>2. latest \in Nat /\ \A i \in 1 .. Len(ready) : ready[i] \in Nat /\ ready[i] <= latest
  BY RangeExtremes
<1>3. latest \in S
  <2> HIDE DEF latest
  <2>1. latest <= latest * latest /\ latest * latest \in Nat
    BY <1>2, SquareGrows
  <2>2. ASSUME NEW i \in 1 .. Len(ready) PROVE ready[i] <= latest * latest
    <3>1. ready[i] \in Nat /\ ready[i] <= latest
      BY <1>2
    <3> QED
      BY <1>2, <2>1, <3>1
  <2>3. all(latest)
    BY <2>2
  <2> QED
    BY <1>1, <1>2, <2>3
<1> HIDE DEF timeout, seen, all
<1>4. PICK m \in S : \A k \in S : m <= k
  <2>1. S \in SUBSET Nat
    OBVIOUS
  <2> HIDE DEF S
  <2> QED
    BY <1>3, <2>1, LeastNumber
<1> HIDE DEF latest
<1>5. m \in 0 .. latest /\ IsLast(m)
  BY <1>2, <1>3, <1>4
<1>6. PICK last \in 0 .. latest :
        IsLast(last) /\ GateOpens(q, ready) = IF timeout(last) THEN Never ELSE last * last
  <2> DEFINE last == CHOOSE k \in 0 .. latest : IsLast(k)
  <2>1. last \in 0 .. latest /\ IsLast(last)
    BY <1>5
  <2>2. GateOpens(q, ready) = IF timeout(last) THEN Never ELSE last * last
    BY DEF GateOpens, latest, timeout, seen
  <2> QED
    BY <2>1, <2>2
<1>7. /\ last \in Nat /\ (timeout(last) \/ all(last))
      /\ \A j \in 0 .. last - 1 : ~timeout(j) /\ ~all(j)
  BY <1>1, <1>2, <1>6
<1> QED
  BY <1>6, <1>7 DEF timeout, all

LEMMA TimeoutType ==
  ASSUME NEW q \in GateInputs
  PROVE  /\ HostStartupTimeout(q) \in Nat /\ HostStartupTimeout(q) >= 3
         /\ q.ready \in Seq(Nat) /\ q.ready # <<>>
<1>1. /\ q.iterations \in Nat /\ q.thread_count \in Nat /\ q.hosts \in Nat
      /\ q.files_per_dir \in Nat \ {0}
      /\ q.ready \in Seq(Nat) /\ q.ready # <<>>
  BY AlgorithmsAssumption
<1> DEFINE total == q.iterations * q.thread_count * q.hosts
           dirs == total \div q.files_per_dir
           creation == q.files_per_dir \div 300000
           threads == q.thread_count \div 30
           over == (dirs * 2) \div min_directories_per_sec
           hosts == q.hosts \div 2
<1>2. total \in Nat
  BY <1>1
<1> HIDE DEF total
<1>3. dirs \in Nat
  BY <1>1, <1>2, DivModType
<1> HIDE DEF dirs
<1>4. creation \in Nat
  BY <1>1, SMT
<1>5. threads \in Nat
  BY <1>1, SMT
<1>6. hosts \in Nat
  BY <1>1, SMT
<1>7. over \in Nat
  <2>1. dirs * 2 \in Nat /\ min_directories_per_sec \in Nat \ {0}
    BY <1>3, TimeoutsAssumption
  <2> QED
    BY <2>1, DivModType
<1>8. HostStartupTimeout(q)
        = 2 + (IF creation > 1 THEN creation ELSE 1) + threads + over + 5 + hosts
  BY SMT DEF HostStartupTimeout, StartupTimeout, total, dirs
<1> HIDE DEF creation, threads, over, hosts
<1> QED
  BY <1>1, <1>4, <1>5, <1>6, <1>7, <1>8

\* b polls after the first host was seen at poll a + 1 the gaps have not grown by
\* more than a third of the time-out.
LEMMA GapsBounded ==
  ASSUME NEW a \in Nat, NEW b \in Nat, NEW t \in Nat,
         a * a < 2 * t, 3 * (b * b) <= 3 * ((a + 1) * (a + 1)) + 2 * t - 3
  PROVE  6 * b <= t + 30
<1> SUFFICES ASSUME 6 * b >= t + 31 PROVE FALSE
  OBVIOUS
<1>1. (a - 4) * (a - 4) >= 0 /\ (a - 4) * (a - 4) = a * a - 8 * a + 16
  OBVIOUS
<1>2. (2 * b - 19) * (2 * b - 19) >= 0
      /\ (2 * b - 19) * (2 * b - 19) = 4 * (b * b) - 76 * b + 361
  OBVIOUS
<1>3. (a + 1) * (a + 1) = a * a + 2 * a + 1
  OBVIOUS
<1>4. a * a \in Nat /\ b * b \in Nat
  OBVIOUS
<1> QED
  BY <1>1, <1>2, <1>3, <1>4

LEMMA GateInTime ==
  ASSUME NEW q \in GateInputs, Max(Range(q.ready)) <= HostStartupTimeout(q)
  PROVE  GateOpens(q, q.ready) # Never
<1> DEFINE ready == q.ready
           t == HostStartupTimeout(q)
<1>1. t \in Nat /\ t >= 3 /\ ready \in Seq(Nat) /\ ready # <<>>
  BY TimeoutType
<1>2. PICK k \in Nat :
        /\ \A j \in 0 .. k - 1 : ~(\A i \in 1 .. Len(ready) : ready[i] <= j * j)
        /\ GateOpens(q, ready) = IF SinceSeen(ready, k) >= 2 * t THEN Never ELSE k * k
  BY <1>1, LastPoll
<1>3. k * k \in Nat /\ SinceSeen(ready, k) \in Int /\ SinceSeen(ready, k) <= k * k
  <2>1. k * k \in Nat
    OBVIOUS
  <2> QED
    BY <1>1, <2>1, SinceSeenRule
<1>4. k * k < 2 * t
  <2>1. CASE k = 0
    BY <1>1, <2>1
  <2>2. CASE k # 0
    <3> DEFINE b == k - 1
    <3>1. b \in Nat /\ b \in 0 .. k - 1
      BY <2>2
    <3>2. PICK i \in 1 .. Len(ready) : ~(ready[i] <= b * b)
      BY <1>2, <3>1
    <3>3. ready[i] \in Nat /\ ready[i] <= t
      <4>1. Max(Range(ready)) \in Nat /\ ready[i] \in Nat /\ ready[i] <= Max(Range(ready))
        BY <1>1, RangeExtremes
      <4> QED
        BY <1>1, <4>1
    <3>4. b * b \in Nat /\ b * b < t
      BY <1>1, <3>1, <3>2, <3>3
    <3>5. k * k = b * b + 2 * b + 1
      OBVIOUS
    <3> HIDE DEF b
    <3>6. 2 * b < t
      <4> SUFFICES ASSUME 2 * b >= t PROVE FALSE
        BY <1>1, <3>1
      <4>1. (2 * b) * (2 * b) >= t * t /\ (2 * b) * (2 * b) = 4 * (b * b)
        <5> DEFINE c == 2 * b
        <5>1. c \in Nat /\ t <= c /\ c * c = 4 * (b * b)
          BY <1>1, <3>1
        <5> HIDE DEF c, t
        <5>2. c * c >= t * t
          BY <1>1, <5>1, SquareGrows
        <5> QED
          BY <5>1, <5>2 DEF c
      <4>2. (t - 2) * (t - 2) = t * t - 4 * t + 4 /\ (t - 2) * (t - 2) > 0 /\ t * t \in Nat
        BY <1>1
      <4> DEFINE w == b * b
                 v == t * t
                 u == (t - 2) * (t - 2)
      <4>3. w \in Nat /\ w < t /\ 4 * w >= v /\ u = v - 4 * t + 4 /\ u > 0 /\ v \in Nat
        BY <3>4, <4>1, <4>2
      <4> HIDE DEF t, w, v, u
      <4> QED
        BY <1>1, <4>3
    <3> QED
      BY <1>1, <3>1, <3>4, <3>5, <3>6
  <2> QED
    BY <2>1, <2>2
<1>5. GateOpens(q, ready) = k * k
  BY <1>1, <1>2, <1>3, <1>4
<1> QED
  BY <1>3, <1>5 DEF Never

LEMMA GateSeen ==
  ASSUME NEW q \in GateInputs, NEW i \in 1 .. Len(q.ready),
         3 * (Max(Range(q.ready)) - Min(Range(q.ready))) <= 2 * HostStartupTimeout(q)
  PROVE  HostSeesGate(q, q.ready, i)
<1> DEFINE ready == q.ready
           t == HostStartupTimeout(q)
           first == Min(Range(ready))
           latest == Max(Range(ready))
           timeout(k) == SinceSeen(ready, k) >= 2 * t
           all(k) == \A j \in 1 .. Len(ready) : ready[j] <= k * k
<1>1. t \in Nat /\ t >= 3 /\ ready \in Seq(Nat) /\ ready # <<>>
  BY TimeoutType
<1>2. /\ first \in Nat /\ latest \in Nat /\ 1 \in 1 .. Len(ready)
      /\ \A j \in 1 .. Len(ready) : ready[j] \in Nat /\ first <= ready[j] /\ ready[j] <= latest
  <2>1. 1 \in 1 .. Len(ready) /\ \A j \in 1 .. Len(ready) : ready[j] \in Nat
    <3> HIDE DEF ready
    <3>1. Len(ready) \in Nat /\ Len(ready) > 0
      BY <1>1
    <3> QED
      BY <1>1, <3>1
  <2>2. /\ \E j \in 1 .. Len(ready) : latest = ready[j]
        /\ \E j \in 1 .. Len(ready) : first = ready[j]
        /\ \A j \in 1 .. Len(ready) : first <= ready[j] /\ ready[j] <= latest
    BY <1>1, RangeExtremes
  <2> HIDE DEF first, latest
  <2> QED
    BY <2>1, <2>2
<1>3. PICK k \in Nat :
        /\ timeout(k) \/ all(k)
        /\ \A j \in 0 .. k - 1 : ~timeout(j) /\ ~all(j)
        /\ GateOpens(q, ready) = IF timeout(k) THEN Never ELSE k * k
  BY <1>1, LastPoll
<1>4. 3 * (latest - first) <= 2 * t /\ i \in 1 .. Len(ready)
  OBVIOUS
<1> HIDE DEF t, first, latest, ready, timeout
<1>5. ASSUME ~timeout(k) PROVE k * k <= ready[i] + t + 10
  <2>1. CASE k = 0
    BY <1>1, <1>2, <1>4, <2>1
  <2>2. CASE k # 0
    <3> DEFINE b == k - 1
    <3>1. b \in Nat /\ b \in 0 .. k - 1 /\ k * k = b * b + 2 * b + 1 /\ b * b \in Nat
      BY <2>2
    <3> HIDE DEF b
    <3>2. PICK j \in 1 .. Len(ready) : ~(ready[j] <= b * b)
      BY <1>3, <3>1
    <3>3. b * b < latest
      BY <1>2, <3>1, <3>2
    <3>4. \E a \in Nat : a * a < 2 * t /\ first <= (a + 1) * (a + 1)
      <4> DEFINE S == {m \in Nat : ready[1] <= m * m}
      <4>1. S \in SUBSET Nat /\ S # {}
        <5>1. ready[1] \in Nat /\ ready[1] <= ready[1] * ready[1]
          BY <1>2, SquareGrows
        <5> QED
          BY <5>1
      <4>2. PICK m \in S : \A n \in S : m <= n
        <5> HIDE DEF S
        <5> QED
          BY <4>1, LeastNumber
      <4>3. m \in Nat /\ ready[1] <= m * m /\ m * m \in Nat
        BY <4>2
      <4>4. CASE m = 0
        <5>1. first = 0 /\ 0 * 0 < 2 * t /\ first <= (0 + 1) * (0 + 1)
          BY <1>1, <1>2, <4>3, <4>4
        <5> QED
          BY <5>1
      <4>5. CASE m # 0
        <5> DEFINE a == m - 1
        <5>1. a \in Nat /\ a + 1 = m
          BY <4>3, <4>5
        <5> HIDE DEF a
        <5>2. ready[1] > a * a
          BY <1>2, <4>2, <5>1
        <5>3. first <= (a + 1) * (a + 1)
          BY <1>2, <4>3, <5>1
        <5>4. a < k
          <6> SUFFICES ASSUME k <= a PROVE FALSE
            BY <5>1
          <6>1. k * k <= a * a /\ k * k \in Nat /\ a * a \in Nat
            BY <5>1, SquareGrows
          <6>2. ~all(k)
            BY <1>2, <5>2, <6>1
          <6> QED
            BY <1>3, <1>5, <6>2
        <5>5. SinceSeen(ready, a) = a * a
          <6>1. a > 0 => ready[1] > (a - 1) * (a - 1)
            <7> SUFFICES ASSUME a > 0 PROVE ready[1] > (a - 1) * (a - 1)
              OBVIOUS
            <7>1. a - 1 \in Nat /\ a - 1 <= a
              BY <5>1
            <7>2. (a - 1) * (a - 1) <= a * a /\ (a - 1) * (a - 1) \in Nat /\ a * a \in Nat
              BY <5>1, <7>1, SquareGrows
            <7> QED
              BY <1>2, <5>2, <7>2
          <6> QED
            BY <1>1, <5>1, <6>1, SinceSeenRule
        <5>6. a * a < 2 * t
          <6> USE DEF timeout
          <6>1. a \in 0 .. k - 1
            BY <5>1, <5>4
          <6>2. ~timeout(a)
            BY <1>3, <6>1
          <6>3. a * a \in Nat
            BY <5>1
          <6> QED
            BY <1>1, <5>5, <6>2, <6>3
        <5> QED
          BY <5>1, <5>3, <5>6
      <4> QED
        BY <4>4, <4>5
    <3>5. PICK a \in Nat : a * a < 2 * t /\ first <= (a + 1) * (a + 1)
      BY <3>4
    <3>6. 3 * (b * b) <= 3 * ((a + 1) * (a + 1)) + 2 * t - 3
      <4>1. (a + 1) * (a + 1) \in Nat
        OBVIOUS
      <4> QED
        BY <1>1, <1>2, <1>4, <3>1, <3>3, <3>5, <4>1
    <3>7. 6 * b <= t + 30
      BY <1>1, <3>1, <3>5, <3>6, GapsBounded
    <3> DEFINE w == b * b
               v == k * k
    <3>8. v = w + 2 * b + 1 /\ w \in Nat /\ w < latest /\ v \in Nat
      BY <3>1, <3>3
    <3>9. ready[i] \in Nat /\ first <= ready[i]
      BY <1>2, <1>4
    <3> HIDE DEF w, v
    <3>10. v <= first + t + 10
      BY <1>1, <1>2, <1>4, <3>1, <3>7, <3>8
    <3>11. v <= ready[i] + t + 10
      <4> DEFINE x == ready[i]
      <4>1. x \in Nat /\ first <= x /\ t \in Nat /\ first \in Nat
        BY <1>1, <1>2, <3>9
      <4> HIDE DEF x
      <4>2. v <= x + t + 10
        BY <3>8, <3>10, <4>1
      <4> QED
        BY <4>2 DEF x
    <3> QED
      BY <3>11 DEF v
  <2> QED
    BY <2>1, <2>2
<1>6. GateOpens(q, ready) <= ready[i] + t + 10
  <2>1. CASE timeout(k)
    <3>1. GateOpens(q, ready) = -1 /\ ready[i] \in Nat
      BY <1>2, <1>3, <1>4, <2>1 DEF Never
    <3> QED
      BY <1>1, <3>1
  <2>2. CASE ~timeout(k)
    BY <1>3, <1>5, <2>2
  <2> QED
    BY <2>1, <2>2
<1>7. ready[i] + t + 10 = ready[i] + (t + 10)
  <2>1. ready[i] \in Nat
    BY <1>2, <1>4
  <2> DEFINE x == ready[i]
  <2>2. x \in Nat /\ t \in Nat
    BY <1>1, <2>1
  <2> HIDE DEF x
  <2>3. x + t + 10 = x + (t + 10)
    BY <2>2
  <2> QED
    BY <2>3 DEF x
<1> QED
  BY <1>6, <1>7 DEF HostSeesGate, GateWait, t, ready

\* The driver opens the gate for hosts that are ready in time, and they wait for it.
THEOREM GateOpensInTime == Spec => []HostsInTimeStart
<1>1. ASSUME NEW q \in GateInputs PROVE DOMAIN q.ready = 1 .. Len(q.ready)
  BY TimeoutType
<1>2. InputKept => HostsInTimeStart
  BY <1>1, GateInTime, GateSeen DEF InputKept, HostsInTimeStart
<1> QED
  BY <1>2, InputInit, InputNext, PTL DEF Spec

-----------------------------------------------------------------------------
\* Buffers.

LEMMA SumDef ==
  ASSUME NEW f \in Seq(Nat)
  PROVE  LET sum == SumOf(f)
         IN /\ sum[0] = 0 /\ \A n \in 0 .. Len(f) : sum[n] \in Nat
            /\ \A n \in 1 .. Len(f) : sum[n] = sum[n - 1] + f[n]
<1> DEFINE N == Len(f)
           D == [n \in Nat |-> [x \in Nat |-> IF n < N THEN x + f[n + 1] ELSE 0]]
           Is(g) == g = [n \in 0 .. N |-> IF n = 0 THEN 0 ELSE g[n - 1] + f[n]]
           sum == SumOf(f)
<1>1. N \in Nat /\ \A n \in 1 .. N : f[n] \in Nat
  OBVIOUS
<1>2. PICK h : Recursion(h, Nat, 0, D)
  <2>1. D \in [Nat -> [Nat -> Nat]]
    BY <1>1
  <2> HIDE DEF D
  <2> QED
    BY <2>1, NatRecursion
<1>3. h \in [Nat -> Nat] /\ h[0] = 0 /\ \A n \in Nat : n < N => h[n + 1] = h[n] + f[n + 1]
  BY <1>2 DEF Recursion
<1> HIDE DEF N
<1> DEFINE g == [n \in 0 .. N |-> h[n]]
<1>4. Is(g)
  <2>1. ASSUME NEW n \in 0 .. N, n # 0 PROVE h[n] = h[n - 1] + f[n]
    <3>1. n - 1 \in Nat /\ n - 1 < N /\ (n - 1) + 1 = n
      BY <1>1, <2>1
    <3> QED
      BY <1>3, <3>1
  <2>2. ASSUME NEW n \in 0 .. N PROVE g[n] = IF n = 0 THEN 0 ELSE g[n - 1] + f[n]
    <3>1. CASE n = 0
      BY <1>3, <3>1
    <3>2. CASE n # 0
      <4>1. n - 1 \in 0 .. N
        BY <1>1, <3>2
      <4> QED
        BY <2>1, <3>2, <4>1
    <3> QED
      BY <3>1, <3>2
  <2> QED
    BY <2>2
<1> HIDE DEF g
<1>5. Is(sum)
  <2>1. sum = CHOOSE s : Is(s)
    BY DEF SumOf, N
  <2> HIDE DEF Is, sum
  <2> QED
    BY <1>4, <2>1
<1> HIDE DEF sum
<1>6. /\ sum[0] = 0
      /\ \A n \in 1 .. N : sum[n] = sum[n - 1] + f[n]
  <2>1. 0 \in 0 .. N /\ \A n \in 1 .. N : n \in 0 .. N /\ n # 0
    BY <1>1
  <2> QED
    BY <1>5, <2>1
<1>7. \A n \in 0 .. N : sum[n] \in Nat
  <2> DEFINE S == {n \in Nat : n <= N => sum[n] \in Nat}
  <2>1. 0 \in S
    BY <1>6
  <2>2. ASSUME NEW n \in Nat, n \in S PROVE n + 1 \in S
    <3>1. ASSUME n + 1 <= N PROVE sum[n + 1] \in Nat
      <4>1. n + 1 \in 1 .. N /\ (n + 1) - 1 = n /\ n <= N
        BY <1>1, <2>2, <3>1
      <4>2. sum[n + 1] = sum[n] + f[n + 1] /\ f[n + 1] \in Nat /\ sum[n] \in Nat
        BY <1>1, <1>6, <2>2, <4>1
      <4> QED
        BY <4>2
    <3> QED
      BY <3>1
  <2> HIDE DEF S
  <2>3. \A n \in Nat : n \in S
    BY <2>1, <2>2, NatSetInduction
  <2> QED
    BY <1>1, <2>3 DEF S
<1> QED
  BY <1>6, <1>7 DEF sum, N

LEMMA RemainingDef ==
  ASSUME NEW p, RecordSize(p) \in Nat, NEW kb \in Nat
  PROVE  LET left == Remaining(p, kb)
         IN /\ left[0] = kb
            /\ \A n \in Nat : /\ left[n] \in Nat
                              /\ left[n + 1] = left[n] - Least(RecordSize(p), left[n])
<1> DEFINE R == RecordSize(p)
           D == [n \in Nat |-> [x \in Nat |-> x - Least(R, x)]]
           Is(g) == g = [n \in Nat |-> IF n = 0 THEN kb ELSE g[n - 1] - Least(R, g[n - 1])]
           left == Remaining(p, kb)
<1>1. \A x \in Nat : x - Least(R, x) \in Nat
  BY DEF Least
<1> HIDE DEF R
<1>2. PICK h : Recursion(h, Nat, kb, D)
  <2>1. D \in [Nat -> [Nat -> Nat]]
    BY <1>1
  <2> HIDE DEF D
  <2> QED
    BY <2>1, NatRecursion
<1>3. h \in [Nat -> Nat] /\ h[0] = kb /\ \A n \in Nat : h[n + 1] = h[n] - Least(R, h[n])
  BY <1>2 DEF Recursion
<1>4. Is(h)
  <2>1. \A n \in Nat : n # 0 => n - 1 \in Nat /\ (n - 1) + 1 = n
    OBVIOUS
  <2> QED
    BY <1>3, <2>1
<1>5. Is(left)
  <2>1. left = CHOOSE g : Is(g)
    BY DEF Remaining, R
  <2> HIDE DEF Is, left
  <2> QED
    BY <1>4, <2>1
<1> HIDE DEF left
<1>6. left[0] = kb
  BY <1>5
<1>7. ASSUME NEW n \in Nat PROVE left[n + 1] = left[n] - Least(R, left[n])
  <2>1. n + 1 \in Nat /\ n + 1 # 0 /\ (n + 1) - 1 = n
    OBVIOUS
  <2>2. left[n + 1] = left[(n + 1) - 1] - Least(R, left[(n + 1) - 1])
    BY <1>5, <2>1
  <2> QED
    BY <2>1, <2>2
<1>8. \A n \in Nat : left[n] \in Nat
  <2> DEFINE S == {n \in Nat : left[n] \in Nat}
  <2>1. 0 \in S
    BY <1>6
  <2>2. ASSUME NEW n \in Nat, n \in S PROVE n + 1 \in S
    BY <1>1, <1>7, <2>2
  <2> HIDE DEF S
  <2>3. \A n \in Nat : n \in S
    BY <2>1, <2>2, NatSetInduction
  <2> QED
    BY <2>3 DEF S
<1> QED
  BY <1>6, <1>7, <1>8 DEF left, R

\* The records of a file are none larger than RecordSize, and add up to it.
LEMMA RecordsRule ==
  ASSUME NEW p, NEW kb \in Nat, RecordSize(p) \in Nat, kb > 0 => RecordSize(p) > 0
  PROVE  /\ Records(p, kb) \in Seq(Nat)
         /\ \A i \in DOMAIN Records(p, kb) : Records(p, kb)[i] <= RecordSize(p)
         /\ SumOf(Records(p, kb))[Len(Records(p, kb))] = kb
<1> DEFINE R == RecordSize(p)
           left == Remaining(p, kb)
           IsEnd(n) == left[n] = 0 /\ \A i \in 0 .. n - 1 : left[i] > 0
           rounds == CHOOSE n \in 0 .. kb : IsEnd(n)
           s == Records(p, kb)
           sum == SumOf(s)
<1>1. /\ left[0] = kb
      /\ \A n \in Nat : left[n] \in Nat /\ left[n + 1] = left[n] - Least(R, left[n])
  BY RemainingDef
<1>2. R \in Nat /\ (kb > 0 => R > 0)
  OBVIOUS
<1> HIDE DEF R, left
<1>3. \E n \in 0 .. kb : IsEnd(n)
  <2> DEFINE S == {n \in Nat : left[n] = 0 \/ left[n] + n <= kb}
             Z == {n \in Nat : left[n] = 0}
  <2>1. 0 \in S
    BY <1>1
  <2>2. ASSUME NEW n \in Nat, n \in S PROVE n + 1 \in S
    <3>1. left[n] \in Nat /\ left[n + 1] = left[n] - Least(R, left[n])
      BY <1>1
    <3>2. CASE left[n] = 0
      BY <1>2, <3>1, <3>2 DEF Least
    <3>3. CASE left[n] # 0 /\ left[n] + n <= kb
      <4>1. kb > 0
        BY <3>1, <3>3
      <4> QED
        BY <1>2, <3>1, <3>3, <4>1 DEF Least
    <3> QED
      BY <2>2, <3>2, <3>3
  <2> HIDE DEF S
  <2>3. \A n \in Nat : n \in S
    BY <2>1, <2>2, NatSetInduction
  <2>4. left[kb] = 0
    BY <1>1, <2>3 DEF S
  <2>5. PICK m \in Z : \A n \in Z : m <= n
    <3>1. Z \in SUBSET Nat /\ Z # {}
      BY <2>4
    <3> HIDE DEF Z
    <3> QED
      BY <3>1, LeastNumber
  <2>6. m \in 0 .. kb /\ left[m] = 0
    BY <2>4, <2>5
  <2>7. ASSUME NEW i \in 0 .. m - 1 PROVE left[i] > 0
    <3>1. i \in Nat /\ i \notin Z
      BY <2>5, <2>6
    <3> QED
      BY <1>1, <3>1
  <2> QED
    BY <2>6, <2>7
<1>4. rounds \in 0 .. kb /\ IsEnd(rounds)
  BY <1>3
<1>5. s = [i \in 1 .. rounds |-> Least(R, left[i - 1])]
  BY DEF Records, R, left
<1> HIDE DEF rounds, s
<1>6. \A i \in 1 .. rounds : Least(R, left[i - 1]) \in Nat /\ Least(R, left[i - 1]) <= R
  <2>1. ASSUME NEW i \in 1 .. rounds PROVE left[i - 1] \in Nat
    <3>1. i - 1 \in Nat
      BY <1>4
    <3> QED
      BY <1>1, <3>1
  <2> QED
    BY <1>2, <2>1 DEF Least
<1>7. /\ s \in Seq(Nat) /\ Len(s) = rounds /\ DOMAIN s = 1 .. rounds
      /\ \A i \in 1 .. rounds : s[i] = Least(R, left[i - 1]) /\ s[i] <= R
  <2>1. rounds \in Nat
    BY <1>4
  <2> QED
    BY <1>5, <1>6, <2>1
<1>8. /\ sum[0] = 0 /\ \A n \in 0 .. rounds : sum[n] \in Nat
      /\ \A n \in 1 .. rounds : sum[n] = sum[n - 1] + s[n]
  BY <1>7, SumDef
<1> HIDE DEF sum
<1>9. sum[rounds] = kb
  <2> DEFINE S == {n \in Nat : n <= rounds => sum[n] = kb - left[n]}
  <2>1. 0 \in S
    BY <1>1, <1>8
  <2>2. ASSUME NEW n \in Nat, n \in S PROVE n + 1 \in S
    <3>1. ASSUME n + 1 <= rounds PROVE sum[n + 1] = kb - left[n + 1]
      <4>1. n + 1 \in 1 .. rounds /\ (n + 1) - 1 = n /\ n <= rounds
        BY <1>4, <2>2, <3>1
      <4>2. sum[n + 1] = sum[n] + s[n + 1] /\ s[n + 1] = Least(R, left[n])
        BY <1>7, <1>8, <4>1
      <4>3. sum[n] = kb - left[n] /\ left[n + 1] = left[n] - Least(R, left[n]) /\ left[n] \in Nat
        BY <1>1, <2>2, <4>1
      <4>4. Least(R, left[n]) \in Nat
        BY <1>2, <4>3 DEF Least
      <4> QED
        BY <4>2, <4>3, <4>4
    <3> QED
      BY <3>1
  <2> HIDE DEF S
  <2>3. \A n \in Nat : n \in S
    BY <2>1, <2>2, NatSetInduction
  <2>4. rounds \in Nat
    BY <1>4
  <2> QED
    BY <1>4, <2>3, <2>4 DEF S
<1> QED
  BY <1>7, <1>9 DEF sum, s, R

LEMMA SegmentsDoubledRule ==
  ASSUME NEW n \in Nat
  PROVE  SegmentsDoubled[n] = Power(2)[random_seg_size_bits + n]
<1> DEFINE w == Power(2)
           a == random_seg_size_bits
           D == [k \in Nat |-> [x \in Nat |-> 2 * x]]
           Is(g) == g = [k \in Nat |-> IF k = 0 THEN random_segment_size ELSE 2 * g[k - 1]]
           length == SegmentsDoubled
           S == {k \in Nat : length[k] = w[a + k]}
<1>1. /\ w \in [Nat -> Nat] /\ \A k \in Nat : w[k + 1] = 2 * w[k]
      /\ a \in Nat /\ random_segment_size = w[a]
  BY PowerDef, BuffersAssumption DEF random_segment_size
<1> HIDE DEF w, a
<1>2. PICK h : Recursion(h, Nat, random_segment_size, D)
  <2>1. D \in [Nat -> [Nat -> Nat]] /\ random_segment_size \in Nat
    BY <1>1
  <2> HIDE DEF D
  <2> QED
    BY <2>1, NatRecursion
<1>3. h \in [Nat -> Nat] /\ h[0] = random_segment_size /\ \A k \in Nat : h[k + 1] = 2 * h[k]
  BY <1>2 DEF Recursion
<1>4. Is(h)
  <2>1. \A k \in Nat : k # 0 => k - 1 \in Nat /\ (k - 1) + 1 = k
    OBVIOUS
  <2> QED
    BY <1>3, <2>1
<1>5. Is(length)
  <2>1. length = CHOOSE g : Is(g)
    BY DEF SegmentsDoubled
  <2> HIDE DEF Is, length
  <2> QED
    BY <1>4, <2>1
<1> HIDE DEF length
<1>6. 0 \in S
  <2>1. length[0] = random_segment_size /\ a + 0 = a
    BY <1>1, <1>5
  <2> QED
    BY <1>1, <2>1
<1>7. ASSUME NEW k \in Nat, k \in S PROVE k + 1 \in S
  <2>1. k + 1 \in Nat /\ k + 1 # 0 /\ (k + 1) - 1 = k /\ a + (k + 1) = (a + k) + 1
        /\ a + k \in Nat
    BY <1>1
  <2>2. length[k + 1] = 2 * length[(k + 1) - 1]
    BY <1>5, <2>1
  <2>3. length[k] = w[a + k] /\ w[(a + k) + 1] = 2 * w[a + k]
    BY <1>1, <1>7, <2>1
  <2> QED
    BY <2>1, <2>2, <2>3
<1> HIDE DEF S
<1>8. n \in S
  BY <1>6, <1>7, NatSetInduction
<1> QED
  BY <1>8 DEF S, w, a, length

LEMMA RandomPowersRule ==
  ASSUME NEW n \in Nat
  PROVE  RandomPowers[n] + 1 = Power(2)[n + 1]
<1> DEFINE w == Power(2)
           D == [k \in Nat |-> [x \in Nat |-> x + w[k + 1]]]
           Is(g) == g = [k \in Nat |-> IF k = 0 THEN 1 ELSE g[k - 1] + w[k]]
           sum == RandomPowers
           S == {k \in Nat : sum[k] \in Nat /\ sum[k] + 1 = w[k + 1]}
<1>1. w \in [Nat -> Nat] /\ w[0] = 1 /\ \A k \in Nat : w[k + 1] = 2 * w[k]
  BY PowerDef
<1>2. PICK h : Recursion(h, Nat, 1, D)
  <2> HIDE DEF w
  <2>1. D \in [Nat -> [Nat -> Nat]]
    BY <1>1
  <2> HIDE DEF D
  <2> QED
    BY <2>1, NatRecursion
<1>3. h \in [Nat -> Nat] /\ h[0] = 1 /\ \A k \in Nat : h[k + 1] = h[k] + w[k + 1]
  BY <1>2 DEF Recursion
<1>4. Is(h)
  <2>1. \A k \in Nat : k # 0 => k - 1 \in Nat /\ (k - 1) + 1 = k
    OBVIOUS
  <2> HIDE DEF w
  <2> QED
    BY <1>3, <2>1
<1>5. Is(sum)
  <2>1. sum = CHOOSE g : Is(g)
    BY DEF RandomPowers
  <2> HIDE DEF Is, sum
  <2> QED
    BY <1>4, <2>1
<1> HIDE DEF w, sum
<1>6. 0 \in S
  <2>1. sum[0] = 1 /\ w[0 + 1] = 2
    BY <1>1, <1>5
  <2> QED
    BY <2>1
<1>7. ASSUME NEW k \in Nat, k \in S PROVE k + 1 \in S
  <2>1. k + 1 \in Nat /\ k + 1 # 0 /\ (k + 1) - 1 = k
    OBVIOUS
  <2>2. sum[k + 1] = sum[(k + 1) - 1] + w[k + 1]
    BY <1>5, <2>1
  <2>3. w[(k + 1) + 1] = 2 * w[k + 1] /\ w[k + 1] \in Nat
    BY <1>1, <2>1
  <2>4. sum[k] \in Nat /\ sum[k] + 1 = w[k + 1]
    BY <1>7
  <2>5. sum[k + 1] \in Nat /\ sum[k + 1] + 1 = w[(k + 1) + 1]
    BY <2>1, <2>2, <2>3, <2>4
  <2> QED
    BY <2>1, <2>5
<1> HIDE DEF S
<1>8. n \in S
  BY <1>6, <1>7, NatSetInduction
<1> QED
  BY <1>8 DEF S, w, sum

LEMMA BufferTypes ==
  /\ {BYTES_PER_KB, buf_offset_range, random_size_limit} \subseteq Nat \ {0}
  /\ {random_segment_size, biggest_buf_size} \subseteq Nat \ {0}
  /\ biggest_buf_size \div BYTES_PER_KB \in Nat \ {0}
  /\ (biggest_buf_size \div BYTES_PER_KB) * BYTES_PER_KB <= biggest_buf_size
<1> DEFINE big == biggest_buf_size
           B == BYTES_PER_KB
           q == big \div B
<1>1. {random_segment_size, big} \subseteq Nat \ {0}
  BY BuffersAssumption, PowerGrows DEF random_segment_size, biggest_buf_size
<1>2. B \in Nat \ {0} /\ big \in Nat \ {0} /\ B <= big
  BY <1>1, BuffersAssumption
<1> HIDE DEF big, B
<1>3. q \in Nat /\ big = B * q + (big % B) /\ big % B \in 0 .. B - 1
  BY <1>2, DivModType
<1> HIDE DEF q
<1>4. q # 0
  BY <1>2, <1>3
<1>5. B * q = q * B /\ B * q \in Nat
  BY <1>2, <1>3
<1>6. q * B <= big
  BY <1>2, <1>3, <1>5
<1> QED
  BY <1>1, <1>3, <1>4, <1>6, BuffersAssumption DEF q, big, B

\* Records are not larger than the biggest buffer, nor than the space prepared.
LEMMA RecordFits ==
  ASSUME NEW p \in BufferFields
  PROVE  /\ RecordSize(p) \in Nat /\ TotalSpace(p) \in Nat /\ XattrSpace(p) \in Nat
         /\ p.total_sz_kb > 0 => RecordSize(p) > 0
         /\ RecordSize(p) * BYTES_PER_KB <= biggest_buf_size
         /\ RecordSize(p) * BYTES_PER_KB <= TotalSpace(p)
         /\ XattrSpace(p) <= TotalSpace(p)
         /\ XattrSpace(p) <= biggest_buf_size => TotalSpace(p) <= biggest_buf_size
<1> DEFINE B == BYTES_PER_KB
           big == biggest_buf_size
           m == big \div B
           r == RecordSize(p)
           total == p.total_sz_kb
           grown == total * random_size_limit
           kb == IF p.record_sz_kb # 0 THEN p.record_sz_kb
                 ELSE IF p.random THEN grown ELSE total
<1>1. /\ B \in Nat \ {0} /\ big \in Nat \ {0} /\ m \in Nat \ {0} /\ m * B <= big
      /\ p.record_sz_kb \in Nat /\ total \in Nat /\ p.random \in BOOLEAN
      /\ XattrSpace(p) \in Nat
  BY BufferTypes DEF XattrSpace, BufferFields
<1>2. grown \in Nat /\ total <= grown
  <2>1. random_size_limit \in Nat \ {0}
    BY BufferTypes
  <2> DEFINE l == random_size_limit
  <2>2. l - 1 \in Nat /\ total * l = total + total * (l - 1) /\ total * (l - 1) >= 0
        /\ total * (l - 1) \in Nat
    BY <1>1, <2>1
  <2> QED
    BY <1>1, <2>2
<1>3. r = Least(IF p.record_sz_kb = 0 THEN total ELSE p.record_sz_kb, m)
  BY DEF RecordSize
<1>4. TotalSpace(p) = Greatest(Least(kb * B, big), XattrSpace(p))
  BY DEF TotalSpace
<1> HIDE DEF B, big, m, r, total, grown
<1>5. /\ r \in Nat /\ kb \in Nat /\ r <= kb /\ r <= m
      /\ total > 0 => r > 0
  BY <1>1, <1>2, <1>3 DEF Least
<1> HIDE DEF kb
<1>6. r * B \in Nat /\ kb * B \in Nat /\ m * B \in Nat /\ r * B <= kb * B /\ r * B <= m * B
  <2>1. ASSUME NEW x \in Nat, NEW y \in Nat, x <= y PROVE x * B <= y * B
    <3>1. (y - x) * B >= 0 /\ (y - x) * B = y * B - x * B
      BY <1>1, <2>1
    <3>2. x * B \in Nat /\ y * B \in Nat
      BY <1>1
    <3> QED
      BY <3>1, <3>2
  <2> QED
    BY <1>1, <1>5, <2>1
<1> DEFINE u == r * B
           v == kb * B
           w == m * B
<1>7. u \in Nat /\ v \in Nat /\ w \in Nat /\ u <= v /\ u <= w /\ w <= big
  BY <1>1, <1>6
<1> HIDE DEF u, v, w
<1>8. /\ TotalSpace(p) \in Nat /\ u <= big /\ u <= TotalSpace(p)
      /\ XattrSpace(p) <= TotalSpace(p)
      /\ XattrSpace(p) <= big => TotalSpace(p) <= big
  <2>1. TotalSpace(p) = Greatest(Least(v, big), XattrSpace(p))
    BY <1>4 DEF v
  <2> QED
    BY <1>1, <1>7, <2>1 DEF Least, Greatest
<1> QED
  BY <1>1, <1>5, <1>8 DEF u, B, big, r, total

LEMMA SizesType ==
  ASSUME NEW p \in BufferInputs, NEW kb \in FileSizes(p)
  PROVE  kb \in Nat /\ (kb > 0 => p.total_sz_kb > 0)
<1>1. /\ p.total_sz_kb \in Nat /\ (p.random => p.total_sz_kb > 0)
      /\ random_size_limit \in Nat
  BY AlgorithmsAssumption, BufferTypes DEF BufferFields
<1> DEFINE n == p.total_sz_kb * random_size_limit
<1>2. n \in Nat
  BY <1>1
<1> HIDE DEF n
<1>3. kb \in IF p.random THEN 1 .. n ELSE {p.total_sz_kb}
  BY DEF FileSizes, n
<1> QED
  BY <1>1, <1>2, <1>3

\* What a file needs of the buffers is there.
THEOREM BuffersAreThere == Spec => []BuffersSuffice
<1>1. ASSUME NEW p \in BufferInputs, NEW kb \in FileSizes(p)
      PROVE  LET records == Records(p, kb)
             IN /\ \A i \in DOMAIN records : records[i] * BYTES_PER_KB <= TotalSpace(p)
                /\ SumOf(records)[Len(records)] = kb
  <2> DEFINE r == RecordSize(p)
             s == Records(p, kb)
             B == BYTES_PER_KB
  <2>1. /\ r \in Nat /\ TotalSpace(p) \in Nat /\ r * B <= TotalSpace(p)
        /\ kb \in Nat /\ (kb > 0 => r > 0) /\ B \in Nat
    BY <1>1, RecordFits, SizesType, BufferTypes, AlgorithmsAssumption
  <2>2. /\ s \in Seq(Nat) /\ \A i \in DOMAIN s : s[i] <= r
        /\ SumOf(s)[Len(s)] = kb
    BY <2>1, RecordsRule
  <2>3. ASSUME NEW i \in DOMAIN s PROVE s[i] * B <= TotalSpace(p)
    <3> DEFINE x == s[i]
    <3>1. x \in Nat /\ x <= r
      BY <2>2
    <3> HIDE DEF x, r, B
    <3>2. (r - x) * B >= 0 /\ (r - x) * B = r * B - x * B
      BY <2>1, <3>1
    <3>3. r * B \in Nat /\ x * B \in Nat
      BY <2>1, <3>1
    <3>4. x * B <= TotalSpace(p)
      BY <2>1, <3>2, <3>3
    <3> QED
      BY <3>4 DEF x
  <2> QED
    BY <2>2, <2>3
<1>2. ASSUME NEW p \in BufferInputs, XattrSpace(p) <= biggest_buf_size,
             NEW f \in 0 .. buf_offset_range
      PROVE  BufferIsThere(p, f)
  <2> DEFINE a == (p.tid + 1) * f
  <2>1. a \in Nat /\ buf_offset_range \in Nat \ {0}
    BY AlgorithmsAssumption, BufferTypes DEF BufferFields
  <2> HIDE DEF a
  <2>2. a % buf_offset_range \in 0 .. buf_offset_range - 1
    BY <2>1, DivModType
  <2>3. TotalSpace(p) \in Nat /\ TotalSpace(p) <= biggest_buf_size /\ biggest_buf_size \in Nat
    BY <1>2, RecordFits, BufferTypes, AlgorithmsAssumption
  <2>4. UniqueOffset(p, f) = a % buf_offset_range
    BY DEF UniqueOffset, a
  <2> QED
    BY <2>1, <2>2, <2>3, <2>4 DEF BufferIsThere
<1>3. SegmentsDoubled[biggest_buf_size_bits - random_seg_size_bits] = biggest_buf_size
  <2>1. /\ biggest_buf_size_bits - random_seg_size_bits \in Nat
        /\ random_seg_size_bits + (biggest_buf_size_bits - random_seg_size_bits)
             = biggest_buf_size_bits
    BY BuffersAssumption
  <2> QED
    BY <2>1, SegmentsDoubledRule DEF biggest_buf_size
<1>4. RandomBytes = biggest_buf_size
  <2>1. biggest_buf_size_bits - 1 \in Nat /\ (biggest_buf_size_bits - 1) + 1 = biggest_buf_size_bits
    BY BuffersAssumption
  <2> QED
    BY <2>1, RandomPowersRule DEF RandomBytes, biggest_buf_size
<1>5. InputKept => BuffersSuffice
  <2> SUFFICES ASSUME InputKept, calc = "buffers"
               PROVE  /\ \A kb \in FileSizes(input) :
                           LET records == Records(input, kb)
                           IN /\ \A i \in DOMAIN records :
                                   records[i] * BYTES_PER_KB <= TotalSpace(input)
                              /\ SumOf(records)[Len(records)] = kb
                      /\ XattrSpace(input) <= TotalSpace(input)
                      /\ XattrSpace(input) <= biggest_buf_size =>
                           \A f \in 0 .. buf_offset_range : BufferIsThere(input, f)
    BY <1>3, <1>4 DEF BuffersSuffice
  <2>1. input \in BufferInputs
    BY DEF InputKept
  <2> QED
    BY <1>1, <1>2, <2>1, RecordFits, AlgorithmsAssumption
<1> QED
  BY <1>5, InputInit, InputNext, PTL DEF Spec

-----------------------------------------------------------------------------
\* Verifying readers.

LEMMA ModSum ==
  ASSUME NEW a \in Nat, NEW x \in Nat, NEW d \in Nat \ {0}
  PROVE  (a + x) % d = (a + (x % d)) % d
<1> DEFINE q == x \div d
           r == x % d
           s == a + r
<1>1. q \in Nat /\ r \in Nat /\ x = d * q + r
  BY DivModType
<1> HIDE DEF q, r
<1>2. s \in Nat
  BY <1>1
<1> HIDE DEF s
<1>3. s \div d \in Nat /\ s % d \in 0 .. d - 1 /\ s = d * (s \div d) + (s % d)
  BY <1>2, DivModType
<1> DEFINE u == s \div d
           v == s % d
<1>4. u \in Nat /\ v \in 0 .. d - 1 /\ s = d * u + v
  BY <1>3
<1> HIDE DEF u, v
<1>5. d * (q + u) = d * q + d * u /\ d * q \in Nat /\ d * u \in Nat /\ q + u \in Nat
  BY <1>1, <1>4
<1>6. a + x = d * (q + u) + v
  BY <1>1, <1>4, <1>5 DEF s
<1> DEFINE y == a + x
<1>7. y \in Nat /\ y = d * (q + u) + v
  BY <1>6
<1> HIDE DEF y
<1>8. y % d = v
  BY <1>4, <1>5, <1>7, DivModUnique
<1> QED
  BY <1>8 DEF y, v, s, r

LEMMA ModMod ==
  ASSUME NEW x \in Nat, NEW d \in Nat \ {0}, NEW z \in Nat \ {0}
  PROVE  (x % (d * z)) % d = x % d
<1> DEFINE m == d * z
           q == x \div m
           r == x % m
           u == r \div d
           v == r % d
<1>1. m \in Nat \ {0}
  OBVIOUS
<1> HIDE DEF m
<1>2. q \in Nat /\ r \in Nat /\ x = m * q + r
  BY <1>1, DivModType
<1> HIDE DEF q, r
<1>3. u \in Nat /\ v \in 0 .. d - 1 /\ r = d * u + v
  BY <1>2, DivModType
<1> HIDE DEF u, v
<1>4. m * q = d * (z * q) /\ z * q \in Nat
  BY <1>2 DEF m
<1> DEFINE y == z * q
<1>5. y \in Nat /\ m * q = d * y
  BY <1>4
<1> HIDE DEF y
<1>6. d * (y + u) = d * y + d * u /\ d * y \in Nat /\ d * u \in Nat /\ y + u \in Nat
  BY <1>3, <1>5
<1>7. x = d * (y + u) + v
  BY <1>2, <1>3, <1>5, <1>6
<1>8. x % d = v
  BY <1>3, <1>6, <1>7, DivModUnique
<1> QED
  BY <1>8 DEF v, r, m

\* The same place of the buffer is never the beginning of one record and the
\* middle of another.
LEMMA RecordsDiffer ==
  ASSUME NEW a \in Nat, NEW x \in Nat \ {0}, NEW y \in Nat, NEW b \in Nat,
         x < y, y <= b
  PROVE  (a + (x % x)) % b # (a + (x % y)) % b
<1>1. x % x = 0
  <2>1. x = x * 1 + 0 /\ 0 \in 0 .. x - 1
    OBVIOUS
  <2> QED
    BY <2>1, DivModUnique
<1>2. x % y = x
  <2>1. y \in Nat \ {0} /\ x \in 0 .. y - 1 /\ x = y * 0 + x
    OBVIOUS
  <2> QED
    BY <2>1, DivModUnique
<1> DEFINE c == a + x
           u == a \div b
           v == a % b
           w == c \div b
<1>3. SUFFICES ASSUME v = c % b PROVE FALSE
  BY <1>1, <1>2
<1>4. b \in Nat \ {0} /\ c \in Nat
  OBVIOUS
<1> HIDE DEF c
<1>5. /\ u \in Nat /\ v \in Nat /\ a = b * u + v
      /\ w \in Nat /\ c = b * w + (c % b)
  BY <1>4, DivModType
<1>6. c = b * w + v
  BY <1>3, <1>5
<1> HIDE DEF u, v, w
<1>7. b * u \in Nat /\ b * w \in Nat /\ b * w = b * u + x
  BY <1>4, <1>5, <1>6 DEF c
<1>8. ~(u < w)
  <2>1. u < w => b * u + b <= b * w
    BY <1>4, <1>5, Multiples
  <2> QED
    BY <1>4, <1>7, <2>1
<1>9. ~(w < u)
  <2>1. w < u => b * w + b <= b * u
    BY <1>4, <1>5, Multiples
  <2> QED
    BY <1>4, <1>7, <2>1
<1> QED
  BY <1>5, <1>7, <1>8, <1>9

LEMMA ReadersRule ==
  ASSUME NEW p \in BufferInputs, NEW kb \in FileSizes(p)
  PROVE  LET reader == [p EXCEPT !.record_sz_kb = p.reader_record_sz_kb]
             record == Least(RecordSize(p), RecordSize(reader))
         IN (\A q \in 0 .. kb * BYTES_PER_KB - 1 : Content(p, 1, q) = Content(reader, 1, q))
              <=> \/ ~p.incompressible
                  \/ RecordSize(p) = RecordSize(reader) \/ kb <= record
<1> DEFINE reader == [p EXCEPT !.record_sz_kb = p.reader_record_sz_kb]
           m == RecordSize(p)
           n == RecordSize(reader)
           record == Least(m, n)
           B == BYTES_PER_KB
           a == UniqueOffset(p, 1)
           seg == random_segment_size
           big == biggest_buf_size
           w == p.incompressible
           Same == \A q \in 0 .. kb * B - 1 : Content(p, 1, q) = Content(reader, 1, q)
<1>1. p \in BufferFields /\ reader \in BufferFields
  <2>1. p \in BufferFields
    BY AlgorithmsAssumption
  <2> QED
    BY <2>1 DEF BufferFields
<1>2. /\ reader.incompressible = w /\ UniqueOffset(reader, 1) = a
      /\ reader.total_sz_kb = p.total_sz_kb
  BY <1>1 DEF UniqueOffset, BufferFields
<1>3. kb \in Nat /\ (kb > 0 => p.total_sz_kb > 0)
  BY SizesType
<1>4. /\ m \in Nat /\ (kb > 0 => m > 0) /\ m * B <= big
      /\ n \in Nat /\ (kb > 0 => n > 0) /\ n * B <= big
  <2> HIDE DEF reader
  <2> QED
    BY <1>1, <1>2, <1>3, RecordFits
<1>5. a \in Nat
  <2> DEFINE c == (p.tid + 1) * 1
  <2>1. c \in Nat /\ buf_offset_range \in Nat \ {0}
    BY <1>1, BufferTypes DEF BufferFields
  <2> HIDE DEF c
  <2>2. c % buf_offset_range \in Nat
    BY <2>1, DivModType
  <2> QED
    BY <2>2 DEF UniqueOffset, c
<1>6. B \in Nat \ {0} /\ seg \in Nat \ {0} /\ big \in Nat \ {0} /\ B % seg = 0
  BY BufferTypes, BuffersAssumption
<1>7. w \in BOOLEAN
  BY <1>1 DEF BufferFields
<1>8. ASSUME NEW q
      PROVE  /\ Content(p, 1, q) = IF w THEN (a + (q % (m * B))) % big
                                        ELSE (a + (q % (m * B))) % seg
             /\ Content(reader, 1, q) = IF w THEN (a + (q % (n * B))) % big
                                             ELSE (a + (q % (n * B))) % seg
  BY <1>2 DEF Content, Byte
<1> HIDE DEF reader, m, n, B, a, seg, big, w
<1>9. m * B \in Nat /\ n * B \in Nat /\ kb * B \in Nat
      /\ (kb > 0 => m * B > 0 /\ n * B > 0)
  BY <1>3, <1>4, <1>6
<1>10. CASE kb = 0
  <2>1. kb * B = 0 /\ kb <= record
    BY <1>3, <1>4, <1>6, <1>10 DEF Least
  <2> QED
    BY <1>3, <2>1 DEF reader, m, n, B
<1>11. CASE kb > 0 /\ ~w
  <2>1. ASSUME NEW q \in 0 .. kb * B - 1
        PROVE  (a + (q % (m * B))) % seg = (a + (q % (n * B))) % seg
    <3> DEFINE c == B \div seg
    <3>1. q \in Nat
      BY <1>9
    <3>2. c \in Nat \ {0} /\ B = seg * c
      <4>1. c \in Nat /\ B = seg * c + (B % seg)
        BY <1>6, DivModType
      <4> HIDE DEF c
      <4>2. seg * c \in Nat /\ B = seg * c
        BY <1>6, <4>1
      <4>3. c # 0
        BY <1>6, <4>2
      <4> QED
        BY <4>1, <4>2, <4>3
    <3> HIDE DEF c
    <3>3. ASSUME NEW k \in Nat \ {0} PROVE /\ (q % (k * B)) % seg = q % seg
                                           /\ q % (k * B) \in Nat
      <4> DEFINE z == c * k
      <4>1. z \in Nat \ {0} /\ k * B = seg * z
        <5>1. k * (seg * c) = seg * (c * k) /\ c * k \in Nat \ {0}
          BY <1>6, <3>2
        <5> QED
          BY <3>2, <5>1
      <4> HIDE DEF z
      <4>2. (q % (seg * z)) % seg = q % seg
        BY <1>6, <3>1, <4>1, ModMod
      <4> DEFINE y == k * B
      <4>3. y \in Nat \ {0}
        BY <1>6
      <4> HIDE DEF y
      <4>4. q % y \in Nat
        BY <3>1, <4>3, DivModType
      <4> QED
        BY <4>1, <4>2, <4>4 DEF y
    <3> DEFINE f == q % (m * B)
               g == q % (n * B)
    <3>4. f \in Nat /\ g \in Nat /\ f % seg = g % seg
      BY <1>4, <1>11, <3>3
    <3> HIDE DEF f, g
    <3>5. (a + f) % seg = (a + g) % seg
      <4>1. a \in Nat /\ f \in Nat /\ g \in Nat /\ seg \in Nat \ {0} /\ f % seg = g % seg
        BY <1>5, <1>6, <3>4
      <4> HIDE DEF a, seg
      <4>2. /\ (a + f) % seg = (a + (f % seg)) % seg
            /\ (a + g) % seg = (a + (g % seg)) % seg
        BY <4>1, ModSum
      <4> QED
        BY <4>1, <4>2
    <3> QED
      BY <3>5 DEF f, g
  <2>2. \A q \in 0 .. kb * B - 1 : Content(p, 1, q) = Content(reader, 1, q)
    BY <1>8, <1>11, <2>1
  <2> QED
    BY <1>11, <2>2 DEF reader, w, B
<1>12. CASE kb > 0 /\ w /\ (m = n \/ kb <= record)
  <2>1. ASSUME NEW q \in 0 .. kb * B - 1 PROVE q % (m * B) = q % (n * B)
    <3>1. CASE m = n
      BY <3>1
    <3>2. CASE kb <= record
      <4>1. ASSUME NEW k \in Nat \ {0}, kb <= k PROVE q % (k * B) = q
        <5>1. (k - kb) * B >= 0 /\ (k - kb) * B = k * B - kb * B /\ k * B \in Nat
          BY <1>3, <1>6, <4>1
        <5> DEFINE y == k * B
                   v == kb * B
        <5>2. y \in Nat /\ v \in Nat /\ v <= y /\ q \in 0 .. v - 1
          BY <1>9, <5>1
        <5> HIDE DEF y, v
        <5>3. y \in Nat \ {0} /\ q \in Nat /\ q \in 0 .. y - 1 /\ q = y * 0 + q
          BY <5>2
        <5>4. q % y = q
          BY <5>3, DivModUnique
        <5> QED
          BY <5>4 DEF y
      <4>2. kb <= m /\ kb <= n
        BY <1>3, <1>4, <3>2 DEF Least
      <4> QED
        BY <1>4, <1>12, <4>1, <4>2
    <3> QED
      BY <1>12, <3>1, <3>2
  <2>2. \A q \in 0 .. kb * B - 1 : Content(p, 1, q) = Content(reader, 1, q)
    BY <1>8, <2>1
  <2> QED
    BY <1>12, <2>2 DEF reader, m, n, B
<1>13. CASE kb > 0 /\ w /\ ~(m = n \/ kb <= record)
  <2> DEFINE x == record * B
  <2>1. record \in Nat \ {0} /\ record < kb /\ m # n
        /\ ((record = m /\ m < n) \/ (record = n /\ n < m))
    BY <1>3, <1>4, <1>13 DEF Least
  <2> HIDE DEF record
  <2>2. ASSUME NEW k \in Nat, record < k PROVE x < k * B /\ x \in Nat \ {0} /\ k * B \in Nat
    <3>1. (k - record) * B > 0 /\ (k - record) * B = k * B - record * B /\ k * B \in Nat
      BY <1>6, <2>1, <2>2
    <3>2. x \in Nat \ {0}
      BY <1>6, <2>1
    <3> QED
      BY <3>1, <3>2
  <2>3. x \in 0 .. kb * B - 1 /\ x \in Nat \ {0}
    BY <1>3, <1>9, <2>1, <2>2
  <2>4. (a + (x % (m * B))) % big # (a + (x % (n * B))) % big
    <3>1. CASE record = m /\ m < n
      <4>1. x = m * B /\ x < n * B
        BY <1>4, <2>2, <3>1
      <4> HIDE DEF x
      <4>2. (a + (x % x)) % big # (a + (x % (n * B))) % big
        <5> DEFINE y == n * B
        <5>1. y \in Nat /\ x < y /\ y <= big
          BY <1>4, <1>9, <4>1
        <5> HIDE DEF y
        <5>2. (a + (x % x)) % big # (a + (x % y)) % big
          BY <1>5, <1>6, <2>3, <5>1, RecordsDiffer
        <5> QED
          BY <5>2 DEF y
      <4> QED
        BY <4>1, <4>2
    <3>2. CASE record = n /\ n < m
      <4>1. x = n * B /\ x < m * B
        BY <1>4, <2>2, <3>2
      <4> HIDE DEF x
      <4>2. (a + (x % x)) % big # (a + (x % (m * B))) % big
        <5> DEFINE y == m * B
        <5>1. y \in Nat /\ x < y /\ y <= big
          BY <1>4, <1>9, <4>1
        <5> HIDE DEF y
        <5>2. (a + (x % x)) % big # (a + (x % y)) % big
          BY <1>5, <1>6, <2>3, <5>1, RecordsDiffer
        <5> QED
          BY <5>2 DEF y
      <4> QED
        BY <4>1, <4>2
    <3> QED
      BY <2>1, <3>1, <3>2
  <2>5. Content(p, 1, x) # Content(reader, 1, x)
    BY <1>8, <1>13, <2>4
  <2>6. ~Same
    BY <2>3, <2>5 DEF B
  <2> QED
    BY <1>13, <2>6 DEF record, reader, m, n, w, B
<1> QED
  BY <1>3, <1>7, <1>10, <1>11, <1>12, <1>13

\* A verifying reader finds what was written, or it is sure not to.
THEOREM ReadersFindWhatIsWritten == Spec => []ReadersAgree
<1>1. InputKept => ReadersAgree
  BY ReadersRule DEF InputKept, ReadersAgree
<1> QED
  BY <1>1, InputInit, InputNext, PTL DEF Spec

-----------------------------------------------------------------------------
\* The walk of a cleanup.

\* Directories: a top directory, and a path of numbers below it.
Dirs(c) == (0 .. c.names.tops - 1) \X Seq(Nat)

LEMMA CleanInputType ==
  ASSUME NEW c \in CleanInputs
  PROVE  /\ c.names \in NameInputs /\ c.names.dirs_per_dir > 1
         /\ NamesInRange(c.names)
         /\ c.lengths \in [0 .. c.names.tops - 1 -> Nat]
         /\ c.there \subseteq AllSubdirs(c.names) /\ \A dir \in c.there : ~IsTop(dir)
         /\ c.used \subseteq c.there
BY AlgorithmsAssumption

LEMMA BeginningIs ==
  ASSUME NEW s \in Seq(Nat), NEW i \in 0 .. Len(s)
  PROVE  /\ SubSeq(s, 1, i) \in Seq(Nat) /\ Len(SubSeq(s, 1, i)) = i
         /\ \A j \in 1 .. i : SubSeq(s, 1, i)[j] = s[j]
OBVIOUS

\* A directory is above another one if its path is the beginning of the other.
LEMMA AboveIs ==
  ASSUME NEW c, NEW d \in Dirs(c), NEW e
  PROVE  e \in Above(d) <=>
           /\ e \in Dirs(c) /\ e[1] = d[1] /\ Len(e[2]) <= Len(d[2])
           /\ \A i \in 1 .. Len(e[2]) : e[2][i] = d[2][i]
<1> DEFINE s == d[2]
<1>1. s \in Seq(Nat) /\ Len(s) \in Nat /\ d[1] \in 0 .. c.names.tops - 1
  BY DEF Dirs
<1> HIDE DEF s
<1>2. ASSUME NEW i \in 0 .. Len(s)
      PROVE  /\ SubSeq(s, 1, i) \in Seq(Nat) /\ Len(SubSeq(s, 1, i)) = i
             /\ \A j \in 1 .. i : SubSeq(s, 1, i)[j] = s[j]
  BY <1>1, BeginningIs
<1>3. ASSUME e \in Above(d)
      PROVE  /\ e \in Dirs(c) /\ e[1] = d[1] /\ Len(e[2]) <= Len(s)
             /\ \A i \in 1 .. Len(e[2]) : e[2][i] = s[i]
  <2>1. PICK i \in 0 .. Len(s) : e = <<d[1], SubSeq(s, 1, i)>>
    BY <1>3 DEF Above, s
  <2> DEFINE t == SubSeq(s, 1, i)
  <2>2. t \in Seq(Nat) /\ Len(t) = i /\ \A j \in 1 .. i : t[j] = s[j]
    BY <1>2
  <2>3. e[1] = d[1] /\ e[2] = t
    BY <2>1
  <2> HIDE DEF t
  <2>4. e = <<d[1], t>>
    BY <2>1 DEF t
  <2>5. e \in Dirs(c)
    BY <1>1, <2>2, <2>4 DEF Dirs
  <2>6. i <= Len(s)
    BY <1>1
  <2> QED
    BY <2>2, <2>3, <2>5, <2>6
<1>4. ASSUME e \in Dirs(c), e[1] = d[1], Len(e[2]) <= Len(s),
             \A i \in 1 .. Len(e[2]) : e[2][i] = s[i]
      PROVE  e \in Above(d)
  <2>1. e = <<e[1], e[2]>> /\ e[2] \in Seq(Nat)
    BY <1>4 DEF Dirs
  <2> DEFINE t == e[2]
  <2>2. t \in Seq(Nat) /\ Len(t) \in 0 .. Len(s)
    BY <1>1, <1>4, <2>1
  <2>3. SubSeq(s, 1, Len(t)) = t
    BY <1>1, <1>2, <1>4, <2>2
  <2> QED
    BY <1>4, <2>1, <2>2, <2>3 DEF Above, s
<1> QED
  BY <1>3, <1>4 DEF s

LEMMA AboveItself ==
  ASSUME NEW c, NEW d \in Dirs(c) PROVE d \in Above(d)
BY AboveIs DEF Dirs

LEMMA AboveAbove ==
  ASSUME NEW c, NEW d \in Dirs(c), NEW e \in Above(d), NEW g \in Above(e)
  PROVE  g \in Above(d)
<1>1. e \in Dirs(c) /\ e[1] = d[1] /\ Len(e[2]) <= Len(d[2])
      /\ \A i \in 1 .. Len(e[2]) : e[2][i] = d[2][i]
  BY AboveIs
<1>2. g \in Dirs(c) /\ g[1] = e[1] /\ Len(g[2]) <= Len(e[2])
      /\ \A i \in 1 .. Len(g[2]) : g[2][i] = e[2][i]
  BY <1>1, AboveIs
<1>3. Len(g[2]) \in Nat /\ Len(e[2]) \in Nat /\ Len(d[2]) \in Nat
  BY <1>1, <1>2 DEF Dirs
<1>4. Len(g[2]) <= Len(d[2]) /\ \A i \in 1 .. Len(g[2]) : g[2][i] = d[2][i]
  BY <1>1, <1>2, <1>3
<1> QED
  BY <1>1, <1>2, <1>4, AboveIs

\* Parents are above their directory, and next to it.
LEMMA ParentIs ==
  ASSUME NEW c, NEW d \in Dirs(c), ~IsTop(d)
  PROVE  /\ Parent(d) \in Above(d) /\ Parent(d) \in Dirs(c)
         /\ Len(Parent(d)[2]) = Len(d[2]) - 1
         /\ \A e \in Above(d) : e = d \/ e \in Above(Parent(d))
<1> DEFINE s == d[2]
           t == SubSeq(s, 1, Len(s) - 1)
<1>1. s \in Seq(Nat) /\ Len(s) \in Nat /\ d = <<d[1], s>> /\ Len(s) >= 1
      /\ d[1] \in 0 .. c.names.tops - 1
  BY DEF Dirs, IsTop
<1> HIDE DEF s
<1>2. t \in Seq(Nat) /\ Len(t) = Len(s) - 1 /\ \A i \in 1 .. Len(t) : t[i] = s[i]
  <2>1. Len(s) - 1 \in 0 .. Len(s)
    BY <1>1
  <2> QED
    BY <1>1, <2>1, BeginningIs
<1> HIDE DEF t
<1>3. Parent(d) = <<d[1], t>>
  BY DEF Parent, s, t
<1>4. Parent(d) \in Dirs(c)
  BY <1>1, <1>2, <1>3 DEF Dirs
<1>5. Parent(d) \in Above(d)
  BY <1>1, <1>2, <1>3, <1>4, AboveIs DEF s
<1>6. ASSUME NEW e \in Above(d), e # d PROVE e \in Above(Parent(d))
  <2>1. /\ e \in Dirs(c) /\ e[1] = d[1] /\ Len(e[2]) <= Len(s)
        /\ \A i \in 1 .. Len(e[2]) : e[2][i] = s[i]
    BY AboveIs DEF s
  <2>2. Len(e[2]) # Len(s)
    <3> SUFFICES ASSUME Len(e[2]) = Len(s) PROVE FALSE
      OBVIOUS
    <3>1. PICK i \in 0 .. Len(s) : e = <<d[1], SubSeq(s, 1, i)>>
      BY DEF Above, s
    <3>2. Len(SubSeq(s, 1, i)) = i
      BY <1>1, BeginningIs
    <3>3. i = Len(s)
      BY <3>1, <3>2
    <3>4. SubSeq(s, 1, Len(s)) = s
      BY <1>1
    <3> QED
      BY <1>1, <1>6, <3>1, <3>3, <3>4
  <2>3. Len(e[2]) \in Nat
    BY <2>1 DEF Dirs
  <2>4. Len(e[2]) <= Len(t) /\ \A i \in 1 .. Len(e[2]) : e[2][i] = t[i]
    BY <1>1, <1>2, <2>1, <2>2, <2>3
  <2> QED
    BY <1>3, <1>4, <2>1, <2>4, AboveIs
<1>7. Len(Parent(d)[2]) = Len(d[2]) - 1
  BY <1>2, <1>3 DEF s
<1> QED
  BY <1>4, <1>5, <1>6, <1>7

\* What is above has a path that is not longer.
LEMMA AboveShorter ==
  ASSUME NEW c \in CleanInputs, NEW d \in Dirs(c), NEW e \in Above(d)
  PROVE  /\ PathLength(c, e) <= PathLength(c, d)
         /\ PathLength(c, e) \in Nat /\ PathLength(c, d) \in Nat
<1>1. e \in Dirs(c) /\ e[1] = d[1] /\ Len(e[2]) <= Len(d[2])
  BY AboveIs
<1> DEFINE n == c.lengths[d[1]]
           l == Len(d[2])
           k == Len(e[2])
<1>2. l \in Nat /\ k \in Nat /\ d[1] \in 0 .. c.names.tops - 1
  BY <1>1 DEF Dirs
<1>3. n \in Nat
  <2>1. c.lengths \in [0 .. c.names.tops - 1 -> Nat]
    BY CleanInputType
  <2> QED
    BY <1>2, <2>1
<1>4. PathLength(c, e) = n + 6 * k /\ PathLength(c, d) = n + 6 * l
  BY <1>1 DEF PathLength
<1> HIDE DEF n, l, k
<1> QED
  BY <1>1, <1>2, <1>3, <1>4 DEF l, k

LEMMA SeqOfNumbers ==
  ASSUME NEW n \in Nat, NEW s \in Seq(0 .. n - 1)
  PROVE  s \in Seq(Nat)
<1>1. s \in [1 .. Len(s) -> 0 .. n - 1] /\ Len(s) \in Nat
  OBVIOUS
<1>2. s \in [1 .. Len(s) -> Nat]
  BY <1>1
<1> QED
  BY <1>1, <1>2

LEMMA NamedDirsType ==
  ASSUME NEW c \in CleanInputs, NEW d \in NamedDirs(c.names)
  PROVE  d \in Dirs(c)
<1> DEFINE p == c.names
<1>1. p \in NameInputs /\ p.dirs_per_dir > 1 /\ NamesInRange(p)
  BY CleanInputType
<1>2. p.dirs_per_dir \in Nat \ {0, 1} /\ p.tops \in Nat \ {0} /\ p.dirs_per_dir # 1
      /\ p.files_per_dir \in Nat \ {0}
  BY <1>1, NameInputType
<1>3. PICK f \in NamedFiles(p) : d = FileDir(p, f)
  BY DEF NamedDirs
<1>4. f \in Nat
  BY <1>1, NameInputType DEF NamesInRange
<1>5. f % p.tops \in 0 .. p.tops - 1
  BY <1>2, <1>4, DivModType
<1>6. DirName(p, f) \in Seq(0 .. p.dirs_per_dir - 1)
  <2>1. CASE p.hash_to_dir
    <3>1. HashedNumber(p, f) \in Nat
      BY <1>1, <1>4, HashedNumberType
    <3>2. HashingEnds(p, HashedNumber(p, f))
      BY <1>1, <1>2, <1>4, <2>1, LoopsEnd DEF Terminates
    <3>3. HashedDir(p, f) \in Seq(0 .. p.dirs_per_dir - 1)
      BY <1>2, <1>4, <3>1, <3>2, HashedDirType
    <3> QED
      BY <2>1, <3>3 DEF DirName
  <2>2. CASE ~p.hash_to_dir
    <3>1. SeqDir(p, f) \in Seq(0 .. p.dirs_per_dir - 1)
      BY <1>2, <1>4, SeqDirType
    <3> QED
      BY <2>2, <3>1 DEF DirName
  <2> QED
    BY <2>1, <2>2
<1>7. DirName(p, f) \in Seq(Nat)
  BY <1>2, <1>6, SeqOfNumbers
<1> QED
  BY <1>3, <1>5, <1>7 DEF FileDir, Dirs

\* Why an existing directory may be left: something below it, or its length.
Keeps(c, dir) ==
  \/ \E d \in c.used \cup refused : dir \in Above(d)
  \/ PathLength(c, dir) <= c.lengths[0]

\* What the walk is still to look at.
ToVisit(dir) ==
  \/ \E d \in dirset : dir \in Above(d)
  \/ unique_dpath # NoPath /\ dir \in Above(unique_dpath)

WalkType(c) ==
  /\ dirset \subseteq Dirs(c)
  /\ unique_dpath # NoPath => unique_dpath \in Dirs(c) /\ ~IsTop(unique_dpath)
  /\ existing \subseteq {d \in Dirs(c) : ~IsTop(d)}
  /\ c.used \subseteq Dirs(c) /\ refused \subseteq Dirs(c)

NothingForgotten(c) ==
  clean_status = "OK" => \A dir \in existing : Keeps(c, dir) \/ ToVisit(dir)

WalkInv ==
  calc = "clean" =>
    input \in CleanInputs /\ WalkType(input) /\ NothingForgotten(input)

LEMMA WalkInit == Init => WalkInv
<1> SUFFICES ASSUME Init, calc = "clean" PROVE WalkInv
  BY DEF WalkInv
<1> DEFINE c == input
<1>1. c \in CleanInputs /\ CleanInit(c)
  BY DEF Init
<1>2. \A d \in NamedDirs(c.names) : d \in Dirs(c)
  BY <1>1, NamedDirsType
<1>3. ASSUME NEW dir \in existing
      PROVE  dir \in Dirs(c) /\ ~IsTop(dir) /\ \E d \in dirset : dir \in Above(d)
  <2>1. dir \in AllSubdirs(c.names) /\ ~IsTop(dir)
    BY <1>1, <1>3, CleanInputType DEF CleanInit
  <2>2. PICK d \in NamedDirs(c.names) : dir \in Above(d)
    BY <2>1 DEF AllSubdirs
  <2>3. dir \in Dirs(c)
    BY <1>2, <2>2, AboveIs
  <2> QED
    BY <1>1, <2>1, <2>2, <2>3 DEF CleanInit
<1>4. c.used \subseteq Dirs(c)
  BY <1>1, <1>3, CleanInputType DEF CleanInit
<1>5. WalkType(c)
  BY <1>1, <1>2, <1>3, <1>4 DEF WalkType, CleanInit
<1> QED
  BY <1>1, <1>3, <1>5 DEF WalkInv, NothingForgotten, ToVisit

\* Going up leaves only the directory it comes from behind, or the top.
LEMMA GoingUp ==
  ASSUME NEW c \in CleanInputs, WalkType(c), unique_dpath # NoPath, GoesUp,
         NEW dir \in Dirs(c), ~IsTop(dir), dir \in Above(unique_dpath),
         dir # unique_dpath
  PROVE  unique_dpath' # NoPath /\ dir \in Above(unique_dpath')
<1> DEFINE up == Parent(unique_dpath)
<1>1. unique_dpath \in Dirs(c) /\ ~IsTop(unique_dpath)
  BY DEF WalkType
<1>2. up \in Dirs(c) /\ dir \in Above(up)
  BY <1>1, ParentIs
<1>3. ~IsTop(up)
  <2> HIDE DEF up
  <2>1. Len(dir[2]) <= Len(up[2])
    BY <1>2, AboveIs
  <2>2. dir[2] \in Seq(Nat) /\ up[2] \in Seq(Nat)
    BY <1>2 DEF Dirs
  <2>3. Len(dir[2]) # 0 /\ Len(dir[2]) \in Nat
    BY <2>2 DEF IsTop
  <2> QED
    BY <2>1, <2>2, <2>3 DEF IsTop
<1>4. unique_dpath' = up
  BY <1>3 DEF GoesUp
<1>5. up # NoPath
  BY DEF Parent, NoPath
<1> QED
  BY <1>2, <1>4, <1>5

LEMMA GoingUpType ==
  ASSUME NEW c \in CleanInputs, WalkType(c), unique_dpath # NoPath,
         GoesUp \/ GoesUpAfterRmdir(c)
  PROVE  unique_dpath' # NoPath => unique_dpath' \in Dirs(c) /\ ~IsTop(unique_dpath')
<1>1. unique_dpath \in Dirs(c) /\ ~IsTop(unique_dpath)
  BY DEF WalkType
<1>2. Parent(unique_dpath) \in Dirs(c)
  BY <1>1, ParentIs
<1> QED
  BY <1>2 DEF GoesUp, GoesUpAfterRmdir

LEMMA KeptBelow ==
  ASSUME NEW c \in CleanInputs, WalkType(c), NEW sub \in Dirs(c), Keeps(c, sub),
         NEW dir \in Above(sub)
  PROVE  Keeps(c, dir)
<1>1. CASE \E d \in c.used \cup refused : sub \in Above(d)
  <2>1. PICK d \in c.used \cup refused : sub \in Above(d)
    BY <1>1
  <2>2. d \in Dirs(c)
    BY DEF WalkType
  <2>3. dir \in Above(d)
    BY <2>1, <2>2, AboveAbove
  <2> QED
    BY <2>3 DEF Keeps
<1>2. CASE PathLength(c, sub) <= c.lengths[0]
  <2>1. /\ PathLength(c, dir) <= PathLength(c, sub)
        /\ PathLength(c, dir) \in Nat /\ PathLength(c, sub) \in Nat
    BY AboveShorter
  <2>2. c.lengths[0] \in Nat
    BY CleanInputType, NameInputType
  <2> QED
    BY <1>2, <2>1, <2>2 DEF Keeps
<1> QED
  BY <1>1, <1>2 DEF Keeps

\* After an rmdir the walk still comes to every directory above, or ends where
\* the path is not longer than that of the first top directory.
LEMMA GoingUpAfterRmdir ==
  ASSUME NEW c \in CleanInputs, WalkType(c), unique_dpath # NoPath,
         GoesUpAfterRmdir(c), NEW dir \in Dirs(c), ~IsTop(dir),
         dir \in Above(unique_dpath), dir # unique_dpath
  PROVE  \/ unique_dpath' # NoPath /\ dir \in Above(unique_dpath')
         \/ PathLength(c, dir) <= c.lengths[0]
<1> DEFINE up == Parent(unique_dpath)
<1>1. CASE PathLength(c, up) <= c.lengths[0]
  <2>1. unique_dpath \in Dirs(c) /\ ~IsTop(unique_dpath)
    BY DEF WalkType
  <2>2. up \in Dirs(c) /\ dir \in Above(up)
    BY <2>1, ParentIs
  <2>3. /\ PathLength(c, dir) <= PathLength(c, up)
        /\ PathLength(c, dir) \in Nat /\ PathLength(c, up) \in Nat
    BY <2>2, AboveShorter
  <2>4. c.lengths[0] \in Nat
    BY CleanInputType, NameInputType
  <2> QED
    BY <1>1, <2>3, <2>4
<1>2. CASE ~(PathLength(c, up) <= c.lengths[0])
  <2>1. GoesUp
    BY <1>2 DEF GoesUpAfterRmdir
  <2> QED
    BY <2>1, GoingUp
<1> QED
  BY <1>1, <1>2

\* One turn of the loops: it forgets no directory.
LEMMA WalkStep ==
  ASSUME NEW c \in CleanInputs, WalkType(c), NothingForgotten(c), CleanStep(c)
  PROVE  WalkType(c)' /\ NothingForgotten(c)'
<1>1. \A dir \in existing : dir \in Dirs(c) /\ ~IsTop(dir)
  BY DEF WalkType
<1>2. clean_status = "OK" /\ \A dir \in existing : Keeps(c, dir) \/ ToVisit(dir)
  BY DEF NothingForgotten, CleanStep, NextDir, OnWalk, Skips, Removes, NotEmpty, Refused
<1>3. CASE NextDir
  <2>1. PICK d \in dirset : /\ dirset' = dirset \ {d}
                            /\ unique_dpath' = IF IsTop(d) THEN NoPath ELSE d
    BY <1>3 DEF NextDir
  <2>2. unique_dpath = NoPath /\ UNCHANGED <<existing, refused, clean_status>>
    BY <1>3 DEF NextDir
  <2>3. d \in Dirs(c)
    BY DEF WalkType
  <2>4. d # NoPath
    <3>1. \A x, y : <<x, y>> # NoPath
      BY DEF NoPath
    <3>2. d = <<d[1], d[2]>>
      BY <2>3 DEF Dirs
    <3> QED
      BY <3>1, <3>2
  <2>5. WalkType(c)'
    BY <2>1, <2>2, <2>3 DEF WalkType
  <2>6. ASSUME NEW dir \in existing, dir \in Above(d)
        PROVE  unique_dpath' # NoPath /\ dir \in Above(unique_dpath')
    <3>1. ~IsTop(d)
      <4>1. Len(dir[2]) <= Len(d[2]) /\ dir \in Dirs(c) /\ ~IsTop(dir)
        BY <1>1, <2>3, <2>6, AboveIs
      <4>2. dir[2] \in Seq(Nat) /\ d[2] \in Seq(Nat)
        BY <2>3, <4>1 DEF Dirs
      <4>3. Len(dir[2]) # 0 /\ Len(dir[2]) \in Nat
        BY <4>1, <4>2 DEF IsTop
      <4> QED
        BY <4>1, <4>2, <4>3 DEF IsTop
    <3> QED
      BY <2>1, <2>4, <2>6, <3>1
  <2>7. ASSUME NEW dir \in existing, ~Keeps(c, dir) PROVE ToVisit(dir)'
    <3>1. PICK e \in dirset : dir \in Above(e)
      BY <1>2, <2>2, <2>7 DEF ToVisit
    <3>2. CASE e = d
      BY <2>6, <3>1, <3>2 DEF ToVisit
    <3>3. CASE e # d
      BY <2>1, <3>1, <3>3 DEF ToVisit
    <3> QED
      BY <3>2, <3>3
  <2>8. \A dir \in existing : Keeps(c, dir)' <=> Keeps(c, dir)
    BY <2>2 DEF Keeps
  <2> QED
    BY <2>2, <2>5, <2>7, <2>8 DEF NothingForgotten
<1>4. CASE Skips
  <2>1. /\ unique_dpath # NoPath /\ unique_dpath \notin existing /\ GoesUp
        /\ UNCHANGED <<dirset, existing, refused, clean_status>>
    BY <1>4 DEF Skips, OnWalk
  <2>2. WalkType(c)'
    BY <2>1, GoingUpType DEF WalkType
  <2>3. ASSUME NEW dir \in existing, ToVisit(dir) PROVE ToVisit(dir)'
    <3>1. CASE \E d \in dirset : dir \in Above(d)
      BY <2>1, <3>1 DEF ToVisit
    <3>2. CASE dir \in Above(unique_dpath)
      BY <1>1, <2>1, <3>2, GoingUp DEF ToVisit
    <3> QED
      BY <2>3, <3>1, <3>2 DEF ToVisit
  <2>4. \A dir \in existing : Keeps(c, dir)' <=> Keeps(c, dir)
    BY <2>1 DEF Keeps
  <2> QED
    BY <1>2, <2>1, <2>2, <2>3, <2>4 DEF NothingForgotten
<1>5. CASE Removes(c)
  <2>1. /\ unique_dpath # NoPath /\ existing' = existing \ {unique_dpath}
        /\ GoesUpAfterRmdir(c) /\ UNCHANGED <<dirset, refused, clean_status>>
    BY <1>5 DEF Removes, OnWalk
  <2>2. WalkType(c)'
    BY <2>1, GoingUpType DEF WalkType
  <2>3. ASSUME NEW dir \in existing', ToVisit(dir)
        PROVE  ToVisit(dir)' \/ Keeps(c, dir)'
    <3>1. CASE \E d \in dirset : dir \in Above(d)
      BY <2>1, <3>1 DEF ToVisit
    <3>2. CASE dir \in Above(unique_dpath)
      <4>1. \/ unique_dpath' # NoPath /\ dir \in Above(unique_dpath')
            \/ PathLength(c, dir) <= c.lengths[0]
        BY <1>1, <2>1, <3>2, GoingUpAfterRmdir
      <4> QED
        BY <4>1 DEF ToVisit, Keeps
    <3> QED
      BY <2>3, <3>1, <3>2 DEF ToVisit
  <2>4. \A dir \in existing' : Keeps(c, dir)' <=> Keeps(c, dir)
    BY <2>1 DEF Keeps
  <2> QED
    BY <1>2, <2>1, <2>2, <2>3, <2>4 DEF NothingForgotten
<1>6. CASE NotEmpty(c)
  <2>1. /\ unique_dpath # NoPath /\ ~IsEmpty(c, unique_dpath) /\ unique_dpath' = NoPath
        /\ UNCHANGED <<dirset, existing, refused, clean_status>>
    BY <1>6 DEF NotEmpty, OnWalk
  <2>2. WalkType(c)'
    BY <2>1 DEF WalkType
  <2>3. unique_dpath \in Dirs(c)
    BY <2>1 DEF WalkType
  <2>4. ASSUME NEW dir \in existing, dir \in Above(unique_dpath)
        PROVE  ToVisit(dir)' \/ Keeps(c, dir)
    <3>1. CASE unique_dpath \in c.used
      BY <2>4, <3>1 DEF Keeps
    <3>2. CASE \E sub \in existing : Parent(sub) = unique_dpath
      <4>1. PICK sub \in existing : Parent(sub) = unique_dpath
        BY <3>2
      <4>2. sub \in Dirs(c) /\ ~IsTop(sub)
        BY <1>1
      <4>3. unique_dpath \in Above(sub) /\ Len(unique_dpath[2]) = Len(sub[2]) - 1
        BY <4>1, <4>2, ParentIs
      <4>4. dir \in Above(sub)
        BY <2>4, <4>2, <4>3, AboveAbove
      <4>5. sub \notin Above(unique_dpath)
        <5>1. Len(sub[2]) \in Nat
          BY <4>2 DEF Dirs
        <5>2. sub \in Above(unique_dpath) => Len(sub[2]) <= Len(unique_dpath[2])
          BY <2>3, AboveIs
        <5> QED
          BY <4>3, <5>1, <5>2
      <4>6. CASE Keeps(c, sub)
        BY <4>2, <4>4, <4>6, KeptBelow
      <4>7. CASE ToVisit(sub)
        <5>1. PICK d \in dirset : sub \in Above(d)
          BY <4>5, <4>7 DEF ToVisit
        <5>2. d \in Dirs(c)
          BY DEF WalkType
        <5>3. dir \in Above(d)
          BY <4>4, <5>1, <5>2, AboveAbove
        <5> QED
          BY <2>1, <5>3 DEF ToVisit
      <4> QED
        BY <1>2, <4>6, <4>7
    <3> QED
      BY <2>1, <3>1, <3>2 DEF IsEmpty
  <2>5. \A dir \in existing : Keeps(c, dir)' <=> Keeps(c, dir)
    BY <2>1 DEF Keeps
  <2>6. ASSUME NEW dir \in existing, \E d \in dirset : dir \in Above(d)
        PROVE  ToVisit(dir)'
    BY <2>1, <2>6 DEF ToVisit
  <2> QED
    BY <1>2, <2>1, <2>2, <2>4, <2>5, <2>6 DEF NothingForgotten, ToVisit
<1>7. CASE Refused(c)
  <2>1. /\ unique_dpath # NoPath /\ unique_dpath \in existing
        /\ refused' = refused \cup {unique_dpath} /\ UNCHANGED <<dirset, existing>>
        /\ unique_dpath' = NoPath \/ GoesUpAfterRmdir(c)
    BY <1>7 DEF Refused, OnWalk
  <2>2. unique_dpath \in Dirs(c)
    BY <1>1, <2>1
  <2>3. WalkType(c)'
    <3>1. unique_dpath' # NoPath => unique_dpath' \in Dirs(c) /\ ~IsTop(unique_dpath')
      BY <2>1, GoingUpType
    <3> QED
      BY <2>1, <2>2, <3>1 DEF WalkType
  <2>4. ASSUME NEW dir \in existing PROVE Keeps(c, dir)' \/ ToVisit(dir)'
    <3>1. CASE Keeps(c, dir)
      BY <2>1, <3>1 DEF Keeps
    <3>2. CASE \E d \in dirset : dir \in Above(d)
      BY <2>1, <3>2 DEF ToVisit
    <3>3. CASE dir \in Above(unique_dpath)
      BY <2>1, <3>3 DEF Keeps
    <3> QED
      BY <1>2, <3>1, <3>2, <3>3 DEF ToVisit
  <2> QED
    BY <2>1, <2>3, <2>4 DEF NothingForgotten
<1> QED
  BY <1>3, <1>4, <1>5, <1>6, <1>7 DEF CleanStep

LEMMA WalkNext == WalkInv /\ [Next]_<<calc, input, pausevars, cleanvars>> => WalkInv'
<1> SUFFICES ASSUME WalkInv, [Next]_<<calc, input, pausevars, cleanvars>>,
                    calc' = "clean"
             PROVE  WalkInv'
  BY DEF WalkInv
<1>1. calc = "clean" /\ input' = input
  BY DEF Next, PauseStarts, PauseGoesOn, CleaningGoesOn
<1>2. input \in CleanInputs /\ WalkType(input) /\ NothingForgotten(input)
  BY <1>1 DEF WalkInv
<1>3. CASE CleanStep(input)
  <2>1. WalkType(input)' /\ NothingForgotten(input)'
    BY <1>1, <1>2, <1>3, WalkStep DEF WalkType, NothingForgotten, Keeps, Dirs, PathLength
  <2> QED
    BY <1>1, <1>2, <2>1 DEF WalkInv
<1>4. CASE UNCHANGED cleanvars
  BY <1>1, <1>2, <1>4 DEF cleanvars, WalkInv, WalkType, NothingForgotten, Keeps, ToVisit,
    Dirs
<1> QED
  BY <1>1, <1>3, <1>4 DEF Next, PauseStarts, PauseGoesOn, CleaningGoesOn

\* clean_all_subdirs, started on any tree of named directories, in any order and
\* with any rmdirs failing, leaves a directory only where a file or a refused
\* directory is below it, or where the path is not longer than the first top's.
THEOREM CleanupLeavesUsedDirs == Spec => []OnlyUsedDirsStay
<1>1. WalkInv => OnlyUsedDirsStay
  BY DEF WalkInv, NothingForgotten, OnlyUsedDirsStay, Walked, Keeps, ToVisit
<1> QED
  BY <1>1, WalkInit, WalkNext, PTL DEF Spec
=============================================================================
