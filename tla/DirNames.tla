------------------------------ MODULE DirNames ------------------------------
(***************************************************************************)
(* Which directory a file number is in: mk_seq_dir_name,                   *)
(* mk_hashed_dir_name and mk_file_nm, and the directories that             *)
(* make_all_subdirs makes and clean_all_subdirs removes.  All of it is     *)
(* computed from the fields of a SmallfileWorkload, the record p:          *)
(*   iterations, files_per_dir, dirs_per_dir, hash_to_dir, and tops, the   *)
(*   number of top directories (--top).                                    *)
(* A directory is <<top, path>>, the path a sequence of numbers: "d_003" is*)
(* 3, as is "h_003", since one test has names of one kind only.            *)
(***************************************************************************)
EXTENDS Naturals, Sequences, FiniteSets, Powers

CONSTANT some_prime      \* 900593 in the code, a prime number

ASSUME DirNamesAssumption ==
  /\ some_prime \in Nat \ {0, 1}
  /\ \A a \in 2 .. some_prime - 1 : some_prime % a # 0

-----------------------------------------------------------------------------
\* mk_seq_dir_name

DirNumber(p, f) == f \div p.files_per_dir

\* The powers of dirs_per_dir up to n are level_dirs; they end if some power is
\* above n.
NamingEnds(p, n) == \E k \in 1 .. n + 1 : Power(p.dirs_per_dir)[k] > n

\* Mutant: a power equal to n is left out.
MutLevels(p, n) ==
  CHOOSE k \in 0 .. n : /\ Power(p.dirs_per_dir)[k + 1] >= n
                        /\ \A j \in 1 .. k : Power(p.dirs_per_dir)[j] < n

Levels(p, n) ==
  CHOOSE k \in 0 .. n : /\ Power(p.dirs_per_dir)[k + 1] > n
                        /\ \A j \in 1 .. k : Power(p.dirs_per_dir)[j] <= n

\* The digits of the directory number, the first one the number of times the
\* highest power goes into it, the rest digits of the remainder.
SeqDir(p, f) ==
  LET n == DirNumber(p, f)
      levels == Levels(p, n)
      power(i) == Power(p.dirs_per_dir)[levels + 1 - i]
  IN [i \in 1 .. levels + 1 |->
        (IF i = 1 THEN n ELSE n % power(i - 1)) \div power(i)]

-----------------------------------------------------------------------------
\* mk_hashed_dir_name

HashedNumber(p, f) == ((f * some_prime) % p.iterations) \div p.files_per_dir

\* The directory number after k rounds of the loop, each of which divides it.
RoundsLeft(p, n, k) == n \div Power(p.dirs_per_dir)[k]

\* Mutant: the loop goes on for directory number 1.
MutHashingEnds(p, n) == \E k \in 0 .. n + 1 : RoundsLeft(p, n, k) = 0

HashingEnds(p, n) == \E k \in 0 .. n : RoundsLeft(p, n, k) <= 1

\* The loop puts the name it makes in front of those it has made.
HashedDir(p, f) ==
  LET n == HashedNumber(p, f)
      rounds == CHOOSE k \in 0 .. n : /\ RoundsLeft(p, n, k) <= 1
                                      /\ \A j \in 0 .. k - 1 : RoundsLeft(p, n, j) > 1
  IN [i \in 1 .. rounds |->
        (RoundsLeft(p, n, rounds - i) * some_prime) % p.dirs_per_dir]

-----------------------------------------------------------------------------
\* mk_file_nm: file f is in its directory under one of the top directories.

Terminates(p, f) ==
  IF p.hash_to_dir THEN HashingEnds(p, HashedNumber(p, f))
                   ELSE NamingEnds(p, DirNumber(p, f))

DirName(p, f) == IF p.hash_to_dir THEN HashedDir(p, f) ELSE SeqDir(p, f)

FileDir(p, f) == <<f % p.tops, DirName(p, f)>>

\* The names are computed once, for the indexes of the list file_dirs.
FileDirs(p) == 0 .. p.iterations + p.files_per_dir - 1

\* Mutant: the range ends at the last file.
MutDirRange(p) ==
  IF p.hash_to_dir THEN 0 .. p.iterations
  ELSE {j \in 0 .. p.iterations - 1 : j % p.files_per_dir = 0}

\* dir_range: one name in files_per_dir, unless hashing.
DirRange(p) ==
  IF p.hash_to_dir THEN 0 .. p.iterations
  ELSE {j \in 0 .. p.iterations + p.files_per_dir - 1 : j % p.files_per_dir = 0}

\* make_all_subdirs and clean_all_subdirs name file j + k in the k-th round.
NamedFiles(p) == {j + k : j \in DirRange(p), k \in 0 .. p.tops - 1}

\* A name outside file_dirs is an IndexError.
NamesInRange(p) == NamedFiles(p) \subseteq FileDirs(p)

NamedDirs(p) == {FileDir(p, n) : n \in NamedFiles(p)}

\* makedirs makes the directories above as well; clean_all_subdirs goes up.
Above(dir) == {<<dir[1], SubSeq(dir[2], 1, i)>> : i \in 0 .. Len(dir[2])}

AllSubdirs(p) == UNION {Above(dir) : dir \in NamedDirs(p)}
=============================================================================
