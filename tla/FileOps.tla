------------------------------ MODULE FileOps -------------------------------
(***************************************************************************)
(* Tests run one after the other on a file tree: what every do_ method of  *)
(* SmallfileWorkload does to the files of its thread, and what it needs to *)
(* find there.  One step is one file of one thread; a swift-put has two,   *)
(* and a cleanup ends with a step for each of the two directory trees.     *)
(*                                                                         *)
(* Everything before the starting gate is in StartTest (see module HostRun *)
(* for the gate): no thread touches a file before all have passed it.      *)
(* File contents are the seed they were made with.  Sizes are random or    *)
(* data incompressible, so that a reader with another seed may fail, or    *)
(* not.  There is one attempt per file: directories are not made on        *)
(* demand, destination and source directories differ, names do not hash.   *)
(* --xattr-count is above 0, without which setxattr and getxattr touch no  *)
(* file, and the paths of the top directories are of one length: the code  *)
(* takes the length of the first for that of all (module CleanDirs).       *)
(***************************************************************************)
EXTENDS DirNames

CONSTANTS
  ThreadCount,         \* threads of all hosts
  Iterations,          \* --files
  FilesPerDir, DirsPerDir,
  TopCount,            \* number of directories in --top
  FilesBetweenChecks,  \* how often a thread looks for the stonewall file
  Campaigns,           \* bound: sets of operations, of which the user runs one
  FinishChoices,       \* values of --finish the user gives
  MaxSeeds,            \* bound: how often create and swift-put are run
  MaxFaults            \* bound: how often calls fail or threads are killed

\* all_op_names but await-create, which waits for the files of another program.
OpNames ==
  {"create", "delete", "append", "overwrite", "read", "readdir", "rename",
   "delete-renamed", "cleanup", "symlink", "mkdir", "rmdir", "stat", "chmod",
   "setxattr", "getxattr", "swift-get", "swift-put", "ls-l", "truncate-overwrite"}

ASSUME FileOpsAssumption ==
  /\ {ThreadCount, Iterations, FilesPerDir, TopCount} \subseteq Nat \ {0}
  /\ DirsPerDir \in Nat \ {0, 1}
  /\ FilesBetweenChecks \in Nat \ {0, 1}
  /\ Campaigns \subseteq SUBSET OpNames
  /\ FinishChoices \subseteq BOOLEAN
  /\ MaxSeeds \in Nat
  /\ MaxFaults \in Nat

Operations == UNION Campaigns

Tids == 0 .. ThreadCount - 1     \* "00", "01", ...
Files == 1 .. Iterations
ThreadFiles == Tids \X Files

P == [iterations |-> Iterations, files_per_dir |-> FilesPerDir,
      dirs_per_dir |-> DirsPerDir, tops |-> TopCount, hash_to_dir |-> FALSE]

\* A name is <<kind, thread, file>>: the file, its suffix ".tmp" or ".d", its
\* name in the destination tree, and there with suffix ".s".
Kinds == {"src", "tmp", "d", "dst", "s"}
Names == Kinds \X Tids \X Files

VARIABLES
  campaign,        \* the operations this user runs
  is_shared_dir,   \* --same-dir
  opname, finish_all_rq,
  pc, filenum, status,
  stonewall_file,
  files,           \* names that exist
  data, xattr,     \* contents and extended attributes of source files, as the
                   \* seed they were made with; 0 if there are none, or broken
  dirs,            \* directories below those of the threads, <<tree, owner, dir>>
  seed,            \* saved seed of each thread, 0 if none
  fault, faults,   \* history: something failed from outside in this test; how
                   \* often so far
  torn_puts,       \* history: threads that ever left a swift-put half done: killed
                   \* in the middle, or not able to delete the temporary file
  before           \* history: what there was when the test began

fs == <<files, data, xattr, dirs>>
test == <<campaign, is_shared_dir, opname, finish_all_rq, seed, before>>
vars == <<test, pc, filenum, status, stonewall_file, fs, fault, faults, torn_puts>>

-----------------------------------------------------------------------------
\* Names and directories.

file_dirs == [f \in FileDirs(P) |-> FileDir(P, f)]

Subdirs == {dir \in AllSubdirs(P) : dir[2] # <<>>}

TreeOf(kind) == IF kind \in {"dst", "s"} THEN "dst" ELSE "src"
Owner(t) == IF is_shared_dir THEN 0 ELSE t
DirOf(n) == <<TreeOf(n[1]), Owner(n[2]), file_dirs[n[3]]>>

Exists(kind, t, f) == <<kind, t, f>> \in files
HasDir(kind, t, f) == DirOf(<<kind, t, f>>) \in dirs

\* readdir and ls-l list the directory of a file in every top directory.
Path(f) == file_dirs[f][2]
CanList(t, f) ==
  \A top \in 0 .. TopCount - 1 : <<"src", Owner(t), <<top, Path(f)>>>> \in dirs
Listed(t, f) ==
  {n \in files : /\ TreeOf(n[1]) = "src" /\ Owner(n[2]) = Owner(t)
                 /\ Path(n[3]) = Path(f)}

-----------------------------------------------------------------------------
\* The abstract view.

How(S) == CASE S = {} -> "none" [] S = ThreadFiles -> "all" [] OTHER -> "some"

\* How far a thing is there, of module TestSequence.
Extent ==
  LET where(kind) == {w \in ThreadFiles : Exists(kind, w[1], w[2])}
      fresh(made) == {w \in where("src") : made[w] = seed[w[1]]}
  IN [src |-> How(where("src")), dst |-> How(where("dst")),
      d |-> How(where("d")), s |-> How(where("s")), tmp |-> How(where("tmp")),
      sized |-> How(fresh(data)), xattr |-> How(fresh(xattr))]

Running == \E t \in Tids : pc[t] # "idle"

Outcome == IF \E t \in Tids : status[t] # "OK" THEN "error"
           ELSE IF \E t \in Tids : filenum[t] # Iterations THEN "stopped" ELSE "OK"

Pending == [op |-> "none", finish |-> TRUE, fault |-> FALSE, outcome |-> "pending"]

LastTest == [op |-> opname, finish |-> finish_all_rq, fault |-> fault,
             outcome |-> IF opname = "none" THEN "OK" ELSE Outcome]

Abstract == INSTANCE TestSequence
  WITH shared <- is_shared_dir /\ ThreadCount > 1,
       has <- IF Running THEN before ELSE Extent,
       last <- IF Running THEN Pending ELSE LastTest

-----------------------------------------------------------------------------
Init ==
  /\ campaign \in Campaigns
  /\ is_shared_dir \in BOOLEAN
  /\ opname = "none" /\ finish_all_rq = TRUE
  /\ pc = [t \in Tids |-> "idle"]
  /\ filenum = [t \in Tids |-> 0]
  /\ status = [t \in Tids |-> "OK"]
  /\ stonewall_file = FALSE
  /\ files = {} /\ dirs = {}
  /\ data = [w \in ThreadFiles |-> 0]
  /\ xattr = [w \in ThreadFiles |-> 0]
  /\ seed = [t \in Tids |-> 0]
  /\ fault = FALSE /\ faults = 0 /\ torn_puts = {}
  /\ before = Extent

\* parse_cmd changes --finish for these.
MustFinish(op) == op \in {"create", "mkdir", "cleanup"}

MakesSubdirs(op) == op \in {"create", "mkdir", "swift-put"}

\* Mutant: the other writers make a new seed as well.
MutNewSeed(op) == op \in {"create", "swift-put", "append", "overwrite"}

NewSeed(op) == op \in {"create", "swift-put"}

\* make_all_subdirs and init_random_seed.  Under same-dir thread "00" makes the
\* directories for all.  A name outside file_dirs ends the first thread that
\* makes directories, and with it the test.
StartTest(op, finish) ==
  LET named == MakesSubdirs(op) => NamesInRange(P)
      starts == named /\ MakesSubdirs(op)
      reseeds == named /\ NewSeed(op)
  IN /\ ~Running
     /\ reseeds => \A t \in Tids : seed[t] < MaxSeeds
     /\ opname' = op /\ finish_all_rq' = (finish \/ MustFinish(op))
     /\ pc' = [t \in Tids |-> IF named THEN "loop" ELSE "idle"]
     /\ filenum' = [t \in Tids |-> 0]
     /\ status' = [t \in Tids |-> IF named THEN "OK" ELSE "raised"]
     /\ stonewall_file' = FALSE /\ fault' = FALSE
     /\ dirs' = IF starts
                THEN dirs \cup ({"src", "dst"} \X {Owner(t) : t \in Tids} \X Subdirs)
                ELSE dirs
     /\ seed' = IF reseeds THEN [t \in Tids |-> seed[t] + 1] ELSE seed
     /\ before' = Extent
     /\ UNCHANGED <<campaign, is_shared_dir, files, data, xattr, faults, torn_puts>>

-----------------------------------------------------------------------------
\* do_another_file, and how a file ends.

AtFile(t) == filenum[t] + 1

StopsEarly(t) ==
  ~finish_all_rq /\ AtFile(t) % FilesBetweenChecks = 0 /\ stonewall_file

\* The loop is over: end_test shows the stonewall file after the last file.
LoopEnds(t) ==
  /\ pc[t] = "loop"
  /\ StopsEarly(t) \/ filenum[t] = Iterations
  /\ stonewall_file' = (stonewall_file \/ filenum[t] = Iterations)
  /\ pc' = [pc EXCEPT ![t] = IF opname = "cleanup" THEN "src" ELSE "idle"]
  /\ UNCHANGED <<test, filenum, status, fs, fault, faults, torn_puts>>

\* Mutant: one file too many.
MutTakes(t, ops) ==
  /\ pc[t] = "loop" /\ opname \in ops
  /\ ~StopsEarly(t)
  /\ filenum' = [filenum EXCEPT ![t] = AtFile(t)]
  /\ UNCHANGED <<test, stonewall_file>>

Takes(t, ops) ==
  /\ pc[t] = "loop" /\ opname \in ops
  /\ ~StopsEarly(t) /\ filenum[t] < Iterations
  /\ filenum' = [filenum EXCEPT ![t] = AtFile(t)]
  /\ UNCHANGED <<test, stonewall_file>>

Completes == UNCHANGED <<pc, status, fault, faults>>

\* Something goes wrong from outside.
Faulty == faults < MaxFaults /\ faults' = faults + 1 /\ fault' = TRUE

\* The exception leaves the loop; do_workload makes a status of it, or does not
\* catch it (SMFSyncFileException, SMFRunException) and the thread ends there.
\* Its status is not OK either way.
Fails(t, because) ==
  /\ pc' = [pc EXCEPT ![t] = "idle"]
  /\ status' = [status EXCEPT ![t] = "errno"]
  /\ IF because = "fault" THEN Faulty ELSE UNCHANGED <<fault, faults>>

\* A file: done if what it needs is there; otherwise an error, which changes
\* nothing; or a fault, before anything is done or half way (broken).
File(t, ops, there, done, broken) ==
  /\ Takes(t, ops) /\ UNCHANGED torn_puts
  /\ \/ there /\ done /\ Completes
     \/ ~there /\ UNCHANGED fs /\ Fails(t, "missing")
     \/ there /\ (UNCHANGED fs \/ broken) /\ Fails(t, "fault")

Add(names) == files' = files \cup names
Remove(names) == files' = files \ names

\* Contents and extended attributes of a source file.
Content(t, f, made, tagged) ==
  /\ data' = [data EXCEPT ![<<t, f>>] = made]
  /\ xattr' = [xattr EXCEPT ![<<t, f>>] = tagged]

-----------------------------------------------------------------------------
\* The operations.

Create(t) ==
  LET f == AtFile(t)
      write(made) == Add({<<"src", t, f>>}) /\ Content(t, f, made, 0) /\ UNCHANGED dirs
  IN File(t, {"create"}, HasDir("src", t, f) /\ ~Exists("src", t, f),
          write(seed[t]), write(0))

\* do_write.  What append adds is behind the data that is read.
Write(t) ==
  LET f == AtFile(t)
      write(made) == /\ data' = [data EXCEPT ![<<t, f>>] = made]
                     /\ UNCHANGED <<files, xattr, dirs>>
  IN File(t, {"append", "overwrite", "truncate-overwrite"}, Exists("src", t, f),
          write(IF opname = "append" THEN data[<<t, f>>] ELSE seed[t]),
          opname # "append" /\ write(0))

\* do_read and do_swift_get; the seed gives the size to read, and the contents.
Reads(t, op) ==
  LET f == AtFile(t)
  IN \/ File(t, {op}, Exists("src", t, f), UNCHANGED fs, FALSE)
     \/ /\ Takes(t, {op})
        /\ Exists("src", t, f) /\ data[<<t, f>>] # seed[t]
        /\ UNCHANGED <<fs, torn_puts>> /\ Fails(t, "missing")

Read(t) == Reads(t, "read")

SwiftGet(t) == Reads(t, "swift-get")

Lookup(t) ==
  File(t, {"stat", "chmod"}, Exists("src", t, AtFile(t)), UNCHANGED fs, FALSE)

ListLong(t) ==
  File(t, {"ls-l"}, Exists("src", t, AtFile(t)) /\ CanList(t, AtFile(t)),
       UNCHANGED fs, FALSE)

\* On entering a directory, the files met in the one before are compared with
\* everything that was listed there.
Readdir(t) ==
  LET f == AtFile(t)
      met == {g \in 1 .. f - 1 : Path(g) = Path(f - 1)}
      agree == \/ f = 1 \/ Path(f) = Path(f - 1)
               \/ Cardinality(met) = Cardinality(Listed(t, f - 1))
  IN File(t, {"readdir"}, agree /\ CanList(t, f) /\ Exists("src", t, f),
          UNCHANGED fs, FALSE)

SetXattr(t) ==
  LET f == AtFile(t)
  IN File(t, {"setxattr"}, Exists("src", t, f),
          /\ xattr' = [xattr EXCEPT ![<<t, f>>] = seed[t]]
          /\ UNCHANGED <<files, data, dirs>>,
          FALSE)

GetXattr(t) ==
  LET f == AtFile(t)
  IN \/ File(t, {"getxattr"}, xattr[<<t, f>>] # 0, UNCHANGED fs, FALSE)
     \/ /\ Takes(t, {"getxattr"})
        /\ xattr[<<t, f>>] \notin {0, seed[t]}
        /\ UNCHANGED <<fs, torn_puts>> /\ Fails(t, "missing")

Symlink(t) ==
  LET f == AtFile(t)
  IN File(t, {"symlink"}, HasDir("s", t, f) /\ ~Exists("s", t, f),
          Add({<<"s", t, f>>}) /\ UNCHANGED <<data, xattr, dirs>>, FALSE)

Mkdir(t) ==
  LET f == AtFile(t)
  IN File(t, {"mkdir"}, HasDir("d", t, f) /\ ~Exists("d", t, f),
          Add({<<"d", t, f>>}) /\ UNCHANGED <<data, xattr, dirs>>, FALSE)

Rmdir(t) ==
  LET f == AtFile(t)
  IN File(t, {"rmdir"}, Exists("d", t, f),
          Remove({<<"d", t, f>>}) /\ UNCHANGED <<data, xattr, dirs>>, FALSE)

Rename(t) ==
  LET f == AtFile(t)
  IN File(t, {"rename"}, Exists("src", t, f) /\ HasDir("dst", t, f),
          /\ files' = (files \ {<<"src", t, f>>}) \cup {<<"dst", t, f>>}
          /\ Content(t, f, 0, 0) /\ UNCHANGED dirs,
          FALSE)

Delete(t) ==
  LET f == AtFile(t)
  IN File(t, {"delete"}, Exists("src", t, f),
          Remove({<<"src", t, f>>}) /\ Content(t, f, 0, 0) /\ UNCHANGED dirs, FALSE)

DeleteRenamed(t) ==
  LET f == AtFile(t)
  IN File(t, {"delete-renamed"}, Exists("dst", t, f),
          Remove({<<"dst", t, f>>}) /\ UNCHANGED <<data, xattr, dirs>>, FALSE)

\* Mutant: the data is written to the file itself.
MutTempName(t, f) == <<"src", t, f>>

TempName(t, f) == <<"tmp", t, f>>

\* Mutant: the temporary file stays when the put fails.
MutDropTemp(t, f) == UNCHANGED files

DropTemp(t, f) == Remove({TempName(t, f)})

\* Something fails, and then what the handler does: it deletes the temporary file,
\* or cannot.
PutFails(t, f) ==
  /\ Fails(t, "fault")
  /\ \/ DropTemp(t, f) /\ UNCHANGED torn_puts
     \/ files' \in {files, files \cup {TempName(t, f)}} /\ torn_puts' = torn_puts \cup {t}

\* do_swift_put up to the rename.
PutTemp(t) ==
  LET f == AtFile(t)
  IN /\ Takes(t, {"swift-put"})
     /\ UNCHANGED <<data, xattr, dirs>>
     /\ \/ /\ HasDir("src", t, f) /\ Add({TempName(t, f)})
           /\ pc' = [pc EXCEPT ![t] = "rename"]
           /\ UNCHANGED <<status, fault, faults, torn_puts>>
        \/ ~HasDir("src", t, f) /\ DropTemp(t, f) /\ UNCHANGED torn_puts /\ Fails(t, "missing")
        \/ HasDir("src", t, f) /\ PutFails(t, f)

PutRename(t) ==
  LET f == filenum[t]
  IN /\ pc[t] = "rename"
     /\ \/ /\ files' = (files \ {TempName(t, f)}) \cup {<<"src", t, f>>}
           /\ Content(t, f, seed[t], 0)
           /\ pc' = [pc EXCEPT ![t] = "loop"]
           /\ UNCHANGED <<status, fault, faults, torn_puts>>
        \/ PutFails(t, f) /\ UNCHANGED <<data, xattr>>
     /\ UNCHANGED <<test, filenum, stonewall_file, dirs>>

\* do_cleanup deletes the names in this order, whether they exist or not.
Cleanup(t) ==
  LET f == AtFile(t)
      delete(kinds) ==
        /\ Remove(kinds \X {t} \X {f})
        /\ IF "src" \in kinds THEN Content(t, f, 0, 0) ELSE UNCHANGED <<data, xattr>>
        /\ UNCHANGED dirs
  IN File(t, {"cleanup"}, TRUE, delete({"s", "src", "dst", "d"}),
          delete({"s"}) \/ delete({"s", "src"}) \/ delete({"s", "src", "dst"}))

\* clean_all_subdirs, one tree: every directory without a file at any depth
\* goes, but those that rmdir is refused for and the ones above them, which are
\* then not empty.
EmptyDirs(t) ==
  LET here(d) == d[1] = pc[t] /\ d[2] = Owner(t)
      used == UNION {Above(DirOf(n)[3]) : n \in {m \in files : here(DirOf(m))}}
  IN {d \in dirs : here(d) /\ d[3] \notin used}

RemoveEmptyDirs(t, refused) ==
  dirs' = dirs \ {d \in EmptyDirs(t) : \A r \in refused : d[3] \notin Above(r[3])}

\* Mutant: only the source tree is cleaned.
MutTreeAfter(tree) == "idle"

TreeAfter(tree) == IF tree = "src" THEN "dst" ELSE "idle"

GoesOn(t) == pc' = [pc EXCEPT ![t] = TreeAfter(@)] /\ UNCHANGED status

\* EACCES and EBUSY are taken like ENOTEMPTY: no error, the directory stays.  So
\* are all others under same-dir; without it they are raised, and the directories
\* the walk has not come to stay as well.
CleanTree(t) ==
  \/ RemoveEmptyDirs(t, {}) /\ GoesOn(t) /\ UNCHANGED <<fault, faults>>
  \/ /\ GoesOn(t) /\ Faulty
     /\ \E refused \in SUBSET EmptyDirs(t) \ {{}} :
          Cardinality(refused) <= MaxFaults /\ RemoveEmptyDirs(t, refused)
  \/ /\ ~is_shared_dir /\ Fails(t, "fault")
     /\ \E left \in SUBSET EmptyDirs(t) : RemoveEmptyDirs(t, left)

\* Under same-dir only thread "00" does it, for all threads.
CleanSubdirs(t) ==
  LET mine == ~(is_shared_dir /\ t # 0)
      named == mine /\ NamesInRange(P)
  IN /\ pc[t] \in {"src", "dst"}
     /\ IF named THEN CleanTree(t) ELSE
          /\ pc' = [pc EXCEPT ![t] = "idle"]
          /\ status' = [status EXCEPT ![t] = IF mine THEN "raised" ELSE @]
          /\ UNCHANGED <<dirs, fault, faults>>
     /\ UNCHANGED <<test, filenum, stonewall_file, files, data, xattr, torn_puts>>

\* A thread is killed, or interrupted: no handler runs (do_swift_put cleans up
\* after an Exception, which KeyboardInterrupt is not).
Killed(t) ==
  /\ pc[t] # "idle"
  /\ pc' = [pc EXCEPT ![t] = "idle"]
  /\ status' = [status EXCEPT ![t] = "killed"]
  /\ Faulty
  /\ torn_puts' = IF pc[t] = "rename" THEN torn_puts \cup {t} ELSE torn_puts
  /\ UNCHANGED <<test, filenum, stonewall_file, fs>>

DoFile(t) ==
  \/ Create(t) \/ Write(t) \/ Read(t) \/ SwiftGet(t)
  \/ Lookup(t) \/ ListLong(t) \/ Readdir(t)
  \/ SetXattr(t) \/ GetXattr(t) \/ Symlink(t) \/ Mkdir(t) \/ Rmdir(t)
  \/ Rename(t) \/ Delete(t) \/ DeleteRenamed(t)
  \/ PutTemp(t) \/ PutRename(t) \/ Cleanup(t)

ThreadStep(t) == DoFile(t) \/ LoopEnds(t) \/ CleanSubdirs(t)

Next ==
  \/ \E op \in campaign, finish \in FinishChoices : StartTest(op, finish)
  \/ \E t \in Tids : ThreadStep(t) \/ Killed(t)

Spec == Init /\ [][Next]_vars

-----------------------------------------------------------------------------
\* Every variable keeps its type; contents are there for source files only.
FTypeOK ==
  /\ is_shared_dir \in BOOLEAN /\ finish_all_rq \in BOOLEAN
  /\ campaign \in Campaigns
  /\ opname \in Operations \cup {"none"}
  /\ pc \in [Tids -> {"idle", "loop", "rename", "src", "dst"}]
  /\ filenum \in [Tids -> 0 .. Iterations]
  /\ status \in [Tids -> {"OK", "errno", "raised", "killed"}]
  /\ stonewall_file \in BOOLEAN /\ fault \in BOOLEAN /\ faults \in 0 .. MaxFaults
  /\ files \subseteq Names
  /\ dirs \subseteq {"src", "dst"} \X Tids \X Subdirs
  /\ data \in [ThreadFiles -> 0 .. MaxSeeds]
  /\ xattr \in [ThreadFiles -> 0 .. MaxSeeds]
  /\ seed \in [Tids -> 0 .. MaxSeeds]
  /\ torn_puts \subseteq Tids

\* Tests in sequence, whatever their threads and stop flags do, keep what
\* TestSequence promises: above all, a test that finds what it needs ends in an
\* error only when something failed from outside.
SequenceSpec == Abstract!Spec

\* After a cleanup that went well nothing is left of any test before: no file,
\* and no directory either, except under same-dir (thread "00" may remove
\* directories while other threads still have files), except what a torn
\* swift-put left, whose temporary file no operation deletes, and unless an rmdir
\* was refused in this cleanup, of which its status says nothing; the next
\* cleanup removes what was left then.
CleanupComplete ==
  (opname = "cleanup" /\ ~Running /\ Outcome = "OK") =>
    /\ \A n \in files : n[1] = "tmp"
    /\ is_shared_dir \/ files # {} \/ fault \/ dirs = {}

\* A temporary file lies about only while its thread is about to rename it, or
\* if a thread once left a put half done: a put that fails cleans up.
NoTempLeft ==
  \A n \in files : n[1] = "tmp" =>
    \/ n[2] \in torn_puts
    \/ pc[n[2]] = "rename" /\ filenum[n[2]] = n[3]

\* A swift-put replaces a file by a whole one or leaves it alone: at no moment
\* is there a broken file under the final name that was not broken before.
PutIsAtomic ==
  [][opname = "swift-put" =>
       \A t \in Tids, f \in Files :
         /\ Exists("src", t, f) => Exists("src", t, f)'
         /\ Exists("src", t, f)' =>
              \/ data'[<<t, f>>] = seed[t]
              \/ Exists("src", t, f) /\ data'[<<t, f>>] = data[<<t, f>>]]_vars
\* "The use of multiple mountpoints is supported": no test ends in an exception
\* that comes from the names of its files.
TopsSupported == \A t \in Tids : status[t] # "raised"
=============================================================================
