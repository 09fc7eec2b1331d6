--------------------------- MODULE FileOps_proofs ---------------------------
(***************************************************************************)
(* Proofs about module FileOps, for any number of threads and files, any   *)
(* directory options and any sets of operations.                           *)
(***************************************************************************)
EXTENDS FileOps, DirNames_proofs

-----------------------------------------------------------------------------
\* A thread that takes a file takes one of its files.
LEMMA TakesType ==
  ASSUME FTypeOK, NEW t \in Tids, NEW ops, Takes(t, ops)
  PROVE  /\ filenum' \in [Tids -> 0 .. Iterations]
         /\ AtFile(t) \in Files /\ <<t, AtFile(t)>> \in ThreadFiles
         /\ pc[t] = "loop" /\ opname \in ops /\ filenum'[t] = AtFile(t)
         /\ UNCHANGED <<test, stonewall_file>>
<1>1. filenum[t] \in 0 .. Iterations /\ filenum[t] < Iterations /\ Iterations \in Nat
  BY FileOpsAssumption DEF FTypeOK, Takes
<1>2. AtFile(t) \in 1 .. Iterations
  BY <1>1 DEF AtFile
<1>3. AtFile(t) \in 0 .. Iterations
  BY <1>1 DEF AtFile
<1> QED
  BY <1>2, <1>3 DEF Takes, FTypeOK, Files, ThreadFiles

\* How a file may end.
Ended(t) == Completes \/ Fails(t, "missing") \/ Fails(t, "fault")

\* Whichever way a file ends, the variables of the thread keep their types.
LEMMA EndedType ==
  ASSUME FTypeOK, NEW t \in Tids, Ended(t)
  PROVE  /\ pc' \in [Tids -> {"idle", "loop", "rename", "src", "dst"}]
         /\ status' \in [Tids -> {"OK", "errno", "raised", "killed"}]
         /\ fault' \in BOOLEAN /\ faults' \in 0 .. MaxFaults
<1>1. MaxFaults \in Nat
  BY FileOpsAssumption
<1>2. CASE Completes
  BY <1>2 DEF Completes, FTypeOK
<1>3. CASE Fails(t, "missing")
  BY <1>3 DEF Fails, FTypeOK
<1>4. CASE Fails(t, "fault")
  <2>1. faults' \in 0 .. MaxFaults /\ fault' \in BOOLEAN
    BY <1>1, <1>4 DEF Fails, Faulty, FTypeOK
  <2> QED
    BY <1>4, <2>1 DEF Fails, FTypeOK
<1> QED
  BY <1>2, <1>3, <1>4 DEF Ended

\* The variables that describe the files keep their types.
FilesType ==
  /\ files \subseteq Names
  /\ dirs \subseteq {"src", "dst"} \X Tids \X Subdirs
  /\ data \in [ThreadFiles -> 0 .. MaxSeeds]
  /\ xattr \in [ThreadFiles -> 0 .. MaxSeeds]

\* So a step that takes a file keeps all types if it keeps those of the files.
LEMMA FileType ==
  ASSUME FTypeOK, NEW t \in Tids, NEW ops, Takes(t, ops), UNCHANGED torn_puts,
         Ended(t), FilesType'
  PROVE  FTypeOK'
<1>1. /\ filenum' \in [Tids -> 0 .. Iterations]
      /\ UNCHANGED <<test, stonewall_file>>
  BY TakesType
<1>2. /\ pc' \in [Tids -> {"idle", "loop", "rename", "src", "dst"}]
      /\ status' \in [Tids -> {"OK", "errno", "raised", "killed"}]
      /\ fault' \in BOOLEAN /\ faults' \in 0 .. MaxFaults
  BY EndedType
<1> QED
  BY <1>1, <1>2 DEF FTypeOK, FilesType, test

\* Every operation on one file keeps the types of the files.
LEMMA FilesTypeStep ==
  ASSUME FTypeOK, NEW t \in Tids, DoFile(t), ~PutTemp(t), ~PutRename(t)
  PROVE  FilesType' /\ Ended(t) /\ \E ops : Takes(t, ops)
<1> USE DEF Ended, File
<1>1. /\ \A kind \in Kinds, f \in Files : <<kind, t, f>> \in Names
      /\ seed[t] \in 0 .. MaxSeeds /\ 0 \in 0 .. MaxSeeds
  BY FileOpsAssumption DEF FTypeOK, Names
<1>2. /\ FilesType
      /\ \A w \in ThreadFiles : data[w] \in 0 .. MaxSeeds
  BY DEF FTypeOK, FilesType
<1>3. UNCHANGED fs => FilesType'
  BY <1>2 DEF FilesType, fs
<1>4. ASSUME NEW ops, Takes(t, ops)
      PROVE  AtFile(t) \in Files /\ <<t, AtFile(t)>> \in ThreadFiles
  BY <1>4, TakesType
<1> DEFINE f == AtFile(t)
<1>5. CASE Create(t)
  <2>1. Takes(t, {"create"}) /\ Ended(t)
    BY <1>5 DEF Create
  <2>2. <<"src", t, f>> \in Names /\ <<t, f>> \in ThreadFiles
    BY <1>1, <1>4, <2>1 DEF Kinds
  <2>3. FilesType'
    BY <1>1, <1>2, <1>3, <1>5, <2>2 DEF Create, FilesType, Add, Content
  <2> QED
    BY <2>1, <2>3
<1>6. CASE Write(t)
  <2>1. Takes(t, {"append", "overwrite", "truncate-overwrite"}) /\ Ended(t)
    BY <1>6 DEF Write
  <2>2. <<t, f>> \in ThreadFiles
    BY <1>4, <2>1
  <2>3. FilesType'
    BY <1>1, <1>2, <1>3, <1>6, <2>2 DEF Write, FilesType
  <2> QED
    BY <2>1, <2>3
<1>7. CASE Read(t)
  BY <1>3, <1>7 DEF Read, Reads
<1>19. CASE SwiftGet(t)
  BY <1>3, <1>19 DEF SwiftGet, Reads
<1>8. CASE Lookup(t) \/ ListLong(t)
  BY <1>3, <1>8 DEF Lookup, ListLong
<1>9. CASE Readdir(t)
  BY <1>3, <1>9 DEF Readdir
<1>10. CASE SetXattr(t)
  <2>1. Takes(t, {"setxattr"}) /\ Ended(t)
    BY <1>10 DEF SetXattr
  <2>2. <<t, f>> \in ThreadFiles
    BY <1>4, <2>1
  <2>3. FilesType'
    BY <1>1, <1>2, <1>3, <1>10, <2>2 DEF SetXattr, FilesType
  <2> QED
    BY <2>1, <2>3
<1>11. CASE GetXattr(t)
  BY <1>3, <1>11 DEF GetXattr
<1>12. CASE Symlink(t)
  <2>1. Takes(t, {"symlink"}) /\ Ended(t)
    BY <1>12 DEF Symlink
  <2>2. <<"s", t, f>> \in Names
    BY <1>1, <1>4, <2>1 DEF Kinds
  <2>3. FilesType'
    BY <1>2, <1>3, <1>12, <2>2 DEF Symlink, FilesType, Add
  <2> QED
    BY <2>1, <2>3
<1>13. CASE Mkdir(t)
  <2>1. Takes(t, {"mkdir"}) /\ Ended(t)
    BY <1>13 DEF Mkdir
  <2>2. <<"d", t, f>> \in Names
    BY <1>1, <1>4, <2>1 DEF Kinds
  <2>3. FilesType'
    BY <1>2, <1>3, <1>13, <2>2 DEF Mkdir, FilesType, Add
  <2> QED
    BY <2>1, <2>3
<1>14. CASE Rmdir(t)
  BY <1>2, <1>3, <1>14 DEF Rmdir, FilesType, Remove
<1>15. CASE Rename(t)
  <2>1. Takes(t, {"rename"}) /\ Ended(t)
    BY <1>15 DEF Rename
  <2>2. <<"dst", t, f>> \in Names /\ <<t, f>> \in ThreadFiles
    BY <1>1, <1>4, <2>1 DEF Kinds
  <2>3. FilesType'
    BY <1>1, <1>2, <1>3, <1>15, <2>2 DEF Rename, FilesType, Content
  <2> QED
    BY <2>1, <2>3
<1>16. CASE Delete(t)
  <2>1. Takes(t, {"delete"}) /\ Ended(t)
    BY <1>16 DEF Delete
  <2>2. <<t, f>> \in ThreadFiles
    BY <1>4, <2>1
  <2>3. FilesType'
    BY <1>1, <1>2, <1>3, <1>16, <2>2 DEF Delete, FilesType, Remove, Content
  <2> QED
    BY <2>1, <2>3
<1>17. CASE DeleteRenamed(t)
  BY <1>2, <1>3, <1>17 DEF DeleteRenamed, FilesType, Remove
<1>18. CASE Cleanup(t)
  <2>1. Takes(t, {"cleanup"}) /\ Ended(t)
    BY <1>18 DEF Cleanup
  <2>2. <<t, f>> \in ThreadFiles
    BY <1>4, <2>1
  <2>3. FilesType'
    BY <1>1, <1>2, <1>3, <1>18, <2>2 DEF Cleanup, FilesType, Remove, Content
  <2> QED
    BY <2>1, <2>3
<1> QED
  BY <1>5, <1>6, <1>7, <1>8, <1>9, <1>10, <1>11, <1>12, <1>13, <1>14, <1>15,
     <1>16, <1>17, <1>18, <1>19 DEF DoFile

\* Only a swift-put can be torn.
LEMMA NothingTorn ==
  ASSUME NEW t \in Tids, DoFile(t), ~PutTemp(t), ~PutRename(t)
  PROVE  UNCHANGED torn_puts
BY DEF DoFile, File, Create, Write, Read, SwiftGet, Reads, Lookup, ListLong, Readdir,
   SetXattr, GetXattr, Symlink, Mkdir, Rmdir, Rename, Delete, DeleteRenamed, Cleanup

-----------------------------------------------------------------------------
\* Types.

LEMMA FTypeInit == Init => FTypeOK
<1> SUFFICES ASSUME Init PROVE FTypeOK
  OBVIOUS
<1> USE FileOpsAssumption
<1>1. filenum \in [Tids -> 0 .. Iterations] /\ faults \in 0 .. MaxFaults
  BY DEF Init
<1>2. /\ data \in [ThreadFiles -> 0 .. MaxSeeds]
      /\ xattr \in [ThreadFiles -> 0 .. MaxSeeds]
      /\ seed \in [Tids -> 0 .. MaxSeeds]
  BY DEF Init
<1> QED
  BY <1>1, <1>2 DEF Init, FTypeOK

LEMMA OwnerType == ASSUME NEW t \in Tids PROVE Owner(t) \in Tids
<1>1. 0 \in Tids
  BY FileOpsAssumption DEF Tids
<1> QED
  BY <1>1 DEF Owner

\* A thread about to rename a temporary file is at a file.
AtRename == \A t \in Tids : pc[t] = "rename" => filenum[t] \in Files

\* FTypeOK is not inductive: PutRename makes a name of the file number.
FTypeInv == FTypeOK /\ AtRename

\* The two steps of a swift-put.
LEMMA PutType ==
  ASSUME FTypeInv, NEW t \in Tids, PutTemp(t) \/ PutRename(t)
  PROVE  FTypeOK'
<1> USE DEF FTypeInv
<1>1. CASE PutTemp(t)
  <2>1. Takes(t, {"swift-put"})
    BY <1>1 DEF PutTemp
  <2>2. /\ AtFile(t) \in Files
        /\ filenum' \in [Tids -> 0 .. Iterations]
        /\ UNCHANGED <<test, stonewall_file>>
    BY <2>1, TakesType
  <2>3. TempName(t, AtFile(t)) \in Names
    BY <2>2 DEF TempName, Names, Kinds
  <2>4. FilesType'
    BY <1>1, <2>3 DEF PutTemp, PutFails, FilesType, FTypeOK, Add, DropTemp, Remove
  <2>5. /\ pc' \in [Tids -> {"idle", "loop", "rename", "src", "dst"}]
        /\ status' \in [Tids -> {"OK", "errno", "raised", "killed"}]
        /\ fault' \in BOOLEAN /\ faults' \in 0 .. MaxFaults
    <3>1. CASE Fails(t, "missing") \/ Fails(t, "fault")
      BY <3>1, EndedType DEF Ended
    <3>2. CASE pc' = [pc EXCEPT ![t] = "rename"] /\ UNCHANGED <<status, fault, faults>>
      BY <3>2 DEF FTypeOK
    <3> QED
      BY <1>1, <3>1, <3>2 DEF PutTemp, PutFails
  <2>6. torn_puts' \subseteq Tids
    BY <1>1 DEF PutTemp, PutFails, FTypeOK
  <2> QED
    BY <2>2, <2>4, <2>5, <2>6 DEF FTypeOK, FilesType, test
<1>2. CASE PutRename(t)
  <2> DEFINE f == filenum[t]
  <2>1. UNCHANGED <<test, filenum, stonewall_file, dirs>>
    BY <1>2 DEF PutRename
  <2>0. f \in Files /\ TempName(t, f) \in Names
    BY <1>2 DEF PutRename, AtRename, TempName, Names, Kinds
  <2>2. CASE PutFails(t, f) /\ UNCHANGED <<data, xattr>>
    <3>1. FilesType' /\ torn_puts' \subseteq Tids
      BY <2>0, <2>1, <2>2 DEF FilesType, FTypeOK, PutFails, DropTemp, Remove
    <3>2. Fails(t, "fault")
      BY <2>2 DEF PutFails
    <3> QED
      BY <2>1, <3>1, <3>2, EndedType DEF FTypeOK, FilesType, test, Ended
  <2>3. CASE /\ files' = (files \ {TempName(t, f)}) \cup {<<"src", t, f>>}
             /\ Content(t, f, seed[t], 0)
             /\ pc' = [pc EXCEPT ![t] = "loop"]
             /\ UNCHANGED <<status, fault, faults, torn_puts>>
    <3>1. f \in Files
      BY <2>0
    <3>2. <<"src", t, f>> \in Names /\ <<t, f>> \in ThreadFiles
      BY <3>1 DEF Names, Kinds, ThreadFiles
    <3>3. seed[t] \in 0 .. MaxSeeds /\ 0 \in 0 .. MaxSeeds
      BY FileOpsAssumption DEF FTypeOK
    <3>4. FilesType'
      BY <2>1, <2>3, <3>2, <3>3 DEF FilesType, FTypeOK, Content
    <3>5. pc' \in [Tids -> {"idle", "loop", "rename", "src", "dst"}]
      BY <2>3 DEF FTypeOK
    <3> QED
      BY <2>1, <2>3, <3>4, <3>5 DEF FTypeOK, FilesType, test
  <2> QED
    BY <1>2, <2>2, <2>3 DEF PutRename
<1> QED
  BY <1>1, <1>2

LEMMA FTypeNext == FTypeInv /\ [Next]_vars => FTypeInv'
<1> SUFFICES ASSUME FTypeInv, [Next]_vars PROVE FTypeInv'
  OBVIOUS
<1> USE FileOpsAssumption DEF FTypeInv
<1>1. ASSUME NEW op \in campaign, NEW finish \in FinishChoices, StartTest(op, finish)
      PROVE  FTypeInv'
  <2> USE <1>1
  <2>1. opname' \in Operations /\ finish_all_rq' \in BOOLEAN
    BY DEF StartTest, FTypeOK, Operations, MustFinish
  <2>2. /\ filenum' \in [Tids -> 0 .. Iterations]
        /\ pc' \in [Tids -> {"idle", "loop", "rename", "src", "dst"}]
        /\ status' \in [Tids -> {"OK", "errno", "raised", "killed"}]
        /\ AtRename'
    BY DEF StartTest, AtRename
  <2>3. seed' \in [Tids -> 0 .. MaxSeeds]
    BY DEF StartTest, FTypeOK
  <2>4. dirs' \subseteq {"src", "dst"} \X Tids \X Subdirs
    BY OwnerType DEF StartTest, FTypeOK
  <2> QED
    BY <2>1, <2>2, <2>3, <2>4 DEF StartTest, FTypeOK
<1>2. ASSUME NEW t \in Tids, LoopEnds(t) PROVE FTypeInv'
  <2>1. FilesType'
    BY <1>2 DEF LoopEnds, FTypeOK, FilesType, fs
  <2>2. pc' \in [Tids -> {"idle", "loop", "rename", "src", "dst"}] /\ AtRename'
    BY <1>2 DEF LoopEnds, FTypeOK, AtRename
  <2> QED
    BY <1>2, <2>1, <2>2 DEF LoopEnds, FTypeOK, FilesType, test
<1>3. ASSUME NEW t \in Tids, DoFile(t), ~PutTemp(t), ~PutRename(t) PROVE FTypeInv'
  <2>1. PICK ops : Takes(t, ops)
    BY <1>3, FilesTypeStep
  <2>2. FilesType' /\ Ended(t)
    BY <1>3, FilesTypeStep
  <2>3. FTypeOK'
    BY <1>3, <2>1, <2>2, FileType, NothingTorn
  <2>4. AtRename'
    BY <2>1, <2>2 DEF AtRename, Takes, Ended, Completes, Fails, FTypeOK
  <2> QED
    BY <2>3, <2>4
<1>4. ASSUME NEW t \in Tids, PutTemp(t) PROVE FTypeInv'
  <2>1. FTypeOK'
    BY <1>4, PutType
  <2>2. AtFile(t) \in Files /\ filenum'[t] = AtFile(t)
    BY <1>4, TakesType DEF PutTemp
  <2>3. AtRename'
    BY <1>4, <2>2 DEF AtRename, PutTemp, PutFails, Takes, Fails, FTypeOK
  <2> QED
    BY <2>1, <2>3
<1>5. ASSUME NEW t \in Tids, PutRename(t) PROVE FTypeInv'
  <2>1. FTypeOK'
    BY <1>5, PutType
  <2>2. AtRename'
    BY <1>5 DEF AtRename, PutRename, PutFails, Fails, FTypeOK
  <2> QED
    BY <2>1, <2>2
<1>6. ASSUME NEW t \in Tids, CleanSubdirs(t) PROVE FTypeInv'
  <2>1. /\ pc' \in [Tids -> {"idle", "loop", "rename", "src", "dst"}]
        /\ status' \in [Tids -> {"OK", "errno", "raised", "killed"}]
        /\ AtRename'
    BY <1>6 DEF CleanSubdirs, CleanTree, GoesOn, Fails, TreeAfter, FTypeOK, AtRename
  <2>2. dirs' \subseteq dirs
    BY <1>6 DEF CleanSubdirs, CleanTree, RemoveEmptyDirs
  <2>3. fault' \in BOOLEAN /\ faults' \in 0 .. MaxFaults
    <3>1. UNCHANGED <<fault, faults>> \/ Faulty
      BY <1>6 DEF CleanSubdirs, CleanTree, Fails
    <3>2. CASE UNCHANGED <<fault, faults>>
      BY <3>2 DEF FTypeOK
    <3>3. CASE Faulty
      BY <3>3 DEF Faulty, FTypeOK
    <3> QED
      BY <3>1, <3>2, <3>3
  <2> QED
    BY <1>6, <2>1, <2>2, <2>3 DEF CleanSubdirs, FTypeOK, test
<1>7. ASSUME NEW t \in Tids, Killed(t) PROVE FTypeInv'
  <2>1. faults' \in 0 .. MaxFaults
    BY <1>7 DEF Killed, Faulty, FTypeOK
  <2>2. /\ pc' \in [Tids -> {"idle", "loop", "rename", "src", "dst"}]
        /\ status' \in [Tids -> {"OK", "errno", "raised", "killed"}]
        /\ fault' \in BOOLEAN /\ torn_puts' \subseteq Tids
        /\ AtRename'
    BY <1>7 DEF Killed, Faulty, FTypeOK, AtRename
  <2> QED
    BY <1>7, <2>1, <2>2 DEF Killed, FTypeOK, test, fs
<1>8. CASE UNCHANGED vars
  BY <1>8 DEF FTypeOK, AtRename, vars, test, fs
<1> QED
  BY <1>1, <1>2, <1>3, <1>4, <1>5, <1>6, <1>7, <1>8 DEF Next, ThreadStep

\* Every variable keeps its type, for any number of threads, files, directories
\* and any choice of operations and faults.
THEOREM FileOpsTypes == Spec => []FTypeOK
<1>1. Init => FTypeInv
  BY FTypeInit DEF FTypeInv, AtRename, Init
<1>2. FTypeInv => FTypeOK
  BY DEF FTypeInv
<1> QED
  BY <1>1, <1>2, FTypeNext, PTL DEF Spec

-----------------------------------------------------------------------------
\* Temporary files.

\* No operation but a swift-put makes a temporary file.
LEMMA NoNewTemp ==
  ASSUME NEW t \in Tids, DoFile(t), ~PutTemp(t), ~PutRename(t),
         NEW n \in files', n[1] = "tmp"
  PROVE  n \in files
<1> USE DEF File, fs
<1>1. ASSUME Create(t) \/ Symlink(t) \/ Mkdir(t) \/ Rename(t) PROVE n \in files
  BY <1>1 DEF Create, Symlink, Mkdir, Rename, Add
<1>2. ASSUME Rmdir(t) \/ Delete(t) \/ DeleteRenamed(t) \/ Cleanup(t) PROVE n \in files
  BY <1>2 DEF Rmdir, Delete, DeleteRenamed, Cleanup, Remove
<1>3. ASSUME Write(t) \/ SetXattr(t) PROVE n \in files
  BY <1>3 DEF Write, SetXattr
<1>4. ASSUME Read(t) \/ SwiftGet(t) \/ Lookup(t) \/ ListLong(t) \/ Readdir(t) \/ GetXattr(t)
      PROVE  n \in files
  BY <1>4 DEF Read, SwiftGet, Reads, Lookup, ListLong, Readdir, GetXattr
<1> QED
  BY <1>1, <1>2, <1>3, <1>4 DEF DoFile

LEMMA NoTempNext == FTypeInv /\ NoTempLeft /\ [Next]_vars => NoTempLeft'
<1> SUFFICES ASSUME FTypeInv, NoTempLeft, [Next]_vars,
                    NEW n \in files', n[1] = "tmp"
             PROVE  \/ n[2] \in torn_puts'
                    \/ pc'[n[2]] = "rename" /\ filenum'[n[2]] = n[3]
  BY DEF NoTempLeft
<1> DEFINE Accounted == \/ n[2] \in torn_puts'
                        \/ pc'[n[2]] = "rename" /\ filenum'[n[2]] = n[3]
<1>1. n \in Names /\ n[2] \in Tids
  BY FTypeNext DEF FTypeInv, FTypeOK, Names
<1>2. n \in files => \/ n[2] \in torn_puts
                     \/ pc[n[2]] = "rename" /\ filenum[n[2]] = n[3]
  BY DEF NoTempLeft
<1>3. ASSUME NEW op \in campaign, NEW finish \in FinishChoices, StartTest(op, finish)
      PROVE  Accounted
  <2>1. pc[n[2]] = "idle" /\ n \in files
    BY <1>1, <1>3 DEF StartTest, Running
  <2> QED
    BY <1>2, <1>3, <2>1 DEF StartTest
<1>4. ASSUME NEW t \in Tids, LoopEnds(t) PROVE Accounted
  BY <1>1, <1>2, <1>4 DEF LoopEnds, fs, FTypeInv, FTypeOK
<1>5. ASSUME NEW t \in Tids, DoFile(t), ~PutTemp(t), ~PutRename(t) PROVE Accounted
  <2>1. PICK ops : Takes(t, ops)
    BY <1>5, FilesTypeStep DEF FTypeInv
  <2>2. n \in files /\ Ended(t)
    BY <1>5, NoNewTemp, FilesTypeStep DEF FTypeInv
  <2>3. UNCHANGED torn_puts
    BY <1>5, NothingTorn
  <2> QED
    BY <1>1, <1>2, <2>1, <2>2, <2>3
    DEF Takes, Ended, Completes, Fails, FTypeInv, FTypeOK
<1>6. ASSUME NEW t \in Tids, PutTemp(t) PROVE Accounted
  <2>1. /\ torn_puts \subseteq torn_puts' /\ pc[t] = "loop"
        /\ filenum' = [filenum EXCEPT ![t] = AtFile(t)]
    BY <1>6 DEF PutTemp, PutFails, Takes
  <2>2. CASE n[2] = t /\ n \notin files /\ t \notin torn_puts'
    <3>1. n = <<"tmp", t, AtFile(t)>> /\ pc' = [pc EXCEPT ![t] = "rename"]
      BY <1>6, <2>2 DEF PutTemp, PutFails, Add, DropTemp, Remove, TempName
    <3> QED
      BY <2>1, <3>1 DEF FTypeInv, FTypeOK
  <2>3. CASE n[2] = t /\ n \in files
    BY <1>2, <2>1, <2>3
  <2>4. CASE n[2] # t
    <3>1. n \in files
      BY <1>6, <2>4 DEF PutTemp, PutFails, Add, DropTemp, Remove, TempName
    <3>2. pc'[n[2]] = pc[n[2]] /\ filenum'[n[2]] = filenum[n[2]]
      BY <1>1, <1>6, <2>1, <2>4 DEF PutTemp, PutFails, Fails, FTypeInv, FTypeOK
    <3> QED
      BY <1>2, <2>1, <3>1, <3>2
  <2>5. CASE n[2] = t /\ t \in torn_puts'
    BY <2>5
  <2> QED
    BY <2>2, <2>3, <2>4, <2>5
<1>7. ASSUME NEW t \in Tids, PutRename(t) PROVE Accounted
  <2>1. UNCHANGED filenum /\ torn_puts \subseteq torn_puts'
    BY <1>7 DEF PutRename, PutFails
  <2>2. CASE n[2] = t /\ t \notin torn_puts'
    <3>1. n \in files /\ n # <<"tmp", t, filenum[t]>>
      BY <1>7, <2>2 DEF PutRename, PutFails, DropTemp, Remove, TempName
    <3>2. n[3] # filenum[t]
      BY <1>1, <2>2, <3>1 DEF Names
    <3> QED
      BY <1>2, <2>1, <2>2, <3>1, <3>2
  <2>3. CASE n[2] = t /\ t \in torn_puts'
    BY <2>3
  <2>4. CASE n[2] # t
    <3>1. n \in files
      BY <1>7, <2>4 DEF PutRename, PutFails, DropTemp, Remove, TempName
    <3> QED
      BY <1>1, <1>2, <1>7, <2>1, <2>4, <3>1 DEF PutRename, PutFails, Fails, FTypeInv, FTypeOK
  <2> QED
    BY <2>2, <2>3, <2>4
<1>8. ASSUME NEW t \in Tids, CleanSubdirs(t) PROVE Accounted
  BY <1>1, <1>2, <1>8
  DEF CleanSubdirs, CleanTree, GoesOn, Fails, FTypeInv, FTypeOK
<1>9. ASSUME NEW t \in Tids, Killed(t) PROVE Accounted
  BY <1>1, <1>2, <1>9 DEF Killed, fs, FTypeInv, FTypeOK
<1>10. CASE UNCHANGED vars
  BY <1>2, <1>10 DEF vars, fs
<1> QED
  BY <1>3, <1>4, <1>5, <1>6, <1>7, <1>8, <1>9, <1>10 DEF Next, ThreadStep

\* Temporary files of a swift-put are only there while they are about to be
\* renamed, or where a thread was killed at that moment.
THEOREM TempFilesGo == Spec => []NoTempLeft
<1>1. Init => FTypeInv /\ NoTempLeft
  BY FTypeInit DEF FTypeInv, AtRename, NoTempLeft, Init
<1> QED
  BY <1>1, FTypeNext, NoTempNext, PTL DEF Spec

-----------------------------------------------------------------------------
\* Puts are atomic.

AtomicStep ==
  opname = "swift-put" =>
    \A t \in Tids, f \in Files :
      /\ Exists("src", t, f) => Exists("src", t, f)'
      /\ Exists("src", t, f)' =>
           \/ data'[<<t, f>>] = seed[t]
           \/ Exists("src", t, f) /\ data'[<<t, f>>] = data[<<t, f>>]

LEMMA AtomicNext == FTypeInv /\ [Next]_vars => AtomicStep
<1> SUFFICES ASSUME FTypeInv, [Next]_vars, opname = "swift-put" PROVE AtomicStep
  BY DEF AtomicStep
<1> DEFINE SourcesStay ==
      /\ \A t \in Tids, f \in Files : <<"src", t, f>> \in files' <=> <<"src", t, f>> \in files
      /\ UNCHANGED data
<1>1. ASSUME SourcesStay PROVE AtomicStep
  BY <1>1 DEF AtomicStep, Exists
<1>2. ASSUME NEW op \in campaign, NEW finish \in FinishChoices, StartTest(op, finish)
      PROVE  SourcesStay
  BY <1>2 DEF StartTest
<1>3. ASSUME NEW t \in Tids, LoopEnds(t) \/ CleanSubdirs(t) \/ Killed(t)
      PROVE  SourcesStay
  BY <1>3 DEF LoopEnds, CleanSubdirs, Killed, fs
<1>4. ASSUME NEW t \in Tids, DoFile(t), ~PutTemp(t), ~PutRename(t) PROVE FALSE
  BY <1>4 DEF DoFile, File, Takes, Create, Write, Read, SwiftGet, Reads, Lookup,
     ListLong, Readdir, SetXattr, GetXattr, Symlink, Mkdir, Rmdir, Rename, Delete, DeleteRenamed, Cleanup
<1>5. ASSUME NEW t \in Tids, PutTemp(t) PROVE SourcesStay
  BY <1>5 DEF PutTemp, PutFails, Add, DropTemp, Remove, TempName
<1>6. ASSUME NEW t \in Tids, PutRename(t) PROVE AtomicStep
  <2> DEFINE f == filenum[t]
  <2>1. CASE PutFails(t, f) /\ UNCHANGED <<data, xattr>>
    BY <1>1, <2>1 DEF PutFails, DropTemp, Remove, TempName
  <2>2. CASE /\ files' = (files \ {TempName(t, f)}) \cup {<<"src", t, f>>}
             /\ Content(t, f, seed[t], 0)
    <3>1. f \in Files /\ <<t, f>> \in ThreadFiles
      BY <1>6 DEF PutRename, FTypeInv, AtRename, ThreadFiles
    <3>2. data' = [data EXCEPT ![<<t, f>>] = seed[t]]
      BY <2>2 DEF Content
    <3>3. data'[<<t, f>>] = seed[t]
      BY <3>1, <3>2 DEF FTypeInv, FTypeOK
    <3>4. ASSUME NEW u \in Tids, NEW g \in Files, <<u, g>> # <<t, f>>
          PROVE  /\ data'[<<u, g>>] = data[<<u, g>>]
                 /\ <<"src", u, g>> \in files' <=> <<"src", u, g>> \in files
      BY <2>2, <3>2, <3>4 DEF FTypeInv, FTypeOK, TempName, ThreadFiles
    <3> QED
      BY <2>2, <3>3, <3>4 DEF AtomicStep, Exists
  <2> QED
    BY <1>6, <2>1, <2>2 DEF PutRename
<1>7. ASSUME UNCHANGED vars PROVE SourcesStay
  BY <1>7 DEF vars, fs
<1> QED
  BY <1>1, <1>2, <1>3, <1>4, <1>5, <1>6, <1>7 DEF Next, ThreadStep

\* At no moment of a swift-put is a file gone, or broken, that was not before.
THEOREM PutsAreAtomic == Spec => PutIsAtomic
<1>1. Init => FTypeInv
  BY FTypeInit DEF FTypeInv, AtRename, Init
<1>2. FTypeInv /\ [Next]_vars => [AtomicStep]_vars
  BY AtomicNext
<1>3. Spec => [][AtomicStep]_vars
  BY <1>1, <1>2, FTypeNext, PTL DEF Spec
<1> QED
  BY <1>3, PTL DEF PutIsAtomic, AtomicStep

-----------------------------------------------------------------------------
\* Cleanup.

\* Of a thread's directories in a tree none is left, or a file of it is.
TreeClean(t, tree) ==
  \/ \E n \in files : n[2] = t
  \/ \A dir \in dirs : ~(dir[1] = tree /\ dir[2] = t)

\* What a cleanup that has gone well so far has done for a thread: its files are
\* gone, and its directories if no rmdir was refused.
Cleaned(t) ==
  /\ pc[t] # "rename"
  /\ pc[t] # "loop" => filenum[t] = Iterations
  /\ \A n \in files : n[2] = t /\ n[1] # "tmp" => n[3] > filenum[t]
  /\ ~is_shared_dir /\ ~fault =>
       /\ pc[t] \in {"dst", "idle"} => TreeClean(t, "src")
       /\ pc[t] = "idle" => TreeClean(t, "dst")

Cleaning ==
  opname = "cleanup" =>
    /\ finish_all_rq = TRUE
    /\ \A t \in Tids : status[t] = "OK" => Cleaned(t)

\* What a thread has cleaned stays so when others go on.
LEMMA CleanedStays ==
  ASSUME FTypeInv, NEW u \in Tids, Cleaned(u),
         pc'[u] = pc[u], filenum'[u] = filenum[u], is_shared_dir' = is_shared_dir,
         fault => fault', dirs' \subseteq dirs,
         \A n \in Names : n[2] = u => (n \in files' <=> n \in files),
         files' \subseteq Names
  PROVE  Cleaned(u)'
<1>1. files \subseteq Names
  BY DEF FTypeInv, FTypeOK
<1>2. ASSUME NEW tree, TreeClean(u, tree) PROVE TreeClean(u, tree)'
  BY <1>1, <1>2 DEF TreeClean
<1> QED
  BY <1>1, <1>2 DEF Cleaned

LEMMA CleaningNext == FTypeInv /\ Cleaning /\ [Next]_vars => Cleaning'
<1> SUFFICES ASSUME FTypeInv, Cleaning, [Next]_vars, opname' = "cleanup"
             PROVE  /\ finish_all_rq' = TRUE
                    /\ \A t \in Tids : status'[t] = "OK" => Cleaned(t)'
  BY DEF Cleaning
<1> DEFINE Goal == /\ finish_all_rq' = TRUE
                   /\ \A t \in Tids : status'[t] = "OK" => Cleaned(t)'
<1> USE DEF FTypeInv
<1>1. files' \subseteq Names /\ files \subseteq Names
  BY FTypeNext DEF FTypeOK
<1>2. \A n \in Names : n[1] \in Kinds /\ n[2] \in Tids /\ n[3] \in Files
  BY DEF Names
<1>3. ASSUME NEW op \in campaign, NEW finish \in FinishChoices, StartTest(op, finish)
      PROVE  Goal
  <2>1. op = "cleanup"
    BY <1>3 DEF StartTest
  <2>2. /\ finish_all_rq' = TRUE
        /\ pc' = [t \in Tids |-> "loop"] /\ filenum' = [t \in Tids |-> 0]
    BY <1>3, <2>1 DEF StartTest, MustFinish, MakesSubdirs
  <2>3. \A n \in files' : n[3] > 0
    BY <1>1, <1>2 DEF Files
  <2> QED
    BY <2>2, <2>3 DEF Cleaned
<1>4. ASSUME NEW t \in Tids, UNCHANGED test,
             \A u \in Tids \ {t} : /\ pc'[u] = pc[u] /\ filenum'[u] = filenum[u]
                                   /\ status'[u] = status[u],
             fault => fault', dirs' \subseteq dirs,
             \A n \in Names : n[2] # t => (n \in files' <=> n \in files),
             status'[t] = "OK" => Cleaned(t)'
      PROVE  Goal
  <2>1. finish_all_rq' = TRUE /\ is_shared_dir' = is_shared_dir
        /\ opname = "cleanup"
    BY <1>4 DEF test, Cleaning
  <2>2. ASSUME NEW u \in Tids \ {t}, status'[u] = "OK" PROVE Cleaned(u)'
    BY <1>1, <1>4, <2>1, <2>2, CleanedStays DEF Cleaning
  <2> QED
    BY <1>4, <2>1, <2>2
<1>5. ASSUME NEW t \in Tids, LoopEnds(t) PROVE Goal
  <2>1. opname = "cleanup" /\ UNCHANGED <<test, filenum, status, fs>> /\ pc[t] = "loop"
    BY <1>5 DEF LoopEnds, test
  <2>2. filenum[t] = Iterations /\ pc' = [pc EXCEPT ![t] = "src"]
    BY <1>5, <2>1 DEF LoopEnds, StopsEarly, Cleaning
  <2>3. status'[t] = "OK" => Cleaned(t)'
    BY <2>1, <2>2 DEF Cleaning, Cleaned, FTypeOK, fs, test
  <2> QED
    BY <1>4, <1>5, <2>1, <2>2, <2>3 DEF LoopEnds, FTypeOK, fs
<1>6. ASSUME NEW t \in Tids, Cleanup(t) PROVE Goal
  <2> DEFINE f == AtFile(t)
             gone(kinds) == kinds \X {t} \X {f}
  <2>1. /\ Takes(t, {"cleanup"}) /\ Ended(t)
    BY <1>6 DEF Cleanup, File, Ended
  <2>2. /\ UNCHANGED test /\ opname = "cleanup" /\ pc[t] = "loop"
        /\ filenum' = [filenum EXCEPT ![t] = f]
    BY <2>1 DEF Takes, test
  <2>3. \A n \in Names : n[2] # t => (n \in files' <=> n \in files)
    BY <1>6, <1>2 DEF Cleanup, File, Remove, fs
  <2>4. dirs' = dirs
    BY <1>6 DEF Cleanup, File, fs
  <2>5. \A u \in Tids \ {t} : /\ pc'[u] = pc[u] /\ filenum'[u] = filenum[u]
                              /\ status'[u] = status[u]
    BY <2>1, <2>2 DEF Ended, Completes, Fails, FTypeOK
  <2>6. ASSUME status'[t] = "OK" PROVE Cleaned(t)'
    <3>1. UNCHANGED <<pc, status>>
      BY <2>1, <2>6 DEF Ended, Completes, Fails, FTypeOK
    <3>2. files' = files \ gone({"s", "src", "dst", "d"})
      BY <1>6, <2>6 DEF Cleanup, File, Remove, Fails, FTypeOK
    <3>3. Cleaned(t)
      BY <2>2, <2>6, <3>1 DEF Cleaning
    <3>4. ASSUME NEW n \in files', n[2] = t, n[1] # "tmp" PROVE n[3] > f
      <4>1. n \in files /\ n[3] > filenum[t]
        BY <3>2, <3>3, <3>4 DEF Cleaned
      <4>2. n[3] # f
        BY <1>1, <3>2, <3>4 DEF Names, Kinds
      <4>3. n[3] \in Nat /\ filenum[t] \in Nat
        BY <1>1, <1>2, FileOpsAssumption DEF Files, FTypeOK
      <4> QED
        BY <4>1, <4>2, <4>3 DEF AtFile
    <3> QED
      BY <2>2, <3>1, <3>4 DEF Cleaned, FTypeOK
  <2>7. fault => fault'
    BY <2>1 DEF Ended, Completes, Fails, Faulty
  <2> QED
    BY <1>4, <2>2, <2>3, <2>4, <2>5, <2>6, <2>7
<1>7. ASSUME NEW t \in Tids, PutRename(t) PROVE Goal
  <2>1. UNCHANGED <<test, filenum, dirs>> /\ opname = "cleanup" /\ pc[t] = "rename"
    BY <1>7 DEF PutRename, test
  <2>2. status[t] # "OK"
    BY <2>1 DEF Cleaning, Cleaned
  <2>3. \A u \in Tids \ {t} : pc'[u] = pc[u] /\ status'[u] = status[u]
    BY <1>7 DEF PutRename, PutFails, Fails, FTypeOK
  <2>4. status'[t] # "OK" /\ (fault => fault')
    BY <1>7, <2>2 DEF PutRename, PutFails, Fails, Faulty, FTypeOK
  <2>5. \A n \in Names : n[2] # t => (n \in files' <=> n \in files)
    BY <1>7 DEF PutRename, PutFails, DropTemp, Remove, TempName
  <2> QED
    BY <1>4, <2>1, <2>3, <2>4, <2>5
<1>8. ASSUME NEW t \in Tids, DoFile(t), ~Cleanup(t), ~PutRename(t) PROVE FALSE
  BY <1>8 DEF DoFile, File, Takes, Create, Write, Read, SwiftGet, Reads, Lookup,
     ListLong, Readdir, SetXattr, GetXattr, Symlink, Mkdir, Rmdir, Rename, Delete, DeleteRenamed, PutTemp, test
<1>9. ASSUME NEW t \in Tids, CleanSubdirs(t) PROVE Goal
  <2>1. UNCHANGED <<test, filenum, files>> /\ opname = "cleanup" /\ dirs' \subseteq dirs
    BY <1>9 DEF CleanSubdirs, CleanTree, RemoveEmptyDirs, test
  <2>2. \A u \in Tids \ {t} : pc'[u] = pc[u] /\ status'[u] = status[u]
    BY <1>9 DEF CleanSubdirs, CleanTree, GoesOn, Fails, FTypeOK
  <2>0. fault => fault'
    BY <1>9 DEF CleanSubdirs, CleanTree, Fails, Faulty
  <2>3. ASSUME status'[t] = "OK" PROVE Cleaned(t)'
    <3>1. status[t] = "OK" /\ Cleaned(t) /\ pc[t] \in {"src", "dst"}
      BY <1>9, <2>1, <2>3 DEF CleanSubdirs, CleanTree, GoesOn, Fails, FTypeOK, Cleaning
    <3>2. pc'[t] \in {"dst", "idle"} /\ filenum'[t] = Iterations
      BY <1>9, <2>1, <3>1
      DEF CleanSubdirs, CleanTree, GoesOn, Fails, TreeAfter, FTypeOK, Cleaned
    <3>3. \A tree : TreeClean(t, tree) => TreeClean(t, tree)'
      BY <2>1 DEF TreeClean
    <3>4. ASSUME ~is_shared_dir, ~fault', NEW tree, pc[t] = tree
          PROVE  TreeClean(t, tree)' /\ pc'[t] = TreeAfter(tree)
      <4>1. RemoveEmptyDirs(t, {}) /\ pc'[t] = TreeAfter(tree)
        BY <1>9, <2>3, <3>4 DEF CleanSubdirs, CleanTree, GoesOn, Fails, Faulty, FTypeOK
      <4>2. ASSUME \A n \in files : n[2] # t,
                   NEW dir \in dirs', dir[1] = tree, dir[2] = t
            PROVE  FALSE
        <5>1. dir \in dirs /\ dir[2] = Owner(t)
          BY <2>1, <3>4, <4>2 DEF Owner
        <5>2. \A n \in files : DirOf(n)[2] # Owner(t)
          BY <3>4, <4>2 DEF DirOf, Owner
        <5>3. dir \in EmptyDirs(t)
          BY <3>4, <4>2, <5>1, <5>2 DEF EmptyDirs
        <5> QED
          BY <4>1, <4>2, <5>3 DEF RemoveEmptyDirs
      <4> QED
        BY <2>1, <4>1, <4>2 DEF TreeClean
    <3>5. ASSUME ~is_shared_dir, ~fault'
          PROVE  /\ pc'[t] \in {"dst", "idle"} => TreeClean(t, "src")'
                 /\ pc'[t] = "idle" => TreeClean(t, "dst")'
      <4>1. CASE pc[t] = "src"
        BY <3>4, <3>5, <4>1 DEF TreeAfter
      <4>2. CASE pc[t] = "dst"
        BY <2>0, <3>1, <3>3, <3>4, <3>5, <4>2 DEF Cleaned
      <4> QED
        BY <3>1, <4>1, <4>2
    <3> QED
      BY <2>1, <3>1, <3>2, <3>5 DEF Cleaned, test
  <2> QED
    BY <1>4, <2>0, <2>1, <2>2, <2>3
<1>10. ASSUME NEW t \in Tids, Killed(t) PROVE Goal
  <2>1. /\ status'[t] # "OK" /\ UNCHANGED <<test, filenum, files, dirs>>
        /\ \A u \in Tids \ {t} : pc'[u] = pc[u] /\ status'[u] = status[u]
        /\ fault => fault'
    BY <1>10 DEF Killed, Faulty, FTypeOK, fs
  <2> QED
    BY <1>4, <2>1
<1>11. CASE UNCHANGED vars
  BY <1>11 DEF vars, test, fs, Cleaning, Cleaned, TreeClean
<1> QED
  BY <1>3, <1>5, <1>6, <1>7, <1>8, <1>9, <1>10, <1>11 DEF Next, ThreadStep

LEMMA CleaningEnds == FTypeInv /\ Cleaning => CleanupComplete
<1> SUFFICES ASSUME FTypeInv, Cleaning, opname = "cleanup", ~Running, Outcome = "OK"
             PROVE  /\ \A n \in files : n[1] = "tmp"
                    /\ is_shared_dir \/ files # {} \/ fault \/ dirs = {}
  BY DEF CleanupComplete
<1>1. \A t \in Tids : pc[t] = "idle" /\ status[t] = "OK" /\ filenum[t] = Iterations
  BY DEF Running, Outcome
<1>2. \A t \in Tids : Cleaned(t)
  BY <1>1 DEF Cleaning
<1>3. ASSUME NEW n \in files PROVE n[1] = "tmp"
  <2>1. n[2] \in Tids /\ n[3] \in 1 .. Iterations
    BY DEF FTypeInv, FTypeOK, Names, Files
  <2>2. ~(n[3] > Iterations)
    BY <2>1, FileOpsAssumption
  <2> QED
    BY <1>1, <1>2, <2>1, <2>2 DEF Cleaned
<1>4. ASSUME ~is_shared_dir, ~fault, files = {}, NEW dir \in dirs PROVE FALSE
  <2>1. dir[1] \in {"src", "dst"} /\ dir[2] \in Tids
    BY DEF FTypeInv, FTypeOK
  <2>2. TreeClean(dir[2], "src") /\ TreeClean(dir[2], "dst")
    BY <1>1, <1>2, <1>4, <2>1 DEF Cleaned
  <2> QED
    BY <1>4, <2>1, <2>2 DEF TreeClean
<1> QED
  BY <1>3, <1>4

\* After a cleanup that went well there is nothing left of any test before it, in
\* whatever way those ended, but what a torn swift-put left; and no directory,
\* without --same-dir, unless an rmdir of this very cleanup was refused.
THEOREM CleanupLeavesNothing == Spec => []CleanupComplete
<1>1. Init => FTypeInv /\ Cleaning
  BY FTypeInit DEF FTypeInv, AtRename, Cleaning, Init
<1> QED
  BY <1>1, FTypeNext, CleaningNext, CleaningEnds, PTL DEF Spec

-----------------------------------------------------------------------------
\* Tests in sequence, if all the names that are made are in range.

\* Thing x is there for file f of thread t.
Has(x, t, f) ==
  \/ x \in Kinds /\ Exists(x, t, f)
  \/ x = "sized" /\ Exists("src", t, f) /\ data[<<t, f>>] = seed[t]
  \/ x = "xattr" /\ Exists("src", t, f) /\ xattr[<<t, f>>] = seed[t]

Where(x) == {w \in ThreadFiles : Has(x, w[1], w[2])}

Things == Abstract!Things
Needs(op) == Abstract!Needs(op)
Leaves(op) == Abstract!Leaves(op)
Met == Abstract!Met(before, opname)
Hopeless == Abstract!Hopeless(before, opname)

\* Extent, thing by thing.
LEMMA ExtentIs == \A x \in Things : Extent[x] = How(Where(x))
<1> SUFFICES ASSUME NEW x \in Things PROVE Extent[x] = How(Where(x))
  OBVIOUS
<1>1. ASSUME NEW w \in ThreadFiles PROVE w = <<w[1], w[2]>>
  BY <1>1 DEF ThreadFiles
<1>2. CASE x \in {"src", "dst", "d", "s", "tmp"}
  <2>1. Where(x) = {w \in ThreadFiles : Exists(x, w[1], w[2])}
    BY <1>2 DEF Where, Has, Kinds
  <2>2. CASE x = "src"
    BY <2>1, <2>2 DEF Extent
  <2>3. CASE x = "dst"
    BY <2>1, <2>3 DEF Extent
  <2>4. CASE x = "d"
    BY <2>1, <2>4 DEF Extent
  <2>5. CASE x = "s"
    BY <2>1, <2>5 DEF Extent
  <2>6. CASE x = "tmp"
    BY <2>1, <2>6 DEF Extent
  <2> QED
    BY <1>2, <2>2, <2>3, <2>4, <2>5, <2>6
<1>3. CASE x = "sized"
  <2>1. Where(x) = {w \in {v \in ThreadFiles : Exists("src", v[1], v[2])} : data[w] = seed[w[1]]}
    BY <1>1, <1>3 DEF Where, Has, Kinds
  <2> QED
    BY <1>3, <2>1 DEF Extent
<1>4. CASE x = "xattr"
  <2>1. Where(x) = {w \in {v \in ThreadFiles : Exists("src", v[1], v[2])} : xattr[w] = seed[w[1]]}
    BY <1>1, <1>4 DEF Where, Has, Kinds
  <2> QED
    BY <1>4, <2>1 DEF Extent
<1> QED
  BY <1>2, <1>3, <1>4 DEF Things, Abstract!Things

\* A test leaves things for all files or for none, and needs them so.
LEMMA LeavesType ==
  ASSUME NEW op, NEW x \in DOMAIN Leaves(op)
  PROVE  x \in Things /\ Leaves(op)[x] \in {"all", "none"}
BY DEF Leaves, Abstract!Leaves, Things, Abstract!Things

LEMMA NeedsType ==
  ASSUME NEW op, NEW x \in DOMAIN Needs(op)
  PROVE  x \in Things /\ Needs(op)[x] \in {"all", "none"}
BY DEF Needs, Abstract!Needs, Things, Abstract!Things

\* The same in the next state.
LEMMA ExtentIsNext == \A x \in Things : Extent'[x] = How(Where(x))'
<1>1. (\A x \in Things : Extent[x] = How(Where(x)))'
  BY ExtentIs, PTL
<1> QED
  BY <1>1 DEF Things, Abstract!Things

\* There is a thread and a file.
LEMMA SomeFile == /\ 0 \in Tids /\ 1 \in Files /\ <<0, 1>> \in ThreadFiles
BY FileOpsAssumption DEF Tids, Files, ThreadFiles

\* None means none, and all means all, as there are threads and files.
LEMMA HowIs ==
  ASSUME NEW S \in SUBSET ThreadFiles
  PROVE  /\ How(S) \in {"none", "some", "all"}
         /\ How(S) = "none" <=> S = {}
         /\ How(S) = "all" <=> S = ThreadFiles
BY SomeFile DEF How

LEMMA ExtentType == Extent \in [Things -> Abstract!Extents]
<1>1. \A x \in Things : Extent[x] \in {"none", "some", "all"}
  <2>1. \A x \in Things : Where(x) \in SUBSET ThreadFiles
    BY DEF Where
  <2> QED
    BY <2>1, ExtentIs, HowIs
<1>2. Extent = [x \in Things |-> Extent[x]]
  BY DEF Extent, Things, Abstract!Things
<1> QED
  BY <1>1, <1>2 DEF Abstract!Extents

\* Everything but file f of thread t stays as it is.
OnlyFile(t, f) ==
  /\ \A kind \in Kinds, u \in Tids, g \in Files :
       <<u, g>> # <<t, f>> => (Exists(kind, u, g)' <=> Exists(kind, u, g))
  /\ \A u \in Tids, g \in Files :
       <<u, g>> # <<t, f>> =>
         data'[<<u, g>>] = data[<<u, g>>] /\ xattr'[<<u, g>>] = xattr[<<u, g>>]

\* So all things of the other files stay.
LEMMA OthersStay ==
  ASSUME NEW t, NEW f, OnlyFile(t, f), UNCHANGED seed,
         NEW x \in Things, NEW u \in Tids, NEW g \in Files, <<u, g>> # <<t, f>>
  PROVE  Has(x, u, g)' <=> Has(x, u, g)
<1>1. /\ \A kind \in Kinds : Exists(kind, u, g)' <=> Exists(kind, u, g)
      /\ data'[<<u, g>>] = data[<<u, g>>] /\ xattr'[<<u, g>>] = xattr[<<u, g>>]
  BY DEF OnlyFile
<1>2. x \in {"sized", "xattr"} \/ x \in Kinds
  BY DEF Things, Abstract!Things, Kinds
<1>3. "src" \in Kinds
  BY DEF Kinds
<1> QED
  BY <1>1, <1>2, <1>3 DEF Has

\* Source files appear where a seed is made, and have no attributes before them.
Marks(t, f) ==
  /\ Exists("src", t, f)' => Exists("src", t, f) \/ NewSeed(opname)
  /\ xattr'[<<t, f>>] # 0 => Exists("src", t, f)'

\* What one step does to the file it is about.
Effect(t, f) ==
  /\ Marks(t, f)
  /\ \A x \in Things \ DOMAIN Leaves(opname) : Has(x, t, f)' <=> Has(x, t, f)
  /\ status'[t] = "OK" /\ pc'[t] # "rename" =>
       \A x \in DOMAIN Leaves(opname) : Has(x, t, f)' <=> Leaves(opname)[x] = "all"
  /\ status'[t] # "OK" => fault' = TRUE \/ ~Met
  /\ Hopeless /\ f = 1 => status'[t] # "OK"

\* The files a thread has not come to are as the test found them.
Rest ==
  \A t \in Tids, f \in Files, x \in DOMAIN Needs(opname) :
    f > filenum[t] => /\ before[x] = "none" => ~Has(x, t, f)
                      /\ before[x] = "all" => Has(x, t, f)

\* A source file is one of the saved seed, attributes are those of a source file.
Marked ==
  \A t \in Tids :
    /\ NewSeed(opname) => seed[t] # 0
    /\ \A f \in Files : /\ Exists("src", t, f) => seed[t] # 0
                        /\ xattr[<<t, f>>] # 0 => Exists("src", t, f)

\* All directories of an owner are there.
Complete(o) == {"src", "dst"} \X {o} \X Subdirs \subseteq dirs

\* They are while the owner has a source file, and while a test is on that makes
\* them or that found all source files, even where it then moves these away.
DirsThere ==
  /\ \A t \in Tids : Owner(t) = t /\ (\E f \in Files : Exists("src", t, f)) => Complete(t)
  /\ opname # "cleanup" /\ (MakesSubdirs(opname) \/ before["src"] = "all") =>
        \A t \in Tids : Complete(Owner(t))

\* A test that finds what it needs finds it for every file still to come.
LEMMA MetGives ==
  ASSUME Rest, Met, NEW t \in Tids, NEW f \in Files, f > filenum[t],
         NEW x \in DOMAIN Needs(opname)
  PROVE  Has(x, t, f) <=> Needs(opname)[x] = "all"
BY NeedsType DEF Met, Abstract!Met, Rest, Needs

\* A hopeless test finds something wrong at every file still to come.
LEMMA HopelessGives ==
  ASSUME Rest, Hopeless, NEW t \in Tids, NEW f \in Files, f > filenum[t]
  PROVE  /\ opname \notin {"readdir", "symlink"}
         /\ \E x \in DOMAIN Needs(opname) \ {"tmp", "sized", "xattr"} :
              Has(x, t, f) <=> Needs(opname)[x] = "none"
<1>1. PICK x \in DOMAIN Needs(opname) \ {"tmp", "sized", "xattr"} :
        opname \notin {"readdir", "symlink"}
        /\ {before[x], Needs(opname)[x]} = {"none", "all"}
  BY DEF Hopeless, Abstract!Hopeless, Needs
<1>2. Needs(opname)[x] \in {"none", "all"}
  BY NeedsType
<1>3. Has(x, t, f) <=> Needs(opname)[x] = "none"
  BY <1>1, <1>2 DEF Rest
<1> QED
  BY <1>1, <1>3

\* Most tests need the source files.
LEMMA SourceNeeded ==
  ASSUME Rest, NEW t \in Tids, NEW f \in Files, f > filenum[t],
         opname \in OpNames \ {"create", "mkdir", "rmdir", "delete-renamed",
                               "swift-put", "cleanup"}
  PROVE  /\ Met => Exists("src", t, f)
         /\ Hopeless => ~Exists("src", t, f)
<1>1. "src" \in DOMAIN Needs(opname) /\ Needs(opname)["src"] = "all"
  BY DEF Needs, Abstract!Needs, OpNames
<1>2. ASSUME opname \notin {"readdir", "symlink"}
      PROVE  \A x \in DOMAIN Needs(opname) : x \in {"src", "sized", "xattr"}
  BY <1>2 DEF Needs, Abstract!Needs, OpNames
<1>3. ASSUME Met PROVE Exists("src", t, f)
  BY <1>1, <1>3, MetGives DEF Has, Kinds
<1>4. ASSUME Hopeless PROVE ~Exists("src", t, f)
  <2>1. PICK x \in DOMAIN Needs(opname) \ {"tmp", "sized", "xattr"} :
          Has(x, t, f) <=> Needs(opname)[x] = "none"
    BY <1>4, HopelessGives
  <2>2. x = "src"
    BY <1>2, <1>4, <2>1, HopelessGives
  <2> QED
    BY <1>1, <2>1, <2>2 DEF Has, Kinds
<1> QED
  BY <1>3, <1>4

\* Control of a step about one file.
LEMMA AtNext ==
  ASSUME FTypeInv, NEW t \in Tids, NEW ops, Takes(t, ops)
  PROVE  /\ AtFile(t) \in Files /\ AtFile(t) > filenum[t] /\ filenum'[t] = AtFile(t)
         /\ opname \in ops /\ pc[t] = "loop"
         /\ UNCHANGED <<test, stonewall_file>>
         /\ UNCHANGED opname /\ UNCHANGED before /\ UNCHANGED seed
<1>1. /\ AtFile(t) \in Files /\ filenum'[t] = AtFile(t)
      /\ opname \in ops /\ pc[t] = "loop"
      /\ UNCHANGED <<test, stonewall_file>>
  BY TakesType DEF FTypeInv
<1>2. filenum[t] \in Nat
  BY FileOpsAssumption DEF FTypeInv, FTypeOK
<1> QED
  BY <1>1, <1>2 DEF AtFile, test

\* What Fails says of the thread.
LEMMA FailsStatus ==
  ASSUME FTypeInv, NEW t \in Tids, NEW because, Fails(t, because)
  PROVE  /\ status'[t] = "errno" /\ pc'[t] = "idle"
         /\ because = "fault" => fault' = TRUE
BY DEF Fails, Faulty, FTypeInv, FTypeOK

\* What Content says of the file.
LEMMA ContentIs ==
  ASSUME FTypeInv, NEW t \in Tids, NEW f \in Files, NEW made, NEW tagged,
         Content(t, f, made, tagged)
  PROVE  data'[<<t, f>>] = made /\ xattr'[<<t, f>>] = tagged
<1>1. <<t, f>> \in ThreadFiles
  BY DEF ThreadFiles
<1> QED
  BY <1>1 DEF Content, FTypeInv, FTypeOK

-----------------------------------------------------------------------------
\* Directories.

\* The options as numbers.
LEMMA PFields ==
  /\ P.iterations = Iterations /\ P.files_per_dir = FilesPerDir
  /\ P.dirs_per_dir = DirsPerDir /\ P.tops = TopCount /\ P.hash_to_dir = FALSE
  /\ Iterations \in Nat \ {0} /\ FilesPerDir \in Nat \ {0}
  /\ DirsPerDir \in Nat \ {0, 1} /\ TopCount \in Nat \ {0}
BY FileOpsAssumption DEF P

\* The range of names ends this far after the last multiple of --files-per-dir.
Slack == (Iterations - 1) % FilesPerDir

LEMMA LastMultiple ==
  \E a \in Nat : /\ Iterations + FilesPerDir - 1 = FilesPerDir * a + Slack
                 /\ Slack \in 0 .. FilesPerDir - 1
<1> DEFINE b == (Iterations - 1) \div FilesPerDir
           F == FilesPerDir
           I == Iterations
<1>1. I \in Nat \ {0} /\ F \in Nat \ {0} /\ I - 1 \in Nat
  BY PFields
<1>2. b \in Nat /\ Slack \in 0 .. F - 1 /\ I - 1 = F * b + Slack
  BY <1>1, DivModType DEF Slack
<1> HIDE DEF b, F, I
<1>3. F * (b + 1) = F * b + F
  BY <1>1, <1>2
<1>4. F * b \in Nat
  BY <1>1, <1>2
<1>5. I + F - 1 = F * (b + 1) + Slack
  BY <1>1, <1>2, <1>3, <1>4
<1> QED
  BY <1>2, <1>5 DEF F, I

\* All names that make_all_subdirs makes are in file_dirs exactly if there are no
\* more top directories than this: with --files a multiple of --files-per-dir it
\* is --files-per-dir, and it is one at worst.
THEOREM TopsInRange == NamesInRange(P) <=> TopCount <= Slack + 1
<1> DEFINE F == FilesPerDir
           N == Iterations + FilesPerDir - 1
<1>1. PICK a \in Nat : N = F * a + Slack /\ Slack \in 0 .. F - 1
  BY LastMultiple
<1>2. F \in Nat \ {0} /\ N \in Nat /\ TopCount \in Nat \ {0} /\ F * a \in Nat
  BY PFields, <1>1
<1>3. DirRange(P) = {j \in 0 .. N : j % F = 0} /\ FileDirs(P) = 0 .. N
  BY PFields DEF DirRange, FileDirs
<1>4. NamedFiles(P) = {j + k : j \in DirRange(P), k \in 0 .. TopCount - 1}
  BY PFields DEF NamedFiles
<1> HIDE DEF N, F
<1>5. ASSUME TopCount <= Slack + 1, NEW j \in DirRange(P), NEW k \in 0 .. TopCount - 1
      PROVE  j + k \in 0 .. N
  <2> DEFINE q == j \div F
  <2>1. j \in 0 .. N /\ j \in Nat /\ j % F = 0
    BY <1>2, <1>3, <1>5
  <2>2. q \in Nat /\ j = F * q + (j % F)
    BY <1>2, <2>1, DivModType
  <2> HIDE DEF q
  <2>3. F * q \in Nat /\ j = F * q
    BY <1>2, <2>1, <2>2
  <2>4. ASSUME a < q PROVE FALSE
    <3>1. F * a + F <= F * q
      BY <1>2, <2>2, <2>4, Multiples
    <3> QED
      BY <1>1, <1>2, <2>1, <2>3, <3>1
  <2>5. F * q <= F * a
    <3>1. CASE q = a
      BY <1>2, <3>1
    <3>2. CASE q < a
      <4>1. F * q + F <= F * a
        BY <1>2, <2>2, <3>2, Multiples
      <4> QED
        BY <1>2, <2>3, <4>1
    <3> QED
      BY <2>2, <2>4, <3>1, <3>2
  <2> QED
    BY <1>1, <1>2, <1>5, <2>3, <2>5
<1>6. ASSUME NamesInRange(P) PROVE TopCount <= Slack + 1
  <2> DEFINE j == F * a
  <2>1. j % F = 0
    <3>1. F * a = F * a + 0 /\ 0 \in 0 .. F - 1
      BY <1>2
    <3> QED
      BY <1>2, <3>1, DivModUnique
  <2>2. j \in 0 .. N
    BY <1>1, <1>2
  <2>3. j \in DirRange(P) /\ TopCount - 1 \in 0 .. TopCount - 1
    BY <1>2, <1>3, <2>1, <2>2
  <2>4. j + (TopCount - 1) \in 0 .. N
    BY <1>3, <1>4, <1>6, <2>3 DEF NamesInRange
  <2> QED
    BY <1>1, <1>2, <2>4
<1> QED
  BY <1>3, <1>4, <1>5, <1>6 DEF NamesInRange

\* The path of a file depends on its directory number only.
LEMMA PathIs ==
  ASSUME NEW f \in 0 .. Iterations
  PROVE  /\ file_dirs[f] = <<f % TopCount, SeqDir(P, f)>>
         /\ Path(f) = SeqDir(P, f)
         /\ f \in Nat
<1>1. f \in FileDirs(P) /\ f \in Nat
  BY PFields DEF FileDirs
<1>2. file_dirs[f] = FileDir(P, f)
  BY <1>1 DEF file_dirs
<1> QED
  BY <1>1, <1>2, PFields DEF FileDir, DirName, Path

LEMMA PathByNumber ==
  ASSUME NEW f, NEW g, DirNumber(P, f) = DirNumber(P, g)
  PROVE  SeqDir(P, f) = SeqDir(P, g)
BY DEF SeqDir

\* A file is in every top directory by one of the names there are.
LEMMA TopNamed ==
  ASSUME NamesInRange(P), NEW f \in Files, NEW top \in 0 .. TopCount - 1
  PROVE  <<top, SeqDir(P, f)>> \in NamedDirs(P)
<1> DEFINE F == FilesPerDir
           T == TopCount
           q == f \div F
           j == F * q
           c == j % T
           e == j \div T
           k == IF c <= top THEN top - c ELSE top + T - c
<1>1. /\ F \in Nat \ {0} /\ T \in Nat \ {0} /\ Slack \in 0 .. F - 1 /\ T <= Slack + 1
      /\ f \in Nat /\ f <= Iterations /\ Iterations \in Nat /\ top \in Nat
  BY PFields, LastMultiple, TopsInRange DEF Files
<1>2. q \in Nat /\ f % F \in 0 .. F - 1 /\ f = F * q + (f % F)
  BY <1>1, DivModType
<1> HIDE DEF F, T, q
<1>3. j \in Nat /\ j <= f
  BY <1>1, <1>2
<1>4. c \in 0 .. T - 1 /\ e \in Nat /\ j = T * e + c
  BY <1>1, <1>3, DivModType
<1> HIDE DEF c, e
<1>5. k \in 0 .. T - 1
  BY <1>1, <1>4 DEF T
<1>6. (j + k) % T = top
  <2> HIDE DEF j
  <2>1. T * e \in Nat /\ T * (e + 1) = T * e + T
    BY <1>1, <1>4
  <2>2. top \in 0 .. T - 1
    BY DEF T
  <2>3. CASE c <= top
    <3>1. j + k = T * e + top
      BY <1>1, <1>3, <1>4, <2>1, <2>3
    <3> QED
      BY <1>1, <1>3, <1>4, <1>5, <2>2, <3>1, DivModUnique
  <2>4. CASE ~(c <= top)
    <3>1. j + k = T * (e + 1) + top /\ e + 1 \in Nat
      BY <1>1, <1>3, <1>4, <2>1, <2>4
    <3> QED
      BY <1>1, <1>3, <1>4, <1>5, <2>2, <3>1, DivModUnique
  <2> QED
    BY <2>3, <2>4
<1>7. (j + k) \div F = q
  <2>1. k \in 0 .. F - 1 /\ j + k \in Nat /\ j + k = F * q + k
    BY <1>1, <1>3, <1>5
  <2> HIDE DEF j, k
  <2> QED
    BY <1>1, <1>2, <2>1, DivModUnique
<1>8. j \in DirRange(P)
  <2>1. j % F = 0
    <3>1. F * q = F * q + 0 /\ 0 \in 0 .. F - 1 /\ F * q \in Nat
      BY <1>1, <1>2
    <3> QED
      BY <1>1, <1>2, <3>1, DivModUnique
  <2>2. j \in 0 .. Iterations + F - 1
    BY <1>1, <1>3
  <2> QED
    BY <2>1, <2>2, PFields DEF DirRange, F
<1>9. j + k \in NamedFiles(P)
  BY <1>5, <1>8, PFields DEF NamedFiles, T
<1>10. FileDir(P, j + k) = <<top, SeqDir(P, f)>>
  <2>1. DirNumber(P, j + k) = DirNumber(P, f)
    BY <1>7, PFields DEF DirNumber, F, q
  <2>2. SeqDir(P, j + k) = SeqDir(P, f)
    BY <2>1, PathByNumber
  <2> QED
    BY <1>6, <2>2, PFields DEF FileDir, DirName, T
<1> QED
  BY <1>9, <1>10 DEF NamedDirs

\* All directories of a file are among those that are made.
LEMMA FileDirsMade ==
  ASSUME NamesInRange(P), NEW f \in Files
  PROVE  /\ \A top \in 0 .. TopCount - 1 : <<top, Path(f)>> \in Subdirs
         /\ file_dirs[f] \in Subdirs
<1> DEFINE s == SeqDir(P, f)
<1>0. f \in 0 .. Iterations /\ f \in Nat
  BY PFields DEF Files
<1>1. s \in Seq(0 .. DirsPerDir - 1) /\ Len(s) >= 1 /\ Len(s) \in Nat
  <2>1. DirNumber(P, f) \in Nat
    BY <1>0, PFields, DirNumberType
  <2>2. s \in Seq(0 .. P.dirs_per_dir - 1) /\ Len(s) = Levels(P, DirNumber(P, f)) + 1
    BY <1>0, PFields, SeqDirType
  <2>3. Levels(P, DirNumber(P, f)) \in 0 .. DirNumber(P, f)
    BY <2>1, PFields, LevelsType
  <2> QED
    BY <2>1, <2>2, <2>3, PFields
<1> HIDE DEF s
<1>2. SubSeq(s, 1, Len(s)) = s /\ s # <<>>
  BY <1>1
<1>3. ASSUME NEW top \in 0 .. TopCount - 1 PROVE <<top, s>> \in Subdirs
  <2>1. <<top, s>> \in NamedDirs(P)
    BY TopNamed DEF s
  <2>2. <<top, s>> \in Above(<<top, s>>)
    <3>1. Len(s) \in 0 .. Len(s)
      BY <1>1
    <3>2. <<top, SubSeq(s, 1, Len(s))>> = <<top, s>>
      BY <1>2
    <3> QED
      BY <3>1, <3>2 DEF Above
  <2>3. <<top, s>>[2] # <<>>
    BY <1>2
  <2> QED
    BY <2>1, <2>2, <2>3 DEF AllSubdirs, Subdirs
<1>4. f % TopCount \in 0 .. TopCount - 1
  BY <1>0, PFields, DivModType
<1> QED
  BY <1>0, <1>3, <1>4, PathIs DEF s

\* Where all directories are made, every file of the thread finds its own.
LEMMA CompleteHas ==
  ASSUME NamesInRange(P), NEW t \in Tids, NEW f \in Files, Complete(Owner(t))
  PROVE  (\A kind \in Kinds : HasDir(kind, t, f)) /\ CanList(t, f)
<1>1. ASSUME NEW kind \in Kinds PROVE HasDir(kind, t, f)
  BY FileDirsMade DEF HasDir, DirOf, TreeOf, Complete
<1>2. CanList(t, f)
  BY FileDirsMade DEF CanList, Complete
<1> QED
  BY <1>1, <1>2

\* Steps that only read.
LEMMA ReadsEffect ==
  ASSUME FTypeInv, Marked, NEW t \in Tids, NEW f \in Files, UNCHANGED fs, UNCHANGED seed,
         DOMAIN Leaves(opname) = {}, 
         status'[t] # "OK" => fault' = TRUE \/ ~Met,
         Hopeless /\ f = 1 => status'[t] # "OK"
  PROVE  OnlyFile(t, f) /\ Effect(t, f) /\ UNCHANGED dirs
<1>1. UNCHANGED <<files, data, xattr, dirs>>
  BY DEF fs
<1>2. \A x \in Things : Has(x, t, f)' <=> Has(x, t, f)
  BY <1>1 DEF Has, Exists
<1>3. Marks(t, f)
  BY <1>1 DEF Marks, Marked, Exists
<1> QED
  BY <1>1, <1>2, <1>3 DEF OnlyFile, Exists, Effect

\* What a test does not leave is there to the extent it was.
Frame == \A x \in Things \ DOMAIN Leaves(opname) : Extent[x] = before[x]

\* Files are numbered directory by directory.
LEMMA DirNumberGrows ==
  ASSUME NEW f \in Nat, NEW g \in Nat, f <= g
  PROVE  /\ DirNumber(P, f) \in Nat /\ DirNumber(P, g) \in Nat
         /\ DirNumber(P, f) <= DirNumber(P, g)
<1> DEFINE F == FilesPerDir
           a == f \div F
           b == g \div F
<1>1. F \in Nat \ {0}
  BY PFields
<1>2. /\ a \in Nat /\ f % F \in 0 .. F - 1 /\ f = F * a + (f % F)
      /\ b \in Nat /\ g % F \in 0 .. F - 1 /\ g = F * b + (g % F)
  BY <1>1, DivModType
<1> HIDE DEF F, a, b
<1>3. ASSUME b < a PROVE FALSE
  <2>1. F * b + F <= F * a
    BY <1>1, <1>2, <1>3, Multiples
  <2>2. F * b \in Nat /\ F * a \in Nat
    BY <1>1, <1>2
  <2> QED
    BY <1>1, <1>2, <2>1, <2>2
<1>4. DirNumber(P, f) = a /\ DirNumber(P, g) = b
  BY PFields DEF DirNumber, F, a, b
<1> QED
  BY <1>2, <1>3, <1>4

\* A directory is listed when all of its files, and nothing else, are there.
LEMMA ListingAgrees ==
  ASSUME FTypeInv, Frame, opname = "readdir", Met, NEW t \in Tids, NEW f \in Files,
         f # 1, Path(f) # Path(f - 1)
  PROVE  Cardinality({g \in 1 .. f - 1 : Path(g) = Path(f - 1)})
           = Cardinality(Listed(t, f - 1))
<1> DEFINE met == {g \in 1 .. f - 1 : Path(g) = Path(f - 1)}
           listed == Listed(t, f - 1)
           name == [g \in met |-> <<"src", t, g>>]
<1>0. f \in Nat /\ f - 1 \in 1 .. Iterations /\ Iterations \in Nat /\ f <= Iterations
  BY PFields DEF Files
<1>1. ASSUME NEW u \in Tids, NEW g \in Files
      PROVE  Exists("src", u, g) /\ ~Exists("d", u, g) /\ ~Exists("tmp", u, g)
  <2>1. Leaves(opname) = <<>> /\ Needs(opname) = [src |-> "all", d |-> "none", tmp |-> "none"]
    BY DEF Leaves, Abstract!Leaves, Needs, Abstract!Needs
  <2>2. before["src"] = "all" /\ before["d"] = "none" /\ before["tmp"] = "none"
    BY <2>1 DEF Met, Abstract!Met, Needs
  <2>3. Extent["src"] = "all" /\ Extent["d"] = "none" /\ Extent["tmp"] = "none"
    BY <2>1, <2>2 DEF Frame, Things, Abstract!Things
  <2>4. Where("src") = ThreadFiles /\ Where("d") = {} /\ Where("tmp") = {}
    <3>1. \A x : Where(x) \in SUBSET ThreadFiles
      BY DEF Where
    <3>2. {"src", "d", "tmp"} \subseteq Things
      BY DEF Things, Abstract!Things
    <3> QED
      BY <2>3, <3>1, <3>2, HowIs, ExtentIs
  <2>5. <<u, g>> \in ThreadFiles
    BY DEF ThreadFiles
  <2> QED
    BY <2>4, <2>5 DEF Where, Has, Kinds
<1>2. ASSUME NEW u \in Tids, Owner(u) = Owner(t) PROVE u = t
  <2>1. is_shared_dir => ThreadCount = 1
    BY FileOpsAssumption DEF Met, Abstract!Met
  <2> QED
    BY <1>2, <2>1 DEF Owner, Tids
<1>3. ASSUME NEW g \in Files, Path(g) = Path(f - 1) PROVE g \in met
  <2> SUFFICES ASSUME ~(g <= f - 1) PROVE FALSE
    BY <1>0, <1>3 DEF Files
  <2>1. g \in Nat /\ f - 1 \in Nat /\ f <= g
    BY <1>0 DEF Files
  <2>2. /\ DirNumber(P, f - 1) <= DirNumber(P, f) /\ DirNumber(P, f) <= DirNumber(P, g)
        /\ DirNumber(P, f - 1) \in Nat /\ DirNumber(P, f) \in Nat /\ DirNumber(P, g) \in Nat
    BY <1>0, <2>1, DirNumberGrows
  <2>3. SeqDir(P, g) = SeqDir(P, f - 1)
    BY <1>0, <1>3, PathIs DEF Files
  <2>4. DirNumber(P, g) = DirNumber(P, f - 1)
    BY <2>1, <2>3, PFields, SeqDirInjective
  <2>5. DirNumber(P, f) = DirNumber(P, f - 1)
    BY <2>2, <2>4
  <2>6. SeqDir(P, f) = SeqDir(P, f - 1)
    BY <2>5, PathByNumber
  <2> QED
    BY <1>0, <2>6, PathIs
<1>4. ASSUME NEW n \in listed PROVE n[3] \in met /\ n = <<"src", t, n[3]>>
  <2>1. /\ n \in files /\ n \in Names /\ TreeOf(n[1]) = "src" /\ Owner(n[2]) = Owner(t)
        /\ Path(n[3]) = Path(f - 1)
    BY DEF Listed, FTypeInv, FTypeOK
  <2>2. n = <<n[1], n[2], n[3]>> /\ n[1] \in Kinds /\ n[2] \in Tids /\ n[3] \in Files
    BY <2>1 DEF Names
  <2>3. n[2] = t /\ n[3] \in met
    BY <1>2, <1>3, <2>1, <2>2
  <2>4. n[1] = "src"
    BY <1>1, <2>1, <2>2 DEF TreeOf, Kinds, Exists
  <2> QED
    BY <2>2, <2>3, <2>4
<1>5. ASSUME NEW g \in met PROVE name[g] \in listed
  <2>1. g \in Files /\ Path(g) = Path(f - 1)
    BY <1>0 DEF Files
  <2> QED
    BY <1>1, <2>1 DEF Listed, TreeOf, Exists
<1>6. IsFiniteSet(met)
  <2>1. IsFiniteSet(1 .. f - 1)
    BY <1>0, FS_Interval
  <2> QED
    BY <2>1, FS_Subset
<1>7. name \in Bijection(met, listed)
  <2>1. name \in [met -> listed]
    BY <1>5
  <2>2. \A g, h \in met : name[g] = name[h] => g = h
    OBVIOUS
  <2>3. \A n \in listed : \E g \in met : name[g] = n
    BY <1>4
  <2> HIDE DEF name, met, listed
  <2> QED
    BY <2>1, <2>2, <2>3 DEF Bijection, Injection, Surjection, IsInjective
<1>8. ExistsBijection(met, listed)
  BY <1>7 DEF ExistsBijection
<1> HIDE DEF met, listed
<1> QED
  BY <1>6, <1>8, FS_Bijection DEF met, listed

\* What is known when a thread goes on to its next file.
Ready(t) ==
  /\ FTypeInv /\ Rest /\ Marked /\ DirsThere /\ Frame /\ NamesInRange(P)
  /\ t \in Tids /\ status[t] = "OK"

\* stat, chmod and ls-l.
LEMMA LookupEffect ==
  ASSUME NEW t, Ready(t), NEW f, f = AtFile(t), Lookup(t) \/ ListLong(t)
  PROVE  OnlyFile(t, f) /\ Effect(t, f) /\ UNCHANGED dirs
<1> USE DEF Ready
<1>1. Takes(t, {"stat", "chmod"}) \/ Takes(t, {"ls-l"})
  BY DEF Lookup, ListLong, File
<1>2. /\ f \in Files /\ f > filenum[t] /\ opname \in {"stat", "chmod", "ls-l"}
      /\ UNCHANGED fs /\ UNCHANGED seed
  BY <1>1, AtNext DEF Lookup, ListLong, File
<1>3. DOMAIN Leaves(opname) = {} /\ opname \in OpNames
  BY <1>2 DEF Leaves, Abstract!Leaves, OpNames
<1>4. Met => Exists("src", t, f) /\ CanList(t, f)
  <2>1. ASSUME Met PROVE before["src"] = "all"
    BY <1>2, <2>1 DEF Met, Abstract!Met, Abstract!Needs
  <2> QED
    BY <1>2, <1>3, <2>1, SourceNeeded, CompleteHas DEF DirsThere
<1>5. Hopeless => ~Exists("src", t, f)
  BY <1>2, <1>3, SourceNeeded
<1>6. /\ status'[t] # "OK" => fault' = TRUE \/ ~Exists("src", t, f) \/ ~CanList(t, f)
      /\ ~Exists("src", t, f) => status'[t] # "OK"
  BY FailsStatus DEF Lookup, ListLong, File, Completes
<1> QED
  BY <1>2, <1>3, <1>4, <1>5, <1>6, ReadsEffect

\* readdir.
LEMMA ReaddirEffect ==
  ASSUME NEW t, Ready(t), NEW f, f = AtFile(t), Readdir(t)
  PROVE  OnlyFile(t, f) /\ Effect(t, f) /\ UNCHANGED dirs
<1> USE DEF Ready
<1>1. Takes(t, {"readdir"})
  BY DEF Readdir, File
<1>2. /\ f \in Files /\ f > filenum[t] /\ opname = "readdir"
      /\ UNCHANGED fs /\ UNCHANGED seed
  BY <1>1, AtNext DEF Readdir, File
<1>3. DOMAIN Leaves(opname) = {} /\ opname \in OpNames
  BY <1>2 DEF Leaves, Abstract!Leaves, OpNames
<1>4. Met => /\ Exists("src", t, f) /\ CanList(t, f)
             /\ \/ f = 1 \/ Path(f) = Path(f - 1)
                \/ Cardinality({g \in 1 .. f - 1 : Path(g) = Path(f - 1)})
                     = Cardinality(Listed(t, f - 1))
  <2>1. ASSUME Met PROVE before["src"] = "all"
    BY <1>2, <2>1 DEF Met, Abstract!Met, Abstract!Needs
  <2> QED
    BY <1>2, <1>3, <2>1, SourceNeeded, CompleteHas, ListingAgrees DEF DirsThere
<1>5. ~Hopeless
  BY <1>2 DEF Hopeless, Abstract!Hopeless
<1>6. status'[t] # "OK" =>
        \/ fault' = TRUE \/ ~Exists("src", t, f) \/ ~CanList(t, f)
        \/ ~ (\/ f = 1 \/ Path(f) = Path(f - 1)
              \/ Cardinality({g \in 1 .. f - 1 : Path(g) = Path(f - 1)})
                   = Cardinality(Listed(t, f - 1)))
  BY FailsStatus DEF Readdir, File, Completes
<1> QED
  BY <1>2, <1>3, <1>4, <1>5, <1>6, ReadsEffect

\* read and swift-get.
LEMMA ReadEffect ==
  ASSUME NEW t, Ready(t), NEW f, f = AtFile(t), Read(t) \/ SwiftGet(t)
  PROVE  OnlyFile(t, f) /\ Effect(t, f) /\ UNCHANGED dirs
<1> USE DEF Ready
<1>1. Takes(t, {"read"}) \/ Takes(t, {"swift-get"})
  BY DEF Read, SwiftGet, Reads, File
<1>2. /\ f \in Files /\ f > filenum[t] /\ opname \in {"read", "swift-get"}
      /\ UNCHANGED fs /\ UNCHANGED seed
  BY <1>1, AtNext DEF Read, SwiftGet, Reads, File
<1>3. DOMAIN Leaves(opname) = {} /\ opname \in OpNames
  BY <1>2 DEF Leaves, Abstract!Leaves, OpNames
<1>4. Met => Exists("src", t, f) /\ data[<<t, f>>] = seed[t]
  <2>1. "sized" \in DOMAIN Needs(opname) /\ Needs(opname)["sized"] = "all"
    BY <1>2 DEF Needs, Abstract!Needs
  <2> QED
    BY <1>2, <2>1, MetGives DEF Has, Kinds
<1>5. Hopeless => ~Exists("src", t, f)
  BY <1>2, <1>3, SourceNeeded
<1>6. /\ status'[t] # "OK" => \/ fault' = TRUE \/ ~Exists("src", t, f)
                              \/ data[<<t, f>>] # seed[t]
      /\ ~Exists("src", t, f) => status'[t] # "OK"
  BY FailsStatus DEF Read, SwiftGet, Reads, File, Completes
<1> QED
  BY <1>2, <1>3, <1>4, <1>5, <1>6, ReadsEffect

\* getxattr.
LEMMA GetXattrEffect ==
  ASSUME NEW t, Ready(t), NEW f, f = AtFile(t), GetXattr(t)
  PROVE  OnlyFile(t, f) /\ Effect(t, f) /\ UNCHANGED dirs
<1> USE DEF Ready
<1>1. Takes(t, {"getxattr"})
  BY DEF GetXattr, File
<1>2. /\ f \in Files /\ f > filenum[t] /\ opname = "getxattr"
      /\ UNCHANGED fs /\ UNCHANGED seed
  BY <1>1, AtNext DEF GetXattr, File
<1>3. DOMAIN Leaves(opname) = {} /\ opname \in OpNames
  BY <1>2 DEF Leaves, Abstract!Leaves, OpNames
<1>4. Met => xattr[<<t, f>>] = seed[t] /\ xattr[<<t, f>>] # 0
  <2>1. "xattr" \in DOMAIN Needs(opname) /\ Needs(opname)["xattr"] = "all"
    BY <1>2 DEF Needs, Abstract!Needs
  <2>2. Met => Exists("src", t, f) /\ xattr[<<t, f>>] = seed[t]
    BY <1>2, <2>1, MetGives DEF Has, Kinds
  <2>3. Exists("src", t, f) => seed[t] # 0
    BY <1>2 DEF Marked
  <2> QED
    BY <2>2, <2>3
<1>5. Hopeless => xattr[<<t, f>>] = 0
  BY <1>2, <1>3, SourceNeeded DEF Marked
<1>6. /\ status'[t] # "OK" => fault' = TRUE \/ xattr[<<t, f>>] \in {0} \/ xattr[<<t, f>>] # seed[t]
      /\ xattr[<<t, f>>] = 0 => status'[t] # "OK"
  BY FailsStatus DEF GetXattr, File, Completes
<1> QED
  BY <1>2, <1>3, <1>4, <1>5, <1>6, ReadsEffect

\* A create.
LEMMA CreateEffect ==
  ASSUME NEW t, Ready(t), NEW f, f = AtFile(t), Create(t)
  PROVE  OnlyFile(t, f) /\ Effect(t, f) /\ UNCHANGED dirs
<1> USE DEF Ready
<1>1. /\ Takes(t, {"create"}) /\ UNCHANGED dirs
      /\ \/ /\ Add({<<"src", t, f>>}) /\ Content(t, f, seed[t], 0) /\ Completes
            /\ HasDir("src", t, f) /\ ~Exists("src", t, f)
         \/ /\ Add({<<"src", t, f>>}) /\ Content(t, f, 0, 0) /\ Fails(t, "fault")
            /\ HasDir("src", t, f) /\ ~Exists("src", t, f)
         \/ /\ UNCHANGED <<files, data, xattr>> /\ Fails(t, "fault")
            /\ HasDir("src", t, f) /\ ~Exists("src", t, f)
         \/ /\ UNCHANGED <<files, data, xattr>> /\ Fails(t, "missing")
            /\ ~(HasDir("src", t, f) /\ ~Exists("src", t, f))
  BY DEF Create, File, fs
<1>2. f \in Files /\ f > filenum[t] /\ opname = "create" /\ seed' = seed /\ pc[t] = "loop"
  BY <1>1, AtNext
<1>3. OnlyFile(t, f)
  BY <1>1, <1>2 DEF OnlyFile, Add, Content, Exists, FTypeInv, FTypeOK, ThreadFiles
<1>4. DOMAIN Leaves(opname) = {"src", "sized", "xattr"}
      /\ Leaves(opname)["src"] = "all" /\ Leaves(opname)["sized"] = "all"
      /\ Leaves(opname)["xattr"] = "none"
  BY <1>2 DEF Leaves, Abstract!Leaves
<1>5. ASSUME NEW x \in Things \ DOMAIN Leaves(opname) PROVE Has(x, t, f)' <=> Has(x, t, f)
  <2>1. x \in Kinds \ {"src"}
    BY <1>4, <1>5 DEF Things, Abstract!Things, Kinds
  <2>2. Exists(x, t, f)' <=> Exists(x, t, f)
    BY <1>1, <2>1 DEF Exists, Add
  <2> QED
    BY <2>1, <2>2 DEF Has, Kinds
<1>6. ASSUME status'[t] = "OK"
      PROVE \A x \in DOMAIN Leaves(opname) : Has(x, t, f)' <=> Leaves(opname)[x] = "all"
  <2>1. Add({<<"src", t, f>>}) /\ Content(t, f, seed[t], 0)
    BY <1>1, <1>6, FailsStatus
  <2>2. <<t, f>> \in ThreadFiles /\ seed[t] # 0
    BY <1>2 DEF ThreadFiles, Marked, NewSeed
  <2>3. Exists("src", t, f)' /\ data'[<<t, f>>] = seed[t] /\ xattr'[<<t, f>>] = 0
    BY <1>2, <2>1, ContentIs DEF Add, Exists
  <2> QED
    BY <1>2, <1>4, <2>2, <2>3 DEF Has, Kinds
<1>7. Met => HasDir("src", t, f) /\ ~Exists("src", t, f)
  <2>1. "src" \in DOMAIN Needs(opname) /\ Needs(opname)["src"] = "none"
    BY <1>2 DEF Needs, Abstract!Needs
  <2>2. HasDir("src", t, f)
    BY <1>2, CompleteHas DEF DirsThere, MakesSubdirs, Kinds
  <2> QED
    BY <1>2, <2>1, <2>2, MetGives DEF Has, Kinds
<1>8. Hopeless => Exists("src", t, f)
  <2>1. DOMAIN Needs(opname) = {"src"} /\ Needs(opname)["src"] = "none"
    BY <1>2 DEF Needs, Abstract!Needs
  <2> QED
    BY <1>2, <2>1, HopelessGives DEF Has, Kinds
<1>9. Marks(t, f)
  <2>1. xattr'[<<t, f>>] # 0 => Exists("src", t, f)'
    BY <1>1, <1>2, ContentIs DEF Marked, Exists
  <2> QED
    BY <1>2, <2>1 DEF Marks, NewSeed
<1> QED
  <2>1. status'[t] = "OK" \/ fault' = TRUE \/ ~(HasDir("src", t, f) /\ ~Exists("src", t, f))
    BY <1>1, FailsStatus DEF Completes
  <2>2. Exists("src", t, f) => status'[t] # "OK"
    BY <1>1, FailsStatus
  <2> QED
    BY <1>1, <1>3, <1>5, <1>6, <1>7, <1>8, <1>9, <2>1, <2>2 DEF Effect

\* An append or overwrite.
LEMMA WriteEffect ==
  ASSUME NEW t, Ready(t), NEW f, f = AtFile(t), Write(t)
  PROVE  OnlyFile(t, f) /\ Effect(t, f) /\ UNCHANGED dirs
<1> USE DEF Ready
<1>1. Takes(t, {"append", "overwrite", "truncate-overwrite"})
  BY DEF Write, File
<1>2. /\ f \in Files /\ f > filenum[t] /\ UNCHANGED seed
      /\ opname \in {"append", "overwrite", "truncate-overwrite"}
  BY <1>1, AtNext
<1>3. /\ UNCHANGED <<files, xattr, dirs>>
      /\ \/ UNCHANGED data
         \/ opname # "append" /\ data' = [data EXCEPT ![<<t, f>>] = 0] /\ status'[t] # "OK"
         \/ opname # "append" /\ data' = [data EXCEPT ![<<t, f>>] = seed[t]]
         \/ opname = "append" /\ data' = [data EXCEPT ![<<t, f>>] = data[<<t, f>>]]
  BY FailsStatus DEF Write, File, fs
<1>4. status'[t] = "OK" =>
        /\ Exists("src", t, f)
        /\ opname # "append" => data' = [data EXCEPT ![<<t, f>>] = seed[t]]
  BY <1>2, FailsStatus DEF Write, File
<1>5. /\ opname = "append" => DOMAIN Leaves(opname) = {}
      /\ opname # "append" =>
           DOMAIN Leaves(opname) = {"sized"} /\ Leaves(opname)["sized"] = "all"
      /\ opname \in OpNames
  BY <1>2 DEF Leaves, Abstract!Leaves, OpNames
<1>6. <<t, f>> \in ThreadFiles
  BY <1>2 DEF ThreadFiles
<1>7. opname = "append" => UNCHANGED data
  BY <1>3, <1>6 DEF FTypeInv, FTypeOK
<1>8. OnlyFile(t, f)
  BY <1>3 DEF OnlyFile, Exists, FTypeInv, FTypeOK, ThreadFiles
<1>9. ASSUME NEW x \in Things \ DOMAIN Leaves(opname) PROVE Has(x, t, f)' <=> Has(x, t, f)
  <2>1. CASE opname = "append"
    BY <1>2, <1>3, <1>7, <2>1 DEF Has, Exists
  <2>2. CASE opname # "append"
    BY <1>2, <1>3, <1>5, <1>9, <2>2 DEF Has, Exists
  <2> QED
    BY <2>1, <2>2
<1>10. ASSUME status'[t] = "OK", NEW x \in DOMAIN Leaves(opname)
       PROVE  Has(x, t, f)' <=> Leaves(opname)[x] = "all"
  <2>1. x = "sized" /\ opname # "append" /\ Exists("src", t, f)
    BY <1>4, <1>5, <1>10
  <2>2. data'[<<t, f>>] = seed[t]
    BY <1>4, <1>6, <1>10, <2>1 DEF FTypeInv, FTypeOK
  <2> QED
    BY <1>2, <1>3, <1>5, <2>1, <2>2 DEF Has, Exists
<1>11. (Met => Exists("src", t, f)) /\ (Hopeless => ~Exists("src", t, f))
  BY <1>2, <1>5, SourceNeeded
<1>12. status'[t] # "OK" => fault' = TRUE \/ ~Exists("src", t, f)
  BY FailsStatus DEF Write, File, Completes
<1>13. Marks(t, f)
  BY <1>2, <1>3 DEF Marks, Marked, Exists
<1> QED
  BY <1>3, <1>4, <1>8, <1>9, <1>10, <1>11, <1>12, <1>13 DEF Effect

\* A setxattr.
LEMMA SetXattrEffect ==
  ASSUME NEW t, Ready(t), NEW f, f = AtFile(t), SetXattr(t)
  PROVE  OnlyFile(t, f) /\ Effect(t, f) /\ UNCHANGED dirs
<1> USE DEF Ready
<1>1. Takes(t, {"setxattr"})
  BY DEF SetXattr, File
<1>2. f \in Files /\ f > filenum[t] /\ UNCHANGED seed /\ opname = "setxattr"
  BY <1>1, AtNext
<1>3. /\ UNCHANGED <<files, data, dirs>>
      /\ UNCHANGED xattr \/ xattr' = [xattr EXCEPT ![<<t, f>>] = seed[t]]
  BY DEF SetXattr, File, fs
<1>4. status'[t] = "OK" =>
        Exists("src", t, f) /\ xattr' = [xattr EXCEPT ![<<t, f>>] = seed[t]]
  BY FailsStatus DEF SetXattr, File
<1>5. /\ DOMAIN Leaves(opname) = {"xattr"} /\ Leaves(opname)["xattr"] = "all"
      /\ opname \in OpNames
  BY <1>2 DEF Leaves, Abstract!Leaves, OpNames
<1>6. <<t, f>> \in ThreadFiles
  BY <1>2 DEF ThreadFiles
<1>7. OnlyFile(t, f)
  BY <1>3 DEF OnlyFile, Exists, FTypeInv, FTypeOK, ThreadFiles
<1>8. ASSUME NEW x \in Things \ DOMAIN Leaves(opname) PROVE Has(x, t, f)' <=> Has(x, t, f)
  BY <1>2, <1>3, <1>5, <1>8 DEF Has, Exists
<1>9. ASSUME status'[t] = "OK", NEW x \in DOMAIN Leaves(opname)
       PROVE  Has(x, t, f)' <=> Leaves(opname)[x] = "all"
  <2>1. x = "xattr" /\ Exists("src", t, f)
    BY <1>4, <1>5, <1>9
  <2>2. xattr'[<<t, f>>] = seed[t]
    BY <1>4, <1>6, <1>9 DEF FTypeInv, FTypeOK
  <2> QED
    BY <1>2, <1>3, <1>5, <2>1, <2>2 DEF Has, Exists
<1>10. (Met => Exists("src", t, f)) /\ (Hopeless => ~Exists("src", t, f))
  BY <1>2, <1>5, SourceNeeded
<1>11. status'[t] # "OK" => fault' = TRUE \/ ~Exists("src", t, f)
  BY FailsStatus DEF SetXattr, File, Completes
<1>12. Marks(t, f)
  BY <1>2, <1>3, <1>4 DEF Marks, Marked, Exists, SetXattr, File, fs
<1> QED
  BY <1>3, <1>4, <1>7, <1>8, <1>9, <1>10, <1>11, <1>12 DEF Effect

\* Operations that add or remove one name that is not of a source file.
NameOf(op) ==
  CASE op = "symlink" -> "s" [] op \in {"mkdir", "rmdir"} -> "d" [] OTHER -> "dst"

LEMMA NamesEffect ==
  ASSUME NEW t, Ready(t), NEW f, f = AtFile(t),
         Symlink(t) \/ Mkdir(t) \/ Rmdir(t) \/ DeleteRenamed(t)
  PROVE  OnlyFile(t, f) /\ Effect(t, f) /\ UNCHANGED dirs
<1> USE DEF Ready
<1> DEFINE adds == opname \in {"symlink", "mkdir"}
           kind == NameOf(opname)
           there == /\ adds => HasDir(kind, t, f) /\ ~Exists(kind, t, f)
                    /\ ~adds => Exists(kind, t, f)
           done == files' = IF adds THEN files \cup {<<kind, t, f>>}
                            ELSE files \ {<<kind, t, f>>}
<1>1. \E ops \in SUBSET {"symlink", "mkdir", "rmdir", "delete-renamed"} : Takes(t, ops)
  BY DEF Symlink, Mkdir, Rmdir, DeleteRenamed, File
<1>2. /\ f \in Files /\ f > filenum[t] /\ UNCHANGED seed /\ UNCHANGED opname
      /\ opname \in {"symlink", "mkdir", "rmdir", "delete-renamed"}
  BY <1>1, AtNext
<1>3. UNCHANGED <<data, xattr, dirs>> /\ (UNCHANGED files \/ done)
  BY DEF Symlink, Mkdir, Rmdir, DeleteRenamed, File, Takes, fs, Add, Remove, NameOf
<1>4. /\ status'[t] = "OK" => there /\ done
      /\ status'[t] # "OK" => fault' = TRUE \/ ~there
  BY FailsStatus
  DEF Symlink, Mkdir, Rmdir, DeleteRenamed, File, Takes, Add, Remove, NameOf, Completes
<1>5. /\ DOMAIN Leaves(opname) = {kind} /\ kind \in {"s", "d", "dst"}
      /\ Leaves(opname)[kind] = IF adds THEN "all" ELSE "none"
      /\ kind \in DOMAIN Needs(opname)
      /\ Needs(opname)[kind] = IF adds THEN "none" ELSE "all"
      /\ opname # "symlink" => DOMAIN Needs(opname) = {kind}
      /\ opname \in OpNames
  BY <1>2 DEF Leaves, Abstract!Leaves, Needs, Abstract!Needs, OpNames, NameOf
<1>6. kind \in Kinds
  BY <1>5 DEF Kinds
<1>7. ASSUME NEW k \in Kinds, NEW u \in Tids, NEW g \in Files,
             <<k, u, g>> # <<kind, t, f>>
      PROVE  Exists(k, u, g)' <=> Exists(k, u, g)
  <2>1. <<k, u, g>> \in files' <=> <<k, u, g>> \in files
    BY <1>3, <1>7
  <2> QED
    BY <2>1 DEF Exists
<1>8. OnlyFile(t, f)
  BY <1>3, <1>7 DEF OnlyFile
<1>9. ASSUME NEW x \in Things \ DOMAIN Leaves(opname) PROVE Has(x, t, f)' <=> Has(x, t, f)
  <2>1. \A k \in Kinds : k # kind => (Exists(k, t, f)' <=> Exists(k, t, f))
    BY <1>2, <1>7
  <2>2. x # kind /\ "src" \in Kinds /\ kind # "src"
    BY <1>5, <1>9 DEF Kinds
  <2> QED
    BY <1>2, <1>3, <2>1, <2>2 DEF Has
<1>10. ASSUME status'[t] = "OK", NEW x \in DOMAIN Leaves(opname)
       PROVE  Has(x, t, f)' <=> Leaves(opname)[x] = "all"
  <2>1. <<kind, t, f>> \in files' <=> adds
    BY <1>4, <1>10
  <2> QED
    BY <1>2, <1>5, <1>6, <2>1 DEF Has, Exists
<1>11. Met => there
  <2>1. Met => (Exists(kind, t, f) <=> ~adds)
    BY <1>2, <1>5, <1>6, MetGives DEF Has
  <2>2. ASSUME Met, adds PROVE HasDir(kind, t, f)
    <3>1. opname = "symlink" => before["src"] = "all"
      BY <2>2 DEF Met, Abstract!Met, Abstract!Needs
    <3> QED
      BY <1>2, <1>6, <2>2, <3>1, CompleteHas DEF DirsThere, MakesSubdirs
  <2> QED
    BY <2>1, <2>2
<1>12. Hopeless => (Exists(kind, t, f) <=> adds)
  BY <1>2, <1>5, <1>6, HopelessGives DEF Has
<1>13. Marks(t, f)
  <2>1. Exists("src", t, f)' <=> Exists("src", t, f)
    BY <1>2, <1>5, <1>7 DEF Kinds
  <2> QED
    BY <1>2, <1>3, <2>1 DEF Marks, Marked
<1> QED
  BY <1>3, <1>4, <1>8, <1>9, <1>10, <1>11, <1>12, <1>13 DEF Effect

\* A rename or delete, which take the source file away.
LEMMA RenameEffect ==
  ASSUME NEW t, Ready(t), NEW f, f = AtFile(t), Rename(t) \/ Delete(t)
  PROVE  OnlyFile(t, f) /\ Effect(t, f) /\ UNCHANGED dirs
<1> USE DEF Ready
<1> DEFINE there == /\ Exists("src", t, f)
                    /\ opname = "rename" => HasDir("dst", t, f)
           left == IF opname = "rename" THEN {<<"dst", t, f>>} ELSE {}
           done == files' = (files \ {<<"src", t, f>>}) \cup left /\ Content(t, f, 0, 0)
<1>1. \E ops \in SUBSET {"rename", "delete"} : Takes(t, ops)
  BY DEF Rename, Delete, File
<1>2. /\ f \in Files /\ f > filenum[t] /\ UNCHANGED seed /\ UNCHANGED opname
      /\ opname \in {"rename", "delete"}
  BY <1>1, AtNext
<1>3. UNCHANGED dirs /\ (UNCHANGED <<files, data, xattr>> \/ done)
  BY DEF Rename, Delete, File, Takes, fs, Remove
<1>4. /\ status'[t] = "OK" => there /\ done
      /\ status'[t] # "OK" => fault' = TRUE \/ ~there
  BY FailsStatus DEF Rename, Delete, File, Takes, Remove, Completes
<1>5. /\ opname = "rename" =>
           /\ DOMAIN Leaves(opname) = {"src", "sized", "xattr", "dst"}
           /\ Leaves(opname)["dst"] = "all"
      /\ opname = "delete" => DOMAIN Leaves(opname) = {"src", "sized", "xattr"}
      /\ \A x \in DOMAIN Leaves(opname) \ {"dst"} : Leaves(opname)[x] = "none"
      /\ opname \in OpNames
  BY <1>2 DEF Leaves, Abstract!Leaves, OpNames
<1>6. ASSUME NEW k \in Kinds, NEW u \in Tids, NEW g \in Files,
             <<u, g>> # <<t, f>> \/ (k # "src" /\ (k = "dst" => opname # "rename"))
      PROVE  Exists(k, u, g)' <=> Exists(k, u, g)
  <2>1. <<k, u, g>> \in files' <=> <<k, u, g>> \in files
    BY <1>3, <1>6
  <2> QED
    BY <2>1 DEF Exists
<1>7. OnlyFile(t, f)
  BY <1>3, <1>6 DEF OnlyFile, Content, FTypeInv, FTypeOK, ThreadFiles
<1>8. ASSUME NEW x \in Things \ DOMAIN Leaves(opname) PROVE Has(x, t, f)' <=> Has(x, t, f)
  <2>1. /\ x \in Kinds \ {"src"} /\ (x = "dst" => opname # "rename")
        /\ x \notin {"sized", "xattr"}
    BY <1>2, <1>5, <1>8 DEF Things, Abstract!Things, Kinds
  <2>2. Exists(x, t, f)' <=> Exists(x, t, f)
    BY <1>2, <1>6, <2>1
  <2> QED
    BY <2>1, <2>2 DEF Has
<1>9. ASSUME status'[t] = "OK", NEW x \in DOMAIN Leaves(opname)
       PROVE  Has(x, t, f)' <=> Leaves(opname)[x] = "all"
  <2>1. ~Exists("src", t, f)' /\ (opname = "rename" => Exists("dst", t, f)')
    BY <1>4, <1>9 DEF Exists
  <2> QED
    BY <1>2, <1>5, <2>1 DEF Has, Kinds
<1>10. Met => there
  <2>1. ASSUME Met PROVE before["src"] = "all"
    BY <1>2, <2>1 DEF Met, Abstract!Met, Abstract!Needs
  <2> QED
    BY <1>2, <1>5, <2>1, SourceNeeded, CompleteHas DEF DirsThere, Kinds
<1>11. Hopeless => ~Exists("src", t, f)
  BY <1>2, <1>5, SourceNeeded
<1>12. Marks(t, f)
  <2>1. Exists("src", t, f)' => Exists("src", t, f)
    BY <1>3 DEF Exists
  <2>2. xattr'[<<t, f>>] # 0 => UNCHANGED files /\ UNCHANGED xattr
    BY <1>2, <1>3, ContentIs
  <2> QED
    BY <1>2, <2>1, <2>2 DEF Marks, Marked, Exists
<1> QED
  BY <1>3, <1>4, <1>7, <1>8, <1>9, <1>10, <1>11, <1>12 DEF Effect

\* A cleanup, which has nothing to fail for but a fault.
LEMMA CleanupEffect ==
  ASSUME NEW t, Ready(t), NEW f, f = AtFile(t), Cleanup(t)
  PROVE  OnlyFile(t, f) /\ Effect(t, f) /\ UNCHANGED dirs
<1> USE DEF Ready
<1> DEFINE deleted(kinds) == /\ files' = files \ (kinds \X {t} \X {f})
                             /\ IF "src" \in kinds THEN Content(t, f, 0, 0)
                                ELSE UNCHANGED <<data, xattr>>
           all == {"s", "src", "dst", "d"}
<1>1. Takes(t, {"cleanup"})
  BY DEF Cleanup, File
<1>2. f \in Files /\ UNCHANGED seed /\ opname = "cleanup"
  BY <1>1, AtNext
<1>3. /\ UNCHANGED dirs
      /\ \E kinds \in SUBSET all : deleted(kinds)
  <2>1. UNCHANGED fs => deleted({})
    BY DEF fs
  <2> QED
    BY <2>1 DEF Cleanup, File, Remove, fs
<1>4. (status'[t] = "OK" => deleted(all)) /\ (status'[t] # "OK" => fault' = TRUE)
  BY FailsStatus DEF Cleanup, File, Remove, Completes
<1>5. /\ DOMAIN Leaves(opname) = {"src", "sized", "xattr", "dst", "d", "s"}
      /\ \A x \in DOMAIN Leaves(opname) : Leaves(opname)[x] = "none"
  BY <1>2 DEF Leaves, Abstract!Leaves
<1>6. PICK kinds \in SUBSET all : deleted(kinds)
  BY <1>3
<1>7. ASSUME NEW k \in Kinds, NEW u \in Tids, NEW g \in Files,
             <<u, g>> # <<t, f>> \/ k = "tmp"
      PROVE  Exists(k, u, g)' <=> Exists(k, u, g)
  <2>1. <<k, u, g>> \in files' <=> <<k, u, g>> \in files
    BY <1>6, <1>7
  <2> QED
    BY <2>1 DEF Exists
<1>8. OnlyFile(t, f)
  BY <1>6, <1>7 DEF OnlyFile, Content, FTypeInv, FTypeOK, ThreadFiles
<1>9. ASSUME NEW x \in Things \ DOMAIN Leaves(opname) PROVE Has(x, t, f)' <=> Has(x, t, f)
  <2>1. x = "tmp" /\ "tmp" \in Kinds
    BY <1>5, <1>9 DEF Things, Abstract!Things, Kinds
  <2>2. Exists(x, t, f)' <=> Exists(x, t, f)
    BY <1>2, <1>7, <2>1
  <2> QED
    BY <2>1, <2>2 DEF Has
<1>10. ASSUME status'[t] = "OK", NEW x \in DOMAIN Leaves(opname) PROVE ~Has(x, t, f)'
  <2>1. \A k \in all : ~Exists(k, t, f)'
    BY <1>4, <1>10 DEF Exists
  <2> QED
    BY <1>5, <2>1 DEF Has, Kinds
<1>11. ~Hopeless
  BY <1>2 DEF Hopeless, Abstract!Hopeless, Abstract!Needs
<1>12. Marks(t, f)
  <2>1. Exists("src", t, f)' => Exists("src", t, f)
    BY <1>6 DEF Exists
  <2>2. CASE "src" \in kinds
    BY <1>2, <1>6, <2>1, <2>2, ContentIs DEF Marks
  <2>3. CASE "src" \notin kinds
    <3>1. Exists("src", t, f)' <=> Exists("src", t, f)
      BY <1>6, <2>3 DEF Exists
    <3> QED
      BY <1>2, <1>6, <2>3, <3>1 DEF Marks, Marked
  <2> QED
    BY <2>2, <2>3
<1> QED
  BY <1>3, <1>4, <1>5, <1>8, <1>9, <1>10, <1>11, <1>12 DEF Effect

\* A swift-put up to the rename, which is not yet done with the file.
LEMMA PutTempEffect ==
  ASSUME NEW t, Ready(t), NEW f, f = AtFile(t), PutTemp(t)
  PROVE  /\ OnlyFile(t, f) /\ Effect(t, f) /\ UNCHANGED dirs
         /\ pc'[t] \in {"rename", "idle"}
<1> USE DEF Ready
<1>1. Takes(t, {"swift-put"})
  BY DEF PutTemp
<1>2. f \in Files /\ UNCHANGED seed /\ opname = "swift-put"
  BY <1>1, AtNext
<1>3. /\ UNCHANGED <<data, xattr, dirs>>
      /\ files' \in {files, files \cup {<<"tmp", t, f>>}, files \ {<<"tmp", t, f>>}}
      /\ \/ status'[t] = "OK" /\ pc'[t] = "rename"
         \/ status'[t] # "OK" /\ pc'[t] = "idle" /\ (fault' = TRUE \/ ~HasDir("src", t, f))
  BY FailsStatus
  DEF PutTemp, PutFails, Add, DropTemp, Remove, TempName, FTypeInv, FTypeOK
<1>4. DOMAIN Leaves(opname) = {"src", "sized", "xattr", "tmp"}
  BY <1>2 DEF Leaves, Abstract!Leaves
<1>5. ASSUME NEW k \in Kinds, NEW u \in Tids, NEW g \in Files,
             <<u, g>> # <<t, f>> \/ k # "tmp"
      PROVE  Exists(k, u, g)' <=> Exists(k, u, g)
  <2>1. <<k, u, g>> \in files' <=> <<k, u, g>> \in files
    BY <1>3, <1>5
  <2> QED
    BY <2>1 DEF Exists
<1>6. OnlyFile(t, f)
  BY <1>3, <1>5 DEF OnlyFile
<1>7. ASSUME NEW x \in Things \ DOMAIN Leaves(opname) PROVE Has(x, t, f)' <=> Has(x, t, f)
  <2>1. x \in Kinds \ {"tmp"} /\ x \notin {"sized", "xattr"}
    BY <1>4, <1>7 DEF Things, Abstract!Things, Kinds
  <2>2. Exists(x, t, f)' <=> Exists(x, t, f)
    BY <1>2, <1>5, <2>1
  <2> QED
    BY <2>1, <2>2 DEF Has
<1>8. HasDir("src", t, f)
  BY <1>2, CompleteHas DEF DirsThere, MakesSubdirs, Kinds
<1>9. ~Hopeless
  BY <1>2 DEF Hopeless, Abstract!Hopeless, Abstract!Needs
<1>10. Marks(t, f)
  <2>1. Exists("src", t, f)' <=> Exists("src", t, f)
    BY <1>2, <1>5 DEF Kinds
  <2> QED
    BY <1>2, <1>3, <2>1 DEF Marks, Marked
<1> QED
  BY <1>3, <1>6, <1>7, <1>8, <1>9, <1>10 DEF Effect

\* The rename of a swift-put.
LEMMA PutRenameEffect ==
  ASSUME NEW t, Ready(t), NEW f, f = filenum[t], f \in Files, opname = "swift-put",
         PutRename(t)
  PROVE  OnlyFile(t, f) /\ Effect(t, f) /\ UNCHANGED dirs
<1> USE DEF Ready
<1> DEFINE done == /\ files' = (files \ {<<"tmp", t, f>>}) \cup {<<"src", t, f>>}
                   /\ Content(t, f, seed[t], 0)
             undone == {files, files \cup {<<"tmp", t, f>>}, files \ {<<"tmp", t, f>>}}
<1>1. UNCHANGED seed /\ UNCHANGED dirs
  BY DEF PutRename, test
<1>2. done \/ (files' \in undone /\ UNCHANGED <<data, xattr>>)
  BY DEF PutRename, PutFails, DropTemp, Remove, TempName
<1>3. (status'[t] = "OK" => done) /\ (status'[t] # "OK" => fault' = TRUE)
  BY FailsStatus DEF PutRename, PutFails, TempName
<1>4. /\ DOMAIN Leaves(opname) = {"src", "sized", "xattr", "tmp"}
      /\ Leaves(opname)["src"] = "all" /\ Leaves(opname)["sized"] = "all"
      /\ Leaves(opname)["xattr"] = "none" /\ Leaves(opname)["tmp"] = "none"
  BY DEF Leaves, Abstract!Leaves
<1>5. ASSUME NEW k \in Kinds, NEW u \in Tids, NEW g \in Files,
             <<u, g>> # <<t, f>> \/ k \notin {"tmp", "src"}
      PROVE  Exists(k, u, g)' <=> Exists(k, u, g)
  <2>1. <<k, u, g>> \in files' <=> <<k, u, g>> \in files
    BY <1>2, <1>5
  <2> QED
    BY <2>1 DEF Exists
<1>6. OnlyFile(t, f)
  BY <1>2, <1>5 DEF OnlyFile, Content, FTypeInv, FTypeOK, ThreadFiles
<1>7. ASSUME NEW x \in Things \ DOMAIN Leaves(opname) PROVE Has(x, t, f)' <=> Has(x, t, f)
  <2>1. x \in Kinds \ {"tmp", "src"} /\ x \notin {"sized", "xattr"}
    BY <1>4, <1>7 DEF Things, Abstract!Things, Kinds
  <2>2. Exists(x, t, f)' <=> Exists(x, t, f)
    BY <1>5, <2>1
  <2> QED
    BY <2>1, <2>2 DEF Has
<1>8. ASSUME done
      PROVE  /\ Exists("src", t, f)' /\ ~Exists("tmp", t, f)'
             /\ data'[<<t, f>>] = seed[t] /\ xattr'[<<t, f>>] = 0
  BY <1>8, ContentIs DEF Exists
<1>9. ASSUME status'[t] = "OK", NEW x \in DOMAIN Leaves(opname)
      PROVE  Has(x, t, f)' <=> Leaves(opname)[x] = "all"
  <2>1. seed[t] # 0
    BY DEF Marked, NewSeed
  <2> QED
    BY <1>1, <1>3, <1>4, <1>8, <1>9, <2>1 DEF Has, Kinds
<1>10. ~Hopeless
  BY DEF Hopeless, Abstract!Hopeless, Abstract!Needs
<1>11. Marks(t, f)
  <2>1. xattr'[<<t, f>>] # 0 => Exists("src", t, f)'
    <3>1. CASE done
      BY <1>8, <3>1
    <3>2. CASE files' \in undone /\ UNCHANGED <<data, xattr>>
      BY <3>2 DEF Marked, Exists
    <3> QED
      BY <1>2, <3>1, <3>2
  <2> QED
    BY <2>1 DEF Marks, NewSeed
<1> QED
  BY <1>1, <1>3, <1>6, <1>7, <1>9, <1>10, <1>11 DEF Effect

-----------------------------------------------------------------------------
\* The invariant.

\* The thread is done with file f.
Past(t, f) == f < filenum[t] \/ (f = filenum[t] /\ pc[t] # "rename")

\* The files a thread that goes well has done are as the test leaves them.
Done ==
  \A t \in Tids, f \in Files, x \in DOMAIN Leaves(opname) :
    status[t] = "OK" /\ Past(t, f) => (Has(x, t, f) <=> Leaves(opname)[x] = "all")

\* Where a thread can be, and with what status; a thread that has ended well was
\* not stopped early unless it may be.
Control ==
  /\ opname # "none" => opname \in OpNames
  /\ MustFinish(opname) => finish_all_rq = TRUE
  /\ \A t \in Tids :
       /\ status[t] # "raised"
       /\ pc[t] # "idle" => status[t] = "OK" /\ opname # "none"
       /\ pc[t] \in {"src", "dst"} => opname = "cleanup"
       /\ pc[t] = "rename" => opname = "swift-put"
       /\ pc[t] \notin {"loop", "rename"} /\ status[t] = "OK" /\ opname # "none" =>
            filenum[t] = Iterations \/ finish_all_rq = FALSE

\* No thread fails without a cause.
Cause == (\E t \in Tids : status[t] # "OK") => fault = TRUE \/ ~Met

\* No thread gets past its first file where there is no hope.
NoHope ==
  opname # "none" /\ Hopeless =>
    \A t \in Tids : status[t] = "OK" => pc[t] = "loop" /\ filenum[t] = 0

\* TestSequence speaks of tests that are over, SeqInv of those that are running.
SeqInv ==
  Frame /\ Done /\ Rest /\ Control /\ Cause /\ NoHope /\ DirsThere /\ Marked

\* What a step about file f of thread t does to the threads.
FileStep(t, f) ==
  /\ f \in Files /\ status[t] = "OK"
  /\ filenum' = [filenum EXCEPT ![t] = f]
  /\ (f = filenum[t] + 1 /\ pc[t] = "loop") \/ (f = filenum[t] /\ pc[t] = "rename")
  /\ \A u \in Tids \ {t} : pc'[u] = pc[u] /\ status'[u] = status[u]
  /\ \/ status'[t] = "OK" /\ pc'[t] = "loop"
     \/ status'[t] = "OK" /\ pc'[t] = "rename" /\ opname = "swift-put"
     \/ status'[t] = "errno" /\ pc'[t] = "idle"
  /\ fault = TRUE => fault' = TRUE
  /\ UNCHANGED opname /\ UNCHANGED before /\ UNCHANGED seed /\ UNCHANGED dirs
  /\ UNCHANGED is_shared_dir /\ UNCHANGED finish_all_rq
  /\ OnlyFile(t, f) /\ Effect(t, f)

\* Every operation on a file is such a step.
LEMMA FileSteps ==
  ASSUME FTypeInv, SeqInv, NamesInRange(P), NEW t \in Tids, DoFile(t),
         NEW f, f = filenum'[t]
  PROVE  FileStep(t, f)
<1>1. CASE ~PutRename(t)
  <2>1. PICK ops : Takes(t, ops)
    <3>1. CASE PutTemp(t)
      BY <3>1 DEF PutTemp
    <3>2. CASE ~PutTemp(t)
      BY <1>1, <3>2, FilesTypeStep DEF FTypeInv
    <3> QED
      BY <3>1, <3>2
  <2>2. /\ f \in Files /\ f = AtFile(t) /\ pc[t] = "loop" /\ opname \in ops
        /\ UNCHANGED test /\ filenum' = [filenum EXCEPT ![t] = f]
    BY <2>1, AtNext DEF Takes
  <2>3. Ready(t)
    BY <2>2 DEF Ready, SeqInv, Control
  <2>4. OnlyFile(t, f) /\ Effect(t, f) /\ UNCHANGED dirs
    BY <1>1, <2>2, <2>3, CreateEffect, WriteEffect, ReadEffect, LookupEffect,
       ReaddirEffect, SetXattrEffect, GetXattrEffect, NamesEffect, RenameEffect,
       CleanupEffect, PutTempEffect DEF DoFile
  <2>5. /\ \A u \in Tids \ {t} : pc'[u] = pc[u] /\ status'[u] = status[u]
        /\ \/ status'[t] = "OK" /\ pc'[t] = "loop"
           \/ status'[t] = "OK" /\ pc'[t] = "rename" /\ opname = "swift-put"
           \/ status'[t] = "errno" /\ pc'[t] = "idle"
        /\ fault = TRUE => fault' = TRUE
    <3>1. status[t] = "OK"
      BY <2>3 DEF Ready
    <3>2. CASE PutTemp(t)
      BY <2>2, <3>1, <3>2 DEF PutTemp, PutFails, Takes, Fails, Faulty, FTypeInv, FTypeOK
    <3>3. CASE ~PutTemp(t)
      <4>1. Ended(t)
        BY <1>1, <3>3, FilesTypeStep DEF FTypeInv
      <4> QED
        BY <2>2, <3>1, <4>1 DEF Ended, Completes, Fails, Faulty, FTypeInv, FTypeOK
    <3> QED
      BY <3>2, <3>3
  <2> QED
    BY <2>2, <2>3, <2>4, <2>5 DEF FileStep, Ready, test, AtFile
<1>2. CASE PutRename(t)
  <2>1. pc[t] = "rename" /\ UNCHANGED test /\ UNCHANGED filenum
    BY <1>2 DEF PutRename
  <2>2. status[t] = "OK" /\ opname = "swift-put" /\ f = filenum[t] /\ f \in Files
    BY <2>1 DEF SeqInv, Control, FTypeInv, AtRename
  <2>3. Ready(t)
    BY <2>2 DEF Ready, SeqInv
  <2>4. OnlyFile(t, f) /\ Effect(t, f) /\ UNCHANGED dirs
    BY <1>2, <2>2, <2>3, PutRenameEffect
  <2>5. /\ \A u \in Tids \ {t} : pc'[u] = pc[u] /\ status'[u] = status[u]
        /\ \/ status'[t] = "OK" /\ pc'[t] = "loop"
           \/ status'[t] = "errno" /\ pc'[t] = "idle"
        /\ fault = TRUE => fault' = TRUE
    BY <1>2, <2>2 DEF PutRename, PutFails, Fails, Faulty, FTypeInv, FTypeOK
  <2>6. filenum' = [filenum EXCEPT ![t] = f]
    BY <2>1, <2>2 DEF FTypeInv, FTypeOK
  <2> QED
    BY <2>1, <2>2, <2>4, <2>5, <2>6 DEF FileStep, test
<1> QED
  BY <1>1, <1>2

\* A thing that is there for the same files is there to the same extent.
LEMMA SameExtent ==
  ASSUME NEW x \in Things,
         \A u \in Tids, g \in Files : Has(x, u, g)' <=> Has(x, u, g)
  PROVE  Extent'[x] = Extent[x]
<1>1. Where(x)' = Where(x)
  BY DEF Where, ThreadFiles
<1>2. Extent'[x] = How(Where(x))' /\ Extent[x] = How(Where(x))
  BY ExtentIs, ExtentIsNext
<1>3. How(Where(x))' = How(Where(x))
  BY <1>1 DEF How
<1> QED
  BY <1>2, <1>3

\* Nothing that a test may not change is changed.
LEMMA FrameStep ==
  ASSUME Frame, UNCHANGED opname, UNCHANGED before,
         \A x \in Things \ DOMAIN Leaves(opname), u \in Tids, g \in Files :
           Has(x, u, g)' <=> Has(x, u, g)
  PROVE  Frame'
<1> SUFFICES ASSUME NEW x \in Things \ DOMAIN Leaves(opname)
             PROVE  Extent'[x] = before[x]
  BY DEF Frame, Things, Abstract!Things, Leaves, Abstract!Leaves
<1> QED
  BY SameExtent DEF Frame

\* So the invariant is kept by all of them.
LEMMA FileInv ==
  ASSUME FTypeInv, SeqInv, NEW t \in Tids, NEW f, FileStep(t, f)
  PROVE  SeqInv'
<1> USE DEF SeqInv
<1>1. /\ f \in Files /\ OnlyFile(t, f) /\ Effect(t, f)
      /\ UNCHANGED opname /\ UNCHANGED before /\ UNCHANGED seed /\ UNCHANGED dirs
      /\ UNCHANGED is_shared_dir /\ UNCHANGED finish_all_rq
  BY DEF FileStep
<1>2. ASSUME NEW x \in Things, NEW u \in Tids, NEW g \in Files, <<u, g>> # <<t, f>>
      PROVE  Has(x, u, g)' <=> Has(x, u, g)
  BY <1>1, <1>2, OthersStay
<1>3. Leaves(opname)' = Leaves(opname) /\ Needs(opname)' = Needs(opname) /\ Things' = Things
      /\ (Met' <=> Met) /\ (Hopeless' <=> Hopeless)
  BY <1>1 DEF Leaves, Abstract!Leaves, Needs, Abstract!Needs, Things, Abstract!Things,
     Met, Abstract!Met, Hopeless, Abstract!Hopeless
<1>4. \A u \in Tids : filenum[u] \in Nat /\ filenum'[u] = IF u = t THEN f ELSE filenum[u]
  BY FileOpsAssumption DEF FileStep, FTypeInv, FTypeOK
<1>5. f \in Nat /\ f >= filenum[t]
  BY <1>4 DEF FileStep, Files
<1>6. Frame'
  <2>1. ASSUME NEW x \in Things \ DOMAIN Leaves(opname), NEW u \in Tids, NEW g \in Files
        PROVE  Has(x, u, g)' <=> Has(x, u, g)
    BY <1>1, <1>2 DEF Effect
  <2> QED
    BY <1>1, <2>1, FrameStep
<1>7. Done'
  <2> SUFFICES ASSUME NEW u \in Tids, NEW g \in Files, NEW x \in DOMAIN Leaves(opname),
                      status'[u] = "OK", Past(u, g)'
               PROVE  Has(x, u, g)' <=> Leaves(opname)[x] = "all"
    BY <1>3 DEF Done
  <2>1. x \in Things
    BY LeavesType
  <2>2. CASE <<u, g>> = <<t, f>>
    <3>1. pc'[t] # "rename"
      BY <1>4, <1>5, <2>2 DEF Past
    <3> QED
      BY <1>1, <2>2, <3>1 DEF Effect
  <2>3. CASE <<u, g>> # <<t, f>>
    <3>1. status[u] = "OK" /\ Past(u, g)
      <4>1. CASE u = t
        <5>1. g \in Nat /\ g < f
          BY <1>4, <1>5, <2>3, <4>1 DEF Past, Files
        <5> QED
          BY <1>4, <1>5, <4>1, <5>1 DEF Past, FileStep
      <4>2. CASE u # t
        BY <1>4, <4>2 DEF Past, FileStep
      <4> QED
        BY <4>1, <4>2
    <3> QED
      BY <1>2, <2>1, <2>3, <3>1 DEF Done
  <2> QED
    BY <2>2, <2>3
<1>8. Rest'
  <2> SUFFICES ASSUME NEW u \in Tids, NEW g \in Files, NEW x \in DOMAIN Needs(opname),
                      g > filenum'[u]
               PROVE  /\ before[x] = "none" => ~Has(x, u, g)'
                      /\ before[x] = "all" => Has(x, u, g)'
    BY <1>1, <1>3 DEF Rest
  <2>1. x \in Things /\ g \in Nat
    BY NeedsType DEF Files
  <2>2. <<u, g>> # <<t, f>> /\ g > filenum[u]
    BY <1>4, <1>5, <2>1
  <2> QED
    BY <1>2, <2>1, <2>2 DEF Rest
<1>9. Control'
  BY <1>1 DEF Control, FileStep, MustFinish
<1>10. Cause'
  <2>1. ASSUME NEW u \in Tids, status'[u] # "OK" PROVE fault' = TRUE \/ ~Met
    BY <1>1, <2>1 DEF Cause, FileStep, Effect
  <2> QED
    BY <1>3, <2>1 DEF Cause
<1>11. NoHope'
  <2>1. ASSUME opname # "none", Hopeless, NEW u \in Tids, status'[u] = "OK"
        PROVE  pc'[u] = "loop" /\ filenum'[u] = 0
    <3>1. CASE u # t
      BY <1>4, <2>1, <3>1 DEF NoHope, FileStep
    <3>2. CASE u = t
      <4>1. pc[t] = "loop" /\ filenum[t] = 0
        BY <2>1 DEF NoHope, FileStep
      <4>2. f = 1
        BY <4>1 DEF FileStep
      <4> QED
        BY <1>1, <2>1, <3>2, <4>2 DEF Effect
    <3> QED
      BY <3>1, <3>2
  <2> QED
    BY <1>1, <1>3, <2>1 DEF NoHope
<1>12. \A u \in Tids : (Complete(u)' <=> Complete(u)) /\ Owner(u)' = Owner(u)
  BY <1>1 DEF Complete, Owner
<1>13. ASSUME NEW u \in Tids, NEW g \in Files
       PROVE  /\ Exists("src", u, g)' => Exists("src", u, g) \/ NewSeed(opname)
              /\ xattr'[<<u, g>>] # 0 => Exists("src", u, g)'
  <2>1. CASE <<u, g>> = <<t, f>>
    BY <1>1, <2>1 DEF Effect, Marks
  <2>2. CASE <<u, g>> # <<t, f>>
    <3>1. "src" \in Kinds
      BY DEF Kinds
    <3> QED
      BY <1>1, <2>2, <3>1 DEF OnlyFile, Marked
  <2> QED
    BY <2>1, <2>2
<1>14. DirsThere'
  <2>1. \A u \in Tids : Complete(Owner(u))' <=> Complete(Owner(u))
    BY <1>1 DEF Complete, Owner
  <2>2. ASSUME NEW u \in Tids, Owner(u) = u, NEW g \in Files, Exists("src", u, g)'
        PROVE  Complete(u)
    BY <1>13, <2>2 DEF DirsThere, NewSeed, MakesSubdirs
  <2> QED
    BY <1>1, <1>12, <2>1, <2>2 DEF DirsThere, MakesSubdirs
<1>15. Marked'
  BY <1>1, <1>13 DEF Marked, NewSeed
<1> QED
  BY <1>6, <1>7, <1>8, <1>9, <1>10, <1>11, <1>14, <1>15

\* A test begins: what there is is what was before.
LEMMA StartInv ==
  ASSUME FTypeInv, SeqInv, NamesInRange(P), NEW op \in campaign, NEW finish \in FinishChoices,
         StartTest(op, finish)
  PROVE  SeqInv'
<1> USE DEF SeqInv
<1>1. /\ opname' = op /\ finish_all_rq' = (finish \/ MustFinish(op))
      /\ pc' = [t \in Tids |-> "loop"] /\ filenum' = [t \in Tids |-> 0]
      /\ status' = [t \in Tids |-> "OK"] /\ before' = Extent
      /\ dirs \subseteq dirs' /\ UNCHANGED <<files, data, xattr, is_shared_dir>>
      /\ MakesSubdirs(op) =>
           dirs' = dirs \cup ({"src", "dst"} \X {Owner(t) : t \in Tids} \X Subdirs)
      /\ seed' = IF NewSeed(op) THEN [t \in Tids |-> seed[t] + 1] ELSE seed
      /\ op \in OpNames
  <2>1. op \in OpNames
    BY FileOpsAssumption DEF FTypeInv, FTypeOK
  <2>2. NewSeed(op) => MakesSubdirs(op)
    BY DEF NewSeed, MakesSubdirs
  <2> QED
    BY <2>1, <2>2 DEF StartTest
<1>2. ASSUME NEW x \in Things, x \in {"sized", "xattr"} => ~NewSeed(op),
             NEW u \in Tids, NEW g \in Files
      PROVE  Has(x, u, g)' <=> Has(x, u, g)
  BY <1>1, <1>2 DEF Has, Exists
<1>3. Frame'
  <2> SUFFICES ASSUME NEW x \in Things \ DOMAIN Leaves(op) PROVE Extent'[x] = Extent[x]
    BY <1>1 DEF Frame, Things, Abstract!Things, Leaves, Abstract!Leaves
  <2>1. x \in {"sized", "xattr"} => ~NewSeed(op)
    BY DEF NewSeed, Leaves, Abstract!Leaves
  <2> QED
    BY <1>2, <2>1, SameExtent
<1>4. Done'
  <2>1. \A t \in Tids, f \in Files : ~Past(t, f)'
    BY <1>1 DEF Past, Files
  <2> QED
    BY <2>1 DEF Done
<1>5. Rest'
  <2> SUFFICES ASSUME NEW t \in Tids, NEW f \in Files, NEW x \in DOMAIN Needs(op)
               PROVE  /\ Extent[x] = "none" => ~Has(x, t, f)'
                      /\ Extent[x] = "all" => Has(x, t, f)'
    BY <1>1 DEF Rest, Needs, Abstract!Needs
  <2>1. x \in Things
    BY NeedsType
  <2>2. x \in {"sized", "xattr"} => ~NewSeed(op)
    BY DEF NewSeed, Needs, Abstract!Needs
  <2>3. Has(x, t, f)' <=> Has(x, t, f)
    BY <1>2, <2>1, <2>2
  <2>4. /\ Extent[x] = "none" => Where(x) = {}
        /\ Extent[x] = "all" => Where(x) = ThreadFiles
    <3>1. Where(x) \in SUBSET ThreadFiles
      BY DEF Where
    <3> QED
      BY <2>1, <3>1, ExtentIs, HowIs
  <2>5. <<t, f>> \in ThreadFiles
    BY DEF ThreadFiles
  <2> QED
    BY <2>3, <2>4, <2>5 DEF Where
<1>6. Control'
  <2>1. ASSUME MustFinish(op) PROVE finish_all_rq' = TRUE
    BY <1>1, <2>1
  <2>2. \A t \in Tids : pc'[t] = "loop" /\ status'[t] = "OK"
    BY <1>1
  <2>3. op # "none" /\ (MustFinish(opname)' => MustFinish(op))
    BY <1>1 DEF OpNames, MustFinish
  <2> QED
    BY <1>1, <2>1, <2>2, <2>3 DEF Control
<1>7. Cause' /\ NoHope'
  BY <1>1 DEF Cause, NoHope
<1>8. DirsThere'
  <2>1. \A u : Owner(u)' = Owner(u)
    BY <1>1 DEF Owner
  <2>2. \A u : Complete(u) => Complete(u)'
    BY <1>1 DEF Complete
  <2>3. ASSUME MakesSubdirs(op), NEW t \in Tids PROVE Complete(Owner(t))'
    BY <1>1, <2>1, <2>3 DEF Complete
  <2>4. ASSUME Extent["src"] = "all", NEW t \in Tids PROVE Complete(Owner(t))
    <3>1. Owner(t) \in Tids /\ Owner(Owner(t)) = Owner(t)
      BY OwnerType DEF Owner
    <3>2. Where("src") = ThreadFiles
      <4>1. Where("src") \in SUBSET ThreadFiles /\ "src" \in Things
        BY DEF Where, Things, Abstract!Things
      <4> QED
        BY <2>4, <4>1, ExtentIs, HowIs
    <3>3. <<Owner(t), 1>> \in ThreadFiles
      BY <3>1, SomeFile DEF ThreadFiles
    <3>4. Exists("src", Owner(t), 1)
      BY <3>2, <3>3 DEF Where, Has, Kinds
    <3> QED
      BY <3>1, <3>4, SomeFile DEF DirsThere
  <2>5. ASSUME NEW t \in Tids, NEW f \in Files, Owner(t) = t, Exists("src", t, f)'
        PROVE  Complete(t)'
    BY <1>1, <2>2, <2>5 DEF DirsThere, Exists
  <2>6. ASSUME NEW t \in Tids, MakesSubdirs(op) \/ Extent["src"] = "all"
        PROVE  Complete(Owner(t))'
    BY <2>1, <2>2, <2>3, <2>4, <2>6
  <2> QED
    BY <1>1, <2>1, <2>5, <2>6 DEF DirsThere, MakesSubdirs
<1>9. Marked'
  <2>1. \A t \in Tids : seed[t] \in Nat /\ (NewSeed(op) => seed'[t] = seed[t] + 1)
    BY <1>1, FileOpsAssumption DEF FTypeInv, FTypeOK
  <2>2. \A t \in Tids : (NewSeed(op) => seed'[t] # 0) /\ (seed[t] # 0 => seed'[t] # 0)
    BY <1>1, <2>1
  <2> QED
    BY <1>1, <2>2 DEF Marked, Exists, NewSeed
<1> QED
  BY <1>3, <1>4, <1>5, <1>6, <1>7, <1>8, <1>9

\* Steps that change no file: what they keep.
LEMMA QuietStep ==
  ASSUME SeqInv, UNCHANGED test, UNCHANGED <<filenum, files, data, xattr>>
  PROVE  /\ Frame' /\ Rest' /\ Marked'
         /\ \A x, u, g : Has(x, u, g)' <=> Has(x, u, g)
         /\ (Met' <=> Met) /\ (Hopeless' <=> Hopeless)
<1> USE DEF SeqInv
<1>1. /\ UNCHANGED opname /\ UNCHANGED before /\ UNCHANGED seed
      /\ UNCHANGED is_shared_dir /\ UNCHANGED filenum
      /\ UNCHANGED files /\ UNCHANGED data /\ UNCHANGED xattr
  BY DEF test
<1>2. \A x, u, g : Has(x, u, g)' <=> Has(x, u, g)
  BY <1>1 DEF Has, Exists
<1>3. Frame'
  BY <1>1, <1>2, SameExtent DEF Frame, Things, Abstract!Things, Leaves, Abstract!Leaves
<1>4. Rest'
  BY <1>1, <1>2 DEF Rest, Needs, Abstract!Needs
<1>5. Marked'
  BY <1>1 DEF Marked, Exists, NewSeed
<1>6. (Met' <=> Met) /\ (Hopeless' <=> Hopeless)
  BY <1>1 DEF Met, Abstract!Met, Hopeless, Abstract!Hopeless
<1> QED
  BY <1>2, <1>3, <1>4, <1>5, <1>6

\* A thread ends its loop.
LEMMA LoopEndsInv ==
  ASSUME FTypeInv, SeqInv, NEW t \in Tids, LoopEnds(t)
  PROVE  SeqInv'
<1> USE DEF SeqInv
<1>1. /\ UNCHANGED test /\ UNCHANGED <<filenum, files, data, xattr>> /\ UNCHANGED dirs
      /\ UNCHANGED status /\ UNCHANGED fault /\ UNCHANGED opname /\ UNCHANGED before
      /\ UNCHANGED is_shared_dir /\ UNCHANGED finish_all_rq /\ UNCHANGED filenum
      /\ pc[t] = "loop" /\ status[t] = "OK"
      /\ pc' = [pc EXCEPT ![t] = IF opname = "cleanup" THEN "src" ELSE "idle"]
      /\ filenum[t] = Iterations \/ StopsEarly(t)
  BY DEF LoopEnds, fs, test, Control
<1>2. /\ Frame' /\ Rest' /\ Marked'
      /\ \A x, u, g : Has(x, u, g)' <=> Has(x, u, g)
      /\ (Met' <=> Met) /\ (Hopeless' <=> Hopeless)
  BY <1>1, QuietStep
<1>3. \A u \in Tids : /\ pc'[u] = "rename" <=> pc[u] = "rename"
                      /\ u # t => pc'[u] = pc[u]
                      /\ pc'[t] = IF opname = "cleanup" THEN "src" ELSE "idle"
  BY <1>1 DEF FTypeInv, FTypeOK
<1>4. Done'
  <2>1. \A u \in Tids, g \in Files : Past(u, g)' <=> Past(u, g)
    BY <1>1, <1>3 DEF Past
  <2> QED
    BY <1>1, <1>2, <2>1 DEF Done, Leaves, Abstract!Leaves
<1>5. filenum[t] = Iterations \/ finish_all_rq = FALSE
  BY <1>1 DEF StopsEarly, FTypeInv, FTypeOK
<1>6. Control'
  BY <1>1, <1>3, <1>5 DEF Control, MustFinish
<1>7. Cause'
  BY <1>1, <1>2 DEF Cause
<1>8. filenum[t] # 0
  <2> SUFFICES ASSUME filenum[t] = 0 PROVE FALSE
    OBVIOUS
  <2>1. Iterations # 0 /\ AtFile(t) = 1
    BY FileOpsAssumption DEF AtFile
  <2>2. 1 % FilesBetweenChecks = 0
    BY <1>1, <2>1 DEF StopsEarly
  <2>3. FilesBetweenChecks \in Nat /\ FilesBetweenChecks > 1
    BY FileOpsAssumption
  <2>4. 1 % FilesBetweenChecks = 1
    <3>1. 1 = FilesBetweenChecks * 0 + 1 /\ 1 \in 0 .. FilesBetweenChecks - 1
      BY <2>3
    <3> QED
      BY <2>3, <3>1, DivModUnique
  <2> QED
    BY <2>2, <2>4
<1>9. NoHope'
  BY <1>1, <1>2, <1>8 DEF NoHope
<1>10. DirsThere'
  BY <1>1 DEF DirsThere, Complete, Owner, Exists, MakesSubdirs
<1> QED
  BY <1>2, <1>4, <1>6, <1>7, <1>9, <1>10

\* A thread is killed.
LEMMA KilledInv ==
  ASSUME FTypeInv, SeqInv, NEW t \in Tids, Killed(t)
  PROVE  SeqInv'
<1> USE DEF SeqInv
<1>1. /\ UNCHANGED test /\ UNCHANGED <<filenum, files, data, xattr>> /\ UNCHANGED dirs
      /\ UNCHANGED opname /\ UNCHANGED before
      /\ UNCHANGED is_shared_dir /\ UNCHANGED finish_all_rq /\ UNCHANGED filenum
      /\ fault' = TRUE
  BY DEF Killed, Faulty, fs, test
<1>2. /\ Frame' /\ Rest' /\ Marked'
      /\ \A x, u, g : Has(x, u, g)' <=> Has(x, u, g)
      /\ (Met' <=> Met) /\ (Hopeless' <=> Hopeless)
  BY <1>1, QuietStep
<1>3. \A u \in Tids \ {t} : pc'[u] = pc[u] /\ status'[u] = status[u]
  BY DEF Killed, FTypeInv, FTypeOK
<1>4. pc'[t] = "idle" /\ status'[t] = "killed"
  BY DEF Killed, FTypeInv, FTypeOK
<1>5. Done'
  <2>1. \A u \in Tids \ {t}, g \in Files : Past(u, g)' <=> Past(u, g)
    BY <1>1, <1>3 DEF Past
  <2> QED
    BY <1>1, <1>2, <1>3, <1>4, <2>1 DEF Done, Leaves, Abstract!Leaves
<1>6. Control'
  BY <1>1, <1>3, <1>4 DEF Control, MustFinish
<1>7. Cause'
  BY <1>1 DEF Cause
<1>8. NoHope'
  BY <1>1, <1>2, <1>3, <1>4 DEF NoHope
<1>9. DirsThere'
  BY <1>1 DEF DirsThere, Complete, Owner, Exists, MakesSubdirs
<1> QED
  BY <1>2, <1>5, <1>6, <1>7, <1>8, <1>9

\* Cleanup removes directories only of a thread that has no files left.
LEMMA CleanInv ==
  ASSUME FTypeInv, SeqInv, Cleaning, NamesInRange(P), NEW t \in Tids, CleanSubdirs(t)
  PROVE  SeqInv'
<1> USE DEF SeqInv
<1>1. /\ UNCHANGED test /\ UNCHANGED <<filenum, files, data, xattr>>
      /\ UNCHANGED opname /\ UNCHANGED before
      /\ UNCHANGED is_shared_dir /\ UNCHANGED finish_all_rq /\ UNCHANGED filenum
      /\ UNCHANGED files
      /\ pc[t] \in {"src", "dst"} /\ status[t] = "OK" /\ opname = "cleanup"
  BY DEF CleanSubdirs, test, Control
<1>2. /\ Frame' /\ Rest' /\ Marked'
      /\ \A x, u, g : Has(x, u, g)' <=> Has(x, u, g)
      /\ (Met' <=> Met) /\ (Hopeless' <=> Hopeless)
  BY <1>1, QuietStep
<1>3. /\ \A u \in Tids \ {t} : status'[u] = status[u] /\ pc'[u] = pc[u]
      /\ \/ pc'[t] \in {"dst", "idle"} /\ status'[t] = "OK"
         \/ pc'[t] = "idle" /\ status'[t] = "errno" /\ fault' = TRUE
      /\ fault = TRUE => fault' = TRUE
  BY <1>1 DEF CleanSubdirs, CleanTree, GoesOn, Fails, Faulty, TreeAfter, FTypeInv, FTypeOK
<1>4. Done'
  <2>1. \A u \in Tids, g \in Files : Past(u, g)' <=> Past(u, g)
    BY <1>1, <1>3 DEF Past
  <2> QED
    BY <1>1, <1>2, <1>3, <2>1 DEF Done, Leaves, Abstract!Leaves
<1>5. Control'
  BY <1>1, <1>3 DEF Control, MustFinish
<1>6. Cause' /\ NoHope'
  BY <1>1, <1>2, <1>3 DEF Cause, NoHope
<1>7. ASSUME NEW f \in Files PROVE ~Exists("src", t, f)
  <2>1. Cleaned(t)
    BY <1>1 DEF Cleaning
  <2>2. \A n \in files : n[2] = t /\ n[1] # "tmp" => n[3] > Iterations
    BY <1>1, <2>1 DEF Cleaned
  <2>3. f \in Nat /\ f <= Iterations /\ Iterations \in Nat
    BY PFields DEF Files
  <2>4. ASSUME <<"src", t, f>> \in files PROVE FALSE
    <3>1. f > Iterations
      BY <2>2, <2>4
    <3> QED
      BY <2>3, <3>1
  <2> QED
    BY <2>4 DEF Exists
<1>8. ASSUME NEW u \in Tids, Owner(u) = u, NEW f \in Files, Exists("src", u, f)
      PROVE  Complete(u)'
  <2>1. u # t /\ Complete(u)
    BY <1>7, <1>8 DEF DirsThere
  <2>2. dirs' = dirs \/ (Owner(t) = t /\ \E left : RemoveEmptyDirs(t, left))
    BY DEF CleanSubdirs, CleanTree, Owner
  <2>3. CASE dirs' = dirs
    BY <2>1, <2>3 DEF Complete
  <2>4. CASE Owner(t) = t /\ \E left : RemoveEmptyDirs(t, left)
    <3>1. \A dir \in dirs : dir[2] # t => dir \in dirs'
      BY <2>4 DEF RemoveEmptyDirs, EmptyDirs
    <3>2. ASSUME NEW dir \in {"src", "dst"} \X {u} \X Subdirs PROVE dir \in dirs'
      BY <2>1, <3>1 DEF Complete
    <3> QED
      BY <3>2 DEF Complete
  <2> QED
    BY <2>2, <2>3, <2>4
<1>9. DirsThere'
  BY <1>1, <1>8 DEF DirsThere, Owner, Exists
<1> QED
  BY <1>2, <1>4, <1>5, <1>6, <1>9

\* Every step keeps the invariant.
LEMMA SeqNext ==
  ASSUME NamesInRange(P)
  PROVE  FTypeInv /\ Cleaning /\ SeqInv /\ [Next]_vars => SeqInv'
<1> SUFFICES ASSUME FTypeInv, Cleaning, SeqInv, [Next]_vars PROVE SeqInv'
  OBVIOUS
<1>1. ASSUME NEW op \in campaign, NEW finish \in FinishChoices, StartTest(op, finish)
      PROVE  SeqInv'
  BY <1>1, StartInv
<1>2. ASSUME NEW t \in Tids, DoFile(t) PROVE SeqInv'
  <2>1. ASSUME NEW f, f = filenum'[t] PROVE SeqInv'
    BY <1>2, <2>1, FileSteps, FileInv
  <2> QED
    BY <2>1
<1>3. ASSUME NEW t \in Tids, LoopEnds(t) \/ CleanSubdirs(t) \/ Killed(t) PROVE SeqInv'
  BY <1>3, LoopEndsInv, CleanInv, KilledInv
<1>4. CASE UNCHANGED vars
  <2>1. /\ UNCHANGED test /\ UNCHANGED <<filenum, files, data, xattr>>
        /\ UNCHANGED opname /\ UNCHANGED pc /\ UNCHANGED status /\ UNCHANGED fault
        /\ UNCHANGED filenum /\ UNCHANGED finish_all_rq /\ UNCHANGED before
        /\ UNCHANGED dirs /\ UNCHANGED files /\ UNCHANGED is_shared_dir
    BY <1>4 DEF vars, test, fs
  <2>2. /\ Frame' /\ Rest' /\ Marked'
        /\ \A x, u, g : Has(x, u, g)' <=> Has(x, u, g)
        /\ (Met' <=> Met) /\ (Hopeless' <=> Hopeless)
    BY <2>1, QuietStep
  <2>3. Done'
    BY <2>1, <2>2 DEF SeqInv, Done, Past, Leaves, Abstract!Leaves
  <2>4. Control' /\ Cause' /\ NoHope'
    BY <2>1, <2>2 DEF SeqInv, Control, Cause, NoHope, MustFinish
  <2>5. DirsThere'
    BY <2>1 DEF SeqInv, DirsThere, Complete, Owner, Exists, MakesSubdirs
  <2> QED
    BY <2>2, <2>3, <2>4, <2>5 DEF SeqInv
<1> QED
  BY <1>1, <1>2, <1>3, <1>4 DEF Next, ThreadStep

LEMMA SeqInit == Init => SeqInv
<1> SUFFICES ASSUME Init PROVE SeqInv
  OBVIOUS
<1>1. /\ opname = "none" /\ pc = [t \in Tids |-> "idle"] /\ filenum = [t \in Tids |-> 0]
      /\ status = [t \in Tids |-> "OK"] /\ files = {} /\ before = Extent
      /\ xattr = [w \in ThreadFiles |-> 0]
  BY DEF Init
<1>2. \A x \in Things, t \in Tids, f \in Files : ~Has(x, t, f)
  BY <1>1 DEF Has, Exists
<1>3. \A x \in Things : Where(x) = {}
  BY <1>2 DEF Where, ThreadFiles
<1>4. \A x \in Things : before[x] = "none"
  BY <1>1, <1>3, HowIs, ExtentIs
<1>5. Frame
  BY <1>1 DEF Frame
<1>6. Done
  BY <1>1 DEF Done, Leaves, Abstract!Leaves
<1>7. Rest
  BY <1>2, <1>4, NeedsType DEF Rest
<1>8. Control
  BY <1>1 DEF Control, MustFinish
<1>9. Cause /\ NoHope
  BY <1>1 DEF Cause, NoHope
<1>10. DirsThere
  <2>1. before["src"] = "none" /\ ~MakesSubdirs(opname)
    BY <1>1, <1>4 DEF Things, Abstract!Things, MakesSubdirs
  <2> QED
    BY <1>1, <2>1 DEF DirsThere, Exists
<1>11. Marked
  BY <1>1 DEF Marked, Exists, NewSeed, ThreadFiles
<1> QED
  BY <1>5, <1>6, <1>7, <1>8, <1>9, <1>10, <1>11 DEF SeqInv

-----------------------------------------------------------------------------
\* The refinement.

\* Outcome, case by case.
LEMMA OutcomeIs ==
  /\ Outcome \in {"OK", "stopped", "error"}
  /\ Outcome = "error" <=> \E t \in Tids : status[t] # "OK"
  /\ Outcome = "OK" => \A t \in Tids : status[t] = "OK" /\ filenum[t] = Iterations
  /\ Outcome = "stopped" => \E t \in Tids : status[t] = "OK" /\ filenum[t] # Iterations
BY DEF Outcome

\* What is true when a test has ended.
Ends ==
  /\ LastTest \in Abstract!Tests
  /\ Extent \in [Things -> Abstract!Extents]
  /\ \A x \in Things \ DOMAIN Leaves(opname) : Extent[x] = before[x]
  /\ Outcome = "OK" => \A x \in DOMAIN Leaves(opname) : Extent[x] = Leaves(opname)[x]
  /\ Outcome = "stopped" => finish_all_rq = FALSE /\ ~MustFinish(opname)
  /\ Outcome = "error" => fault = TRUE \/ ~Met
  /\ Hopeless => Outcome = "error"

\* The invariant says so when no thread is running any more.
LEMMA EndsWell ==
  ASSUME FTypeInv, SeqInv, ~Running, opname # "none"
  PROVE  Ends
<1> USE DEF SeqInv
<1>1. \A t \in Tids : pc[t] = "idle"
  BY DEF Running
<1>2. LastTest \in Abstract!Tests
  <2>1. opname \in Operations /\ finish_all_rq \in BOOLEAN /\ fault \in BOOLEAN
    BY DEF FTypeInv, FTypeOK
  <2> QED
    BY <2>1, OutcomeIs DEF LastTest, Abstract!Tests
<1>3. ASSUME Outcome = "OK", NEW x \in DOMAIN Leaves(opname)
      PROVE  Extent[x] = Leaves(opname)[x]
  <2>1. x \in Things /\ Leaves(opname)[x] \in {"all", "none"}
    BY LeavesType
  <2>2. ASSUME NEW t \in Tids, NEW f \in Files
        PROVE  Has(x, t, f) <=> Leaves(opname)[x] = "all"
    <3>1. status[t] = "OK" /\ filenum[t] = Iterations /\ pc[t] # "rename"
      BY <1>1, <1>3, OutcomeIs
    <3>2. f \in Nat /\ f <= Iterations /\ Iterations \in Nat
      BY PFields DEF Files
    <3>3. Past(t, f)
      BY <3>1, <3>2 DEF Past
    <3> QED
      BY <3>1, <3>3 DEF Done
  <2>3. Where(x) = IF Leaves(opname)[x] = "all" THEN ThreadFiles ELSE {}
    BY <2>2 DEF Where, ThreadFiles
  <2> QED
    BY <2>1, <2>3, ExtentIs, HowIs
<1>4. Outcome = "stopped" => finish_all_rq = FALSE /\ ~MustFinish(opname)
  BY <1>1, OutcomeIs DEF Control
<1>5. Outcome = "error" => fault = TRUE \/ ~Met
  BY OutcomeIs DEF Cause
<1>6. Hopeless => Outcome = "error"
  BY <1>1, SomeFile, OutcomeIs DEF NoHope
<1> QED
  BY <1>2, <1>3, <1>4, <1>5, <1>6, ExtentType DEF Ends, Frame

\* The variables of TestSequence.
AbsShared == is_shared_dir /\ ThreadCount > 1
AbsHas == IF Running THEN before ELSE Extent
AbsLast == IF Running THEN Pending ELSE LastTest

\* The initial states are initial states of TestSequence.
LEMMA AbsInit == Init => Abstract!Init
<1> SUFFICES ASSUME Init PROVE Abstract!Init
  OBVIOUS
<1>1. ~Running /\ opname = "none" /\ finish_all_rq = TRUE /\ fault = FALSE
  BY DEF Init, Running
<1>2. LastTest = Abstract!NoTest
  BY <1>1 DEF LastTest, Abstract!NoTest
<1>3. ASSUME NEW x \in Things PROVE Extent[x] = "none"
  <2>1. Where(x) = {}
    BY DEF Init, Where, Has, Exists
  <2> QED
    BY <2>1, ExtentIs, HowIs
<1>4. Extent = [x \in Things |-> "none"]
  BY <1>3, ExtentType
<1> QED
  BY <1>1, <1>2, <1>4 DEF Abstract!Init, Things

\* A test that starts begins.
LEMMA AbsBegin ==
  ASSUME FTypeInv, NamesInRange(P), NEW op, NEW finish, StartTest(op, finish)
  PROVE  Abstract!Begin
<1>1. ~Running /\ before' = Extent /\ UNCHANGED is_shared_dir
      /\ pc' = [t \in Tids |-> "loop"]
  BY DEF StartTest
<1>2. Running'
  BY <1>1, SomeFile DEF Running
<1>3. LastTest # Pending
  BY OutcomeIs DEF LastTest, Pending
<1> QED
  BY <1>1, <1>2, <1>3 DEF Abstract!Begin, Abstract!Pending, Pending

LEMMA EndsNext == (FTypeInv /\ SeqInv /\ ~Running /\ opname # "none" => Ends)'
<1>1. FTypeInv /\ SeqInv /\ ~Running /\ opname # "none" => Ends
  BY EndsWell
<1> QED
  BY <1>1, PTL

\* The last step of the last thread ends it.
LEMMA AbsEnd ==
  ASSUME FTypeInv', SeqInv', Running, ~Running', opname # "none", UNCHANGED test
  PROVE  Abstract!End
<1>1. /\ UNCHANGED opname /\ UNCHANGED finish_all_rq /\ UNCHANGED before
      /\ UNCHANGED is_shared_dir
  BY DEF test
<1>2. Ends'
  BY <1>1, EndsNext
<1>3. /\ LastTest' \in Abstract!Tests
      /\ Extent' \in [Things -> Abstract!Extents]
      /\ \A x \in Things \ DOMAIN Leaves(opname) : Extent'[x] = before[x]
      /\ Outcome' = "OK" => \A x \in DOMAIN Leaves(opname) : Extent'[x] = Leaves(opname)[x]
      /\ Outcome' = "stopped" => finish_all_rq = FALSE /\ ~MustFinish(opname)
      /\ Outcome' = "error" => fault' = TRUE \/ ~Met
      /\ Hopeless => Outcome' = "error"
  <2>1. /\ Leaves(opname)' = Leaves(opname) /\ Things' = Things
        /\ Abstract!Extents' = Abstract!Extents /\ Abstract!Tests' = Abstract!Tests
        /\ MustFinish(opname)' <=> MustFinish(opname)
        /\ Met' <=> Met
        /\ Hopeless' <=> Hopeless
    BY <1>1 DEF Leaves, Abstract!Leaves, Things, Abstract!Things, Abstract!Extents,
       Abstract!Tests, Operations, MustFinish, Met, Abstract!Met, Hopeless, Abstract!Hopeless
  <2> QED
    BY <1>1, <1>2, <2>1 DEF Ends
<1>4. /\ LastTest'.op = opname /\ LastTest'.finish = finish_all_rq
      /\ LastTest'.fault = fault' /\ LastTest'.outcome = Outcome'
  BY <1>1 DEF LastTest
<1>5. MustFinish(opname) <=> opname \in Abstract!AlwaysFinish
  BY DEF MustFinish, Abstract!AlwaysFinish
<1>6. finish_all_rq \in BOOLEAN /\ fault' \in BOOLEAN
  BY <1>1 DEF FTypeInv, FTypeOK
<1> QED
  BY <1>1, <1>3, <1>4, <1>5, <1>6
  DEF Abstract!End, Abstract!Pending, Pending, Things, Leaves, Met, Hopeless

\* Only a thread that runs goes on, and the test stays the same.
LEMMA ThreadRuns ==
  ASSUME FTypeInv, NEW t \in Tids, ThreadStep(t) \/ Killed(t)
  PROVE  UNCHANGED test /\ pc[t] # "idle"
<1>1. CASE DoFile(t)
  <2>1. CASE PutRename(t)
    BY <2>1 DEF PutRename
  <2>2. CASE PutTemp(t)
    BY <2>2 DEF PutTemp, Takes
  <2>3. CASE ~PutRename(t) /\ ~PutTemp(t)
    BY <1>1, <2>3, FilesTypeStep DEF FTypeInv, Takes
  <2> QED
    BY <2>1, <2>2, <2>3
<1>2. CASE LoopEnds(t) \/ CleanSubdirs(t) \/ Killed(t)
  BY <1>2 DEF LoopEnds, CleanSubdirs, Killed
<1> QED
  BY <1>1, <1>2 DEF ThreadStep

\* All other steps change nothing there.
LEMMA AbsNext ==
  ASSUME NamesInRange(P)
  PROVE  /\ FTypeInv /\ FTypeInv' /\ SeqInv /\ SeqInv' /\ [Next]_vars
         => [Abstract!Next]_<<AbsShared, AbsHas, AbsLast>>
<1> SUFFICES ASSUME FTypeInv, FTypeInv', SeqInv, SeqInv', [Next]_vars
             PROVE  Abstract!Next \/ UNCHANGED <<AbsShared, AbsHas, AbsLast>>
  OBVIOUS
<1>1. ASSUME NEW op \in campaign, NEW finish \in FinishChoices, StartTest(op, finish)
      PROVE  Abstract!Next
  BY <1>1, AbsBegin DEF Abstract!Next
<1>2. ASSUME NEW t \in Tids, ThreadStep(t) \/ Killed(t)
      PROVE  Abstract!Next \/ UNCHANGED <<AbsShared, AbsHas, AbsLast>>
  <2>1. UNCHANGED test /\ pc[t] # "idle"
    BY <1>2, ThreadRuns
  <2>2. Running /\ opname # "none"
    BY <2>1 DEF Running, SeqInv, Control
  <2>3. CASE Running'
    BY <2>1, <2>2, <2>3 DEF AbsShared, AbsHas, AbsLast, Pending, test
  <2>4. CASE ~Running'
    BY <2>1, <2>2, <2>4, AbsEnd DEF Abstract!Next
  <2> QED
    BY <2>3, <2>4
<1>3. CASE UNCHANGED vars
  <2>1. /\ Running' <=> Running
        /\ Extent' = Extent /\ LastTest' = LastTest /\ UNCHANGED before
        /\ UNCHANGED is_shared_dir
    BY <1>3 DEF vars, test, fs, Running, Extent, Exists, LastTest, Outcome
  <2> QED
    BY <2>1 DEF AbsShared, AbsHas, AbsLast, Pending
<1> QED
  BY <1>1, <1>2, <1>3 DEF Next

\* Tests implement TestSequence, for any number of threads and files, any options,
\* faults and stops: a test that finds what it needs and meets no fault does not
\* fail, one that goes well leaves what it should, whatever it does nothing else
\* changes, and one without hope fails.  The names have to be in range, as a test
\* that makes directories otherwise ends before it begins (see TopsThatWork).
THEOREM TestsInSequence == NamesInRange(P) => (Spec => SequenceSpec)
<1> SUFFICES ASSUME NamesInRange(P) PROVE Spec => SequenceSpec
  OBVIOUS
<1> DEFINE Inv == FTypeInv /\ Cleaning /\ SeqInv
<1>1. Init => Inv
  BY FTypeInit, SeqInit DEF FTypeInv, AtRename, Cleaning, Init
<1>2. Inv /\ [Next]_vars => Inv'
  BY FTypeNext, CleaningNext, SeqNext
<1>3. Inv /\ Inv' /\ [Next]_vars => [Abstract!Next]_<<AbsShared, AbsHas, AbsLast>>
  BY AbsNext
<1>4. Spec => Abstract!Init /\ [][Abstract!Next]_<<AbsShared, AbsHas, AbsLast>>
  BY <1>1, <1>2, <1>3, AbsInit, PTL DEF Spec
<1> QED
  BY <1>4 DEF SequenceSpec, Abstract!Spec, AbsShared, AbsHas, AbsLast

\* No name ends a test where there are at most so many top directories, in
\* particular where there is one.
THEOREM TopsThatWork == TopCount <= Slack + 1 => (Spec => []TopsSupported)
<1> SUFFICES ASSUME TopCount <= Slack + 1 PROVE Spec => []TopsSupported
  OBVIOUS
<1> DEFINE Inv == FTypeInv /\ Cleaning /\ SeqInv
<1>0. NamesInRange(P)
  BY TopsInRange
<1>1. Init => Inv
  BY FTypeInit, SeqInit DEF FTypeInv, AtRename, Cleaning, Init
<1>2. Inv /\ [Next]_vars => Inv'
  BY <1>0, FTypeNext, CleaningNext, SeqNext
<1>3. Inv => TopsSupported
  BY DEF SeqInv, Control, TopsSupported
<1> QED
  BY <1>1, <1>2, <1>3, PTL DEF Spec

Raised ==
  MakesSubdirs(opname) => \A t \in Tids : status[t] = "raised" /\ pc[t] = "idle"

\* With more top directories every test that makes directories ends in an
\* exception, in all threads, before it touches a file.
THEOREM TopsThatFail == TopCount > Slack + 1 => (Spec => []Raised)
<1> SUFFICES ASSUME TopCount > Slack + 1 PROVE Spec => []Raised
  OBVIOUS
<1>0. ~NamesInRange(P)
  <2>1. Slack \in Nat /\ TopCount \in Nat
    BY LastMultiple, PFields
  <2> QED
    BY <2>1, TopsInRange
<1>1. Init => FTypeInv /\ Raised
  BY FTypeInit DEF FTypeInv, AtRename, Raised, MakesSubdirs, Init
<1>2. FTypeInv /\ Raised /\ [Next]_vars => Raised'
  <2> SUFFICES ASSUME FTypeInv, Raised, [Next]_vars PROVE Raised'
    OBVIOUS
  <2>1. ASSUME NEW op \in campaign, NEW finish \in FinishChoices, StartTest(op, finish)
        PROVE  Raised'
    BY <1>0, <2>1 DEF StartTest, Raised, MakesSubdirs
  <2>2. ASSUME NEW t \in Tids, ThreadStep(t) \/ Killed(t) PROVE Raised'
    BY <2>2, ThreadRuns DEF Raised, MakesSubdirs, test
  <2>3. CASE UNCHANGED vars
    BY <2>3 DEF vars, test, Raised, MakesSubdirs
  <2> QED
    BY <2>1, <2>2, <2>3 DEF Next
<1> QED
  BY <1>1, <1>2, FTypeNext, PTL DEF Spec
=============================================================================
