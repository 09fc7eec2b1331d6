----------------------------- MODULE CleanDirs ------------------------------
(***************************************************************************)
(* The walk of clean_all_subdirs through one tree, a step for each turn of *)
(* its loops.  It visits the named directories in any order, and from each *)
(* goes up as long as rmdir succeeds.  The record c says what it is about: *)
(*   names, the fields that module DirNames needs;                         *)
(*   lengths, the number of characters in the path of each top directory;  *)
(*   there, the directories that exist, and used, those that have files;   *)
(*   is_shared_dir.                                                        *)
(* Module FileOps takes the whole walk in one step.                        *)
(***************************************************************************)
EXTENDS DirNames

CONSTANT MaxRefusals     \* bound: how often an rmdir of an empty directory fails

ASSUME CleanDirsAssumption == MaxRefusals \in Nat

VARIABLES
  dirset,          \* named directories that are still to be visited
  unique_dpath,    \* where the walk is, or NoPath between two of them
  existing,        \* directories that exist
  refused,         \* history: empty directories that rmdir failed for
  clean_status     \* "OK", or "error" once an exception has ended the walk

cleanvars == <<dirset, unique_dpath, existing, refused, clean_status>>

NoPath == <<>>

\* A path is made of "/d_003", six characters each with dirs_per_dir up to 1000.
PathLength(c, dir) == c.lengths[dir[1]] + 6 * Len(dir[2])

Parent(dir) == <<dir[1], SubSeq(dir[2], 1, Len(dir[2]) - 1)>>

IsTop(dir) == dir[2] = <<>>

\* No walk.
CleanIdle ==
  /\ dirset = {} /\ unique_dpath = NoPath /\ existing = {} /\ refused = {}
  /\ clean_status = "OK"

CleanInit(c) ==
  /\ dirset = NamedDirs(c.names)
  /\ unique_dpath = NoPath
  /\ existing = c.there
  /\ refused = {}
  /\ clean_status = "OK"

\* for unique_dpath in dirset
NextDir ==
  /\ clean_status = "OK" /\ unique_dpath = NoPath
  /\ \E dir \in dirset :
       /\ dirset' = dirset \ {dir}
       /\ unique_dpath' = IF IsTop(dir) THEN NoPath ELSE dir
  /\ UNCHANGED <<existing, refused, clean_status>>

OnWalk ==
  /\ clean_status = "OK" /\ unique_dpath # NoPath
  /\ UNCHANGED dirset

\* The loop ends at the top directory of this path ...
GoesUp ==
  LET up == Parent(unique_dpath) IN unique_dpath' = IF IsTop(up) THEN NoPath ELSE up

\* Mutant: the directory above is not looked at.
MutGoesUpAfterRmdir(c) == unique_dpath' = NoPath

\* ... but after an rmdir also where the path is no longer than that of the first
\* top directory.
GoesUpAfterRmdir(c) ==
  IF PathLength(c, Parent(unique_dpath)) <= c.lengths[0]
  THEN unique_dpath' = NoPath
  ELSE GoesUp

IsEmpty(c, dir) ==
  dir \notin c.used /\ \A sub \in existing : Parent(sub) # dir

\* A directory that is gone, or was never made.
Skips ==
  /\ OnWalk /\ unique_dpath \notin existing
  /\ GoesUp
  /\ UNCHANGED <<existing, refused, clean_status>>

Removes(c) ==
  /\ OnWalk /\ unique_dpath \in existing /\ IsEmpty(c, unique_dpath)
  /\ existing' = existing \ {unique_dpath}
  /\ GoesUpAfterRmdir(c)
  /\ UNCHANGED <<refused, clean_status>>

\* ENOTEMPTY
NotEmpty(c) ==
  /\ OnWalk /\ unique_dpath \in existing /\ ~IsEmpty(c, unique_dpath)
  /\ unique_dpath' = NoPath
  /\ UNCHANGED <<existing, refused, clean_status>>

\* EACCES and EBUSY end the walk from this directory as if it was not empty; any
\* other error is logged, and then raised, except under same-dir.
Refused(c) ==
  /\ OnWalk /\ unique_dpath \in existing /\ IsEmpty(c, unique_dpath)
  /\ Cardinality(refused) < MaxRefusals
  /\ refused' = refused \cup {unique_dpath}
  /\ UNCHANGED existing
  /\ \/ unique_dpath' = NoPath /\ UNCHANGED clean_status
     \/ c.is_shared_dir /\ GoesUpAfterRmdir(c) /\ UNCHANGED clean_status
     \/ ~c.is_shared_dir /\ unique_dpath' = NoPath /\ clean_status' = "error"

CleanStep(c) == NextDir \/ Skips \/ Removes(c) \/ NotEmpty(c) \/ Refused(c)

Walked == dirset = {} /\ unique_dpath = NoPath /\ clean_status = "OK"
=============================================================================
