---------------------------- MODULE TestSequence ----------------------------
(***************************************************************************)
(* What a user may expect of smallfile tests run one after the other, with *)
(* no threads, directories or stop flags: a test begins, and it ends with  *)
(* all its effects in one step.  Of the files of all threads it is known   *)
(* whether a thing is there for none, some or all of them.  Module FileOps *)
(* implements this.                                                        *)
(*                                                                         *)
(* The things: source files, destination files (rename), directories       *)
(* (mkdir), symbolic links, temporary files of swift-put; source files of  *)
(* the size and contents that the saved seed stands for; source files that *)
(* have the extended attributes of that seed.                              *)
(***************************************************************************)
Things == {"src", "dst", "d", "s", "tmp", "sized", "xattr"}
Extents == {"none", "some", "all"}

VARIABLES
  shared,   \* --same-dir, with several threads
  has,      \* has[x]: for how many of the files x is there
  last      \* the last test: op, finish, fault (something failed from outside)
            \* and its outcome, "OK", "stopped" (some threads early) or "error"

NoTest == [op |-> "none", finish |-> TRUE, fault |-> FALSE, outcome |-> "OK"]

\* A test is running.
Pending == [op |-> "none", finish |-> TRUE, fault |-> FALSE, outcome |-> "pending"]

\* create and mkdir make what the other tests need, and cleanup leaves nothing:
\* they always finish.
AlwaysFinish == {"create", "mkdir", "cleanup"}

\* What a test needs to find.
Needs(op) ==
  CASE op = "create" -> [src |-> "none"]
    [] op = "mkdir" -> [d |-> "none"]
    [] op = "rmdir" -> [d |-> "all"]
    [] op = "symlink" -> [s |-> "none", src |-> "all"]
    [] op \in {"read", "swift-get"} -> [src |-> "all", sized |-> "all"]
    [] op = "getxattr" -> [src |-> "all", xattr |-> "all"]
    [] op = "readdir" -> [src |-> "all", d |-> "none", tmp |-> "none"]
    [] op = "delete-renamed" -> [dst |-> "all"]
    [] op \in {"swift-put", "cleanup"} -> <<>>
    [] OTHER -> [src |-> "all"]

\* What a complete test leaves; an incomplete one changes nothing else.
Leaves(op) ==
  CASE op = "create" -> [src |-> "all", sized |-> "all", xattr |-> "none"]
    [] op = "swift-put" ->
         [src |-> "all", sized |-> "all", xattr |-> "none", tmp |-> "none"]
    [] op \in {"overwrite", "truncate-overwrite"} -> [sized |-> "all"]
    [] op = "setxattr" -> [xattr |-> "all"]
    [] op = "mkdir" -> [d |-> "all"]
    [] op = "rmdir" -> [d |-> "none"]
    [] op = "symlink" -> [s |-> "all"]
    [] op = "rename" ->
         [src |-> "none", sized |-> "none", xattr |-> "none", dst |-> "all"]
    [] op = "delete" -> [src |-> "none", sized |-> "none", xattr |-> "none"]
    [] op = "delete-renamed" -> [dst |-> "none"]
    [] op = "cleanup" -> [src |-> "none", sized |-> "none", xattr |-> "none",
                          dst |-> "none", d |-> "none", s |-> "none"]
    [] OTHER -> <<>>

Met(found, op) ==
  /\ \A x \in DOMAIN Needs(op) : found[x] = Needs(op)[x]
  /\ ~(shared /\ op = "readdir")

\* The first file of any thread is enough for the test to fail.
Hopeless(found, op) ==
  \E x \in DOMAIN Needs(op) \ {"tmp", "sized", "xattr"} :
    op \notin {"readdir", "symlink"} /\ {found[x], Needs(op)[x]} = {"none", "all"}

Begin ==
  /\ last # Pending /\ last' = Pending
  /\ UNCHANGED <<shared, has>>

CONSTANT Operations

Tests == [op : Operations, finish : BOOLEAN, fault : BOOLEAN,
          outcome : {"OK", "stopped", "error"}]

End ==
  /\ last = Pending /\ last' \in Tests /\ UNCHANGED shared
  /\ LET t == last'
         old == has
         new == has'
         full == Leaves(t.op)
     IN /\ new \in [Things -> Extents]
        /\ \A x \in Things \ DOMAIN full : new[x] = old[x]
        /\ t.outcome = "OK" => \A x \in DOMAIN full : new[x] = full[x]
        /\ t.outcome = "stopped" => ~t.finish /\ t.op \notin AlwaysFinish
        /\ t.outcome = "error" => t.fault \/ ~Met(old, t.op)
        /\ Hopeless(old, t.op) => t.outcome = "error"

Init ==
  /\ shared \in BOOLEAN
  /\ has = [x \in Things |-> "none"]
  /\ last = NoTest

Next == Begin \/ End

Spec == Init /\ [][Next]_<<shared, has, last>>
=============================================================================
