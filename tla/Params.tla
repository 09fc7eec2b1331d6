------------------------------- MODULE Params -------------------------------
(***************************************************************************)
(* The parameters of a test: the command line (parse_args), the YAML file  *)
(* that overrides it (parse_yaml), and what parse_args then checks and     *)
(* changes.                                                                *)
(*                                                                         *)
(* c is a record of the options of the command line, already of the right  *)
(* types; y is one of those in the YAML file.  Options that are only       *)
(* copied are left out, and so is the parsing of single values.            *)
(***************************************************************************)
EXTENDS Integers

\* The fields that matter here, as parse_args sets them; the number of threads
\* is kept twice.
CommandLine(c) ==
  [opname |-> c.operation, iterations |-> c.files,
   thread_count |-> c.threads, threads |-> c.threads,
   record_sz_kb |-> c.record_size, total_sz_kb |-> c.file_size,
   pause_between_files |-> c.pause, auto_pause |-> c.auto_pause,
   stonewall |-> c.stonewall, finish_all_rq |-> c.finish,
   hosts |-> c.hosts, total_hosts |-> c.host_count]

YamlKeys ==
  {"operation", "files", "threads", "finish", "record-size", "file-size", "pause",
   "auto-pause", "stonewall", "host-set", "total-hosts"}

\* The field of a YAML key: not the threads of the workload.
FieldOf(key) ==
  CASE key = "operation" -> "opname" [] key = "files" -> "iterations"
    [] key = "threads" -> "thread_count" [] key = "finish" -> "finish_all_rq"
    [] key = "record-size" -> "record_sz_kb" [] key = "file-size" -> "total_sz_kb"
    [] key = "pause" -> "pause_between_files" [] key = "auto-pause" -> "auto_pause"
    [] key = "stonewall" -> "stonewall" [] key = "host-set" -> "hosts"
    [] key = "total-hosts" -> "total_hosts"

ParseYaml(prm, y) ==
  [x \in DOMAIN prm |->
     IF \E key \in DOMAIN y : FieldOf(key) = x
     THEN y[CHOOSE key \in DOMAIN y : FieldOf(key) = x] ELSE prm[x]]

\* hosts is the length of --host-set, 0 without one.
CountHosts(prm) ==
  [prm EXCEPT !.total_hosts = IF @ # 0 THEN @ ELSE IF prm.hosts > 0 THEN prm.hosts ELSE 1]

\* SmfParseException otherwise.
Valid(prm) == ~(prm.record_sz_kb > prm.total_sz_kb /\ prm.total_sz_kb # 0)

NoStonewallIfSmall(prm) ==
  [prm EXCEPT !.stonewall = @ /\ prm.iterations >= 10]

\* The three rules about pauses, in order.
NoPauseIf(cond, prm) ==
  IF cond THEN [prm EXCEPT !.auto_pause = FALSE, !.pause_between_files = 0] ELSE prm

Pauses(prm) ==
  LET one == NoPauseIf(prm.opname = "cleanup", prm)
      two == NoPauseIf(one.total_hosts * one.threads = 1, one)
  IN IF two.auto_pause THEN [two EXCEPT !.pause_between_files = 0] ELSE two

ForceFinish(prm) ==
  [prm EXCEPT !.finish_all_rq = @ \/ prm.opname \in {"cleanup", "create", "mkdir"}]

Check(prm) == ForceFinish(Pauses(NoStonewallIfSmall(prm)))

\* Mutant: the YAML file is read last.
MutParse(c, y) == ParseYaml(Check(CountHosts(CommandLine(c))), y)

Parse(c, y) == Check(CountHosts(ParseYaml(CommandLine(c), y)))
=============================================================================
