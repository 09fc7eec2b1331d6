---------------------------- MODULE MCAlgorithms ----------------------------
\* TLC's inputs for the calculations; the constants are in the .cfg file.
EXTENDS Algorithms

\* some_prime is 7.
MCNameInputs ==
  [iterations : 1 .. 15, files_per_dir : 1 .. 3, dirs_per_dir : 1 .. 3,
   tops : 1 .. 3, hash_to_dir : BOOLEAN]

\* The tops are as long, a name shorter or longer, or one character less than that.
\* One of the directories is gone with all below it, and one has files.
MCCleanInputs ==
  LET names ==
        {p \in [iterations : {4, 6}, files_per_dir : 1 .. 2, dirs_per_dir : {2},
                tops : 1 .. 2, hash_to_dir : BOOLEAN] : NamesInRange(p)}
      dirs(p) == {dir \in AllSubdirs(p) : ~IsTop(dir)}
      left(p) == {dirs(p)} \cup
                 {{dir \in dirs(p) : gone \notin Above(dir)} : gone \in dirs(p)}
      lengths(p) ==
        IF p.tops = 1 THEN {(0 :> 20)}
        ELSE {(0 :> n) @@ (1 :> 20) : n \in {14, 20, 25, 26}}
  IN UNION {UNION {[names : {p}, lengths : lengths(p), there : {there},
                    used : {{}} \cup {{dir} : dir \in there}, is_shared_dir : BOOLEAN] :
                   there \in left(p)} : p \in names}

\* 1 KB is 4 bytes and the biggest buffer is 4 KB.  The records are such as
\* parse_args lets pass; random sizes have a mean.
MCBufferInputs ==
  {p \in [record_sz_kb : 0 .. 5, reader_record_sz_kb : 0 .. 5, total_sz_kb : {0, 1, 3, 6},
          random : BOOLEAN, xattr_size : {0, 9, 17}, xattr_count : {0, 1},
          incompressible : BOOLEAN, tid : 0 .. 1] :
     /\ p.total_sz_kb = 0 => ~p.random
     /\ \A sz \in {p.record_sz_kb, p.reader_record_sz_kb} :
          Valid([p EXCEPT !.record_sz_kb = sz])}

\* What a thread may have sent: nothing, or an invoke that never measured, or one
\* that did.
Invokes(h, t) ==
  {<<>>} \cup
  {<<[onhost |-> h, tid |-> t, status |-> s, elapsed_time |-> e,
      filenum_final |-> n, rq_final |-> n]>> :
     <<s, e, n>> \in {<<0, 2, 10>>, <<0, 1, 6>>, <<0, 0, 10>>, <<5, 1, 1>>, <<5, 2, 10>>,
                      <<28, None, None>>, <<0, None, None>>}}

MCResultInputs ==
  [hosts : {2}, thread_count : {1}, iterations : {10},
   invokes : {a \o b : a \in Invokes(1, 1), b \in Invokes(2, 1)}]
  \cup
  [hosts : {1}, thread_count : {2}, iterations : {10},
   invokes : {a \o b : a \in Invokes(1, 1), b \in Invokes(1, 2)}]
  \cup
  [hosts : {2}, thread_count : {2}, iterations : {10},
   invokes : {a \o b \o c \o d : a \in Invokes(1, 1), b \in Invokes(1, 2),
                                 c \in Invokes(2, 1), d \in Invokes(2, 2)}]

\* Files of up to three samples.
SampleFiles ==
  {<<>>} \cup
  {s \in UNION {[1 .. n -> [at : 0 .. 6, rsp : {1}]] : n \in {1, 3}} :
     \A i \in 1 .. Len(s) - 1 : s[i].at < s[i + 1].at}

MCSampleInputs ==
  [threads : {<<a, b>> : a, b \in SampleFiles}, start_time : {0, 1}, time_interval : {1, 2}]

Commands ==
  [operation : {"create", "read", "cleanup"}, files : {5, 20}, threads : {1, 2},
   record_size : {0}, file_size : {1}, pause : {0, 7}, auto_pause : BOOLEAN,
   stonewall : {TRUE}, finish : BOOLEAN, hosts : {0, 2}, host_count : {0, 3}]

\* YAML files of up to two keys.
YamlValues ==
  [operation |-> {"mkdir", "cleanup", "read"}, files |-> {5, 20}, threads |-> {1, 2},
   pause |-> {0, 9}, finish |-> BOOLEAN, stonewall |-> {TRUE}]
    @@ ("auto-pause" :> BOOLEAN) @@ ("host-set" :> {2})

OneKey == UNION {{key :> value : value \in YamlValues[key]} : key \in DOMAIN YamlValues}

MCOptionInputs ==
  [cli : Commands, yaml : {<<>>} \cup {one @@ other : one, other \in OneKey}]

\* Time-outs of 9 and of 25 seconds, or a little more.
MCGateInputs ==
  UNION {[iterations : {10, 2000}, thread_count : {1}, hosts : {h}, files_per_dir : {10},
          ready : [1 .. h -> {3 * n : n \in 0 .. 16} \cup {4, 10}]] : h \in {2, 3}}
  \cup
  [iterations : {2000}, thread_count : {1}, hosts : {2}, files_per_dir : {10},
   ready : [1 .. 2 -> 0 .. 85]]
=============================================================================
