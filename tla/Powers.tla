------------------------------- MODULE Powers -------------------------------
(***************************************************************************)
(* Powers as the code makes them, by multiplying again and again: of       *)
(* dirs_per_dir for the names of directories, of 2 for the sizes of        *)
(* buffers.                                                                *)
(***************************************************************************)
EXTENDS Naturals

Power(b) ==
  LET power[k \in Nat] == IF k = 0 THEN 1 ELSE b * power[k - 1] IN power
=============================================================================
