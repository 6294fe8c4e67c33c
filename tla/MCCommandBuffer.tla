-------------------------- MODULE MCCommandBuffer --------------------------
(***************************************************************************)
(* Instances of CommandBuffer for TLC: short commands with a narrow int.   *)
(***************************************************************************)
EXTENDS CommandBuffer

(* Empty values, short texts, and texts near every power of two a size of  *)
(* 12 bits meets.                                                          *)
Lengths == {0, 1, 2, 256, 511, 1023, 2047, 4095}
ShortCommands == UNION {[1 .. n -> Lengths] : n \in 0 .. 5}

=============================================================================
