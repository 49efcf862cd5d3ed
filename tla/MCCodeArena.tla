---------------------------- MODULE MCCodeArena ----------------------------
(* A small instance of CodeArena for TLC. *)
EXTENDS CodeArena, TLC

\* JUMPDEST alone, PUSH1 with a JUMPDEST for data, and a designator-like code.
MCCodes == {<<>>, <<91>>, <<96, 91>>, <<239, 1>>}
=============================================================================
