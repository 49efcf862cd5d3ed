------------------------------ MODULE MCMemory ------------------------------
(* A small instance of Memory for TLC. *)
EXTENDS Memory

\* A word past the integers of 64 bits that comes out as one.
FAR == U64 + 1
MCOffsets == {3, 5, FAR}
MCGasLimits == <<6, 9>>
\* Onto and from either end, past the input, nothing at all from far away, and too far in each operand.
MCCopies == {<<0, 3, 1>>, <<3, 0, 3>>, <<FAR, FAR, 0>>, <<FAR, 0, 1>>, <<0, FAR, 1>>, <<0, 0, FAR>>}
MCRanges == {<<0, 2>>, <<3, 1>>, <<FAR, 0>>, <<FAR, 1>>, <<1, FAR>>}
MCCalls == {<<<<FAR, 0>>, <<FAR, 0>>>>, <<<<0, 1>>, <<3, 1>>>>, <<<<3, 1>>, <<0, 1>>>>, <<<<0, 1>>, <<FAR, 1>>>>}
=============================================================================
