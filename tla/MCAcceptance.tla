---------------------------- MODULE MCAcceptance ----------------------------
(* Small instances of Acceptance for TLC. *)
EXTENDS Acceptance, TLC

CONSTANTS b1, b2, r1, r2, a1, a2

MCLevels == <<0, 1>>
MCPinned == b1 :> r1 @@ b2 :> r2

\* Two builds and an acceptance where a step may fail; a build and an acceptance where one
\* fails and sources change; two acceptances at once of one build.
MCParties == {[present |-> {b1, b2, a1}, faults |-> 1, edits |-> 0],
              [present |-> {b1, a1}, faults |-> 1, edits |-> 1],
              [present |-> {b1, a1, a2}, faults |-> 0, edits |-> 0]}
=============================================================================
