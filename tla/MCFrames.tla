------------------------------ MODULE MCFrames ------------------------------
(* Small instances of Frames for TLC. *)
EXTENDS Frames, TLC

CONSTANTS user, c1, c2, p1    \* a sender, two contract accounts, a precompile

\* A sender with one ether that has sent a transaction before, and contracts it deployed.
StartWorld(other, deployed, delegate) ==
  [balance |-> [a \in Addr |-> IF a = user THEN 1 ELSE other],
   nonce |-> [a \in Addr |-> IF a = user \/ a \in deployed THEN 1 ELSE 0],
   code |-> [a \in Addr |-> IF a = user THEN delegate
                            ELSE IF a \in deployed THEN Contract ELSE NoCode],
   data |-> 0, doomed |-> {}]

\* One contract or none, the other accounts full; a sender that has delegated to the
\* contract or to the precompile.
MCWorlds ==
  {StartWorld(0, {}, NoCode), StartWorld(0, {c1}, NoCode), StartWorld(2, {c1}, NoCode)}
  \cup {StartWorld(0, {c1}, delegate) : delegate \in {c1, p1}}
=============================================================================
