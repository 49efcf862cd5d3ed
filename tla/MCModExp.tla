------------------------------ MODULE MCModExp ------------------------------
(* A small instance of ModExp for TLC: bytes of two bits, limbs of four. *)
EXTENDS ModExp

\* A number of up to three limbs whose limbs are at the edges, where estimates are off.
Edges == {<<0, 0>>, <<0, 1>>, <<1, 3>>, <<2, 0>>, <<3, 3>>}
MCModuli == {a \o b \o c : a, b, c \in Edges} \cup {a \o b : a \in {<<2>>, <<0>>}, b \in Edges} \cup {<<>>, <<3>>}
MCBases == {a \o b \o c : a \in {<<0, 1>>, <<3, 3>>}, b \in {<<0, 0>>, <<1, 3>>, <<3, 3>>}, c \in {<<3>>, <<0, 1>>, <<1, 2>>}} \cup {<<>>, <<2>>}
MCExponents == {<<>>, <<0>>, <<0, 2>>, <<1, 3>>, <<2, 1>>}
Whole == [base : MCBases, exponent : MCExponents, modulus : MCModuli, absent : {0}]
\* Calls that end before their modulus does, and one too long in a part.
MCInputs ==
  Whole \cup [base : {<<3, 3, 3>>}, exponent : {<<3>>}, modulus : {<<1, 2, 3, 3>>}, absent : 1 .. 8]
        \cup [base : {<<1, 1, 1, 1, 1, 1, 1>>}, exponent : {<<1>>}, modulus : {<<3>>}, absent : {0}]
=============================================================================
