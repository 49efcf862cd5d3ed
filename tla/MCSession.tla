----------------------------- MODULE MCSession -----------------------------
(* Two worlds for Session. *)
EXTENDS Session, TLC

CONSTANTS empty, other
=============================================================================
