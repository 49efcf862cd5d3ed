-------------------------- MODULE NestedSnapshots --------------------------
(***************************************************************************)
(* What a transaction promises its frames, free of any journal: opening a  *)
(* frame takes a copy of everything, reverting it puts the copy back at    *)
(* once, and aborting the transaction puts back the state it began from.   *)
(* While either goes on nothing else happens.                              *)
(***************************************************************************)
EXTENDS Naturals, Sequences

VARIABLES current,   \* state, access sets, logs, refund and the static flag
          saved,     \* the copies the open frames took, innermost last
          base,      \* the state to abort to
          mode       \* "open", "restoring" or "ended"

snapshotVars == <<current, saved, base, mode>>

Front(s) == SubSeq(s, 1, Len(s) - 1)

Init ==
  /\ saved = <<>> /\ base = current.state /\ mode = "open"
  /\ current.logs = <<>> /\ current.refund = 0 /\ ~current.static

\* Static frames may warm and touch, and nothing else.
Update ==
  /\ mode = "open" /\ mode' = mode
  /\ current'.static = current.static
  /\ current.static => /\ current'.state = current.state
                       /\ current'.logs = current.logs
                       /\ current'.refund = current.refund
  /\ UNCHANGED <<saved, base>>

\* A frame opened by a static one is static.
Open ==
  /\ mode = "open" /\ mode' = mode
  /\ saved' = Append(saved, current)
  /\ \E static \in BOOLEAN :
       current' = [current EXCEPT !.static = @ \/ static]
  /\ UNCHANGED base

Commit ==
  /\ mode = "open" /\ mode' = mode
  /\ saved # <<>> /\ saved' = Front(saved)
  /\ current' = [current EXCEPT !.static = saved[Len(saved)].static]
  /\ UNCHANGED base

Revert ==
  /\ mode = "open" /\ mode' = "restoring"
  /\ saved # <<>> /\ saved' = Front(saved)
  /\ current' = saved[Len(saved)]
  /\ UNCHANGED base

Resume == mode = "restoring" /\ mode' = "open" /\ UNCHANGED <<current, saved, base>>

Abort ==
  /\ mode = "open" /\ mode' = "ended"
  /\ saved = <<>>
  /\ current'.state = base /\ current'.logs = <<>>
  /\ UNCHANGED <<saved, base>>

\* Settlement gives the state to abort to up.
Settle ==
  /\ mode = "open" /\ mode' = "ended"
  /\ saved = <<>> /\ UNCHANGED saved /\ base' = current'.state

Next == Update \/ Open \/ Commit \/ Revert \/ Resume \/ Abort \/ Settle

Spec == Init /\ [][Next]_snapshotVars
=============================================================================
