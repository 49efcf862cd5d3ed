----------------------------- MODULE CodeStore -----------------------------
(***************************************************************************)
(* What the code arena promises: every account has its own code, which     *)
(* changes only when it is set or the account is removed.                  *)
(***************************************************************************)
CONSTANTS Addr, Codes, Empty   \* Empty is one of Codes

VARIABLES exists,   \* accounts with a record
          codeOf    \* the code of every address, Empty without a record

storeVars == <<exists, codeOf>>

Init == exists = {} /\ codeOf = [a \in Addr |-> Empty]

Set(a, c) ==
  /\ codeOf' = [codeOf EXCEPT ![a] = c]
  /\ exists' = IF c = Empty THEN exists ELSE exists \cup {a}

Create(a) == exists' = exists \cup {a} /\ UNCHANGED codeOf

Remove(a) == exists' = exists \ {a} /\ codeOf' = [codeOf EXCEPT ![a] = Empty]

Next == \E a \in Addr : Create(a) \/ Remove(a) \/ \E c \in Codes : Set(a, c)

Spec == Init /\ [][Next]_storeVars
=============================================================================
