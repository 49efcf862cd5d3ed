--------------------------- MODULE MCTransaction ---------------------------
(* Small instances of Transaction for TLC. *)
EXTENDS Transaction, TLC

CONSTANTS a1, a2, c1,
          PresentSets,   \* the accounts that exist at first
          AccountCodes, StoredWords   \* and what they hold

\* A world whose existing accounts hold a balance of 1, a code and storage words.
StartWorld(present, code, word) ==
  [accounts |-> present,
   balance |-> [a \in Addr |-> IF a \in present THEN 1 ELSE 0],
   nonce |-> [a \in Addr |-> IF a \in present /\ code # NoCode THEN 1 ELSE 0],
   code |-> [a \in Addr |-> IF a \in present THEN code ELSE NoCode],
   storage |-> [a \in Addr |-> [s \in Slots |-> IF a \in present THEN word ELSE 0]],
   transient |-> [a \in Addr |-> EmptyStorage],
   warmAccounts |-> {a1}, warmSlots |-> {}, touched |-> {}, doomed |-> {}]

MCPreStates ==
  {StartWorld(p, c, w) : p \in PresentSets, c \in AccountCodes, w \in StoredWords}
=============================================================================
