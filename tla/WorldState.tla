----------------------------- MODULE WorldState -----------------------------
(***************************************************************************)
(* The account database of ingots/evm/src/state.fe, as pure operators on a *)
(* world record.  The accounts table is a set of existing addresses with   *)
(* total balance, nonce and code maps, and the storage table a total map:  *)
(* a lookup of an absent key yields the table's default, zero or no code.  *)
(* The code arena is abstracted to the code each account holds.            *)
(***************************************************************************)
EXTENDS Naturals

CONSTANTS Addr,       \* account addresses
          Slots,      \* storage slots
          Words,      \* storage words
          NoCode,     \* the empty code
          Contracts   \* contract codes; a designator's code is the address it names

ASSUME WordsAssumption == Words \subseteq Nat /\ 0 \in Words
ASSUME CodeAssumption ==
  NoCode \notin Contracts /\ NoCode \notin Addr /\ Contracts \cap Addr = {}

Codes == {NoCode} \cup Contracts \cup Addr
EmptyStorage == [s \in Slots |-> 0]

exists(w, a) == a \in w.accounts
is_delegated(w, a) == w.code[a] \in Addr
has_storage(w, a) == w.storage[a] # EmptyStorage

\* EIP-161 emptiness; storage is no part of it and absent accounts are empty.
is_empty(w, a) == w.balance[a] = 0 /\ w.nonce[a] = 0 /\ w.code[a] = NoCode

\* EIP-684/EIP-7610: where a creation may deploy.
deployable(w, a) == w.nonce[a] = 0 /\ w.code[a] = NoCode /\ ~has_storage(w, a)

\* Writing the default to an absent account creates no account.
set_balance(w, a, v) ==
  IF a \notin w.accounts /\ v = 0 THEN w
  ELSE [w EXCEPT !.accounts = @ \cup {a}, !.balance[a] = v]

set_nonce(w, a, n) ==
  IF a \notin w.accounts /\ n = 0 THEN w
  ELSE [w EXCEPT !.accounts = @ \cup {a}, !.nonce[a] = n]

set_code(w, a, c) ==
  IF a \notin w.accounts /\ c = NoCode THEN w
  ELSE [w EXCEPT !.accounts = @ \cup {a}, !.code[a] = c]

\* A zero erases the entry; a nonzero word creates the account it belongs to.
storage_store(w, a, s, v) ==
  IF v = 0 THEN [w EXCEPT !.storage[a][s] = 0]
  ELSE [w EXCEPT !.accounts = @ \cup {a}, !.storage[a][s] = v]

\* The caller has restored every write that created the account.
remove_empty_account(w, a) == [w EXCEPT !.accounts = @ \ {a}]

\* The assertions of remove_empty_account and of its caller: the account is
\* empty, and there is a record to remove.
can_remove_empty(w, a) == is_empty(w, a) /\ a \in w.accounts

\* Mutant: deletes the records but leaves their code in place.
remove_accounts_but_code(w, gone) ==
  [w EXCEPT !.accounts = @ \ gone,
            !.balance = [a \in Addr |-> IF a \in gone THEN 0 ELSE w.balance[a]],
            !.nonce = [a \in Addr |-> IF a \in gone THEN 0 ELSE w.nonce[a]]]

\* Deletes the records of a set of accounts, with their code and storage.
remove_accounts(w, gone) ==
  [w EXCEPT !.accounts = @ \ gone,
            !.balance = [a \in Addr |-> IF a \in gone THEN 0 ELSE w.balance[a]],
            !.nonce = [a \in Addr |-> IF a \in gone THEN 0 ELSE w.nonce[a]],
            !.code = [a \in Addr |-> IF a \in gone THEN NoCode ELSE w.code[a]],
            !.storage = [a \in Addr |-> IF a \in gone THEN EmptyStorage ELSE w.storage[a]]]

\* Nothing is stored for an address without an account record.
AbsentIsEmpty(w) ==
  \A a \in Addr : a \notin w.accounts => is_empty(w, a) /\ ~has_storage(w, a)
=============================================================================
