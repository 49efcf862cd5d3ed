------------------------- MODULE TransactionProofs -------------------------
(***************************************************************************)
(* The journal restores what it records, for every set of accounts, slots, *)
(* words and codes and for journals, logs and frame stacks of any length.  *)
(***************************************************************************)
EXTENDS Transaction, TLAPS, FiniteSetTheorems

(* Worlds *)

\* A mark keeps the type of the world (transaction.fe mark).
LEMMA InsertType ==
  ASSUME NEW w \in World, NEW kind \in SetKinds, NEW a \in Addr,
         NEW s \in Slots \cup {NoSlot}, kind = "WARM_STORAGE" => s \in Slots
  PROVE  insert(w, kind, a, s) \in World
<1>1. CASE kind = "WARM_ACCOUNT"
  BY <1>1 DEF World, insert
<1>2. CASE kind = "WARM_STORAGE"
  <2>1. <<a, s>> \in Addr \X Slots
    BY <1>2
  <2> QED BY <1>2, <2>1 DEF World, insert
<1>3. CASE kind = "TOUCHED"
  BY <1>3 DEF World, insert
<1>4. CASE kind = "DOOMED"
  BY <1>4 DEF World, insert
<1> QED BY <1>1, <1>2, <1>3, <1>4 DEF SetKinds

\* Taking a mark back restores the set it was added to.
LEMMA MarkUndone ==
  ASSUME NEW w \in World, NEW kind \in SetKinds, NEW a \in Addr,
         NEW s \in Slots \cup {NoSlot},
         ~marked(w, kind, a, s)
  PROVE  undone(change(kind, a, s, 0, TRUE), insert(w, kind, a, s)) = w
<1> DEFINE c == change(kind, a, s, 0, TRUE)
           v == insert(w, kind, a, s)
<1>1. undone(c, v) = restored(c, v)
  BY DEF undone, change, createdAccount
<1>2. CASE kind = "WARM_ACCOUNT"
  <2>1. restored(c, v) = [v EXCEPT !.warmAccounts = @ \ {a}]
    BY <1>2 DEF restored, change
  <2>2. v = [w EXCEPT !.warmAccounts = @ \cup {a}] /\ a \notin w.warmAccounts
    BY <1>2 DEF insert, marked
  <2>3. [[w EXCEPT !.warmAccounts = @ \cup {a}] EXCEPT !.warmAccounts = @ \ {a}] = w
    BY <2>2 DEF World
  <2> QED BY <1>1, <2>1, <2>2, <2>3
<1>3. CASE kind = "WARM_STORAGE"
  <2>1. restored(c, v) = [v EXCEPT !.warmSlots = @ \ {<<a, s>>}]
    BY <1>3 DEF restored, change
  <2>2. v = [w EXCEPT !.warmSlots = @ \cup {<<a, s>>}] /\ <<a, s>> \notin w.warmSlots
    BY <1>3 DEF insert, marked
  <2>3. [[w EXCEPT !.warmSlots = @ \cup {<<a, s>>}] EXCEPT !.warmSlots = @ \ {<<a, s>>}] = w
    BY <2>2 DEF World
  <2> QED BY <1>1, <2>1, <2>2, <2>3
<1>4. CASE kind = "TOUCHED"
  <2>1. restored(c, v) = [v EXCEPT !.touched = @ \ {a}]
    BY <1>4 DEF restored, change
  <2>2. v = [w EXCEPT !.touched = @ \cup {a}] /\ a \notin w.touched
    BY <1>4 DEF insert, marked
  <2>3. [[w EXCEPT !.touched = @ \cup {a}] EXCEPT !.touched = @ \ {a}] = w
    BY <2>2 DEF World
  <2> QED BY <1>1, <2>1, <2>2, <2>3
<1>5. CASE kind = "DOOMED"
  <2>1. restored(c, v) = [v EXCEPT !.doomed = @ \ {a}]
    BY <1>5 DEF restored, change
  <2>2. v = [w EXCEPT !.doomed = @ \cup {a}] /\ a \notin w.doomed
    BY <1>5 DEF insert, marked
  <2>3. [[w EXCEPT !.doomed = @ \cup {a}] EXCEPT !.doomed = @ \ {a}] = w
    BY <2>2 DEF World
  <2> QED BY <1>1, <2>1, <2>2, <2>3
<1> QED BY <1>2, <1>3, <1>4, <1>5 DEF SetKinds

-----------------------------------------------------------------------------
(* Changes *)

\* A change c that takes world v to w: undoing it on w brings back v, and the
\* undo's assertions hold unless it clears the delegation of an absent account.
Undoes(c, v, w) ==
  /\ c \in Change /\ w \in World /\ AbsentIsEmpty(w)
  /\ undone(c, w) = v
  /\ undo_panics(c, w) =>
       c.kind = "DELEGATION" /\ ~c.existed /\ ~exists(w, c.address)

\* Undoing a new mark restores the world: no assertion of the undo loop is in its way.
LEMMA MarkUndoes ==
  ASSUME NEW w \in World, AbsentIsEmpty(w), NEW kind \in SetKinds, NEW a \in Addr,
         NEW s \in Slots \cup {NoSlot}, kind = "WARM_STORAGE" => s \in Slots,
         ~marked(w, kind, a, s)
  PROVE  Undoes(change(kind, a, s, 0, TRUE), w, insert(w, kind, a, s))
<1> DEFINE c == change(kind, a, s, 0, TRUE)
           u == insert(w, kind, a, s)
<1>1. c \in Change /\ ~undo_panics(c, u)
  BY DEF change, Change, Kinds, undo_panics, createdAccount
<1>2. /\ u.accounts = w.accounts /\ u.balance = w.balance /\ u.nonce = w.nonce
      /\ u.code = w.code /\ u.storage = w.storage
  BY DEF insert, World, SetKinds
<1>3. AbsentIsEmpty(u)
  BY <1>2 DEF AbsentIsEmpty, is_empty, has_storage
<1> QED BY <1>1, <1>3, InsertType, MarkUndone DEF Undoes

\* Undoing a balance write restores the balance, and the absence of the account.
LEMMA BalanceUndoes ==
  ASSUME NEW w \in World, AbsentIsEmpty(w), NEW a \in Addr, NEW s \in Slots \cup {NoSlot},
         NEW v \in Nat, w.balance[a] # v
  PROVE  Undoes(change("BALANCE", a, s, w.balance[a], exists(w, a)), w, set_balance(w, a, v))
<1> DEFINE c == change("BALANCE", a, s, w.balance[a], exists(w, a))
           u == set_balance(w, a, v)
<1>1. c \in Change
  BY DEF change, Change, Kinds, AccountKinds, World, exists
<1>2. a \notin w.accounts => is_empty(w, a) /\ ~has_storage(w, a) /\ v # 0
  BY DEF AbsentIsEmpty, is_empty
<1>3. u = [w EXCEPT !.accounts = @ \cup {a}, !.balance[a] = v]
  BY <1>2 DEF set_balance
<1>4. u \in World /\ a \in u.accounts
  <2>1. [w EXCEPT !.accounts = @ \cup {a}, !.balance[a] = v] \in World
    BY DEF World
  <2>2. a \in [w EXCEPT !.accounts = @ \cup {a}, !.balance[a] = v].accounts
    BY DEF World
  <2> QED BY <1>3, <2>1, <2>2
<1>5. AbsentIsEmpty(u)
  <2>1. AbsentIsEmpty([w EXCEPT !.accounts = @ \cup {a}, !.balance[a] = v])
    BY DEF AbsentIsEmpty, is_empty, has_storage, World
  <2> QED BY <1>3, <2>1
<1>6. restored(c, u) = [u EXCEPT !.accounts = @ \cup {a}, !.balance[a] = w.balance[a]]
  <2>1. restored(c, u) = written(u, "BALANCE", a, s, w.balance[a])
    BY DEF restored, change
  <2>2. written(u, "BALANCE", a, s, w.balance[a]) = set_balance(u, a, w.balance[a])
    BY DEF written
  <2> HIDE DEF u
  <2> QED BY <1>4, <2>1, <2>2 DEF set_balance
<1>7. undone(c, u) = w /\ ~undo_panics(c, u)
  <2>1. CASE a \in w.accounts
    <3>1. ~createdAccount(c)
      BY <2>1 DEF createdAccount, change, exists
    <3> HIDE DEF c, u
    <3>2. [[w EXCEPT !.accounts = @ \cup {a}, !.balance[a] = v]
             EXCEPT !.accounts = @ \cup {a}, !.balance[a] = w.balance[a]] = w
      BY <2>1, ZenonT(60) DEF World
    <3>3. restored(c, u) = w
      BY <1>3, <1>6, <3>2
    <3> QED BY <3>1, <3>3 DEF undone, undo_panics
  <2>2. CASE a \notin w.accounts
    <3>1. createdAccount(c) /\ c.address = a
      BY <2>2 DEF createdAccount, change, exists, AccountKinds
    <3> HIDE DEF c, u
    <3>2. remove_empty_account(restored(c, u), a) = w
      <4>1. [[[w EXCEPT !.accounts = @ \cup {a}, !.balance[a] = v]
               EXCEPT !.accounts = @ \cup {a}, !.balance[a] = w.balance[a]]
               EXCEPT !.accounts = @ \ {a}] = w
        BY <2>2, ZenonT(60) DEF World
      <4> QED BY <1>3, <1>6, <4>1 DEF remove_empty_account
    <3>3. can_remove_empty(restored(c, u), a)
      <4>1. can_remove_empty([[w EXCEPT !.accounts = @ \cup {a}, !.balance[a] = v]
               EXCEPT !.accounts = @ \cup {a}, !.balance[a] = w.balance[a]], a)
        BY <1>2, <2>2 DEF World, can_remove_empty, is_empty
      <4> QED BY <1>3, <1>6, <4>1
    <3> QED BY <3>1, <3>2, <3>3 DEF undone, undo_panics
  <2> QED BY <2>1, <2>2
<1> QED BY <1>1, <1>4, <1>5, <1>7 DEF Undoes

\* Undoing a nonce write restores the nonce, and the absence of the account.
LEMMA NonceUndoes ==
  ASSUME NEW w \in World, AbsentIsEmpty(w), NEW a \in Addr, NEW s \in Slots \cup {NoSlot},
         NEW v \in Nat, w.nonce[a] # v
  PROVE  Undoes(change("NONCE", a, s, w.nonce[a], exists(w, a)), w, set_nonce(w, a, v))
<1> DEFINE c == change("NONCE", a, s, w.nonce[a], exists(w, a))
           u == set_nonce(w, a, v)
<1>1. c \in Change
  BY DEF change, Change, Kinds, AccountKinds, World, exists
<1>2. a \notin w.accounts => is_empty(w, a) /\ ~has_storage(w, a) /\ v # 0
  BY DEF AbsentIsEmpty, is_empty
<1>3. u = [w EXCEPT !.accounts = @ \cup {a}, !.nonce[a] = v]
  BY <1>2 DEF set_nonce
<1>4. u \in World /\ a \in u.accounts
  <2>1. [w EXCEPT !.accounts = @ \cup {a}, !.nonce[a] = v] \in World
    BY DEF World
  <2>2. a \in [w EXCEPT !.accounts = @ \cup {a}, !.nonce[a] = v].accounts
    BY DEF World
  <2> QED BY <1>3, <2>1, <2>2
<1>5. AbsentIsEmpty(u)
  <2>1. AbsentIsEmpty([w EXCEPT !.accounts = @ \cup {a}, !.nonce[a] = v])
    BY DEF AbsentIsEmpty, is_empty, has_storage, World
  <2> QED BY <1>3, <2>1
<1>6. restored(c, u) = [u EXCEPT !.accounts = @ \cup {a}, !.nonce[a] = w.nonce[a]]
  <2>1. restored(c, u) = written(u, "NONCE", a, s, w.nonce[a])
    BY DEF restored, change
  <2>2. written(u, "NONCE", a, s, w.nonce[a]) = set_nonce(u, a, w.nonce[a])
    BY DEF written
  <2> HIDE DEF u
  <2> QED BY <1>4, <2>1, <2>2 DEF set_nonce
<1>7. undone(c, u) = w /\ ~undo_panics(c, u)
  <2>1. CASE a \in w.accounts
    <3>1. ~createdAccount(c)
      BY <2>1 DEF createdAccount, change, exists
    <3> HIDE DEF c, u
    <3>2. [[w EXCEPT !.accounts = @ \cup {a}, !.nonce[a] = v]
             EXCEPT !.accounts = @ \cup {a}, !.nonce[a] = w.nonce[a]] = w
      BY <2>1, ZenonT(60) DEF World
    <3>3. restored(c, u) = w
      BY <1>3, <1>6, <3>2
    <3> QED BY <3>1, <3>3 DEF undone, undo_panics
  <2>2. CASE a \notin w.accounts
    <3>1. createdAccount(c) /\ c.address = a
      BY <2>2 DEF createdAccount, change, exists, AccountKinds
    <3> HIDE DEF c, u
    <3>2. remove_empty_account(restored(c, u), a) = w
      <4>1. [[[w EXCEPT !.accounts = @ \cup {a}, !.nonce[a] = v]
               EXCEPT !.accounts = @ \cup {a}, !.nonce[a] = w.nonce[a]]
               EXCEPT !.accounts = @ \ {a}] = w
        BY <2>2, ZenonT(60) DEF World
      <4> QED BY <1>3, <1>6, <4>1 DEF remove_empty_account
    <3>3. can_remove_empty(restored(c, u), a)
      <4>1. can_remove_empty([[w EXCEPT !.accounts = @ \cup {a}, !.nonce[a] = v]
               EXCEPT !.accounts = @ \cup {a}, !.nonce[a] = w.nonce[a]], a)
        BY <1>2, <2>2 DEF World, can_remove_empty, is_empty
      <4> QED BY <1>3, <1>6, <4>1
    <3> QED BY <3>1, <3>2, <3>3 DEF undone, undo_panics
  <2> QED BY <2>1, <2>2
<1> QED BY <1>1, <1>4, <1>5, <1>7 DEF Undoes

\* Edits of a world's account set alone, or together with one word or code.
withAccounts(w, A) == [w EXCEPT !.accounts = A]
withStorage(w, A, a, s, v) == [w EXCEPT !.accounts = A, !.storage[a][s] = v]
withCode(w, A, a, code) == [w EXCEPT !.accounts = A, !.code[a] = code]

\* How the parts of a world read after a storage word and its account are written.
LEMMA StorageEdit ==
  ASSUME NEW w \in World, NEW A \in SUBSET Addr, NEW B \in SUBSET Addr,
         NEW a \in Addr, NEW s \in Slots, NEW v \in Words
  PROVE  /\ withStorage(w, A, a, s, v) \in World
         /\ withStorage(withStorage(w, A, a, s, v), B, a, s, w.storage[a][s])
            = withAccounts(w, B)
<1>1. withStorage(w, A, a, s, v) \in World
  BY DEF World, Storage, withStorage
<1>2. [[w.storage EXCEPT ![a][s] = v] EXCEPT ![a][s] = w.storage[a][s]] = w.storage
  BY DEF World, Storage
<1>3. [[w EXCEPT !.accounts = A, !.storage = [w.storage EXCEPT ![a][s] = v]]
               EXCEPT !.accounts = B, !.storage = [@ EXCEPT ![a][s] = w.storage[a][s]]]
            = [w EXCEPT !.accounts = B]
  BY <1>2 DEF World
<1> QED BY <1>1, <1>3 DEF withStorage, withAccounts

\* How a world reads after only its set of accounts is written.
LEMMA AccountsEdit ==
  ASSUME NEW w \in World, NEW A \in SUBSET Addr, NEW a \in Addr
  PROVE  /\ withAccounts(w, A).accounts = A
         /\ withAccounts(w, w.accounts) = w
         /\ remove_empty_account(withAccounts(w, A), a) = withAccounts(w, A \ {a})
         /\ can_remove_empty(withAccounts(w, A), a) <=> is_empty(w, a) /\ a \in A
<1>1. withAccounts(w, A).accounts = A
  BY DEF World, withAccounts
<1>2. withAccounts(w, w.accounts) = w
  BY DEF World, withAccounts
<1>3. remove_empty_account(withAccounts(w, A), a) = withAccounts(w, A \ {a})
  BY DEF World, withAccounts, remove_empty_account
<1>4. can_remove_empty(withAccounts(w, A), a) <=> is_empty(w, a) /\ a \in A
  BY DEF World, withAccounts, can_remove_empty, is_empty
<1> QED BY <1>1, <1>2, <1>3, <1>4

\* Undoing a storage write restores the word, and the absence of the account.
LEMMA StorageUndoes ==
  ASSUME NEW w \in World, AbsentIsEmpty(w), NEW a \in Addr, NEW s \in Slots,
         NEW v \in Words, w.storage[a][s] # v
  PROVE  Undoes(change("STORAGE", a, s, w.storage[a][s], exists(w, a)), w,
                storage_store(w, a, s, v))
<1> DEFINE previous == w.storage[a][s]
           c == change("STORAGE", a, s, previous, exists(w, a))
           u == storage_store(w, a, s, v)
           A == IF v = 0 THEN w.accounts ELSE w.accounts \cup {a}
           B == IF previous = 0 THEN A ELSE A \cup {a}
<1>1. previous \in Words /\ previous \in Nat
  BY WordsAssumption, ZenonT(60) DEF World, Storage
<1>2. c \in Change
  BY <1>1 DEF change, Change, Kinds, AccountKinds, exists
<1>3. a \notin w.accounts => is_empty(w, a) /\ previous = 0 /\ v # 0
  BY DEF AbsentIsEmpty, has_storage, EmptyStorage
<1>4. A \in SUBSET Addr /\ B \in SUBSET Addr
  BY DEF World
<1>5. u = withStorage(w, A, a, s, v)
  <2>1. CASE v = 0
    <3>1. [w EXCEPT !.storage[a][s] = 0] = [w EXCEPT !.accounts = w.accounts, !.storage[a][s] = 0]
      BY DEF World
    <3> QED BY <2>1, <3>1 DEF storage_store, withStorage
  <2>2. CASE v # 0
    BY <2>2 DEF storage_store, withStorage
  <2> QED BY <2>1, <2>2
<1>6. u \in World
  <2> HIDE DEF A, u
  <2>1. withStorage(w, A, a, s, v) \in World
    BY <1>4, StorageEdit
  <2> QED BY <1>5, <2>1
<1>7. AbsentIsEmpty(u)
  <2>1. ASSUME NEW b \in Addr, b \notin A
        PROVE  /\ is_empty(withStorage(w, A, a, s, v), b)
               /\ ~has_storage(withStorage(w, A, a, s, v), b)
    <3>1. b \notin w.accounts /\ b # a
      BY <1>3, <2>1
    <3>2. is_empty(w, b) /\ ~has_storage(w, b)
      BY <3>1 DEF AbsentIsEmpty
    <3> QED BY <3>1, <3>2 DEF is_empty, has_storage, World, withStorage
  <2>2. withStorage(w, A, a, s, v).accounts = A
    BY DEF World, withStorage
  <2> QED BY <1>5, <2>1, <2>2 DEF AbsentIsEmpty
<1>8. restored(c, u) = withAccounts(w, B)
  <2>1. restored(c, u) = storage_store(u, a, s, previous)
    BY DEF restored, change, written
  <2>2. u.accounts = A
    <3>1. withStorage(w, A, a, s, v).accounts = A
      BY DEF World, withStorage
    <3> QED BY <1>5, <3>1
  <2>3. storage_store(u, a, s, previous) = withStorage(u, B, a, s, previous)
    <3> HIDE DEF u, A
    <3>1. CASE previous = 0
      <4>1. [u EXCEPT !.storage[a][s] = 0] = [u EXCEPT !.accounts = u.accounts, !.storage[a][s] = 0]
        BY <1>6 DEF World
      <4> QED BY <2>2, <3>1, <4>1 DEF storage_store, withStorage
    <3>2. CASE previous # 0
      <4> HIDE DEF previous
      <4>1. B = u.accounts \cup {a}
        BY <2>2, <3>2
      <4> QED BY <3>2, <4>1 DEF storage_store, withStorage
    <3> QED BY <3>1, <3>2
  <2>4. withStorage(withStorage(w, A, a, s, v), B, a, s, w.storage[a][s]) = withAccounts(w, B)
    <3> HIDE DEF A, B
    <3> QED BY <1>4, StorageEdit
  <2> HIDE DEF u, A, B
  <2> QED BY <1>5, <2>1, <2>3, <2>4
<1>9. undone(c, u) = w /\ ~undo_panics(c, u)
  <2>1. CASE a \in w.accounts
    <3>1. B = w.accounts /\ ~createdAccount(c)
      BY <2>1 DEF createdAccount, change, exists
    <3> HIDE DEF c, u, B
    <3> QED BY <1>8, <3>1, AccountsEdit DEF undone, undo_panics
  <2>2. CASE a \notin w.accounts
    <3>1. createdAccount(c) /\ c.address = a
      BY <2>2 DEF createdAccount, change, exists, AccountKinds
    <3>2. B \ {a} = w.accounts /\ a \in B
      BY <1>3, <2>2
    <3> HIDE DEF c, u, B
    <3>3. remove_empty_account(restored(c, u), a) = w
      BY <1>4, <1>8, <3>2, AccountsEdit
    <3>4. can_remove_empty(restored(c, u), a)
      BY <1>3, <1>4, <1>8, <2>2, <3>2, AccountsEdit
    <3> QED BY <3>1, <3>3, <3>4 DEF undone, undo_panics
  <2> QED BY <2>1, <2>2
<1> QED BY <1>2, <1>6, <1>7, <1>9 DEF Undoes

\* Undoing a transient write restores the word; no account comes into it.
LEMMA TransientUndoes ==
  ASSUME NEW w \in World, AbsentIsEmpty(w), NEW a \in Addr, NEW s \in Slots,
         NEW v \in Words, w.transient[a][s] # v
  PROVE  Undoes(change("TRANSIENT", a, s, w.transient[a][s], exists(w, a)), w,
                [w EXCEPT !.transient[a][s] = v])
<1> DEFINE c == change("TRANSIENT", a, s, w.transient[a][s], exists(w, a))
           u == [w EXCEPT !.transient[a][s] = v]
<1>1. w.transient[a][s] \in Nat
  <2>1. w.transient[a][s] \in Words
    BY DEF World, Storage
  <2> QED BY <2>1, WordsAssumption
<1>2. c \in Change /\ ~createdAccount(c)
  BY <1>1 DEF change, Change, Kinds, AccountKinds, exists, createdAccount
<1>3. u \in World /\ AbsentIsEmpty(u)
  BY DEF World, Storage, AbsentIsEmpty, is_empty, has_storage
<1>4. restored(c, u) = [[w EXCEPT !.transient[a][s] = v] EXCEPT !.transient[a][s] = w.transient[a][s]]
  BY DEF restored, change, written
<1>5. [[w EXCEPT !.transient[a][s] = v] EXCEPT !.transient[a][s] = w.transient[a][s]] = w
  BY DEF World, Storage
<1>6. restored(c, u) = w
  BY <1>4, <1>5
<1> QED BY <1>2, <1>3, <1>6 DEF Undoes, undone, undo_panics

\* How the parts of a world read after an account and its code are written.
LEMMA CodeEdit ==
  ASSUME NEW w \in World, NEW A \in SUBSET Addr, NEW B \in SUBSET Addr,
         NEW a \in Addr, NEW code \in Codes
  PROVE  /\ withCode(w, A, a, code) \in World
         /\ withCode(w, A, a, code).accounts = A
         /\ withCode(withCode(w, A, a, code), B, a, w.code[a])
            = withAccounts(w, B)
<1>1. withCode(w, A, a, code) \in World
  BY DEF World, withCode
<1>2. withCode(w, A, a, code).accounts = A
  BY DEF World, withCode
<1>3. [[w EXCEPT !.accounts = A, !.code[a] = code]
           EXCEPT !.accounts = B, !.code[a] = w.code[a]] = [w EXCEPT !.accounts = B]
  BY DEF World
<1> QED BY <1>1, <1>2, <1>3 DEF withCode, withAccounts

\* Code changes: a deployment on an existing account without code, and a
\* delegation on an account with none or a designator.  Clearing the delegation
\* of an absent account writes nothing, so there is no account to remove again.
LEMMA CodeUndoes ==
  ASSUME NEW w \in World, AbsentIsEmpty(w), NEW a \in Addr, NEW code \in Codes,
         NEW kind \in {"CODE", "DELEGATION"},
         kind = "CODE" => w.code[a] = NoCode /\ exists(w, a)
  PROVE  Undoes(change(kind, a, NoSlot, w.code[a], exists(w, a)), w, set_code(w, a, code))
<1> DEFINE previous == w.code[a]
           c == change(kind, a, NoSlot, previous, exists(w, a))
           A == w.accounts \cup {a}
           u == withCode(w, A, a, code)
<1> SUFFICES Undoes(c, w, set_code(w, a, code))
  OBVIOUS
<1>1. c \in Change
  BY DEF change, Change, Kinds, AccountKinds, World, exists
<1>2. A \in SUBSET Addr /\ u \in World /\ u.accounts = A
  <2>1. A \in SUBSET Addr
    BY DEF World
  <2> HIDE DEF A
  <2> QED BY <2>1, CodeEdit
<1>3. AbsentIsEmpty(u)
  BY DEF World, AbsentIsEmpty, is_empty, has_storage, withCode
<1>4. restored(c, u) = withAccounts(w, A)
  <2>1. restored(c, u) = set_code(u, a, previous)
    BY DEF restored, change
  <2>2. set_code(u, a, previous) = withCode(u, u.accounts \cup {a}, a, previous)
    <3> HIDE DEF u
    <3> QED BY <1>2 DEF set_code, withCode
  <2>3. u.accounts \cup {a} = A
    BY <1>2
  <2>4. withCode(u, A, a, previous) = withAccounts(w, A)
    <3> HIDE DEF A
    <3> QED BY <1>2, CodeEdit
  <2> QED BY <2>1, <2>2, <2>3, <2>4
<1>5. CASE a \in w.accounts
  <2>1. set_code(w, a, code) = u
    BY <1>5 DEF set_code, withCode
  <2>2. A = w.accounts /\ ~createdAccount(c)
    BY <1>5 DEF createdAccount, change, exists
  <2> HIDE DEF c, u, A
  <2>3. restored(c, u) = w
    BY <1>4, <2>2, AccountsEdit DEF A
  <2> QED BY <1>1, <1>2, <1>3, <2>1, <2>2, <2>3 DEF Undoes, undone, undo_panics
<1>6. CASE a \notin w.accounts
  <2>1. kind = "DELEGATION" /\ previous = NoCode /\ is_empty(w, a)
    BY <1>6 DEF AbsentIsEmpty, exists, is_empty
  <2>2. createdAccount(c) /\ c.kind = "DELEGATION" /\ ~c.existed /\ c.address = a
    BY <1>6, <2>1 DEF createdAccount, change, exists, AccountKinds
  <2>3. CASE code = NoCode
    <3>1. set_code(w, a, code) = w
      BY <1>6, <2>3 DEF set_code
    <3>2. restored(c, w) = w
      BY <1>6, <2>1 DEF restored, change, set_code
    <3> HIDE DEF c
    <3>3. remove_empty_account(w, a) = w
      <4>1. withAccounts(w, w.accounts \ {a}) = w
        BY <1>6 DEF World, withAccounts
      <4> QED BY <4>1 DEF remove_empty_account, withAccounts
    <3> QED BY <1>1, <1>6, <2>2, <3>1, <3>2, <3>3 DEF Undoes, undone, exists
  <2>4. CASE code # NoCode
    <3>1. set_code(w, a, code) = u
      BY <2>4 DEF set_code, withCode
    <3>2. A \ {a} = w.accounts /\ a \in A
      BY <1>6
    <3> HIDE DEF c, u, A
    <3>3. remove_empty_account(restored(c, u), a) = w
      BY <1>2, <1>4, <3>2, AccountsEdit
    <3>4. can_remove_empty(restored(c, u), a)
      BY <1>2, <1>4, <2>1, <3>2, AccountsEdit
    <3>5. undone(c, u) = w /\ ~undo_panics(c, u)
      BY <2>2, <3>3, <3>4 DEF undone, undo_panics
    <3> QED BY <1>1, <1>2, <1>3, <3>1, <3>5 DEF Undoes
  <2> QED BY <2>3, <2>4
<1> QED BY <1>5, <1>6

-----------------------------------------------------------------------------
(* Ledgers *)

WellFormed(L) == L \in Ledger /\ Len(L.before) = Len(L.journal)

\* Every change undoes, from an absent-is-empty world to the one before it.
Restorable(L) ==
  /\ WellFormed(L) /\ AbsentIsEmpty(L.world)
  /\ \A k \in 1..Len(L.journal) :
       /\ AbsentIsEmpty(At(L, k - 1))
       /\ Undoes(L.journal[k], At(L, k - 1), At(L, k))

\* M has all of L's changes, made from the same worlds.
Extends(L, M) ==
  /\ Len(L.journal) <= Len(M.journal)
  /\ \A k \in 0..Len(L.journal) : At(M, k) = At(L, k)

\* Every point of the journal has a world.
LEMMA AtWorld ==
  ASSUME NEW L, WellFormed(L), NEW k \in 0..Len(L.journal)
  PROVE  At(L, k) \in World
  BY DEF WellFormed, Ledger, At

\* A ledger extends itself.
LEMMA ExtendsRefl ==
  ASSUME NEW L, WellFormed(L)
  PROVE  Extends(L, L)
  BY DEF Extends, WellFormed, Ledger

\* Extensions of a ledger compose.
LEMMA ExtendsTrans ==
  ASSUME NEW L, NEW M, NEW N, WellFormed(L), WellFormed(M), WellFormed(N),
         Extends(L, M), Extends(M, N)
  PROVE  Extends(L, N)
<1>1. Len(L.journal) \in Nat /\ Len(M.journal) \in Nat /\ Len(N.journal) \in Nat
  BY DEF WellFormed, Ledger
<1> QED BY <1>1 DEF Extends

\* Appending a change keeps the ledger well formed and its earlier worlds.
LEMMA RecordExtends ==
  ASSUME NEW L, WellFormed(L), NEW c \in Change, NEW w \in World
  PROVE  /\ WellFormed(Record(L, c, w))
         /\ Extends(L, Record(L, c, w))
         /\ Len(Record(L, c, w).journal) = Len(L.journal) + 1
         /\ Record(L, c, w).world = w
         /\ Record(L, c, w).journal[Len(L.journal) + 1] = c
         /\ \A k \in 1..Len(L.journal) : Record(L, c, w).journal[k] = L.journal[k]
         /\ At(Record(L, c, w), Len(L.journal) + 1) = w
<1> DEFINE M == Record(L, c, w)
           n == Len(L.journal)
<1>1. /\ L.journal \in Seq(Change) /\ L.before \in Seq(World) /\ L.world \in World
      /\ n \in Nat /\ Len(L.before) = n
  BY DEF WellFormed, Ledger
<1>2. /\ M.journal = Append(L.journal, c) /\ M.before = Append(L.before, L.world)
      /\ M.world = w
  BY DEF Record
<1>3. WellFormed(M)
  BY <1>1 DEF Record, WellFormed, Ledger
<1>4. /\ Len(M.journal) = n + 1 /\ M.journal[n + 1] = c
      /\ \A k \in 1..n : M.journal[k] = L.journal[k]
  BY <1>1, <1>2
<1>5. \A k \in 1..n : M.before[k] = L.before[k]
  BY <1>1, <1>2
<1>6. M.before[n + 1] = L.world
  BY <1>1, <1>2
<1> HIDE DEF M, n
<1>7. ASSUME NEW k \in 0..n PROVE At(M, k) = At(L, k)
  <2>1. CASE k < n
    <3>1. k + 1 \in 1..n /\ k < n + 1
      BY <1>1, <2>1
    <3> QED BY <1>4, <1>5, <2>1, <3>1 DEF At, n
  <2>2. CASE k = n
    BY <1>1, <1>4, <1>6, <2>2 DEF At, n
  <2> QED BY <1>1, <2>1, <2>2
<1>8. At(M, n + 1) = w
  BY <1>1, <1>2, <1>4 DEF At
<1> QED BY <1>1, <1>2, <1>3, <1>4, <1>7, <1>8 DEF Extends, M, n

\* Appending a change that its undo takes back keeps the ledger restorable.
LEMMA RecordRestorable ==
  ASSUME NEW L, Restorable(L), NEW c, NEW w, Undoes(c, L.world, w)
  PROVE  /\ Restorable(Record(L, c, w)) /\ Extends(L, Record(L, c, w))
         /\ Record(L, c, w).world = w
<1> DEFINE M == Record(L, c, w)
           n == Len(L.journal)
<1>1. c \in Change /\ w \in World /\ AbsentIsEmpty(w) /\ WellFormed(L)
  BY DEF Undoes, Restorable
<1>2. /\ WellFormed(M) /\ Extends(L, M) /\ Len(M.journal) = n + 1 /\ M.world = w
      /\ M.journal[n + 1] = c /\ \A k \in 1..n : M.journal[k] = L.journal[k]
      /\ At(M, n + 1) = w
  BY <1>1, RecordExtends
<1>3. n \in Nat /\ At(L, n) = L.world
  BY <1>1 DEF WellFormed, Ledger, At
<1> HIDE DEF M
<1>4. ASSUME NEW k \in 1..Len(M.journal)
      PROVE  AbsentIsEmpty(At(M, k - 1)) /\ Undoes(M.journal[k], At(M, k - 1), At(M, k))
  <2>1. CASE k = n + 1
    <3>1. At(M, k - 1) = L.world
      BY <1>2, <1>3, <2>1 DEF Extends
    <3> QED BY <1>2, <1>3, <2>1, <3>1 DEF Restorable
  <2>2. CASE k \in 1..n
    <3>1. At(M, k - 1) = At(L, k - 1) /\ At(M, k) = At(L, k)
      BY <1>2, <1>3, <2>2 DEF Extends
    <3> QED BY <1>2, <2>2, <3>1 DEF Restorable
  <2> QED BY <1>2, <1>3, <2>1, <2>2
<1> QED BY <1>1, <1>2, <1>4 DEF Restorable, M

\* Undoing the last change gives back the ledger as it was before it.
LEMMA UndoRestorable ==
  ASSUME NEW L, Restorable(L), Len(L.journal) > 0
  PROVE  /\ Restorable(undo(L)) /\ Len(undo(L).journal) = Len(L.journal) - 1
         /\ Extends(undo(L), L)
<1> DEFINE M == undo(L)
           n == Len(L.journal)
<1>1. /\ L.journal \in Seq(Change) /\ L.before \in Seq(World) /\ L.world \in World
      /\ n \in Nat /\ n > 0 /\ Len(L.before) = n
  BY DEF Restorable, WellFormed, Ledger
<1>2. /\ M.journal = SubSeq(L.journal, 1, n - 1) /\ M.before = SubSeq(L.before, 1, n - 1)
      /\ M.world = undone(L.journal[n], L.world)
  BY DEF undo
<1>3. /\ Len(M.journal) = n - 1 /\ Len(M.before) = n - 1
      /\ M.journal \in Seq(Change) /\ M.before \in Seq(World)
      /\ \A k \in 1..n - 1 : M.journal[k] = L.journal[k] /\ M.before[k] = L.before[k]
  BY <1>1, <1>2
<1>4. At(L, n) = L.world /\ At(L, n - 1) = L.before[n] /\ n \in 1..n
  BY <1>1 DEF At
<1>5. M.world = At(L, n - 1) /\ AbsentIsEmpty(M.world)
  BY <1>2, <1>4 DEF Restorable, Undoes
<1>6. M.world \in World
  BY <1>1, <1>4, <1>5
<1>7. WellFormed(M)
  BY <1>3, <1>6 DEF WellFormed, Ledger, undo
<1> HIDE DEF M, n
<1>8. ASSUME NEW k \in 0..n - 1 PROVE At(L, k) = At(M, k)
  <2>1. CASE k < n - 1
    <3>1. k + 1 \in 1..n - 1 /\ k < n
      BY <1>1, <2>1
    <3> QED BY <1>3, <2>1, <3>1 DEF At, n
  <2>2. CASE k = n - 1
    BY <1>1, <1>3, <1>5, <2>2 DEF At, n
  <2> QED BY <1>1, <2>1, <2>2
<1>9. ASSUME NEW k \in 1..n - 1
      PROVE  AbsentIsEmpty(At(M, k - 1)) /\ Undoes(M.journal[k], At(M, k - 1), At(M, k))
  <2>1. At(M, k - 1) = At(L, k - 1) /\ At(M, k) = At(L, k)
    BY <1>1, <1>8
  <2>2. k \in 1..n
    BY <1>1
  <2> QED BY <1>3, <2>1, <2>2 DEF Restorable, n
<1> QED BY <1>1, <1>3, <1>5, <1>7, <1>8, <1>9 DEF Restorable, Extends, M, n

-----------------------------------------------------------------------------
(* Operations *)

Statuses == {OK, ERR_STATIC_WRITE, ERR_HOST_ALLOCATION}

\* An outcome of an operation on L: every change it made can be undone.
Keeps(L, o) == Restorable(o[1]) /\ Extends(L, o[1]) /\ o[2] \in Statuses

\* An operation that may fail in the middle keeps the ledger restorable either way.
LEMMA OutcomesKeep ==
  ASSUME NEW L, Restorable(L), NEW M, Restorable(M), Extends(L, M),
         NEW o \in Outcomes(L, M)
  PROVE  Keeps(L, o)
<1>1. Extends(L, L)
  BY ExtendsRefl DEF Restorable
<1>2. o = <<M, OK>> \/ o = <<L, ERR_HOST_ALLOCATION>>
  BY DEF Outcomes
<1> QED BY <1>1, <1>2 DEF Keeps, Statuses

\* So do marks, whose entry goes again when the insertion cannot allocate.
LEMMA MarkKeeps ==
  ASSUME NEW L, Restorable(L), NEW kind \in SetKinds, NEW a \in Addr,
         NEW s \in Slots \cup {NoSlot}, kind = "WARM_STORAGE" => s \in Slots,
         NEW o \in MarkOutcomes(L, kind, a, s)
  PROVE  Keeps(L, o)
<1>1. L.world \in World /\ AbsentIsEmpty(L.world) /\ Extends(L, L)
  BY ExtendsRefl DEF Restorable, WellFormed, Ledger
<1>2. CASE marked(L.world, kind, a, s)
  BY <1>1, <1>2, OutcomesKeep DEF MarkOutcomes, mark
<1>3. CASE ~marked(L.world, kind, a, s)
  <2> DEFINE c == change(kind, a, s, 0, TRUE)
             w == insert(L.world, kind, a, s)
  <2>1. Undoes(c, L.world, w)
    BY <1>1, <1>3, MarkUndoes
  <2>2. mark(L, kind, a, s) = Record(L, c, w)
    BY <1>3 DEF mark
  <2> HIDE DEF c, w
  <2>3. Restorable(Record(L, c, w)) /\ Extends(L, Record(L, c, w))
    BY <2>1, RecordRestorable
  <2> QED BY <2>2, <2>3, OutcomesKeep DEF MarkOutcomes
<1> QED BY <1>2, <1>3

\* The kinds write takes, with a slot and a value of their type.
WriteArgs(kind, s, v) ==
  \/ kind \in {"BALANCE", "NONCE"} /\ s \in Slots \cup {NoSlot} /\ v \in Nat
  \/ kind \in {"STORAGE", "TRANSIENT"} /\ s \in Slots /\ v \in Words

\* Whatever Transaction.write changes, its undo restores.
LEMMA WriteUndoes ==
  ASSUME NEW w \in World, AbsentIsEmpty(w), NEW kind, NEW a \in Addr, NEW s, NEW v,
         WriteArgs(kind, s, v), previousOf(w, kind, a, s) # v
  PROVE  Undoes(change(kind, a, s, previousOf(w, kind, a, s), exists(w, a)), w,
                written(w, kind, a, s, v))
<1>1. CASE kind = "BALANCE"
  <2>1. previousOf(w, kind, a, s) = w.balance[a] /\ written(w, kind, a, s, v) = set_balance(w, a, v)
    BY <1>1 DEF previousOf, written
  <2>2. v \in Nat /\ s \in Slots \cup {NoSlot} /\ w.balance[a] # v
    BY <1>1, <2>1 DEF WriteArgs
  <2> QED BY <1>1, <2>1, <2>2, BalanceUndoes
<1>2. CASE kind = "NONCE"
  <2>1. previousOf(w, kind, a, s) = w.nonce[a] /\ written(w, kind, a, s, v) = set_nonce(w, a, v)
    BY <1>2 DEF previousOf, written
  <2>2. v \in Nat /\ s \in Slots \cup {NoSlot} /\ w.nonce[a] # v
    BY <1>2, <2>1 DEF WriteArgs
  <2> QED BY <1>2, <2>1, <2>2, NonceUndoes
<1>3. CASE kind = "STORAGE"
  <2>1. /\ previousOf(w, kind, a, s) = w.storage[a][s]
        /\ written(w, kind, a, s, v) = storage_store(w, a, s, v)
    BY <1>3 DEF previousOf, written
  <2>2. v \in Words /\ s \in Slots /\ w.storage[a][s] # v
    BY <1>3, <2>1 DEF WriteArgs
  <2> QED BY <1>3, <2>1, <2>2, StorageUndoes
<1>4. CASE kind = "TRANSIENT"
  <2>1. /\ previousOf(w, kind, a, s) = w.transient[a][s]
        /\ written(w, kind, a, s, v) = [w EXCEPT !.transient[a][s] = v]
    BY <1>4 DEF previousOf, written
  <2>2. v \in Words /\ s \in Slots /\ w.transient[a][s] # v
    BY <1>4, <2>1 DEF WriteArgs
  <2>3. Undoes(change("TRANSIENT", a, s, w.transient[a][s], exists(w, a)), w,
               [w EXCEPT !.transient[a][s] = v])
    BY <2>2, TransientUndoes
  <2> QED BY <1>4, <2>1, <2>3
<1> QED BY <1>1, <1>2, <1>3, <1>4 DEF WriteArgs

\* Transaction.write keeps the ledger restorable, refused and failing writes included.
LEMMA WriteKeeps ==
  ASSUME NEW L, Restorable(L), NEW kind, NEW a \in Addr, NEW s, NEW v,
         WriteArgs(kind, s, v), NEW o \in WriteOutcomes(L, kind, a, s, v)
  PROVE  Keeps(L, o)
<1>1. L.world \in World /\ AbsentIsEmpty(L.world) /\ Extends(L, L)
  BY ExtendsRefl DEF Restorable, WellFormed, Ledger
<1>2. CASE isStatic
  BY <1>1, <1>2 DEF WriteOutcomes, Keeps, Statuses
<1>3. CASE ~isStatic
  <2>1. o \in Outcomes(L, write(L, kind, a, s, v))
    BY <1>3 DEF WriteOutcomes
  <2>2. CASE previousOf(L.world, kind, a, s) = v
    BY <1>1, <2>1, <2>2, OutcomesKeep DEF write
  <2>3. CASE previousOf(L.world, kind, a, s) # v
    <3> DEFINE c == change(kind, a, s, previousOf(L.world, kind, a, s), exists(L.world, a))
               w == written(L.world, kind, a, s, v)
    <3>1. Undoes(c, L.world, w)
      BY <1>1, <2>3, WriteUndoes
    <3>2. write(L, kind, a, s, v) = Record(L, c, w)
      BY <2>3 DEF write
    <3> HIDE DEF c, w
    <3>3. Restorable(Record(L, c, w)) /\ Extends(L, Record(L, c, w))
      BY <3>1, RecordRestorable
    <3> QED BY <2>1, <3>2, <3>3, OutcomesKeep
  <2> QED BY <2>2, <2>3
<1> QED BY <1>2, <1>3

\* Journaling a code change keeps the ledger restorable.
LEMMA CodeKeeps ==
  ASSUME NEW L, Restorable(L), NEW kind \in {"CODE", "DELEGATION"}, NEW a \in Addr,
         NEW c \in Codes, kind = "CODE" => L.world.code[a] = NoCode /\ exists(L.world, a)
  PROVE  Restorable(record_code(L, kind, a, c)) /\ Extends(L, record_code(L, kind, a, c))
<1>1. L.world \in World /\ AbsentIsEmpty(L.world)
  BY DEF Restorable, WellFormed, Ledger
<1> DEFINE d == change(kind, a, NoSlot, L.world.code[a], exists(L.world, a))
           w == set_code(L.world, a, c)
<1>2. Undoes(d, L.world, w)
  BY <1>1, CodeUndoes
<1>3. record_code(L, kind, a, c) = Record(L, d, w)
  BY DEF record_code
<1> HIDE DEF d, w
<1> QED BY <1>2, <1>3, RecordRestorable

\* The two compositions: a touch, then a write or a code change.
LEMMA TouchThenWriteKeeps ==
  ASSUME Restorable(ledger), NEW kind \in {"BALANCE", "NONCE"}, NEW a \in Addr,
         NEW v \in Nat, TouchThenWrite(kind, a, v)
  PROVE  Restorable(ledger') /\ Extends(ledger, ledger') /\ status' \in Statuses
<1>1. PICK t \in MarkOutcomes(ledger, "TOUCHED", a, NoSlot) :
        IF t[2] # OK THEN Returns(t)
        ELSE \E o \in WriteOutcomes(t[1], kind, a, NoSlot, v) : Returns(o)
  BY DEF TouchThenWrite
<1>2. Keeps(ledger, t)
  BY MarkKeeps DEF SetKinds
<1>3. CASE t[2] # OK
  BY <1>1, <1>2, <1>3 DEF Returns, Keeps
<1>4. CASE t[2] = OK
  <2>1. PICK o \in WriteOutcomes(t[1], kind, a, NoSlot, v) : Returns(o)
    BY <1>1, <1>4
  <2>2. WriteArgs(kind, NoSlot, v)
    BY DEF WriteArgs
  <2>3. Keeps(t[1], o)
    BY <1>2, <2>2, WriteKeeps DEF Keeps
  <2>4. Extends(ledger, o[1])
    BY <1>2, <2>3, ExtendsTrans DEF Keeps, Restorable
  <2> QED BY <2>1, <2>3, <2>4 DEF Returns, Keeps
<1> QED BY <1>3, <1>4

\* A touch leaves the accounts themselves alone.
LEMMA TouchKeepsAccounts ==
  ASSUME NEW L, Restorable(L), NEW a \in Addr, NEW o \in MarkOutcomes(L, "TOUCHED", a, NoSlot)
  PROVE  o[1].world.code = L.world.code /\ o[1].world.accounts = L.world.accounts
<1>1. L.world \in World
  BY DEF Restorable, WellFormed, Ledger
<1>2. insert(L.world, "TOUCHED", a, NoSlot) = [L.world EXCEPT !.touched = @ \cup {a}]
  BY DEF insert
<1>3. mark(L, "TOUCHED", a, NoSlot).world \in {L.world, [L.world EXCEPT !.touched = @ \cup {a}]}
  BY <1>2 DEF mark, Record
<1>4. /\ [L.world EXCEPT !.touched = @ \cup {a}].code = L.world.code
      /\ [L.world EXCEPT !.touched = @ \cup {a}].accounts = L.world.accounts
  BY <1>1 DEF World
<1>5. o[1] = L \/ o[1] = mark(L, "TOUCHED", a, NoSlot)
  BY DEF MarkOutcomes, Outcomes
<1> QED BY <1>3, <1>4, <1>5

\* So does touching the account and then changing its code.
LEMMA TouchThenCodeKeeps ==
  ASSUME Restorable(ledger), NEW kind \in {"CODE", "DELEGATION"}, NEW a \in Addr,
         NEW c \in Codes, TouchThenCode(kind, a, c),
         kind = "CODE" => world.code[a] = NoCode /\ exists(world, a)
  PROVE  Restorable(ledger') /\ Extends(ledger, ledger') /\ status' \in Statuses
<1>1. PICK t \in MarkOutcomes(ledger, "TOUCHED", a, NoSlot) :
        IF t[2] # OK THEN Returns(t)
        ELSE \E o \in {<<record_code(t[1], kind, a, c), OK>>, <<t[1], ERR_HOST_ALLOCATION>>} :
               Returns(o)
  BY DEF TouchThenCode
<1>2. Keeps(ledger, t)
  BY MarkKeeps DEF SetKinds
<1>3. kind = "CODE" => t[1].world.code[a] = NoCode /\ exists(t[1].world, a)
  BY TouchKeepsAccounts DEF exists, world
<1>4. Restorable(record_code(t[1], kind, a, c)) /\ Extends(t[1], record_code(t[1], kind, a, c))
  BY <1>2, <1>3, CodeKeeps DEF Keeps
<1>5. Extends(ledger, record_code(t[1], kind, a, c))
  BY <1>2, <1>4, ExtendsTrans DEF Keeps, Restorable
<1>6. CASE t[2] # OK
  BY <1>1, <1>2, <1>6 DEF Returns, Keeps
<1>7. CASE t[2] = OK
  BY <1>1, <1>2, <1>4, <1>5, <1>7 DEF Returns, Keeps, Statuses
<1> QED BY <1>6, <1>7

-----------------------------------------------------------------------------
(* The inductive invariant *)

PhasesInv ==
  /\ phase = "setup" => journal = <<>> /\ frames = <<>>
  /\ phase \in {"logged", "settled", "committed", "aborting", "aborted"} => frames = <<>>
  /\ phase = "reverting" => frames # <<>>
  /\ phase = "panicked" => Len(journal) > 0 /\ undo_panics(journal[Len(journal)], world)

IInv ==
  /\ TypeOK /\ FramesOrdered /\ PhasesInv /\ AbsentAccountsAreEmpty
  /\ ~Concluded => Restorable(ledger)

\* At every point of a restorable journal, absent accounts hold nothing.
LEMMA RestorableAbsent ==
  ASSUME NEW L, Restorable(L), NEW k \in 0..Len(L.journal)
  PROVE  AbsentIsEmpty(At(L, k))
<1>1. Len(L.journal) \in Nat
  BY DEF Restorable, WellFormed, Ledger
<1>2. CASE k = Len(L.journal)
  BY <1>1, <1>2 DEF Restorable, At
<1>3. CASE k # Len(L.journal)
  <2>1. k + 1 \in 1..Len(L.journal) /\ (k + 1) - 1 = k
    BY <1>1, <1>3
  <2> QED BY <2>1 DEF Restorable
<1> QED BY <1>2, <1>3

\* An operation that keeps every earlier change and frame preserves IInv.
LEMMA OperationKeepsIInv ==
  ASSUME IInv, Restorable(ledger'), Extends(ledger, ledger'),
         frames' = frames, logs' \in Seq(Topics), Len(logs) <= Len(logs'),
         refund' \in Int, isStatic' = isStatic,
         originals' \in [Addr -> [Slots -> Words \cup {Uncaptured}]],
         created' \in SUBSET Addr, status' \in Statuses, phase' = "running"
  PROVE  IInv'
<1>1. TypeOK'
  BY DEF IInv, TypeOK, Restorable, WellFormed, Statuses, Phases
<1>2. PhasesInv' /\ ~Concluded'
  BY DEF PhasesInv, Concluded
<1>3. AbsentAccountsAreEmpty'
  BY RestorableAbsent DEF AbsentAccountsAreEmpty, journal
<1>4. FramesOrdered'
  <2>1. Len(journal) <= Len(journal)' /\ Len(journal) \in Nat /\ Len(journal)' \in Nat
    BY <1>1 DEF Extends, IInv, TypeOK, Ledger, journal
  <2>2. Len(logs) \in Nat /\ Len(logs') \in Nat /\ frames \in Seq(Frame)
    BY DEF IInv, TypeOK
  <2>3. ASSUME NEW i \in 1..Len(frames)
        PROVE  frames[i].position \in Nat /\ frames[i].logs \in Nat
    <3>1. frames[i] \in Frame
      BY <2>2
    <3> QED BY <3>1 DEF Frame
  <2> QED BY <2>1, <2>2, <2>3 DEF IInv, FramesOrdered
<1> QED BY <1>1, <1>2, <1>3, <1>4 DEF IInv

\* The facts every step starts from.
LEMMA IInvFacts ==
  ASSUME IInv
  PROVE  /\ ledger \in Ledger /\ Len(ledger.before) = Len(ledger.journal)
         /\ frames \in Seq(Frame) /\ logs \in Seq(Topics) /\ refund \in Int
         /\ isStatic \in BOOLEAN
         /\ originals \in [Addr -> [Slots -> Words \cup {Uncaptured}]]
         /\ created \in SUBSET Addr /\ status \in Statuses /\ phase \in Phases
         /\ Len(journal) \in Nat /\ Len(logs) \in Nat /\ Len(frames) \in Nat
         /\ world \in World /\ AbsentIsEmpty(world)
         /\ \A i \in 1..Len(frames) : frames[i] \in Frame
<1>1. world = At(ledger, Len(journal)) /\ Len(journal) \in Nat /\ world \in World
  BY DEF IInv, TypeOK, Ledger, world, journal, At
<1>2. AbsentIsEmpty(world)
  BY <1>1 DEF IInv, AbsentAccountsAreEmpty
<1> QED BY <1>1, <1>2 DEF IInv, TypeOK, Statuses

\* A step that marks keeps the invariant.
LEMMA MarkStep ==
  ASSUME IInv, Operating, NEW kind \in SetKinds, NEW a \in Addr,
         NEW s \in Slots \cup {NoSlot}, kind = "WARM_STORAGE" => s \in Slots,
         \E o \in MarkOutcomes(ledger, kind, a, s) : Returns(o), UNCHANGED rest
  PROVE  IInv'
<1>1. Restorable(ledger)
  BY DEF IInv, Operating, Concluded
<1>2. PICK o \in MarkOutcomes(ledger, kind, a, s) : Returns(o)
  OBVIOUS
<1>3. Keeps(ledger, o)
  BY <1>1, MarkKeeps
<1> QED BY <1>2, <1>3, IInvFacts, OperationKeepsIInv DEF Returns, Keeps, rest

\* The refund of a storage write is an integer.
LEMMA refundType ==
  ASSUME NEW o, NEW c, NEW v
  PROVE  storage_refund(o, c, v) \in Int
  BY DEF storage_refund

\* Capturing an original word keeps the table of originals.
LEMMA OriginalsType ==
  ASSUME IInv, NEW a \in Addr, NEW s \in Slots
  PROVE  [originals EXCEPT ![a][s] = original_storage(a, s)]
           \in [Addr -> [Slots -> Words \cup {Uncaptured}]]
<1>1. world.storage[a][s] \in Words
  BY IInvFacts DEF World, Storage
<1>2. original_storage(a, s) \in Words \cup {Uncaptured}
  BY <1>1, IInvFacts DEF original_storage
<1> QED BY <1>2, IInvFacts

\* A storage write keeps the invariant (storage_store).
LEMMA StorageStoreStep ==
  ASSUME IInv, NEW a \in Addr, NEW s \in Slots, NEW v \in Words, StorageStore(a, s, v)
  PROVE  IInv'
<1>1. Restorable(ledger) /\ Extends(ledger, ledger) /\ WriteArgs("STORAGE", s, v)
  BY ExtendsRefl DEF IInv, StorageStore, Operating, Concluded, WriteArgs, Restorable
<1>2. UNCHANGED <<frames, logs, isStatic, created>>
  BY DEF StorageStore
<1>3. CASE isStatic
  BY <1>1, <1>2, <1>3, IInvFacts, OperationKeepsIInv DEF StorageStore, Returns, Statuses
<1>4. CASE ~isStatic /\ Returns(<<ledger, ERR_HOST_ALLOCATION>>) /\ UNCHANGED <<originals, refund>>
  BY <1>1, <1>2, <1>4, IInvFacts, OperationKeepsIInv DEF Returns, Statuses
<1>5. CASE /\ originals' = [originals EXCEPT ![a][s] = original_storage(a, s)]
           /\ \E o \in WriteOutcomes(ledger, "STORAGE", a, s, v) :
                /\ Returns(o)
                /\ refund' = refund + IF o[2] = OK
                     THEN storage_refund(original_storage(a, s), world.storage[a][s], v)
                     ELSE 0
  <2>1. PICK o \in WriteOutcomes(ledger, "STORAGE", a, s, v) :
                /\ Returns(o)
                /\ refund' = refund + IF o[2] = OK
                     THEN storage_refund(original_storage(a, s), world.storage[a][s], v)
                     ELSE 0
    BY <1>5
  <2>2. Keeps(ledger, o)
    BY <1>1, WriteKeeps
  <2>3. refund' \in Int
    BY <2>1, refundType, IInvFacts
  <2>4. originals' \in [Addr -> [Slots -> Words \cup {Uncaptured}]]
    BY <1>5, OriginalsType
  <2> QED BY <1>2, <2>1, <2>2, <2>3, <2>4, IInvFacts, OperationKeepsIInv DEF Returns, Keeps
<1> QED BY <1>3, <1>4, <1>5 DEF StorageStore

\* A transient write keeps the invariant (transient_store).
LEMMA TransientStoreStep ==
  ASSUME IInv, NEW a \in Addr, NEW s \in Slots, NEW v \in Words, TransientStore(a, s, v)
  PROVE  IInv'
<1>1. Restorable(ledger) /\ WriteArgs("TRANSIENT", s, v)
  BY DEF IInv, TransientStore, Operating, Concluded, WriteArgs
<1>2. PICK o \in WriteOutcomes(ledger, "TRANSIENT", a, s, v) : Returns(o)
  BY DEF TransientStore
<1>3. Keeps(ledger, o)
  BY <1>1, WriteKeeps
<1> QED BY <1>2, <1>3, IInvFacts, OperationKeepsIInv DEF TransientStore, Returns, Keeps, rest

\* A balance or nonce write keeps the invariant (set_balance, increment_nonce).
LEMMA AccountWriteStep ==
  ASSUME IInv, Operating, NEW kind \in {"BALANCE", "NONCE"}, NEW a \in Addr, NEW v \in Nat,
         TouchThenWrite(kind, a, v), UNCHANGED rest
  PROVE  IInv'
<1>1. Restorable(ledger)
  BY DEF IInv, Operating, Concluded
<1>2. Restorable(ledger') /\ Extends(ledger, ledger') /\ status' \in Statuses
  BY <1>1, TouchThenWriteKeeps
<1>3. phase' = "running"
  BY DEF TouchThenWrite, Returns
<1> QED BY <1>2, <1>3, IInvFacts, OperationKeepsIInv DEF rest

\* A code change keeps the invariant.
LEMMA CodeStep ==
  ASSUME IInv, Operating, NEW kind \in {"CODE", "DELEGATION"}, NEW a \in Addr, NEW c \in Codes,
         TouchThenCode(kind, a, c), UNCHANGED rest,
         kind = "CODE" => world.code[a] = NoCode /\ exists(world, a)
  PROVE  IInv'
<1>1. Restorable(ledger)
  BY DEF IInv, Operating, Concluded
<1>2. Restorable(ledger') /\ Extends(ledger, ledger') /\ status' \in Statuses
  BY <1>1, TouchThenCodeKeeps
<1>3. phase' = "running"
  BY DEF TouchThenCode, Returns
<1> QED BY <1>2, <1>3, IInvFacts, OperationKeepsIInv DEF rest

\* Operations that leave the ledger alone.
LEMMA StillStep ==
  ASSUME IInv, Operating, ledger' = ledger, frames' = frames,
         logs' \in Seq(Topics), Len(logs) <= Len(logs'), refund' \in Int, isStatic' = isStatic,
         originals' = originals, created' \in SUBSET Addr,
         status' \in Statuses, phase' = "running"
  PROVE  IInv'
<1>1. Restorable(ledger) /\ Extends(ledger, ledger)
  BY ExtendsRefl DEF IInv, Operating, Concluded, Restorable
<1> QED BY <1>1, IInvFacts, OperationKeepsIInv

\* A deployment keeps the invariant (deploy_code).
LEMMA DeployCodeStep ==
  ASSUME IInv, NEW a \in Addr, NEW c \in {NoCode} \cup Contracts, DeployCode(a, c)
  PROVE  IInv'
<1>1. Operating /\ UNCHANGED rest /\ world.code[a] = NoCode /\ exists(world, a) /\ c \in Codes
  BY DEF DeployCode, Codes
<1>2. CASE isStatic
  BY <1>1, <1>2, IInvFacts, StillStep DEF DeployCode, Returns, rest, Statuses
<1>3. CASE ~isStatic
  BY <1>1, <1>3, CodeStep DEF DeployCode
<1> QED BY <1>2, <1>3

\* A log keeps the invariant (emit_log).
LEMMA EmitLogStep ==
  ASSUME IInv, NEW topic \in Topics, EmitLog(topic)
  PROVE  IInv'
<1>1. logs' \in {logs, Append(logs, topic)} /\ phase' = "running" /\ ledger' = ledger
      /\ status' \in Statuses /\ Operating
  BY DEF EmitLog, Returns, Statuses
<1>2. Append(logs, topic) \in Seq(Topics) /\ Len(Append(logs, topic)) = Len(logs) + 1
  BY IInvFacts
<1>3. logs' \in Seq(Topics) /\ Len(logs) <= Len(logs')
  <2>1. CASE logs' = logs
    BY <2>1, IInvFacts
  <2>2. CASE logs' = Append(logs, topic)
    BY <1>2, <2>2, IInvFacts
  <2> QED BY <1>1, <2>1, <2>2
<1>4. UNCHANGED <<frames, refund, isStatic, originals, created>>
  BY DEF EmitLog
<1>5. refund' \in Int /\ created' \in SUBSET Addr
  BY <1>4, IInvFacts
<1> QED BY <1>1, <1>3, <1>4, <1>5, StillStep

\* The ledger with the access sets A and K.
listed(A, K) == [ledger EXCEPT !.world.warmAccounts = A, !.world.warmSlots = K]

\* The access list comes first, while nothing is journaled.
LEMMA AccessListStep ==
  ASSUME IInv, Listing, NEW A \in SUBSET Addr, NEW K \in SUBSET (Addr \X Slots),
         ledger' = listed(A, K),
         UNCHANGED <<rest, phase>>, status' \in Statuses
  PROVE  IInv'
<1>1. journal = <<>> /\ frames = <<>> /\ ledger \in Ledger /\ phase = "setup"
      /\ AbsentIsEmpty(world) /\ world \in World
  BY IInvFacts DEF Listing, IInv, PhasesInv
<1> DEFINE w == [world EXCEPT !.warmAccounts = A, !.warmSlots = K]
<1>2. w \in World
  BY <1>1 DEF World
<1>3. AbsentIsEmpty(w)
  BY <1>1 DEF World, AbsentIsEmpty, is_empty, has_storage
<1>4. ledger' = [ledger EXCEPT !.world = w]
  BY <1>1 DEF Ledger, World, world, listed
<1> HIDE DEF w
<1>5. ledger' \in Ledger /\ ledger'.journal = <<>> /\ Len(ledger'.before) = 0 /\ ledger'.world = w
  <2>1. ledger.journal = <<>> /\ Len(ledger.before) = 0
    BY <1>1, IInvFacts DEF journal
  <2> QED BY <1>1, <1>2, <1>4, <2>1 DEF Ledger
<1>6. Restorable(ledger')
  BY <1>3, <1>5 DEF Restorable, WellFormed
<1>7. TypeOK'
  BY <1>5, IInvFacts, <1>1 DEF TypeOK, Statuses, rest
<1>8. FramesOrdered' /\ PhasesInv'
  BY <1>1, <1>5 DEF FramesOrdered, PhasesInv, rest, journal
<1>9. AbsentAccountsAreEmpty'
  BY <1>6, RestorableAbsent DEF AbsentAccountsAreEmpty, journal
<1> QED BY <1>6, <1>7, <1>8, <1>9 DEF IInv

-----------------------------------------------------------------------------
(* Frames *)

\* A step that touches neither the ledger nor how far it may be undone.
LEMMA FrameStep ==
  ASSUME IInv, ledger' = ledger, ~Concluded,
         frames' \in Seq(Frame), logs' \in Seq(Topics), refund' \in Int, isStatic' \in BOOLEAN,
         originals' = originals, created' = created, status' \in Statuses,
         phase' \in Phases, FramesOrdered', PhasesInv'
  PROVE  IInv'
<1>1. TypeOK'
  BY IInvFacts DEF TypeOK, Statuses
<1>2. AbsentAccountsAreEmpty' /\ Restorable(ledger')
  BY DEF IInv, AbsentAccountsAreEmpty, journal
<1> QED BY <1>1, <1>2 DEF IInv

\* Opening a checkpoint keeps the invariant (checkpoint).
LEMMA CheckpointStep ==
  ASSUME IInv, NEW static \in BOOLEAN, checkpoint(static)
  PROVE  IInv'
<1> DEFINE f == [position |-> Len(journal), was_static |-> isStatic,
                 refund |-> refund, logs |-> Len(logs)]
           n == Len(frames)
<1>1. f \in Frame /\ f.position = Len(journal) /\ f.logs = Len(logs)
  BY IInvFacts DEF Frame
<1>2. frames' = Append(frames, f) /\ phase' = "running" /\ UNCHANGED <<ledger, logs>>
  BY DEF checkpoint
<1> HIDE DEF f
<1>3. /\ frames' \in Seq(Frame) /\ Len(frames') = n + 1 /\ frames'[n + 1] = f /\ n \in Nat
      /\ \A i \in 1..n : frames'[i] = frames[i]
  BY <1>1, <1>2, IInvFacts
<1> HIDE DEF n
<1>4. FramesOrdered'
  <2>1. \A i \in 1..n : frames[i].position <= Len(journal) /\ frames[i].logs <= Len(logs)
    BY DEF IInv, FramesOrdered, n
  <2>2. \A i \in 1..n + 1 : /\ frames'[i].position <= Len(journal)
                            /\ frames'[i].logs <= Len(logs)
    BY <1>1, <1>3, <2>1, IInvFacts
  <2>3. ASSUME NEW i \in 1..n + 1, NEW j \in 1..n + 1, i <= j
        PROVE  frames'[i].position <= frames'[j].position /\ frames'[i].logs <= frames'[j].logs
    <3>1. CASE j = n + 1
      BY <1>1, <1>3, <2>2, <3>1
    <3>2. CASE j # n + 1
      <4>1. i \in 1..n /\ j \in 1..n
        BY <1>3, <2>3, <3>2
      <4> QED BY <1>3, <2>3, <4>1 DEF IInv, FramesOrdered, n
    <3> QED BY <3>1, <3>2
  <2> QED BY <1>2, <1>3, <2>2, <2>3 DEF FramesOrdered, journal
<1>5. PhasesInv' /\ ~Concluded
  BY <1>2 DEF PhasesInv, checkpoint, Concluded
<1> QED BY <1>2, <1>3, <1>4, <1>5, IInvFacts, FrameStep DEF checkpoint, Phases

\* A sequence without its last element keeps the others in place.
LEMMA FrontOf ==
  ASSUME NEW S, NEW q \in Seq(S), Len(q) # 0
  PROVE  /\ Len(SubSeq(q, 1, Len(q) - 1)) = Len(q) - 1
         /\ SubSeq(q, 1, Len(q) - 1) \in Seq(S)
         /\ \A i \in 1..Len(q) - 1 : SubSeq(q, 1, Len(q) - 1)[i] = q[i]
<1> DEFINE n == Len(q)
           f == SubSeq(q, 1, n - 1)
<1>1. n \in Nat /\ n > 0 /\ \A i \in 1..n : q[i] \in S
  OBVIOUS
<1>2. \A i \in 1..n - 1 : i \in 1..n
  BY <1>1
<1>3. f \in Seq(S)
  BY <1>1
<1>4. Len(f) = n - 1
  BY <1>1
<1>5. \A i \in 1..n - 1 : f[i] = q[i]
  BY <1>1
<1> QED BY <1>3, <1>4, <1>5

\* Closing the innermost frame keeps the others in order.
LEMMA PopOrdered ==
  ASSUME IInv, frames # <<>>
  PROVE  /\ Top \in Frame /\ Top = frames[Len(frames)] /\ Len(frames) \in 1..Len(frames)
         /\ Pop(frames) \in Seq(Frame) /\ Len(Pop(frames)) = Len(frames) - 1
         /\ \A i \in 1..Len(frames) - 1 : Pop(frames)[i] = frames[i]
<1>1. frames \in Seq(Frame) /\ Len(frames) \in Nat /\ Len(frames) # 0
  BY IInvFacts
<1>2. Top \in Frame /\ Len(frames) \in 1..Len(frames)
  BY <1>1 DEF Top
<1>3. /\ Len(Pop(frames)) = Len(frames) - 1 /\ Pop(frames) \in Seq(Frame)
      /\ \A i \in 1..Len(frames) - 1 : Pop(frames)[i] = frames[i]
  BY <1>1, FrontOf DEF Pop
<1>4. Top = frames[Len(frames)]
  BY DEF Top
<1> QED BY <1>2, <1>3, <1>4

\* Closing it while no more logs than it began with remain, or all of them.
LEMMA PopKeepsOrder ==
  ASSUME IInv, frames # <<>>, frames' = Pop(frames), ledger' = ledger,
         logs' \in Seq(Topics), Len(logs') >= Top.logs
  PROVE  FramesOrdered'
<1> DEFINE n == Len(frames) - 1
<1>1. n \in Nat /\ Len(frames') = n /\ \A i \in 1..n : frames'[i] = frames[i]
  BY PopOrdered
<1>2. ASSUME NEW i \in 1..n
      PROVE  /\ frames[i].position <= Len(journal) /\ frames[i].logs <= Len(logs')
             /\ \A j \in 1..n : i <= j => /\ frames[i].position <= frames[j].position
                                         /\ frames[i].logs <= frames[j].logs
  <2>1. i \in 1..Len(frames) /\ Len(frames) \in 1..Len(frames) /\ i <= Len(frames)
    BY <1>1, PopOrdered
  <2>2. frames[i].logs <= Top.logs
    BY <2>1, PopOrdered DEF IInv, FramesOrdered
  <2>3. frames[i].logs \in Nat /\ Top.logs \in Nat /\ Len(logs') \in Nat
    <3>1. frames[i] \in Frame /\ Top \in Frame
      BY <2>1, PopOrdered, IInvFacts
    <3> QED BY <3>1 DEF Frame
  <2>4. frames[i].logs <= Len(logs')
    BY <2>2, <2>3
  <2>5. \A j \in 1..n : j \in 1..Len(frames)
    BY <1>1
  <2> QED BY <2>1, <2>4, <2>5 DEF IInv, FramesOrdered
<1> HIDE DEF n
<1> QED BY <1>1, <1>2 DEF FramesOrdered, journal

\* Committing a frame keeps the invariant (commit).
LEMMA CommitStep ==
  ASSUME IInv, commit
  PROVE  IInv'
<1>1. frames # <<>> /\ frames' = Pop(frames) /\ isStatic' = Top.was_static /\ phase = "running"
      /\ UNCHANGED <<ledger, logs, refund, originals, created, status, phase>>
  BY DEF commit
<1>2. FramesOrdered'
  <2>1. Len(logs) >= Top.logs
    BY <1>1, PopOrdered DEF IInv, FramesOrdered
  <2> QED BY <1>1, <2>1, IInvFacts, PopKeepsOrder
<1>3. PhasesInv' /\ ~Concluded /\ isStatic' \in BOOLEAN
  BY <1>1, PopOrdered DEF PhasesInv, Concluded, Frame
<1> QED BY <1>1, <1>2, <1>3, PopOrdered, IInvFacts, FrameStep

\* Closing a reverted frame keeps the invariant (revert).
LEMMA RevertedStep ==
  ASSUME IInv, reverted
  PROVE  IInv'
<1>1. frames # <<>> /\ frames' = Pop(frames) /\ isStatic' = Top.was_static /\ phase' = "running"
      /\ logs' = SubSeq(logs, 1, Top.logs) /\ refund' = Top.refund
      /\ UNCHANGED <<ledger, originals, created>> /\ ~Concluded
      /\ status' \in Statuses
  BY IInvFacts DEF reverted, IInv, PhasesInv, Concluded, Statuses
<1>2. Top.logs \in Nat /\ Top.refund \in Int /\ Top.was_static \in BOOLEAN
  BY <1>1, PopOrdered DEF Frame
<1>3. Top.logs <= Len(logs)
  BY <1>1, PopOrdered DEF IInv, FramesOrdered
<1>4. logs' \in Seq(Topics) /\ Len(logs') = Top.logs
  BY <1>1, <1>2, <1>3, IInvFacts
<1>5. FramesOrdered'
  BY <1>1, <1>2, <1>4, PopKeepsOrder
<1>6. PhasesInv'
  BY <1>1 DEF PhasesInv
<1> QED BY <1>1, <1>2, <1>4, <1>5, <1>6, PopOrdered, IInvFacts, FrameStep DEF Phases

-----------------------------------------------------------------------------
(* Undoing and the end of the transaction *)

\* Steps that only move the phase or drop the logs.
LEMMA PhaseStep ==
  ASSUME IInv, ~Concluded, UNCHANGED <<ledger, frames, refund, isStatic, originals, created>>,
         logs' = logs \/ (logs' = <<>> /\ frames = <<>>), status' = status,
         phase' \in Phases, PhasesInv'
  PROVE  IInv'
<1>1. logs' \in Seq(Topics) /\ frames' = frames
  <2>1. logs \in Seq(Topics) /\ <<>> \in Seq(Topics)
    BY IInvFacts
  <2>2. logs' \in {logs, <<>>} /\ frames' = frames
    OBVIOUS
  <2> QED BY <2>1, <2>2
<1>2. FramesOrdered'
  <2>1. CASE logs' = logs
    BY <2>1 DEF IInv, FramesOrdered, journal
  <2>2. CASE frames = <<>>
    BY <2>2 DEF FramesOrdered
  <2> QED BY <2>1, <2>2
<1>3. /\ frames' \in Seq(Frame) /\ refund' \in Int /\ isStatic' \in BOOLEAN
      /\ status' \in Statuses
  BY IInvFacts
<1> QED BY <1>1, <1>2, <1>3, FrameStep

\* Undoing one change keeps the invariant, when the assertions stop it included (undo_to).
LEMMA UndoStep ==
  ASSUME IInv, undo_to
  PROVE  IInv'
<1>1. /\ phase \in {"reverting", "aborting"} /\ Len(journal) > Target
      /\ UNCHANGED rest /\ UNCHANGED status /\ Restorable(ledger)
  BY DEF undo_to, IInv, Concluded
<1>2. Target \in Nat /\ \A i \in 1..Len(frames) : frames[i].position <= Target
  <2>1. CASE phase = "reverting"
    <3>1. frames # <<>>
      BY <2>1 DEF IInv, PhasesInv
    <3>2. Top.position \in Nat
      BY <3>1, PopOrdered DEF Frame
    <3> QED BY <2>1, <3>1, <3>2, PopOrdered DEF Target, IInv, FramesOrdered
  <2>2. CASE phase # "reverting"
    BY <1>1, <2>2 DEF Target, IInv, PhasesInv
  <2> QED BY <2>1, <2>2
<1>3. CASE undo_panics(journal[Len(journal)], world)
  <2>1. phase' = "panicked" /\ UNCHANGED ledger
    BY <1>3 DEF undo_to
  <2>2. PhasesInv'
    BY <1>1, <1>2, <1>3, <2>1, IInvFacts DEF PhasesInv, journal, world
  <2>3. ~Concluded /\ phase' \in Phases
    BY <1>1, <2>1 DEF Concluded, Phases
  <2>4. /\ UNCHANGED <<ledger, frames, refund, isStatic, originals, created>>
        /\ logs' = logs \/ (logs' = <<>> /\ frames = <<>>)
        /\ status' = status
    BY <1>1, <2>1 DEF rest
  <2> QED BY <1>1, <2>2, <2>3, <2>4, PhaseStep
<1>4. CASE ~undo_panics(journal[Len(journal)], world)
  <2>1. ledger' = undo(ledger) /\ phase' = phase
    BY <1>4 DEF undo_to
  <2>2. Restorable(ledger') /\ Len(journal') = Len(journal) - 1
    BY <1>1, <1>2, <2>1, UndoRestorable, IInvFacts DEF journal
  <2>3. TypeOK'
    BY <1>1, <2>1, <2>2, IInvFacts DEF TypeOK, Restorable, WellFormed, Statuses, rest
  <2>4. AbsentAccountsAreEmpty'
    BY <2>2, RestorableAbsent DEF AbsentAccountsAreEmpty, journal
  <2>5. FramesOrdered'
    <3>1. ASSUME NEW i \in 1..Len(frames) PROVE frames[i].position <= Len(journal) - 1
      <4>1. frames[i].position \in Nat
        BY IInvFacts DEF Frame
      <4> QED BY <1>1, <1>2, <4>1, IInvFacts
    <3> QED BY <1>1, <2>2, <3>1 DEF IInv, FramesOrdered, rest
  <2>6. PhasesInv'
    BY <1>1, <2>1 DEF IInv, PhasesInv, rest
  <2> QED BY <2>2, <2>3, <2>4, <2>5, <2>6 DEF IInv
<1> QED BY <1>3, <1>4

\* Deleting accounts leaves no balance, nonce, code or storage behind.
LEMMA RemoveAccounts ==
  ASSUME NEW w \in World, AbsentIsEmpty(w), NEW gone \in SUBSET Addr
  PROVE  remove_accounts(w, gone) \in World /\ AbsentIsEmpty(remove_accounts(w, gone))
<1> DEFINE b == [a \in Addr |-> IF a \in gone THEN 0 ELSE w.balance[a]]
           m == [a \in Addr |-> IF a \in gone THEN 0 ELSE w.nonce[a]]
           c == [a \in Addr |-> IF a \in gone THEN NoCode ELSE w.code[a]]
           t == [a \in Addr |-> IF a \in gone THEN EmptyStorage ELSE w.storage[a]]
           u == [w EXCEPT !.accounts = @ \ gone, !.balance = b, !.nonce = m,
                          !.code = c, !.storage = t]
<1>1. EmptyStorage \in [Slots -> Words]
  BY WordsAssumption DEF EmptyStorage
<1>2. b \in [Addr -> Nat] /\ m \in [Addr -> Nat]
  BY DEF World
<1>3. c \in [Addr -> Codes]
  BY DEF World, Codes
<1>4. t \in [Addr -> [Slots -> Words]]
  BY <1>1 DEF World, Storage
<1>5. \A a \in Addr : /\ b[a] = IF a \in gone THEN 0 ELSE w.balance[a]
                      /\ m[a] = IF a \in gone THEN 0 ELSE w.nonce[a]
                      /\ c[a] = IF a \in gone THEN NoCode ELSE w.code[a]
                      /\ t[a] = IF a \in gone THEN EmptyStorage ELSE w.storage[a]
  OBVIOUS
<1>6. remove_accounts(w, gone) = u
  BY DEF remove_accounts
<1> HIDE DEF b, m, c, t
<1>7. /\ u \in World /\ u.accounts = w.accounts \ gone /\ u.balance = b /\ u.nonce = m
      /\ u.code = c /\ u.storage = t
  BY <1>2, <1>3, <1>4 DEF World, Storage
<1> HIDE DEF u
<1>8. AbsentIsEmpty(u)
  BY <1>5, <1>7 DEF AbsentIsEmpty, is_empty, has_storage
<1> QED BY <1>6, <1>7, <1>8

\* Settlement keeps the invariant, although it deletes accounts unjournaled (settle).
LEMMA SettleStep ==
  ASSUME IInv, settle
  PROVE  IInv'
<1> DEFINE live == remove_accounts(world, world.doomed)
           w == settled(world)
<1>1. phase = "logged" /\ phase' = "settled" /\ frames = <<>>
      /\ ledger' = [ledger EXCEPT !.world = w] /\ UNCHANGED <<rest, status>>
  BY DEF settle
<1>2. live \in World /\ AbsentIsEmpty(live) /\ world.touched \in SUBSET Addr
  <2>1. world.doomed \in SUBSET Addr /\ world.touched \in SUBSET Addr
    BY IInvFacts DEF World
  <2> QED BY <2>1, IInvFacts, RemoveAccounts
<1>3. w \in World /\ AbsentIsEmpty(w)
  <2> DEFINE gone == {a \in world.touched : exists(live, a) /\ is_empty(live, a)}
  <2>1. w = remove_accounts(live, gone)
    BY DEF settled
  <2>2. gone \in SUBSET Addr
    BY <1>2
  <2> HIDE DEF live, gone
  <2> QED BY <1>2, <2>1, <2>2, RemoveAccounts
<1> HIDE DEF w, live
<1>4. /\ ledger' \in Ledger /\ ledger'.journal = ledger.journal
      /\ ledger'.before = ledger.before /\ ledger'.world = w
  BY <1>1, <1>3, IInvFacts DEF Ledger
<1>5. TypeOK'
  BY <1>1, <1>4, IInvFacts DEF TypeOK, rest, Statuses, Phases
<1>6. FramesOrdered' /\ PhasesInv' /\ Concluded'
  BY <1>1, <1>4 DEF FramesOrdered, PhasesInv, rest, Concluded
<1>7. AbsentAccountsAreEmpty'
  <2>1. ASSUME NEW k \in 0..Len(ledger.journal) PROVE AbsentIsEmpty(At(ledger', k))
    <3>1. CASE k < Len(ledger.journal)
      BY <1>4, <3>1 DEF At, IInv, AbsentAccountsAreEmpty, journal
    <3>2. CASE ~(k < Len(ledger.journal))
      BY <1>3, <1>4, <3>2 DEF At
    <3> QED BY <3>1, <3>2
  <2> QED BY <1>4, <2>1 DEF AbsentAccountsAreEmpty, journal
<1> QED BY <1>5, <1>6, <1>7 DEF IInv

\* A transaction starts in the invariant (Transaction.new).
LEMMA InitIInv ==
  ASSUME Init
  PROVE  IInv
<1>1. PICK w \in PreStates : ledger = [world |-> w, journal |-> <<>>, before |-> <<>>]
  BY DEF Init
<1>2. w \in World /\ AbsentIsEmpty(w)
  BY PreStateAssumption DEF FreshWorld
<1>3. /\ ledger \in Ledger /\ ledger.journal = <<>> /\ ledger.before = <<>>
      /\ ledger.world = w
  BY <1>1, <1>2 DEF Ledger
<1>4. Restorable(ledger)
  BY <1>2, <1>3 DEF Restorable, WellFormed
<1>5. TypeOK
  <2>1. frames = <<>> /\ logs = <<>> /\ refund = 0 /\ isStatic = FALSE
    BY DEF Init
  <2>2. originals \in [Addr -> [Slots -> Words \cup {Uncaptured}]]
    BY DEF Init
  <2>3. /\ frames \in Seq(Frame) /\ logs \in Seq(Topics) /\ refund \in Int
        /\ isStatic \in BOOLEAN
    <3>1. frames \in Seq(Frame)
      BY <2>1
    <3>2. logs \in Seq(Topics)
      BY <2>1
    <3>3. refund \in Int
      BY <2>1
    <3>4. isStatic \in BOOLEAN
      BY <2>1, Zenon
    <3> QED BY <3>1, <3>2, <3>3, <3>4
  <2> QED BY <1>3, <2>2, <2>3 DEF Init, TypeOK, Phases
<1>6. FramesOrdered /\ PhasesInv
  BY <1>3 DEF Init, FramesOrdered, PhasesInv, journal
<1>7. AbsentAccountsAreEmpty
  BY <1>4, RestorableAbsent DEF AbsentAccountsAreEmpty, journal
<1> QED BY <1>4, <1>5, <1>6, <1>7 DEF IInv

\* Every operation on one account keeps the invariant.
LEMMA AccountOperationStep ==
  ASSUME IInv, NEW a \in Addr, AccountOperation(a)
  PROVE  IInv'
<1>1. CASE WarmAccount(a)
  BY <1>1, MarkStep DEF WarmAccount, SetKinds
<1>2. CASE Touch(a)
  BY <1>2, MarkStep DEF Touch, SetKinds
<1>3. CASE Doom(a)
  BY <1>3, MarkStep DEF Doom, SetKinds
<1>4. CASE IncrementNonce(a)
  <2>1. world.nonce[a] + 1 \in Nat
    BY IInvFacts DEF World
  <2> QED BY <1>4, <2>1, AccountWriteStep DEF IncrementNonce
<1>5. CASE MarkCreated(a)
  <2>1. /\ Operating /\ UNCHANGED <<frames, logs, refund, isStatic, originals>>
        /\ created' \in {created, created \cup {a}} /\ ledger' = ledger
        /\ status' \in Statuses /\ phase' = "running"
    BY <1>5 DEF MarkCreated, Returns, Statuses
  <2>2. created' \in SUBSET Addr
    BY <2>1, IInvFacts
  <2>3. logs' \in Seq(Topics) /\ Len(logs) <= Len(logs') /\ refund' \in Int
    BY <2>1, IInvFacts
  <2> QED BY <2>1, <2>2, <2>3, StillStep
<1>6. CASE \E v \in Balances : SetBalance(a, v)
  BY <1>6, AddressAssumption, AccountWriteStep DEF SetBalance
<1>7. CASE \E c \in {NoCode} \cup Contracts : DeployCode(a, c)
  BY <1>7, DeployCodeStep
<1>8. CASE \E c \in {NoCode} \cup Addr : DelegateCode(a, c)
  BY <1>8, CodeStep DEF DelegateCode, Codes
<1>9. CASE AccessListAccount(a)
  <2> DEFINE A == world.warmAccounts \cup {a}
             K == world.warmSlots
  <2>1. A \in SUBSET Addr /\ world.warmAccounts \in SUBSET Addr /\ K \in SUBSET (Addr \X Slots)
    BY IInvFacts DEF World
  <2>2. /\ ledger = listed(world.warmAccounts, K)
        /\ [ledger EXCEPT !.world.warmAccounts = @ \cup {a}] = listed(A, K)
    BY IInvFacts DEF Ledger, World, world, listed
  <2>3. /\ Listing /\ UNCHANGED <<rest, phase>> /\ status' \in Statuses
        /\ ledger' = ledger \/ ledger' = [ledger EXCEPT !.world.warmAccounts = @ \cup {a}]
    BY <1>9 DEF AccessListAccount, Statuses
  <2> HIDE DEF A, K
  <2> QED BY <2>1, <2>2, <2>3, AccessListStep
<1> QED BY <1>1, <1>2, <1>3, <1>4, <1>5, <1>6, <1>7, <1>8, <1>9 DEF AccountOperation

\* Listing a slot keeps the invariant, when the slot cannot be listed included.
LEMMA AccessListSlotStep ==
  ASSUME IInv, NEW a \in Addr, NEW s \in Slots, AccessListSlot(a, s)
  PROVE  IInv'
<1> DEFINE A == world.warmAccounts
           K == world.warmSlots
<1>1. /\ A \in SUBSET Addr /\ A \cup {a} \in SUBSET Addr
      /\ K \in SUBSET (Addr \X Slots) /\ K \cup {<<a, s>>} \in SUBSET (Addr \X Slots)
  BY IInvFacts DEF World
<1>2. /\ ledger = listed(A, K)
      /\ [ledger EXCEPT !.world.warmAccounts = @ \cup {a}] = listed(A \cup {a}, K)
      /\ [ledger EXCEPT !.world.warmAccounts = @ \cup {a},
                        !.world.warmSlots = @ \cup {<<a, s>>}]
           = listed(A \cup {a}, K \cup {<<a, s>>})
  BY IInvFacts DEF Ledger, World, world, listed
<1>3. /\ Listing /\ UNCHANGED <<rest, phase>> /\ status' \in Statuses
      /\ \/ ledger' = ledger
         \/ ledger' = [ledger EXCEPT !.world.warmAccounts = @ \cup {a}]
         \/ ledger' = [ledger EXCEPT !.world.warmAccounts = @ \cup {a},
                                     !.world.warmSlots = @ \cup {<<a, s>>}]
  BY DEF AccessListSlot, Statuses
<1> HIDE DEF A, K
<1> QED BY <1>1, <1>2, <1>3, AccessListStep

\* Every operation on one slot keeps the invariant.
LEMMA SlotOperationStep ==
  ASSUME IInv, NEW a \in Addr, NEW s \in Slots, SlotOperation(a, s)
  PROVE  IInv'
<1>1. CASE WarmSlot(a, s)
  BY <1>1, MarkStep DEF WarmSlot, SetKinds
<1>2. CASE AccessListSlot(a, s)
  BY <1>2, AccessListSlotStep
<1>3. CASE \E v \in Words : StorageStore(a, s, v) \/ TransientStore(a, s, v)
  BY <1>3, StorageStoreStep, TransientStoreStep
<1> QED BY <1>1, <1>2, <1>3 DEF SlotOperation

\* Every step of a transaction preserves the inductive invariant.
LEMMA NextIInv ==
  ASSUME IInv, [Next]_vars
  PROVE  IInv'
<1>1. CASE \E a \in Addr : AccountOperation(a)
  BY <1>1, AccountOperationStep
<1>2. CASE \E a \in Addr, s \in Slots : SlotOperation(a, s)
  BY <1>2, SlotOperationStep
<1>3. CASE \E t \in Topics : EmitLog(t)
  BY <1>3, EmitLogStep
<1>4. CASE AddRefund
  <2>1. /\ Operating /\ refund' = refund + 12500 /\ phase' = "running"
        /\ UNCHANGED <<ledger, frames, logs, isStatic, originals, created, status>>
    BY <1>4 DEF AddRefund
  <2>2. /\ logs' \in Seq(Topics) /\ Len(logs) <= Len(logs') /\ refund' \in Int
        /\ created' \in SUBSET Addr /\ status' \in Statuses
    BY <2>1, IInvFacts
  <2> QED BY <2>1, <2>2, StillStep
<1>5. CASE \E static \in BOOLEAN : checkpoint(static)
  BY <1>5, CheckpointStep
<1>6. CASE commit
  BY <1>6, CommitStep
<1>7. CASE revert
  <2>1. /\ ~Concluded /\ phase' = "reverting" /\ frames # <<>>
        /\ UNCHANGED <<ledger, frames, logs, refund, isStatic, originals, created, status>>
    BY <1>7 DEF revert, rest, Concluded
  <2>2. PhasesInv' /\ phase' \in Phases
    BY <2>1 DEF PhasesInv, Phases
  <2> QED BY <2>1, <2>2, PhaseStep
<1>8. CASE undo_to
  BY <1>8, UndoStep
<1>9. CASE reverted
  BY <1>9, RevertedStep
<1>10. CASE take_logs \/ aborted
  <2>1. /\ ~Concluded /\ phase' \in {"logged", "aborted"} /\ frames = <<>> /\ logs' = <<>>
        /\ UNCHANGED <<ledger, frames, refund, isStatic, originals, created, status>>
    BY <1>10 DEF take_logs, aborted, Concluded, IInv, PhasesInv
  <2>2. PhasesInv' /\ phase' \in Phases
    BY <2>1 DEF PhasesInv, Phases
  <2> QED BY <2>1, <2>2, PhaseStep
<1>11. CASE settle
  BY <1>11, SettleStep
<1>12. CASE \E commits \in BOOLEAN : finish(commits)
  <2>1. /\ frames = <<>>
        /\ UNCHANGED <<ledger, frames, logs, refund, isStatic, originals, created, status>>
        /\ \/ phase = "settled" /\ phase' = "committed"
           \/ phase \in {"setup", "running", "logged"} /\ phase' = "aborting"
    BY <1>12 DEF finish, rest
  <2>2. CASE phase = "settled" /\ phase' = "committed"
    <3>1. TypeOK' /\ FramesOrdered' /\ AbsentAccountsAreEmpty'
      BY <2>1, <2>2 DEF IInv, TypeOK, FramesOrdered, AbsentAccountsAreEmpty, Phases, journal
    <3>2. PhasesInv' /\ Concluded'
      BY <2>1, <2>2 DEF PhasesInv, Concluded
    <3> QED BY <3>1, <3>2 DEF IInv
  <2>3. CASE phase \in {"setup", "running", "logged"} /\ phase' = "aborting"
    <3>1. PhasesInv' /\ phase' \in Phases /\ ~Concluded
      BY <2>1, <2>3 DEF PhasesInv, Phases, Concluded
    <3> QED BY <2>1, <3>1, PhaseStep
  <2> QED BY <2>1, <2>2, <2>3
<1>13. CASE UNCHANGED vars
  <2>1. UNCHANGED <<ledger, frames, logs, refund, isStatic, originals, created, status, phase>>
    BY <1>13 DEF vars
  <2> QED BY <2>1 DEF IInv, TypeOK, FramesOrdered, PhasesInv, AbsentAccountsAreEmpty,
                      Concluded, journal, world
<1> QED BY <1>1, <1>2, <1>3, <1>4, <1>5, <1>6, <1>7, <1>8, <1>9, <1>10, <1>11, <1>12, <1>13
        DEF Next

-----------------------------------------------------------------------------
(* Theorems *)

\* Every behaviour of a transaction (transaction.fe) keeps the invariant.
THEOREM Inductive == Spec => []IInv
BY InitIInv, NextIInv, PTL DEF Spec

\* The state of the transaction always has its type.
THEOREM TypeCorrect == Spec => []TypeOK
<1>1. IInv => TypeOK
  BY DEF IInv
<1> QED BY <1>1, Inductive, PTL

\* Undoing any journaled change brings back the whole world before it, whether
\* or not its account existed (transaction.fe, undo_to): rollback is exact.
THEOREM RollbackIsExact == Spec => []JournalRestores
<1>1. IInv => JournalRestores
  BY DEF IInv, JournalRestores, Restorable, Undoes, journal
<1> QED BY <1>1, Inductive, PTL

\* An absent account never holds anything a later creation would inherit, at any
\* point a rollback can return to.
THEOREM NothingWithoutAccount == Spec => []AbsentAccountsAreEmpty
<1>1. IInv => AbsentAccountsAreEmpty
  BY DEF IInv
<1> QED BY <1>1, Inductive, PTL

\* Checkpoints close in reverse opening order over one journal and one log.
THEOREM CheckpointsNest == Spec => []FramesOrdered
<1>1. IInv => FramesOrdered
  BY DEF IInv
<1> QED BY <1>1, Inductive, PTL

\* The undo loop's assertions fail for nothing but the cleared delegation of an
\* account that does not exist.
THEOREM OnlyOneUndoPanics == Spec => []OnlyAbsentClearPanics
<1>1. ASSUME IInv PROVE OnlyAbsentClearPanics
  <2>1. ASSUME phase = "panicked"
        PROVE  LET c == journal[Len(journal)]
               IN c.kind = "DELEGATION" /\ ~c.existed /\ ~exists(world, c.address)
    <3>1. /\ Restorable(ledger) /\ Len(journal) > 0 /\ Len(journal) \in Nat
          /\ undo_panics(journal[Len(journal)], world)
      BY <1>1, <2>1, IInvFacts DEF IInv, PhasesInv, Concluded
    <3>2. Undoes(journal[Len(journal)], At(ledger, Len(journal) - 1), At(ledger, Len(journal)))
      BY <3>1 DEF Restorable, journal
    <3>3. At(ledger, Len(journal)) = world
      BY <3>1 DEF At, journal, world
    <3> QED BY <3>1, <3>2, <3>3 DEF Undoes
  <2> QED BY <2>1 DEF OnlyAbsentClearPanics
<1> QED BY <1>1, Inductive, PTL

(***************************************************************************)
(* What a transaction owes its frames and the rules of gas and settlement: *)
(* the journal implements nested snapshots, prices stores against the words*)
(* the transaction found, covers what its refund counter owes, and leaves  *)
(* no account it emptied; for every set of accounts, slots and words.      *)
(***************************************************************************)

(* The inductive invariant, on top of the journal's *)

\* Outside every frame nothing is static.
OutermostIsNotStatic ==
  /\ frames = <<>> => ~isStatic
  /\ frames # <<>> => ~frames[1].was_static

\* A word that was never captured was never written: it is the same at every point a
\* rollback can return to.
OriginalsInv ==
  \A a \in Addr, s \in Slots :
    IF originals[a][s] = Uncaptured
    THEN \A k \in 0..Len(journal) : At(ledger, k).storage[a][s] = PreState.storage[a][s]
    ELSE originals[a][s] = PreState.storage[a][s]

\* An account emptied by the transaction is touched, at every such point.
EmptiedAreTouched ==
  \A k \in 0..Len(journal) : \A a \in Addr :
    is_empty(At(ledger, k), a) /\ ~is_empty(PreState, a) => a \in At(ledger, k).touched

\* The slots that hold a word in p and none in w; what a refund counter owes for them.
cleared(p, w) ==
  {k \in Addr \X Slots : p.storage[k[1]][k[2]] # 0 /\ w.storage[k[1]][k[2]] = 0}
covers(counter, p, w) == counter >= 4800 * Cardinality(cleared(p, w))

\* The refund counter covers the cleared slots, and so does the one each frame keeps.
RefundInv ==
  /\ phase \in {"setup", "running", "logged"} => covers(refund, PreState, world)
  /\ \A i \in 1..Len(frames) :
       covers(frames[i].refund, PreState, At(ledger, frames[i].position))

\* What settlement leaves behind.
NothingEmptied == \A a \in world.accounts : is_empty(world, a) => is_empty(PreState, a)

HistoryInv ==
  /\ OutermostIsNotStatic
  /\ ~Concluded => OriginalsInv /\ EmptiedAreTouched /\ RefundInv
  /\ Concluded => NothingEmptied

-----------------------------------------------------------------------------
(* What an operation makes of the ledger *)

\* M has L's changes; each later world empties none but touched accounts, and keeps
\* every word outside the set of keys K.
Made(L, M, K) ==
  /\ WellFormed(L) /\ WellFormed(M) /\ Extends(L, M)
  /\ \A k \in Len(L.journal) + 1..Len(M.journal) :
       LET w == At(M, k) IN
       /\ L.world.touched \subseteq w.touched
       /\ \A a \in Addr : a \notin w.touched => (is_empty(w, a) <=> is_empty(L.world, a))
       /\ \A a \in Addr, s \in Slots : <<a, s>> \notin K => w.storage[a][s] = L.world.storage[a][s]

\* The last world of a ledger is the current one.
LEMMA AtEnd ==
  ASSUME NEW L, WellFormed(L)
  PROVE  At(L, Len(L.journal)) = L.world /\ Len(L.journal) \in Nat /\ L.world \in World
BY DEF WellFormed, Ledger, At

\* An operation that does nothing.
LEMMA NothingMade ==
  ASSUME NEW L, WellFormed(L), NEW K
  PROVE  Made(L, L, K)
<1>1. Extends(L, L) /\ Len(L.journal) \in Nat
  BY ExtendsRefl, AtEnd
<1> QED BY <1>1 DEF Made

\* One recorded change.
LEMMA RecordMade ==
  ASSUME NEW L, WellFormed(L), NEW c \in Change, NEW w \in World, NEW K,
         L.world.touched \subseteq w.touched,
         \A a \in Addr : a \notin w.touched => (is_empty(w, a) <=> is_empty(L.world, a)),
         \A a \in Addr, s \in Slots : <<a, s>> \notin K => w.storage[a][s] = L.world.storage[a][s]
  PROVE  Made(L, Record(L, c, w), K)
<1> DEFINE M == Record(L, c, w)
<1>1. /\ WellFormed(M) /\ Extends(L, M) /\ Len(M.journal) = Len(L.journal) + 1
      /\ At(M, Len(L.journal) + 1) = w
  BY RecordExtends
<1>2. Len(L.journal) \in Nat
  BY AtEnd
<1> HIDE DEF M
<1>3. \A k \in Len(L.journal) + 1..Len(M.journal) : k = Len(L.journal) + 1
  BY <1>1, <1>2
<1> QED BY <1>1, <1>3 DEF Made, M

\* One operation after another.
LEMMA MadeTrans ==
  ASSUME NEW L, NEW M, NEW N, NEW K, Made(L, M, K), Made(M, N, K)
  PROVE  Made(L, N, K)
<1>1. /\ WellFormed(L) /\ WellFormed(M) /\ WellFormed(N) /\ Extends(L, M) /\ Extends(M, N)
      /\ Extends(L, N)
  BY ExtendsTrans DEF Made
<1>2. /\ Len(L.journal) \in Nat /\ Len(M.journal) \in Nat /\ Len(N.journal) \in Nat
      /\ At(M, Len(M.journal)) = M.world /\ At(L, Len(L.journal)) = L.world
      /\ Len(L.journal) <= Len(M.journal) /\ Len(M.journal) <= Len(N.journal)
  BY <1>1, AtEnd DEF Extends
<1>3. /\ L.world.touched \subseteq M.world.touched
      /\ \A a \in Addr : a \notin M.world.touched => (is_empty(M.world, a) <=> is_empty(L.world, a))
      /\ \A a \in Addr, s \in Slots :
           <<a, s>> \notin K => M.world.storage[a][s] = L.world.storage[a][s]
  <2>1. CASE Len(M.journal) = Len(L.journal)
    <3>1. M.world = L.world
      BY <1>1, <1>2, <2>1 DEF Extends
    <3> QED BY <3>1
  <2>2. CASE Len(M.journal) # Len(L.journal)
    <3>1. Len(M.journal) \in Len(L.journal) + 1..Len(M.journal)
      BY <1>2, <2>2
    <3> QED BY <1>2, <3>1 DEF Made
  <2> QED BY <2>1, <2>2
<1>4. ASSUME NEW k \in Len(L.journal) + 1..Len(N.journal)
      PROVE  LET w == At(N, k) IN
             /\ L.world.touched \subseteq w.touched
             /\ \A a \in Addr : a \notin w.touched => (is_empty(w, a) <=> is_empty(L.world, a))
             /\ \A a \in Addr, s \in Slots :
                  <<a, s>> \notin K => w.storage[a][s] = L.world.storage[a][s]
  <2>1. CASE k <= Len(M.journal)
    <3>1. At(N, k) = At(M, k) /\ k \in Len(L.journal) + 1..Len(M.journal)
      BY <1>1, <1>2, <2>1 DEF Extends
    <3> QED BY <3>1 DEF Made
  <2>2. CASE ~(k <= Len(M.journal))
    <3>1. k \in Len(M.journal) + 1..Len(N.journal)
      BY <1>2, <2>2
    <3>2. LET w == At(N, k) IN
             /\ M.world.touched \subseteq w.touched
             /\ \A a \in Addr : a \notin w.touched => (is_empty(w, a) <=> is_empty(M.world, a))
             /\ \A a \in Addr, s \in Slots :
                  <<a, s>> \notin K => w.storage[a][s] = M.world.storage[a][s]
      BY <3>1 DEF Made
    <3>3. \A a \in Addr : a \notin At(N, k).touched => a \notin M.world.touched
      BY <3>2
    <3> QED BY <1>3, <3>2, <3>3
  <2> QED BY <2>1, <2>2
<1> QED BY <1>1, <1>4 DEF Made

\* A mark changes its own set and nothing else.
LEMMA InsertFacts ==
  ASSUME NEW w \in World, NEW kind \in SetKinds, NEW a \in Addr,
         NEW s \in Slots \cup {NoSlot}
  PROVE  LET u == insert(w, kind, a, s) IN
         /\ u.accounts = w.accounts /\ u.balance = w.balance /\ u.nonce = w.nonce
         /\ u.code = w.code /\ u.storage = w.storage /\ u.transient = w.transient
         /\ w.touched \subseteq u.touched
         /\ kind # "DOOMED" => u.doomed = w.doomed
         /\ kind = "TOUCHED" => a \in u.touched
<1>1. CASE kind = "WARM_ACCOUNT"
  BY <1>1 DEF World, insert
<1>2. CASE kind = "WARM_STORAGE"
  BY <1>2 DEF World, insert
<1>3. CASE kind = "TOUCHED"
  BY <1>3 DEF World, insert
<1>4. CASE kind = "DOOMED"
  BY <1>4 DEF World, insert
<1> QED BY <1>1, <1>2, <1>3, <1>4 DEF SetKinds

LEMMA MarkMade ==
  ASSUME NEW L, WellFormed(L), NEW kind \in SetKinds, NEW a \in Addr,
         NEW s \in Slots \cup {NoSlot}, kind = "WARM_STORAGE" => s \in Slots,
         NEW K, NEW o \in MarkOutcomes(L, kind, a, s)
  PROVE  /\ Made(L, o[1], K) /\ o[1].world.storage = L.world.storage
         /\ o[1].world.balance = L.world.balance /\ o[1].world.nonce = L.world.nonce
         /\ o[1].world.code = L.world.code
         /\ kind # "DOOMED" => stateOf(o[1].world) = stateOf(L.world)
         /\ kind = "TOUCHED" /\ o[2] = OK => a \in o[1].world.touched
<1>1. L.world \in World /\ Made(L, L, K)
  BY NothingMade, AtEnd
<1>2. o = <<mark(L, kind, a, s), OK>> \/ o = <<L, ERR_HOST_ALLOCATION>>
  BY DEF MarkOutcomes, Outcomes
<1>3. CASE o[1] = L
  <2>1. o[2] = OK => mark(L, kind, a, s) = L
    BY <1>2, <1>3 DEF OK, ERR_HOST_ALLOCATION
  <2>2. o[2] = OK /\ kind = "TOUCHED" => a \in L.world.touched
    <3>1. SUFFICES ASSUME mark(L, kind, a, s) = L, kind = "TOUCHED", a \notin L.world.touched
                   PROVE  FALSE
      BY <2>1
    <3>2. insert(L.world, kind, a, s) = L.world
      BY <3>1 DEF mark, Record, marked
    <3> QED BY <1>1, <3>1, <3>2, InsertFacts
  <2> QED BY <1>1, <1>3, <2>2
<1>4. CASE o[1] # L
  <2> DEFINE c == change(kind, a, s, 0, TRUE)
             u == insert(L.world, kind, a, s)
  <2>1. o = <<mark(L, kind, a, s), OK>> /\ mark(L, kind, a, s) # L
    BY <1>2, <1>4
  <2>2. o[1] = Record(L, c, u)
    BY <2>1 DEF mark
  <2>3. c \in Change /\ u \in World
    BY <1>1, InsertType DEF change, Change, Kinds
  <2>4. /\ u.accounts = L.world.accounts /\ u.balance = L.world.balance
        /\ u.nonce = L.world.nonce /\ u.code = L.world.code
        /\ u.storage = L.world.storage /\ u.transient = L.world.transient
        /\ L.world.touched \subseteq u.touched
        /\ kind # "DOOMED" => u.doomed = L.world.doomed
        /\ kind = "TOUCHED" => a \in u.touched
    BY <1>1, InsertFacts
  <2> HIDE DEF c, u
  <2>5. \A b \in Addr : is_empty(u, b) <=> is_empty(L.world, b)
    BY <2>4 DEF is_empty
  <2>6. Made(L, o[1], K)
    BY <2>2, <2>3, <2>4, <2>5, RecordMade
  <2>7. o[1].world = u
    BY <2>2 DEF Record
  <2> QED BY <2>4, <2>6, <2>7 DEF stateOf
<1> QED BY <1>3, <1>4

\* What a write changes of world w: the words of its kind alone.
Edits(w, u, kind, a, s, v) ==
  /\ u.touched = w.touched
  /\ \A b \in Addr : b # a \/ kind \in {"STORAGE", "TRANSIENT"}
       => (is_empty(u, b) <=> is_empty(w, b))
  /\ kind # "STORAGE" => u.storage = w.storage
  /\ kind = "STORAGE" => u.storage = [w.storage EXCEPT ![a][s] = v]

LEMMA WrittenEdits ==
  ASSUME NEW w \in World, NEW kind, NEW a \in Addr, NEW s, NEW v, WriteArgs(kind, s, v)
  PROVE  Edits(w, written(w, kind, a, s, v), kind, a, s, v)
<1>1. CASE kind = "BALANCE"
  BY <1>1 DEF Edits, World, written, set_balance, is_empty
<1>2. CASE kind = "NONCE"
  BY <1>2 DEF Edits, World, written, set_nonce, is_empty
<1>3. CASE kind = "STORAGE"
  <2>1. CASE v = 0
    BY <1>3, <2>1 DEF Edits, World, written, storage_store, is_empty
  <2>2. CASE v # 0
    BY <1>3, <2>2 DEF Edits, World, written, storage_store, is_empty
  <2> QED BY <2>1, <2>2
<1>4. CASE kind = "TRANSIENT"
  BY <1>4 DEF Edits, World, written, is_empty
<1> QED BY <1>1, <1>2, <1>3, <1>4 DEF WriteArgs

\* What outcome o of a write makes of L.
WriteMakes(L, o, K, kind, a, s, v) ==
  /\ Made(L, o[1], K)
  /\ isStatic => o[1] = L
  /\ o[2] \in {OK, ERR_STATIC_WRITE, ERR_HOST_ALLOCATION}
  /\ o[2] # OK \/ kind # "STORAGE" => o[1].world.storage = L.world.storage
  /\ o[2] = OK /\ kind = "STORAGE"
       => o[1].world.storage = [L.world.storage EXCEPT ![a][s] = v]

\* A balance or nonce write needs its account touched; a storage write needs its key.
LEMMA WriteMade ==
  ASSUME NEW L, Restorable(L), NEW kind, NEW a \in Addr, NEW s, NEW v, WriteArgs(kind, s, v),
         kind \in {"BALANCE", "NONCE"} => a \in L.world.touched,
         NEW K, kind = "STORAGE" => <<a, s>> \in K,
         NEW o \in WriteOutcomes(L, kind, a, s, v)
  PROVE  WriteMakes(L, o, K, kind, a, s, v)
<1>1. L.world \in World /\ Made(L, L, K) /\ AbsentIsEmpty(L.world) /\ WellFormed(L)
  BY NothingMade, AtEnd DEF Restorable
<1>2. \/ isStatic /\ o = <<L, ERR_STATIC_WRITE>>
      \/ ~isStatic /\ (o = <<write(L, kind, a, s, v), OK>> \/ o = <<L, ERR_HOST_ALLOCATION>>)
  BY DEF WriteOutcomes, Outcomes
<1>3. CASE o[1] = L /\ o[2] \in {ERR_STATIC_WRITE, ERR_HOST_ALLOCATION}
  BY <1>1, <1>3 DEF WriteMakes, OK, ERR_STATIC_WRITE, ERR_HOST_ALLOCATION
<1>4. CASE ~isStatic /\ o = <<write(L, kind, a, s, v), OK>> /\ previousOf(L.world, kind, a, s) = v
  <2>1. o[1] = L /\ o[2] = OK
    BY <1>4 DEF write
  <2>2. kind = "STORAGE" => L.world.storage = [L.world.storage EXCEPT ![a][s] = v]
    <3>1. kind = "STORAGE" => s \in Slots /\ L.world.storage[a][s] = v
      BY <1>4 DEF previousOf, WriteArgs
    <3> QED BY <1>1, <3>1 DEF World, Storage
  <2> QED BY <1>1, <1>4, <2>1, <2>2 DEF WriteMakes
<1>5. CASE ~isStatic /\ o = <<write(L, kind, a, s, v), OK>> /\ previousOf(L.world, kind, a, s) # v
  <2> DEFINE c == change(kind, a, s, previousOf(L.world, kind, a, s), exists(L.world, a))
             u == written(L.world, kind, a, s, v)
  <2>1. o[1] = Record(L, c, u) /\ o[2] = OK
    BY <1>5 DEF write
  <2>2. c \in Change /\ u \in World
    <3>1. Undoes(c, L.world, u)
      BY <1>1, <1>5, WriteUndoes
    <3> QED BY <3>1 DEF Undoes
  <2>3. /\ u.touched = L.world.touched
        /\ \A b \in Addr : b # a \/ kind \in {"STORAGE", "TRANSIENT"}
              => (is_empty(u, b) <=> is_empty(L.world, b))
        /\ kind # "STORAGE" => u.storage = L.world.storage
        /\ kind = "STORAGE" => u.storage = [L.world.storage EXCEPT ![a][s] = v]
    <3>1. Edits(L.world, u, kind, a, s, v)
      BY <1>1, WrittenEdits
    <3> QED BY <3>1 DEF Edits
  <2> HIDE DEF c, u
  <2>4. \A b \in Addr : b \notin u.touched => (is_empty(u, b) <=> is_empty(L.world, b))
    <3>1. kind \in {"BALANCE", "NONCE", "STORAGE", "TRANSIENT"}
      BY DEF WriteArgs
    <3> QED BY <2>3, <3>1
  <2>5. \A b \in Addr, t \in Slots : <<b, t>> \notin K => u.storage[b][t] = L.world.storage[b][t]
    <3>1. CASE kind # "STORAGE"
      BY <2>3, <3>1
    <3>2. CASE kind = "STORAGE"
      <4>1. SUFFICES ASSUME NEW b \in Addr, NEW t \in Slots, <<b, t>> \notin K
                     PROVE  u.storage[b][t] = L.world.storage[b][t]
        OBVIOUS
      <4>2. b # a \/ t # s
        BY <3>2, <4>1
      <4>3. u.storage = [L.world.storage EXCEPT ![a][s] = v] /\ L.world.storage \in Storage
        BY <1>1, <2>3, <3>2 DEF World
      <4> QED BY <4>2, <4>3 DEF Storage
    <3> QED BY <3>1, <3>2
  <2>6. Made(L, o[1], K)
    BY <1>1, <2>1, <2>2, <2>3, <2>4, <2>5, RecordMade
  <2>7. o[1].world = u
    BY <2>1 DEF Record
  <2> QED BY <1>5, <2>1, <2>3, <2>6, <2>7 DEF WriteMakes
<1> QED BY <1>2, <1>3, <1>4, <1>5

\* A code change needs its account touched (record_code).
LEMMA CodeMade ==
  ASSUME NEW L, Restorable(L), NEW kind \in {"CODE", "DELEGATION"}, NEW a \in Addr,
         NEW c \in Codes, kind = "CODE" => L.world.code[a] = NoCode /\ exists(L.world, a),
         a \in L.world.touched, NEW K
  PROVE  /\ Made(L, record_code(L, kind, a, c), K)
         /\ record_code(L, kind, a, c).world.storage = L.world.storage
<1> DEFINE d == change(kind, a, NoSlot, L.world.code[a], exists(L.world, a))
           u == set_code(L.world, a, c)
<1>1. L.world \in World /\ AbsentIsEmpty(L.world) /\ WellFormed(L)
  BY AtEnd DEF Restorable
<1>2. d \in Change /\ u \in World
  BY <1>1, CodeUndoes DEF Undoes
<1>3. /\ u.touched = L.world.touched /\ u.storage = L.world.storage
      /\ \A b \in Addr : b # a => (is_empty(u, b) <=> is_empty(L.world, b))
  BY <1>1 DEF World, set_code, is_empty
<1>4. record_code(L, kind, a, c) = Record(L, d, u)
  BY DEF record_code
<1> HIDE DEF d, u
<1>5. Made(L, Record(L, d, u), K)
  BY <1>1, <1>2, <1>3, RecordMade
<1>6. Record(L, d, u).world = u
  BY DEF Record
<1> QED BY <1>3, <1>4, <1>5, <1>6

\* A balance or nonce write, with the touch before it, in the outermost frame or any other.
LEMMA TouchThenWriteMade ==
  ASSUME Restorable(ledger), NEW kind \in {"BALANCE", "NONCE"}, NEW a \in Addr,
         NEW v \in Nat, TouchThenWrite(kind, a, v)
  PROVE  /\ Made(ledger, ledger', {}) /\ world'.storage = world.storage
         /\ isStatic => stateOf(world') = stateOf(world)
<1>1. PICK t \in MarkOutcomes(ledger, "TOUCHED", a, NoSlot) :
        IF t[2] # OK THEN Returns(t)
        ELSE \E o \in WriteOutcomes(t[1], kind, a, NoSlot, v) : Returns(o)
  BY DEF TouchThenWrite
<1>2. Keeps(ledger, t) /\ WellFormed(ledger)
  BY MarkKeeps DEF SetKinds, Restorable
<1>3. /\ Made(ledger, t[1], {}) /\ t[1].world.storage = world.storage
      /\ stateOf(t[1].world) = stateOf(world)
      /\ t[2] = OK => a \in t[1].world.touched
  BY <1>2, MarkMade DEF SetKinds, world
<1>4. CASE t[2] # OK
  BY <1>1, <1>3, <1>4 DEF Returns, world
<1>5. CASE t[2] = OK
  <2>1. PICK o \in WriteOutcomes(t[1], kind, a, NoSlot, v) : Returns(o)
    BY <1>1, <1>5
  <2>2. WriteArgs(kind, NoSlot, v) /\ Restorable(t[1]) /\ a \in t[1].world.touched
        /\ kind # "STORAGE"
    BY <1>2, <1>3, <1>5 DEF WriteArgs, Keeps
  <2>3. /\ Made(t[1], o[1], {})
        /\ isStatic => o[1] = t[1]
        /\ o[1].world.storage = t[1].world.storage
    <3>1. /\ kind \in {"BALANCE", "NONCE"} => a \in t[1].world.touched
          /\ kind = "STORAGE" => <<a, NoSlot>> \in {}
      BY <2>2
    <3>2. WriteMakes(t[1], o, {}, kind, a, NoSlot, v)
      BY <2>2, <3>1, WriteMade
    <3> QED BY <2>2, <3>2 DEF WriteMakes
  <2>4. Made(ledger, o[1], {})
    BY <1>3, <2>3, MadeTrans
  <2> QED BY <1>3, <2>1, <2>3, <2>4 DEF Returns, world
<1> QED BY <1>4, <1>5

\* A code change, with the touch before it, outside static frames.
LEMMA TouchThenCodeMade ==
  ASSUME Restorable(ledger), NEW kind \in {"CODE", "DELEGATION"}, NEW a \in Addr,
         NEW c \in Codes, TouchThenCode(kind, a, c),
         kind = "CODE" => world.code[a] = NoCode /\ exists(world, a)
  PROVE  Made(ledger, ledger', {}) /\ world'.storage = world.storage
<1>1. PICK t \in MarkOutcomes(ledger, "TOUCHED", a, NoSlot) :
        IF t[2] # OK THEN Returns(t)
        ELSE \E o \in {<<record_code(t[1], kind, a, c), OK>>, <<t[1], ERR_HOST_ALLOCATION>>} :
               Returns(o)
  BY DEF TouchThenCode
<1>2. Keeps(ledger, t) /\ WellFormed(ledger)
  BY MarkKeeps DEF SetKinds, Restorable
<1>3. /\ Made(ledger, t[1], {}) /\ t[1].world.storage = world.storage
      /\ t[2] = OK => a \in t[1].world.touched
  BY <1>2, MarkMade DEF SetKinds, world
<1>4. kind = "CODE" => t[1].world.code[a] = NoCode /\ exists(t[1].world, a)
  BY TouchKeepsAccounts DEF exists, world
<1>5. ledger' = t[1] \/ (t[2] = OK /\ ledger' = record_code(t[1], kind, a, c))
  BY <1>1 DEF Returns
<1>6. CASE ledger' = t[1]
  BY <1>3, <1>6 DEF world
<1>7. CASE t[2] = OK /\ ledger' = record_code(t[1], kind, a, c)
  <2>1. Restorable(t[1]) /\ a \in t[1].world.touched
    BY <1>2, <1>3, <1>7 DEF Keeps
  <2>2. /\ Made(t[1], ledger', {}) /\ ledger'.world.storage = t[1].world.storage
    BY <1>4, <1>7, <2>1, CodeMade
  <2>3. Made(ledger, ledger', {})
    BY <1>3, <2>2, MadeTrans
  <2> QED BY <1>3, <2>2, <2>3 DEF world
<1> QED BY <1>5, <1>6, <1>7

-----------------------------------------------------------------------------
(* The abstract state, phase by phase *)

OpenPhases == {"setup", "running", "logged"}

\* What a frame f keeps, of the ledger L and the logs ls.
saving(L, ls, f) ==
  view(At(L, f.position), SubSeq(ls, 1, f.logs), f.refund, f.was_static)
saves(n, L, ls, fs) == [i \in 1..n |-> saving(L, ls, fs[i])]

OpenView ==
  /\ absMode = "open" /\ absCurrent = view(world, logs, refund, isStatic)
  /\ absSaved = saves(Len(frames), ledger, logs, frames) /\ absBase = stateOf(PreState)

\* A frame is being taken back, or its undo failed an assertion.
RestoringView ==
  /\ absMode = "restoring" /\ absCurrent = saving(ledger, logs, Top)
  /\ absSaved = saves(Len(frames) - 1, ledger, logs, frames) /\ absBase = stateOf(PreState)

\* The whole transaction is.
AbortingView ==
  /\ absMode = "ended" /\ absCurrent = view(PreState, <<>>, refund, isStatic)
  /\ absSaved = saves(Len(frames), ledger, logs, frames) /\ absBase = stateOf(PreState)

ConcludedView ==
  /\ absMode = "ended" /\ absCurrent = view(world, logs, refund, isStatic)
  /\ absSaved = saves(Len(frames), ledger, logs, frames) /\ absBase = stateOf(world)

\* The refinement mapping, before a step and after it.
LEMMA Views ==
  /\ phase \in OpenPhases => OpenView
  /\ phase \in {"reverting", "panicked"} /\ frames # <<>> => RestoringView
  /\ phase \in {"aborting", "panicked"} /\ frames = <<>> => AbortingView
  /\ Concluded => ConcludedView
BY DEF OpenPhases, OpenView, RestoringView, AbortingView, ConcludedView, Concluded,
       Reverting, Aborting, absMode, absCurrent, absSaved, absBase, savedBy, saving, saves

LEMMA ViewsAfter ==
  /\ phase' \in OpenPhases => OpenView'
  /\ phase' \in {"reverting", "panicked"} /\ frames' # <<>> => RestoringView'
  /\ phase' \in {"aborting", "panicked"} /\ frames' = <<>> => AbortingView'
  /\ Concluded' => ConcludedView'
BY DEF OpenPhases, OpenView, RestoringView, AbortingView, ConcludedView, Concluded,
       Reverting, Aborting, absMode, absCurrent, absSaved, absBase, savedBy, saving, saves

\* The abstract step an action takes, or none.
AbstractStep == Abstract!Next \/ UNCHANGED <<absCurrent, absSaved, absBase, absMode>>

\* The first n frames find their part of the journal and of the logs unchanged.
KeptFor(n, L, ls, fs, M, ms, gs) ==
  \A i \in 1..n : /\ fs[i] = gs[i] /\ At(L, fs[i].position) = At(M, fs[i].position)
                  /\ SubSeq(ls, 1, fs[i].logs) = SubSeq(ms, 1, fs[i].logs)

LEMMA SavesStay ==
  ASSUME NEW L, NEW M, NEW ls, NEW ms, NEW fs, NEW gs, NEW n \in Nat,
         KeptFor(n, L, ls, fs, M, ms, gs)
  PROVE  saves(n, L, ls, fs) = saves(n, M, ms, gs)
<1>1. \A i \in 1..n : saving(L, ls, fs[i]) = saving(M, ms, gs[i])
  BY DEF saving, KeptFor
<1> QED BY <1>1 DEF saves

\* The prefixes of a sequence's prefix.
LEMMA PrefixOfPrefix ==
  ASSUME NEW S, NEW q \in Seq(S), NEW m \in 0..Len(q), NEW k \in 0..m
  PROVE  SubSeq(SubSeq(q, 1, m), 1, k) = SubSeq(q, 1, k)
<1> DEFINE p == SubSeq(q, 1, m)
<1>1. p \in Seq(S) /\ Len(p) = m /\ \A i \in 1..m : p[i] = q[i]
  OBVIOUS
<1> HIDE DEF p
<1>2. /\ SubSeq(p, 1, k) \in Seq(S) /\ Len(SubSeq(p, 1, k)) = k
      /\ \A i \in 1..k : SubSeq(p, 1, k)[i] = p[i]
  BY <1>1
<1>3. /\ SubSeq(q, 1, k) \in Seq(S) /\ Len(SubSeq(q, 1, k)) = k
      /\ \A i \in 1..k : SubSeq(q, 1, k)[i] = q[i]
  OBVIOUS
<1>4. \A i \in 1..k : i \in 1..m
  OBVIOUS
<1> QED BY <1>1, <1>2, <1>3, <1>4 DEF p

\* The prefixes of a sequence that grew.
LEMMA PrefixOfAppend ==
  ASSUME NEW S, NEW q \in Seq(S), NEW e \in S, NEW k \in 0..Len(q)
  PROVE  SubSeq(Append(q, e), 1, k) = SubSeq(q, 1, k)
<1>1. /\ Append(q, e) \in Seq(S) /\ Len(Append(q, e)) = Len(q) + 1
      /\ \A i \in 1..Len(q) : Append(q, e)[i] = q[i]
  OBVIOUS
<1>2. /\ SubSeq(Append(q, e), 1, k) \in Seq(S) /\ Len(SubSeq(Append(q, e), 1, k)) = k
      /\ \A i \in 1..k : SubSeq(Append(q, e), 1, k)[i] = Append(q, e)[i]
  BY <1>1
<1>3. /\ SubSeq(q, 1, k) \in Seq(S) /\ Len(SubSeq(q, 1, k)) = k
      /\ \A i \in 1..k : SubSeq(q, 1, k)[i] = q[i]
  OBVIOUS
<1>4. \A i \in 1..k : i \in 1..Len(q)
  OBVIOUS
<1> QED BY <1>1, <1>2, <1>3, <1>4

-----------------------------------------------------------------------------
(* Operations *)

\* The frames' own bounds, for every one that is open.
LEMMA FrameBounds ==
  ASSUME IInv, NEW i \in 1..Len(frames)
  PROVE  /\ frames[i] \in Frame /\ frames[i].position \in 0..Len(journal)
         /\ frames[i].logs \in 0..Len(logs)
<1>1. frames[i] \in Frame /\ Len(journal) \in Nat /\ Len(logs) \in Nat
  BY IInvFacts
<1>2. frames[i].position <= Len(journal) /\ frames[i].logs <= Len(logs)
  BY DEF IInv, FramesOrdered
<1> QED BY <1>1, <1>2 DEF Frame

\* An operation that writes only the keys K, captured before, keeps the history and is
\* an update of the abstract state.
LEMMA OperationPromises ==
  ASSUME IInv, HistoryInv, Operating, NEW K, Made(ledger, ledger', K),
         frames' = frames, isStatic' = isStatic, phase' = "running",
         \A i \in 1..Len(frames) : SubSeq(logs', 1, frames[i].logs) = SubSeq(logs, 1, frames[i].logs),
         \A a \in Addr, s \in Slots :
           IF <<a, s>> \in K THEN originals'[a][s] = PreState.storage[a][s]
           ELSE originals'[a][s] = originals[a][s],
         covers(refund', PreState, world'),
         isStatic => stateOf(world') = stateOf(world) /\ logs' = logs /\ refund' = refund
  PROVE  HistoryInv' /\ Abstract!Update
<1>1. /\ Len(journal) \in Nat /\ Len(journal') \in Nat /\ Len(journal) <= Len(journal')
      /\ At(ledger, Len(journal)) = world
      /\ \A k \in 0..Len(journal) : At(ledger', k) = At(ledger, k)
      /\ ~Concluded /\ ~Concluded' /\ phase \in OpenPhases /\ phase' \in OpenPhases
  BY AtEnd DEF Made, Extends, journal, world, Operating, Concluded, OpenPhases
<1>2. PreState' = PreState /\ PreState \in World
  BY <1>1, AtWorld DEF PreState, Made, journal
<1>3. ASSUME NEW k \in 0..Len(journal'), k \notin 0..Len(journal)
      PROVE  LET w == At(ledger', k) IN
             /\ world.touched \subseteq w.touched
             /\ \A a \in Addr : a \notin w.touched => (is_empty(w, a) <=> is_empty(world, a))
             /\ \A a \in Addr, s \in Slots :
                  <<a, s>> \notin K => w.storage[a][s] = world.storage[a][s]
  <2>1. k \in Len(ledger.journal) + 1..Len(ledger'.journal)
    BY <1>1, <1>3 DEF journal
  <2> QED BY <2>1 DEF Made, world
<1>4. OriginalsInv'
  <2>1. SUFFICES ASSUME NEW a \in Addr, NEW s \in Slots
                 PROVE  IF originals'[a][s] = Uncaptured
                        THEN \A k \in 0..Len(journal') :
                               At(ledger', k).storage[a][s] = PreState.storage[a][s]
                        ELSE originals'[a][s] = PreState.storage[a][s]
    BY <1>2 DEF OriginalsInv
  <2>2. CASE <<a, s>> \in K
    BY <1>2, <2>2, CaptureAssumption DEF World, Storage
  <2>3. CASE <<a, s>> \notin K
    <3>1. originals'[a][s] = originals[a][s]
      BY <2>3
    <3>2. CASE originals[a][s] = Uncaptured
      <4>1. \A k \in 0..Len(journal) : At(ledger, k).storage[a][s] = PreState.storage[a][s]
        BY <1>1, <3>2 DEF HistoryInv, OriginalsInv
      <4>2. world.storage[a][s] = PreState.storage[a][s]
        BY <1>1, <4>1
      <4> QED BY <1>1, <1>3, <2>3, <3>1, <3>2, <4>1, <4>2
    <3>3. CASE originals[a][s] # Uncaptured
      BY <1>1, <3>1, <3>3 DEF HistoryInv, OriginalsInv
    <3> QED BY <3>2, <3>3
  <2> QED BY <2>2, <2>3
<1>5. EmptiedAreTouched'
  <2>1. SUFFICES ASSUME NEW k \in 0..Len(journal'), NEW a \in Addr,
                        is_empty(At(ledger', k), a), ~is_empty(PreState, a)
                 PROVE  a \in At(ledger', k).touched
    BY <1>2 DEF EmptiedAreTouched
  <2>2. \A i \in 0..Len(journal) : is_empty(At(ledger, i), a) => a \in At(ledger, i).touched
    BY <1>1, <2>1 DEF HistoryInv, EmptiedAreTouched
  <2>3. CASE k \in 0..Len(journal)
    BY <1>1, <2>1, <2>2, <2>3
  <2>4. CASE k \notin 0..Len(journal)
    <3>1. is_empty(world, a) => a \in world.touched
      BY <1>1, <2>2
    <3> QED BY <1>3, <2>1, <2>4, <3>1
  <2> QED BY <2>3, <2>4
<1>6. RefundInv'
  <2>1. \A i \in 1..Len(frames) :
          covers(frames[i].refund, PreState, At(ledger', frames[i].position))
    BY <1>1, FrameBounds DEF HistoryInv, RefundInv
  <2> QED BY <1>2, <2>1 DEF RefundInv
<1>7. HistoryInv'
  BY <1>1, <1>4, <1>5, <1>6 DEF HistoryInv, OutermostIsNotStatic
<1>8. OpenView /\ OpenView'
  BY <1>1, Views, ViewsAfter
<1>9. saves(Len(frames'), ledger', logs', frames') = saves(Len(frames), ledger, logs, frames)
  <2>1. KeptFor(Len(frames), ledger, logs, frames, ledger', logs', frames')
    BY <1>1, FrameBounds DEF KeptFor
  <2>2. Len(frames) \in Nat /\ Len(frames') = Len(frames)
    BY IInvFacts
  <2>3. saves(Len(frames), ledger, logs, frames) = saves(Len(frames), ledger', logs', frames')
    BY <2>1, <2>2, SavesStay
  <2> QED BY <2>2, <2>3
<1>10. absSaved' = absSaved /\ absBase' = absBase
  BY <1>2, <1>8, <1>9 DEF OpenView
<1>11. /\ absCurrent'.static = absCurrent.static
       /\ absCurrent.static => /\ absCurrent'.state = absCurrent.state
                               /\ absCurrent'.logs = absCurrent.logs
                               /\ absCurrent'.refund = absCurrent.refund
  BY <1>8 DEF OpenView, view
<1>12. absMode = "open" /\ absMode' = absMode
  BY <1>8 DEF OpenView
<1>13. Abstract!Update
  BY <1>10, <1>11, <1>12 DEF Abstract!Update
<1> QED BY <1>7, <1>13

\* Only finitely many slots are cleared.
LEMMA ClearedFinite ==
  ASSUME NEW p, NEW w
  PROVE  IsFiniteSet(cleared(p, w)) /\ Cardinality(cleared(p, w)) \in Nat
<1>1. IsFiniteSet(Addr \X Slots)
  BY SizeAssumption, FS_Product
<1>2. cleared(p, w) \subseteq Addr \X Slots
  BY DEF cleared
<1> QED BY <1>1, <1>2, FS_Subset, FS_CardinalityType

\* A counter that does not fall covers what it covered.
LEMMA CoversMore ==
  ASSUME NEW p, NEW w, NEW u, u.storage = w.storage, NEW r \in Int, NEW q \in Int, r <= q,
         covers(r, p, w)
  PROVE  covers(q, p, u)
<1>1. cleared(p, u) = cleared(p, w)
  BY DEF cleared
<1> QED BY <1>1, ClearedFinite DEF covers

\* The word an SSTORE is priced against (original_storage).
LEMMA OriginalWord ==
  ASSUME IInv, HistoryInv, ~Concluded, NEW a \in Addr, NEW s \in Slots
  PROVE  original_storage(a, s) = PreState.storage[a][s]
<1>1. world = At(ledger, Len(journal)) /\ Len(journal) \in 0..Len(journal)
  BY IInvFacts DEF world, journal, At
<1> QED BY <1>1 DEF HistoryInv, OriginalsInv, original_storage

\* The charge of a storage write keeps the counter above what the writes cleared
\* (gas.fe, EIP-3529).
LEMMA RefundCovers ==
  ASSUME NEW p \in World, NEW w \in World, NEW a \in Addr, NEW s \in Slots, NEW v \in Words,
         NEW u, u.storage = [w.storage EXCEPT ![a][s] = v], NEW r \in Int, covers(r, p, w)
  PROVE  covers(r + storage_refund(p.storage[a][s], w.storage[a][s], v), p, u)
<1> DEFINE o == p.storage[a][s]
           c == w.storage[a][s]
           C == cleared(p, w)
           D == cleared(p, u)
           x == storage_refund(o, c, v)
<1>1. \A b \in Addr, t \in Slots :
        u.storage[b][t] = IF b = a /\ t = s THEN v ELSE w.storage[b][t]
  BY DEF World, Storage
<1>2. \A k \in Addr \X Slots : k # <<a, s>> => (k \in D <=> k \in C)
  BY <1>1 DEF cleared
<1>3. /\ <<a, s>> \in C <=> o # 0 /\ c = 0
      /\ <<a, s>> \in D <=> o # 0 /\ v = 0
  BY <1>1 DEF cleared
<1>4. C \subseteq Addr \X Slots /\ D \subseteq Addr \X Slots
  BY DEF cleared
<1>5. IsFiniteSet(C) /\ Cardinality(C) \in Nat /\ IsFiniteSet(D) /\ Cardinality(D) \in Nat
      /\ r >= 4800 * Cardinality(C)
  BY ClearedFinite DEF covers
<1>6. o \in Nat /\ c \in Nat /\ v \in Nat
  BY WordsAssumption DEF World, Storage
<1> HIDE DEF C, D, o, c
<1>7. CASE o # 0 /\ c = 0 /\ v # 0
  <2>1. D = C \ {<<a, s>>} /\ <<a, s>> \in C
    BY <1>2, <1>3, <1>4, <1>7
  <2>2. Cardinality(D) = Cardinality(C) - 1
    BY <1>5, <2>1, FS_RemoveElement
  <2>3. x \in Int /\ x >= -4800
    BY <1>6, <1>7 DEF storage_refund
  <2> QED BY <1>5, <2>2, <2>3 DEF covers, D, o, c
<1>8. CASE o # 0 /\ c # 0 /\ v = 0
  <2>1. D = C \cup {<<a, s>>} /\ <<a, s>> \notin C
    BY <1>2, <1>3, <1>4, <1>8
  <2>2. Cardinality(D) = Cardinality(C) + 1
    BY <1>5, <2>1, FS_AddElement
  <2>3. x \in Int /\ x >= 4800
    BY <1>6, <1>8 DEF storage_refund
  <2> QED BY <1>5, <2>2, <2>3 DEF covers, D, o, c
<1>9. CASE o = 0 \/ (c = 0 <=> v = 0)
  <2>1. D = C
    BY <1>2, <1>3, <1>4, <1>9, SMTT(30)
  <2>2. x \in Int /\ x >= 0
    BY <1>6, <1>9 DEF storage_refund
  <2> QED BY <1>5, <2>1, <2>2 DEF covers, D, o, c
<1> QED BY <1>7, <1>8, <1>9

\* An operation that neither stores nor logs.
LEMMA PlainPromises ==
  ASSUME IInv, HistoryInv, Operating, Made(ledger, ledger', {}), world'.storage = world.storage,
         UNCHANGED <<frames, logs, isStatic, originals>>, refund' \in Int, refund <= refund',
         phase' = "running",
         isStatic => stateOf(world') = stateOf(world) /\ refund' = refund
  PROVE  HistoryInv' /\ Abstract!Update
<1>1. covers(refund, PreState, world)
  BY DEF Operating, HistoryInv, RefundInv, Concluded
<1>2. covers(refund', PreState, world')
  BY <1>1, CoversMore, IInvFacts
<1> QED BY <1>2, OperationPromises

\* A mark (mark).
LEMMA MarkPromises ==
  ASSUME IInv, HistoryInv, Operating, NEW kind \in SetKinds, NEW a \in Addr,
         NEW s \in Slots \cup {NoSlot}, kind = "WARM_STORAGE" => s \in Slots,
         kind = "DOOMED" => ~isStatic,
         \E o \in MarkOutcomes(ledger, kind, a, s) : Returns(o), UNCHANGED rest
  PROVE  HistoryInv' /\ Abstract!Update
<1>1. WellFormed(ledger)
  BY DEF IInv, Operating, Concluded, Restorable
<1>2. PICK o \in MarkOutcomes(ledger, kind, a, s) : Returns(o)
  OBVIOUS
<1>3. /\ Made(ledger, o[1], {}) /\ o[1].world.storage = ledger.world.storage
      /\ kind # "DOOMED" => stateOf(o[1].world) = stateOf(ledger.world)
  BY <1>1, MarkMade
<1>4. /\ Made(ledger, ledger', {}) /\ world'.storage = world.storage /\ phase' = "running"
      /\ isStatic => stateOf(world') = stateOf(world)
  BY <1>2, <1>3 DEF Returns, world
<1> QED BY <1>4, PlainPromises, IInvFacts DEF rest

\* An operation that leaves the ledger alone.
LEMMA StillPromises ==
  ASSUME IInv, HistoryInv, Operating, ledger' = ledger,
         UNCHANGED <<frames, logs, isStatic, originals>>, refund' \in Int, refund <= refund',
         phase' = "running", isStatic => refund' = refund
  PROVE  HistoryInv' /\ Abstract!Update
<1>1. Made(ledger, ledger', {})
  BY NothingMade DEF IInv, Operating, Concluded, Restorable
<1>2. world' = world
  BY DEF world
<1> QED BY <1>1, <1>2, PlainPromises

\* A storage write (storage_store): the word is captured, then written and charged.
LEMMA StorageStorePromises ==
  ASSUME IInv, HistoryInv, NEW a \in Addr, NEW s \in Slots, NEW v \in Words,
         StorageStore(a, s, v)
  PROVE  HistoryInv' /\ Abstract!Update
<1>1. /\ Operating /\ ~Concluded /\ Restorable(ledger) /\ WriteArgs("STORAGE", s, v)
      /\ UNCHANGED <<frames, logs, isStatic, created>>
      /\ covers(refund, PreState, world) /\ refund \in Int
  BY IInvFacts DEF StorageStore, IInv, Operating, Concluded, WriteArgs, HistoryInv, RefundInv
<1>2. CASE Returns(<<ledger, status'>>) /\ UNCHANGED <<originals, refund>>
  <2>1. ledger' = ledger /\ phase' = "running"
    BY <1>2 DEF Returns
  <2> QED BY <1>1, <1>2, <2>1, StillPromises
<1>3. CASE /\ ~isStatic
           /\ originals' = [originals EXCEPT ![a][s] = original_storage(a, s)]
           /\ \E o \in WriteOutcomes(ledger, "STORAGE", a, s, v) :
                /\ Returns(o)
                /\ refund' = refund + IF o[2] = OK
                     THEN storage_refund(original_storage(a, s), world.storage[a][s], v)
                     ELSE 0
  <2> DEFINE K == {<<a, s>>}
             charge == storage_refund(PreState.storage[a][s], world.storage[a][s], v)
  <2>1. original_storage(a, s) = PreState.storage[a][s]
    BY <1>1, OriginalWord
  <2>2. PICK o \in WriteOutcomes(ledger, "STORAGE", a, s, v) :
          Returns(o) /\ refund' = refund + IF o[2] = OK THEN charge ELSE 0
    BY <1>3, <2>1
  <2>3. WriteMakes(ledger, o, K, "STORAGE", a, s, v)
    <3>1. "STORAGE" \in {"BALANCE", "NONCE"} => a \in ledger.world.touched
      OBVIOUS
    <3>2. "STORAGE" = "STORAGE" => <<a, s>> \in K
      OBVIOUS
    <3> HIDE DEF K
    <3> QED BY <1>1, <3>1, <3>2, WriteMade
  <2>4. ledger' = o[1] /\ phase' = "running" /\ Made(ledger, ledger', K)
    BY <2>2, <2>3 DEF Returns, WriteMakes
  <2>5. \A b \in Addr, t \in Slots :
          IF <<b, t>> \in K THEN originals'[b][t] = PreState.storage[b][t]
          ELSE originals'[b][t] = originals[b][t]
    BY <1>3, <2>1, IInvFacts
  <2>6. charge \in Int /\ refund' \in Int
    BY <1>1, <2>2, refundType
  <2>7. covers(refund', PreState, world')
    <3>1. CASE o[2] # OK
      <4>1. world'.storage = world.storage /\ refund' = refund
        BY <1>1, <2>2, <2>3, <2>4, <3>1 DEF WriteMakes, world
      <4> QED BY <1>1, <4>1, CoversMore
    <3>2. CASE o[2] = OK
      <4>1. world'.storage = [world.storage EXCEPT ![a][s] = v]
        BY <2>3, <2>4, <3>2 DEF WriteMakes, world
      <4>2. PreState \in World /\ world \in World
        BY <1>1, AtWorld, IInvFacts DEF PreState, Restorable, journal
      <4>3. covers(refund + charge, PreState, world')
        BY <1>1, <4>1, <4>2, RefundCovers
      <4>4. refund' = refund + charge
        BY <2>2, <3>2
      <4> QED BY <4>3, <4>4
    <3> QED BY <3>1, <3>2
  <2>8. \A i \in 1..Len(frames) :
          SubSeq(logs', 1, frames[i].logs) = SubSeq(logs, 1, frames[i].logs)
    BY <1>1
  <2>9. frames' = frames /\ isStatic' = isStatic /\ ~isStatic
    BY <1>1, <1>3
  <2> HIDE DEF K
  <2> QED BY <1>1, <2>4, <2>5, <2>7, <2>8, <2>9, OperationPromises
<1>4. \/ Returns(<<ledger, status'>>) /\ UNCHANGED <<originals, refund>>
      \/ /\ ~isStatic
         /\ originals' = [originals EXCEPT ![a][s] = original_storage(a, s)]
         /\ \E o \in WriteOutcomes(ledger, "STORAGE", a, s, v) :
              /\ Returns(o)
              /\ refund' = refund + IF o[2] = OK
                   THEN storage_refund(original_storage(a, s), world.storage[a][s], v)
                   ELSE 0
  <2>1. CASE isStatic
    BY <2>1 DEF StorageStore, Returns
  <2>2. CASE ~isStatic
    <3>1. \/ Returns(<<ledger, ERR_HOST_ALLOCATION>>) /\ UNCHANGED <<originals, refund>>
          \/ /\ originals' = [originals EXCEPT ![a][s] = original_storage(a, s)]
             /\ \E o \in WriteOutcomes(ledger, "STORAGE", a, s, v) :
                  /\ Returns(o)
                  /\ refund' = refund + IF o[2] = OK
                       THEN storage_refund(original_storage(a, s), world.storage[a][s], v)
                       ELSE 0
      BY <2>2 DEF StorageStore
    <3>2. Returns(<<ledger, ERR_HOST_ALLOCATION>>) => Returns(<<ledger, status'>>)
      BY DEF Returns
    <3> QED BY <2>2, <3>1, <3>2
  <2> QED BY <2>1, <2>2
<1> QED BY <1>2, <1>3, <1>4

\* A transient write (transient_store).
LEMMA TransientStorePromises ==
  ASSUME IInv, HistoryInv, NEW a \in Addr, NEW s \in Slots, NEW v \in Words,
         TransientStore(a, s, v)
  PROVE  HistoryInv' /\ Abstract!Update
<1>1. Operating /\ Restorable(ledger) /\ WriteArgs("TRANSIENT", s, v) /\ UNCHANGED rest
  BY DEF IInv, TransientStore, Operating, Concluded, WriteArgs
<1>2. PICK o \in WriteOutcomes(ledger, "TRANSIENT", a, s, v) : Returns(o)
  BY DEF TransientStore
<1>3. /\ "TRANSIENT" \in {"BALANCE", "NONCE"} => a \in ledger.world.touched
      /\ "TRANSIENT" = "STORAGE" => <<a, s>> \in {}
  OBVIOUS
<1>4. WriteMakes(ledger, o, {}, "TRANSIENT", a, s, v)
  BY <1>1, <1>3, WriteMade
<1>5. /\ Made(ledger, ledger', {}) /\ world'.storage = world.storage /\ phase' = "running"
      /\ isStatic => world' = world
  BY <1>2, <1>4 DEF Returns, WriteMakes, world
<1> QED BY <1>1, <1>5, PlainPromises, IInvFacts DEF rest

\* A log (emit_log).
LEMMA EmitLogPromises ==
  ASSUME IInv, HistoryInv, NEW topic \in Topics, EmitLog(topic)
  PROVE  HistoryInv' /\ Abstract!Update
<1>1. /\ Operating /\ ledger' = ledger /\ phase' = "running"
      /\ UNCHANGED <<frames, refund, isStatic, originals, created>>
      /\ logs' = logs \/ (~isStatic /\ logs' = Append(logs, topic))
  BY DEF EmitLog, Returns
<1>2. CASE logs' = logs
  BY <1>1, <1>2, StillPromises, IInvFacts
<1>3. CASE ~isStatic /\ logs' = Append(logs, topic)
  <2> DEFINE K == {}
  <2>1. Made(ledger, ledger', K)
    BY <1>1, NothingMade DEF IInv, Operating, Concluded, Restorable
  <2>2. ASSUME NEW i \in 1..Len(frames)
        PROVE  SubSeq(logs', 1, frames[i].logs) = SubSeq(logs, 1, frames[i].logs)
    BY <1>3, FrameBounds, PrefixOfAppend, IInvFacts
  <2>3. covers(refund', PreState, world')
    <3>1. covers(refund, PreState, world) /\ world' = world /\ refund' = refund
      BY <1>1 DEF Operating, HistoryInv, RefundInv, Concluded, world
    <3> QED BY <3>1
  <2>4. \A a \in Addr, s \in Slots :
          IF <<a, s>> \in K THEN originals'[a][s] = PreState.storage[a][s]
          ELSE originals'[a][s] = originals[a][s]
    BY <1>1
  <2>5. frames' = frames /\ isStatic' = isStatic /\ ~isStatic /\ Operating /\ phase' = "running"
    BY <1>1, <1>3
  <2> HIDE DEF K
  <2> QED BY <2>1, <2>2, <2>3, <2>4, <2>5, OperationPromises
<1> QED BY <1>1, <1>2, <1>3

\* Outside every frame nothing is static.
LEMMA NotStaticOutside ==
  ASSUME IInv, HistoryInv, frames = <<>>
  PROVE  isStatic = FALSE
BY IInvFacts DEF HistoryInv, OutermostIsNotStatic

\* A balance or nonce write (set_balance, increment_nonce).
LEMMA AccountWritePromises ==
  ASSUME IInv, HistoryInv, Operating, NEW kind \in {"BALANCE", "NONCE"}, NEW a \in Addr,
         NEW v \in Nat, TouchThenWrite(kind, a, v), UNCHANGED rest
  PROVE  HistoryInv' /\ Abstract!Update
<1>1. Restorable(ledger)
  BY DEF IInv, Operating, Concluded
<1>2. /\ Made(ledger, ledger', {}) /\ world'.storage = world.storage
      /\ isStatic => stateOf(world') = stateOf(world)
  BY <1>1, TouchThenWriteMade
<1>3. phase' = "running"
  BY DEF TouchThenWrite, Returns
<1> QED BY <1>2, <1>3, PlainPromises, IInvFacts DEF rest

\* A code change outside static frames (deploy_code, delegate_code).
LEMMA CodePromises ==
  ASSUME IInv, HistoryInv, Operating, ~isStatic, NEW kind \in {"CODE", "DELEGATION"},
         NEW a \in Addr, NEW c \in Codes, TouchThenCode(kind, a, c), UNCHANGED rest,
         kind = "CODE" => world.code[a] = NoCode /\ exists(world, a)
  PROVE  HistoryInv' /\ Abstract!Update
<1>1. Restorable(ledger)
  BY DEF IInv, Operating, Concluded
<1>2. Made(ledger, ledger', {}) /\ world'.storage = world.storage
  BY <1>1, TouchThenCodeMade
<1>3. phase' = "running"
  BY DEF TouchThenCode, Returns
<1> QED BY <1>2, <1>3, PlainPromises, IInvFacts DEF rest

-----------------------------------------------------------------------------
(* The access list *)

\* Listing changes what is warm and nothing else, before anything is journaled.
LEMMA ListedPromises ==
  ASSUME IInv, HistoryInv, Listing, NEW A \in SUBSET Addr, NEW K \in SUBSET (Addr \X Slots),
         ledger' = listed(A, K), UNCHANGED <<rest, phase>>
  PROVE  HistoryInv' /\ Abstract!Update
<1>1. /\ journal = <<>> /\ frames = <<>> /\ ledger \in Ledger /\ phase = "setup"
      /\ world \in World /\ isStatic = FALSE
      /\ UNCHANGED <<frames, logs, refund, isStatic, originals, created, phase>>
  BY IInvFacts, NotStaticOutside DEF Listing, IInv, PhasesInv, rest
<1> DEFINE w == [world EXCEPT !.warmAccounts = A, !.warmSlots = K]
<1>2. /\ w.storage = world.storage /\ w.touched = world.touched
      /\ stateOf(w) = stateOf(world)
  BY <1>1 DEF World, stateOf
<1>3. /\ ledger' = [ledger EXCEPT !.world = w]
  BY <1>1 DEF Ledger, World, world, listed
<1> HIDE DEF w
<1>4. journal' = <<>> /\ world' = w
  BY <1>1, <1>3 DEF Ledger, journal, world
<1>5. PreState = world /\ PreState' = w /\ \A k \in 0..0 : At(ledger', k) = w
  BY <1>1, <1>4 DEF PreState, At, journal, world
<1>6. OriginalsInv'
  <2>1. SUFFICES ASSUME NEW a \in Addr, NEW s \in Slots
                 PROVE  originals'[a][s] = Uncaptured \/ originals'[a][s] = w.storage[a][s]
    BY <1>4, <1>5 DEF OriginalsInv
  <2>2. originals[a][s] = Uncaptured \/ originals[a][s] = world.storage[a][s]
    BY <1>1, <1>5 DEF HistoryInv, OriginalsInv, Concluded
  <2> QED BY <1>1, <1>2, <2>2
<1>7. EmptiedAreTouched'
  BY <1>4, <1>5 DEF EmptiedAreTouched
<1>8. RefundInv'
  <2>1. covers(refund, world, world)
    BY <1>1, <1>5 DEF HistoryInv, RefundInv, Concluded
  <2>2. cleared(w, w) = cleared(world, world)
    BY <1>2 DEF cleared
  <2>3. covers(refund, w, w)
    BY <2>1, <2>2 DEF covers
  <2> QED BY <1>1, <1>4, <1>5, <2>3 DEF RefundInv
<1>9. HistoryInv'
  BY <1>1, <1>6, <1>7, <1>8 DEF HistoryInv, OutermostIsNotStatic, Concluded
<1>10. OpenView /\ OpenView'
  BY <1>1, Views, ViewsAfter DEF OpenPhases
<1>11. saves(Len(frames), ledger, logs, frames) = saves(Len(frames'), ledger', logs', frames')
  <2>1. KeptFor(Len(frames), ledger, logs, frames, ledger', logs', frames')
    BY <1>1 DEF KeptFor
  <2>2. Len(frames) \in Nat /\ Len(frames') = Len(frames)
    BY <1>1, IInvFacts
  <2>3. saves(Len(frames), ledger, logs, frames) = saves(Len(frames), ledger', logs', frames')
    BY <2>1, <2>2, SavesStay
  <2> QED BY <2>2, <2>3
<1>12. absMode = "open" /\ absMode' = absMode /\ absSaved' = absSaved /\ absBase' = absBase
  BY <1>2, <1>5, <1>10, <1>11 DEF OpenView
<1>13. /\ absCurrent'.static = absCurrent.static /\ ~absCurrent.static
  BY <1>1, <1>10 DEF OpenView, view
<1> QED BY <1>9, <1>12, <1>13 DEF Abstract!Update

\* Every operation on one account.
LEMMA AccountOperationPromises ==
  ASSUME IInv, HistoryInv, NEW a \in Addr, AccountOperation(a)
  PROVE  HistoryInv' /\ Abstract!Update
<1>1. CASE WarmAccount(a)
  BY <1>1, MarkPromises DEF WarmAccount, SetKinds
<1>2. CASE Touch(a)
  BY <1>2, MarkPromises DEF Touch, SetKinds
<1>3. CASE Doom(a)
  BY <1>3, MarkPromises DEF Doom, SetKinds
<1>4. CASE IncrementNonce(a)
  <2>1. world.nonce[a] + 1 \in Nat
    BY IInvFacts DEF World
  <2> QED BY <1>4, <2>1, AccountWritePromises DEF IncrementNonce
<1>5. CASE MarkCreated(a)
  <2>1. /\ Operating /\ UNCHANGED <<frames, logs, refund, isStatic, originals>>
        /\ ledger' = ledger /\ phase' = "running"
    BY <1>5 DEF MarkCreated, Returns
  <2> QED BY <2>1, StillPromises, IInvFacts
<1>6. CASE \E v \in Balances : SetBalance(a, v)
  BY <1>6, AddressAssumption, AccountWritePromises DEF SetBalance
<1>7. CASE \E c \in {NoCode} \cup Contracts : DeployCode(a, c)
  <2>1. PICK c \in {NoCode} \cup Contracts : DeployCode(a, c)
    BY <1>7
  <2>2. Operating /\ UNCHANGED rest /\ world.code[a] = NoCode /\ exists(world, a) /\ c \in Codes
    BY <2>1 DEF DeployCode, Codes
  <2>3. CASE isStatic
    <3>1. ledger' = ledger /\ phase' = "running"
      BY <2>1, <2>3 DEF DeployCode, Returns
    <3> QED BY <2>2, <3>1, StillPromises, IInvFacts DEF rest
  <2>4. CASE ~isStatic
    BY <2>1, <2>2, <2>4, CodePromises DEF DeployCode
  <2> QED BY <2>3, <2>4
<1>8. CASE \E c \in {NoCode} \cup Addr : DelegateCode(a, c)
  BY <1>8, CodePromises, NotStaticOutside DEF DelegateCode, Codes
<1>9. CASE AccessListAccount(a)
  <2> DEFINE A == world.warmAccounts \cup {a}
             K == world.warmSlots
  <2>1. A \in SUBSET Addr /\ world.warmAccounts \in SUBSET Addr /\ K \in SUBSET (Addr \X Slots)
    BY IInvFacts DEF World
  <2>2. /\ ledger = listed(world.warmAccounts, K)
        /\ [ledger EXCEPT !.world.warmAccounts = @ \cup {a}] = listed(A, K)
    BY IInvFacts DEF Ledger, World, world, listed
  <2>3. /\ Listing /\ UNCHANGED <<rest, phase>>
        /\ ledger' = ledger \/ ledger' = [ledger EXCEPT !.world.warmAccounts = @ \cup {a}]
    BY <1>9 DEF AccessListAccount
  <2> HIDE DEF A, K
  <2> QED BY <2>1, <2>2, <2>3, ListedPromises
<1> QED BY <1>1, <1>2, <1>3, <1>4, <1>5, <1>6, <1>7, <1>8, <1>9 DEF AccountOperation

\* Every operation on one slot.
LEMMA SlotOperationPromises ==
  ASSUME IInv, HistoryInv, NEW a \in Addr, NEW s \in Slots, SlotOperation(a, s)
  PROVE  HistoryInv' /\ Abstract!Update
<1>1. CASE WarmSlot(a, s)
  BY <1>1, MarkPromises DEF WarmSlot, SetKinds
<1>2. CASE AccessListSlot(a, s)
  <2> DEFINE A == world.warmAccounts
             K == world.warmSlots
  <2>1. /\ A \in SUBSET Addr /\ A \cup {a} \in SUBSET Addr
        /\ K \in SUBSET (Addr \X Slots) /\ K \cup {<<a, s>>} \in SUBSET (Addr \X Slots)
    BY IInvFacts DEF World
  <2>2. /\ ledger = listed(A, K)
        /\ [ledger EXCEPT !.world.warmAccounts = @ \cup {a}] = listed(A \cup {a}, K)
        /\ [ledger EXCEPT !.world.warmAccounts = @ \cup {a},
                          !.world.warmSlots = @ \cup {<<a, s>>}]
             = listed(A \cup {a}, K \cup {<<a, s>>})
    BY IInvFacts DEF Ledger, World, world, listed
  <2>3. /\ Listing /\ UNCHANGED <<rest, phase>>
        /\ \/ ledger' = ledger
           \/ ledger' = [ledger EXCEPT !.world.warmAccounts = @ \cup {a}]
           \/ ledger' = [ledger EXCEPT !.world.warmAccounts = @ \cup {a},
                                       !.world.warmSlots = @ \cup {<<a, s>>}]
    BY <1>2 DEF AccessListSlot
  <2> HIDE DEF A, K
  <2>4. CASE ledger' = listed(A, K)
    BY <2>1, <2>3, <2>4, ListedPromises
  <2>5. CASE ledger' = listed(A \cup {a}, K)
    BY <2>1, <2>3, <2>5, ListedPromises
  <2>6. CASE ledger' = listed(A \cup {a}, K \cup {<<a, s>>})
    BY <2>1, <2>3, <2>6, ListedPromises
  <2> QED BY <2>2, <2>3, <2>4, <2>5, <2>6
<1>3. CASE \E v \in Words : StorageStore(a, s, v) \/ TransientStore(a, s, v)
  BY <1>3, StorageStorePromises, TransientStorePromises
<1> QED BY <1>1, <1>2, <1>3 DEF SlotOperation

-----------------------------------------------------------------------------
(* Frames *)

\* The saved copies with one more, and with one less.
LEMMA SavesAppend ==
  ASSUME NEW n \in Nat, NEW L, NEW ls, NEW fs
  PROVE  saves(n + 1, L, ls, fs) = Append(saves(n, L, ls, fs), saving(L, ls, fs[n + 1]))
<1> DEFINE p == saves(n, L, ls, fs)
           q == saves(n + 1, L, ls, fs)
           S == {saving(L, ls, fs[i]) : i \in 1..n + 1}
<1>1. /\ p \in [1..n -> S] /\ q \in [1..n + 1 -> S]
      /\ \A i \in 1..n : p[i] = saving(L, ls, fs[i])
      /\ \A i \in 1..n + 1 : q[i] = saving(L, ls, fs[i])
  BY DEF saves
<1> HIDE DEF p, q, S
<1>2. p \in Seq(S) /\ Len(p) = n /\ q \in Seq(S) /\ Len(q) = n + 1
  BY <1>1
<1> DEFINE r == Append(p, q[n + 1])
<1>3. q[n + 1] \in S
  BY <1>1
<1>4. r \in Seq(S) /\ Len(r) = n + 1 /\ r[n + 1] = q[n + 1] /\ \A i \in 1..n : r[i] = p[i]
  BY <1>2, <1>3
<1> HIDE DEF r
<1>5. \A i \in 1..n + 1 : r[i] = q[i]
  BY <1>1, <1>4
<1>6. q = r
  BY <1>2, <1>4, <1>5
<1>7. q[n + 1] = saving(L, ls, fs[n + 1])
  BY <1>1
<1> QED BY <1>6, <1>7 DEF p, q, r

LEMMA SavesFront ==
  ASSUME NEW n \in Nat, n # 0, NEW L, NEW ls, NEW fs
  PROVE  /\ saves(n, L, ls, fs) # <<>>
         /\ saves(n, L, ls, fs)[Len(saves(n, L, ls, fs))] = saving(L, ls, fs[n])
         /\ Abstract!Front(saves(n, L, ls, fs)) = saves(n - 1, L, ls, fs)
<1> DEFINE p == saves(n - 1, L, ls, fs)
           q == saves(n, L, ls, fs)
           S == {saving(L, ls, fs[i]) : i \in 1..n}
<1>1. /\ p \in [1..n - 1 -> S] /\ q \in [1..n -> S]
      /\ \A i \in 1..n - 1 : p[i] = saving(L, ls, fs[i])
      /\ \A i \in 1..n : q[i] = saving(L, ls, fs[i])
  BY DEF saves
<1> HIDE DEF p, q, S
<1>2. p \in Seq(S) /\ Len(p) = n - 1 /\ q \in Seq(S) /\ Len(q) = n
  BY <1>1
<1>3. /\ SubSeq(q, 1, n - 1) \in Seq(S) /\ Len(SubSeq(q, 1, n - 1)) = n - 1
      /\ \A i \in 1..n - 1 : SubSeq(q, 1, n - 1)[i] = q[i]
  BY <1>2, FrontOf
<1>4. \A i \in 1..n - 1 : SubSeq(q, 1, n - 1)[i] = p[i]
  BY <1>1, <1>3
<1>5. SubSeq(q, 1, n - 1) = p
  BY <1>2, <1>3, <1>4
<1>6. q # <<>> /\ q[Len(q)] = saving(L, ls, fs[n])
  BY <1>1, <1>2
<1> QED BY <1>2, <1>5, <1>6 DEF p, q, Abstract!Front

\* No frame is open: nothing is saved.
LEMMA SavesNothing ==
  ASSUME NEW L, NEW ls, NEW fs
  PROVE  saves(0, L, ls, fs) = <<>>
BY DEF saves

\* Opening a frame (checkpoint).
LEMMA CheckpointPromises ==
  ASSUME IInv, HistoryInv, NEW static \in BOOLEAN, checkpoint(static)
  PROVE  HistoryInv' /\ Abstract!Open
<1> DEFINE f == [position |-> Len(journal), was_static |-> isStatic,
                 refund |-> refund, logs |-> Len(logs)]
<1>1. /\ f.position = Len(journal) /\ f.was_static = isStatic /\ f.refund = refund
      /\ f.logs = Len(logs) /\ f \in Frame
  BY IInvFacts DEF Frame
<1>2. /\ frames' = Append(frames, f) /\ isStatic' = (isStatic \/ static)
      /\ UNCHANGED <<ledger, logs, refund, originals>>
      /\ phase \in {"setup", "running"} /\ phase' = "running"
  BY DEF checkpoint
<1> HIDE DEF f
<1>3. PICK n \in Nat : n = Len(frames)
  BY IInvFacts
<1>4. /\ Len(frames') = n + 1 /\ frames'[n + 1] = f /\ \A i \in 1..n : frames'[i] = frames[i]
  BY <1>1, <1>2, <1>3, IInvFacts
<1>5. /\ world' = world /\ journal' = journal /\ PreState' = PreState
      /\ At(ledger, Len(journal)) = world
  BY <1>2, IInvFacts DEF world, journal, PreState, At
<1>6. OutermostIsNotStatic'
  <2>1. CASE frames = <<>>
    <3>1. n = 0 /\ isStatic = FALSE
      BY <1>3, <2>1, NotStaticOutside
    <3>2. ~f.was_static
      BY <1>1, <3>1
    <3>3. frames'[1] = f /\ frames' # <<>>
      BY <1>4, <3>1
    <3> QED BY <3>2, <3>3 DEF OutermostIsNotStatic
  <2>2. CASE frames # <<>>
    <3>1. frames # <<>> /\ frames' # <<>> /\ frames'[1] = frames[1]
      BY <1>3, <1>4, <2>2, PopOrdered
    <3> QED BY <3>1 DEF HistoryInv, OutermostIsNotStatic
  <2> QED BY <2>1, <2>2
<1>7. OriginalsInv' /\ EmptiedAreTouched'
  BY <1>2, <1>5 DEF HistoryInv, Concluded, OriginalsInv, EmptiedAreTouched
<1>8. RefundInv'
  <2>1. covers(refund, PreState, world) /\ \A i \in 1..n :
          covers(frames[i].refund, PreState, At(ledger, frames[i].position))
    BY <1>2, <1>3 DEF HistoryInv, RefundInv, Concluded
  <2>2. \A i \in 1..n + 1 :
          covers(frames'[i].refund, PreState, At(ledger, frames'[i].position))
    BY <1>1, <1>4, <1>5, <2>1
  <2> QED BY <1>2, <1>4, <1>5, <2>1, <2>2 DEF RefundInv
<1>9. HistoryInv'
  BY <1>2, <1>6, <1>7, <1>8 DEF HistoryInv, Concluded
<1>10. OpenView /\ OpenView'
  BY <1>2, Views, ViewsAfter DEF OpenPhases
<1>11. absSaved' = Append(absSaved, absCurrent)
  <2>1. saves(n, ledger, logs, frames') = saves(n, ledger, logs, frames)
    <3>1. KeptFor(n, ledger, logs, frames, ledger, logs, frames')
      BY <1>4 DEF KeptFor
    <3> QED BY <3>1, SavesStay
  <2>2. saves(n + 1, ledger, logs, frames')
          = Append(saves(n, ledger, logs, frames'), saving(ledger, logs, frames'[n + 1]))
    BY SavesAppend
  <2>3. saving(ledger, logs, f) = view(world, logs, refund, isStatic)
    <3>1. SubSeq(logs, 1, Len(logs)) = logs
      BY IInvFacts
    <3> QED BY <1>1, <1>5, <3>1 DEF saving
  <2>4. absSaved' = saves(n + 1, ledger, logs, frames')
    BY <1>2, <1>4, <1>10 DEF OpenView
  <2> QED BY <1>3, <1>4, <1>10, <2>1, <2>2, <2>3, <2>4 DEF OpenView
<1>12. absCurrent' = [absCurrent EXCEPT !.static = @ \/ static]
  BY <1>2, <1>5, <1>10 DEF OpenView, view
<1>13. absMode = "open" /\ absMode' = absMode /\ absBase' = absBase
  BY <1>5, <1>10 DEF OpenView
<1> QED BY <1>9, <1>11, <1>12, <1>13 DEF Abstract!Open

\* Closing a frame: the ones that stay, and what is saved of them.
LEMMA PopPromises ==
  ASSUME IInv, HistoryInv, frames # <<>>, frames' = Pop(frames), isStatic' = Top.was_static,
         UNCHANGED <<ledger, originals>>, ~Concluded, ~Concluded',
         phase' = "running", covers(refund', PreState, world),
         \A i \in 1..Len(frames) - 1 :
           SubSeq(logs', 1, frames[i].logs) = SubSeq(logs, 1, frames[i].logs)
  PROVE  /\ HistoryInv' /\ PreState' = PreState /\ world' = world
         /\ saves(Len(frames'), ledger', logs', frames')
              = saves(Len(frames) - 1, ledger, logs, frames)
<1>1. PICK n \in Nat : n = Len(frames) - 1
  BY PopOrdered
<1>2. /\ Len(frames') = n /\ \A i \in 1..n : frames'[i] = frames[i]
      /\ Top = frames[n + 1] /\ n + 1 \in 1..n + 1 /\ Len(frames) = n + 1
      /\ frames' \in Seq(Frame)
  BY <1>1, PopOrdered
<1>3. world' = world /\ journal' = journal /\ PreState' = PreState /\ ledger' = ledger
  BY DEF world, journal, PreState
<1>4. OutermostIsNotStatic'
  <2>1. ~frames[1].was_static
    BY DEF HistoryInv, OutermostIsNotStatic
  <2>2. CASE n = 0
    <3>1. frames' = <<>> /\ Top = frames[1]
      BY <1>2, <2>2
    <3> QED BY <2>1, <3>1 DEF OutermostIsNotStatic
  <2>3. CASE n # 0
    <3>1. frames' # <<>> /\ frames'[1] = frames[1]
      BY <1>2, <2>3
    <3> QED BY <2>1, <3>1 DEF OutermostIsNotStatic
  <2> QED BY <2>2, <2>3
<1>5. OriginalsInv' /\ EmptiedAreTouched'
  BY <1>3 DEF HistoryInv, OriginalsInv, EmptiedAreTouched
<1>6. RefundInv'
  <2>1. \A i \in 1..n : i \in 1..Len(frames)
    BY <1>2
  <2>2. \A i \in 1..n :
          covers(frames'[i].refund, PreState, At(ledger, frames'[i].position))
    BY <1>2, <2>1 DEF HistoryInv, RefundInv
  <2> QED BY <1>2, <1>3, <2>2 DEF RefundInv
<1>7. KeptFor(n, ledger, logs, frames, ledger', logs', frames')
  BY <1>1, <1>2, <1>3 DEF KeptFor
<1>8. saves(n, ledger, logs, frames) = saves(n, ledger', logs', frames')
  BY <1>7, SavesStay
<1> QED BY <1>1, <1>2, <1>3, <1>4, <1>5, <1>6, <1>8 DEF HistoryInv

\* Committing a frame (commit).
LEMMA CommitPromises ==
  ASSUME IInv, HistoryInv, commit
  PROVE  HistoryInv' /\ Abstract!Commit
<1>1. /\ frames # <<>> /\ frames' = Pop(frames) /\ isStatic' = Top.was_static
      /\ phase = "running" /\ phase' = "running"
      /\ UNCHANGED <<ledger, logs, refund, originals>> /\ ~Concluded /\ ~Concluded'
  BY DEF commit, Concluded
<1>2. covers(refund', PreState, world)
  BY <1>1 DEF HistoryInv, RefundInv
<1>3. /\ HistoryInv' /\ PreState' = PreState /\ world' = world
      /\ saves(Len(frames'), ledger', logs', frames')
           = saves(Len(frames) - 1, ledger, logs, frames)
  BY <1>1, <1>2, PopPromises
<1>4. OpenView /\ OpenView'
  BY <1>1, Views, ViewsAfter DEF OpenPhases
<1>5. Len(frames) \in Nat /\ Len(frames) # 0 /\ frames[Len(frames)] = Top
  BY <1>1, IInvFacts, PopOrdered
<1>6. /\ absSaved # <<>> /\ absSaved[Len(absSaved)] = saving(ledger, logs, Top)
      /\ Abstract!Front(absSaved) = absSaved'
  BY <1>3, <1>4, <1>5, SavesFront DEF OpenView
<1>7. absCurrent' = [absCurrent EXCEPT !.static = saving(ledger, logs, Top).static]
  BY <1>1, <1>3, <1>4 DEF OpenView, saving, view
<1>8. absMode = "open" /\ absMode' = absMode /\ absBase' = absBase
  BY <1>3, <1>4 DEF OpenView
<1> QED BY <1>3, <1>6, <1>7, <1>8 DEF Abstract!Commit

\* A frame begins to be taken back (revert).
LEMMA RevertPromises ==
  ASSUME IInv, HistoryInv, revert
  PROVE  HistoryInv' /\ Abstract!Revert
<1>1. /\ frames # <<>> /\ phase = "running" /\ phase' = "reverting" /\ ~Concluded /\ ~Concluded'
      /\ UNCHANGED <<ledger, frames, logs, refund, isStatic, originals, created, status>>
  BY DEF revert, rest, Concluded
<1>2. PreState' = PreState /\ journal' = journal /\ world' = world /\ Top' = Top
  BY <1>1 DEF PreState, journal, world, Top
<1>3. HistoryInv'
  BY <1>1, <1>2 DEF HistoryInv, OutermostIsNotStatic, OriginalsInv, EmptiedAreTouched, RefundInv
<1>4. OpenView /\ RestoringView'
  BY <1>1, Views, ViewsAfter DEF OpenPhases
<1>5. Len(frames) \in Nat /\ Len(frames) # 0 /\ frames[Len(frames)] = Top
  BY <1>1, IInvFacts, PopOrdered
<1>6. /\ absSaved # <<>> /\ absSaved[Len(absSaved)] = saving(ledger, logs, Top)
      /\ Abstract!Front(absSaved) = saves(Len(frames) - 1, ledger, logs, frames)
  BY <1>4, <1>5, SavesFront DEF OpenView
<1>7. absSaved' = saves(Len(frames) - 1, ledger, logs, frames)
  BY <1>1, <1>4 DEF RestoringView
<1>8. absCurrent' = saving(ledger, logs, Top)
  BY <1>1, <1>2, <1>4 DEF RestoringView
<1>9. absMode = "open" /\ absMode' = "restoring" /\ absBase' = absBase
  BY <1>2, <1>4 DEF OpenView, RestoringView
<1> QED BY <1>3, <1>6, <1>7, <1>8, <1>9 DEF Abstract!Revert

\* The frame is closed (revert).
LEMMA RevertedPromises ==
  ASSUME IInv, HistoryInv, reverted
  PROVE  HistoryInv' /\ Abstract!Resume
<1>1. /\ frames # <<>> /\ frames' = Pop(frames) /\ isStatic' = Top.was_static
      /\ phase = "reverting" /\ phase' = "running" /\ Len(journal) <= Top.position
      /\ logs' = SubSeq(logs, 1, Top.logs) /\ refund' = Top.refund
      /\ UNCHANGED <<ledger, originals, created>> /\ ~Concluded /\ ~Concluded'
  BY DEF reverted, IInv, PhasesInv, Concluded, Target
<1>2. Top = frames[Len(frames)] /\ Len(frames) \in 1..Len(frames)
  BY <1>1, PopOrdered
<1>3. Top \in Frame /\ Top.position \in 0..Len(journal) /\ Top.logs \in 0..Len(logs)
  BY <1>2, FrameBounds
<1>4. At(ledger, Top.position) = world
  BY <1>1, <1>3, IInvFacts DEF At, world, journal
<1>5. covers(refund', PreState, world)
  BY <1>1, <1>2, <1>4 DEF HistoryInv, RefundInv
<1>6. ASSUME NEW i \in 1..Len(frames) - 1
      PROVE  SubSeq(logs', 1, frames[i].logs) = SubSeq(logs, 1, frames[i].logs)
  <2>1. i \in 1..Len(frames) /\ i <= Len(frames)
    BY <1>2
  <2>2. frames[i].logs \in 0..Len(logs)
    BY <2>1, FrameBounds
  <2>3. frames[i].logs <= Top.logs
    BY <1>2, <2>1 DEF IInv, FramesOrdered
  <2>4. frames[i].logs \in 0..Top.logs
    BY <1>3, <2>2, <2>3
  <2> QED BY <1>1, <1>3, <2>4, PrefixOfPrefix, IInvFacts
<1>7. /\ HistoryInv' /\ PreState' = PreState /\ world' = world
      /\ saves(Len(frames'), ledger', logs', frames')
           = saves(Len(frames) - 1, ledger, logs, frames)
  BY <1>1, <1>5, <1>6, PopPromises
<1>8. RestoringView /\ OpenView'
  BY <1>1, Views, ViewsAfter DEF OpenPhases
<1>9. absCurrent' = absCurrent
  BY <1>1, <1>4, <1>7, <1>8 DEF OpenView, RestoringView, saving
<1>10. absSaved' = absSaved /\ absBase' = absBase
  BY <1>7, <1>8 DEF OpenView, RestoringView
<1>11. absMode = "restoring" /\ absMode' = "open"
  BY <1>8 DEF OpenView, RestoringView
<1> QED BY <1>7, <1>9, <1>10, <1>11 DEF Abstract!Resume

\* Undoing one change (undo_to) takes no abstract step: the copy is already back.
LEMMA UndoPromises ==
  ASSUME IInv, HistoryInv, undo_to
  PROVE  HistoryInv' /\ UNCHANGED <<absCurrent, absSaved, absBase, absMode>>
<1>1. /\ phase \in {"reverting", "aborting"} /\ Len(journal) > Target
      /\ UNCHANGED <<frames, logs, refund, isStatic, originals, created, status>>
      /\ Restorable(ledger) /\ ~Concluded /\ Len(journal) \in Nat
  BY IInvFacts DEF undo_to, IInv, Concluded, rest
<1>2. Target \in Nat /\ \A i \in 1..Len(frames) : frames[i].position \in 0..Target
  <2>1. CASE phase = "reverting"
    <3>1. frames # <<>>
      BY <2>1 DEF IInv, PhasesInv
    <3>2. Top = frames[Len(frames)] /\ Len(frames) \in 1..Len(frames)
      BY <3>1, PopOrdered
    <3>3. Top.position \in Nat
      BY <3>2, FrameBounds
    <3>4. ASSUME NEW i \in 1..Len(frames) PROVE frames[i].position \in 0..Top.position
      <4>1. frames[i].position <= Top.position
        BY <3>2 DEF IInv, FramesOrdered
      <4> QED BY <3>3, <4>1, FrameBounds
    <3> QED BY <2>1, <3>3, <3>4 DEF Target
  <2>2. CASE phase = "aborting"
    <3>1. frames = <<>> /\ Target = 0
      BY <2>2 DEF Target, IInv, PhasesInv
    <3> QED BY <3>1
  <2> QED BY <1>1, <2>1, <2>2
<1>3. /\ \A k \in 0..Len(journal') : At(ledger', k) = At(ledger, k) /\ k \in 0..Len(journal)
      /\ \A k \in 0..Target : At(ledger', k) = At(ledger, k)
      /\ phase' = phase \/ phase' = "panicked"
  <2>1. CASE ledger' = ledger /\ phase' = "panicked"
    BY <2>1 DEF journal
  <2>2. CASE ledger' = undo(ledger) /\ phase' = phase
    <3>1. Len(ledger.journal) > 0 /\ Len(ledger.journal) \in Nat
      BY <1>1, <1>2 DEF journal
    <3>2. Len(ledger'.journal) = Len(ledger.journal) - 1 /\ Extends(ledger', ledger)
      BY <1>1, <2>2, <3>1, UndoRestorable
    <3> QED BY <1>1, <1>2, <2>2, <3>1, <3>2 DEF Extends, journal
  <2> QED BY <2>1, <2>2 DEF undo_to
<1>4. PreState' = PreState
  BY <1>2, <1>3 DEF PreState
<1>5. OriginalsInv' /\ EmptiedAreTouched'
  BY <1>1, <1>3, <1>4 DEF HistoryInv, OriginalsInv, EmptiedAreTouched
<1>6. RefundInv'
  <2>1. \A i \in 1..Len(frames) :
          covers(frames[i].refund, PreState, At(ledger', frames[i].position))
    BY <1>1, <1>2, <1>3 DEF HistoryInv, RefundInv
  <2>2. phase' \notin {"setup", "running", "logged"}
    BY <1>1, <1>3
  <2> QED BY <1>1, <1>4, <2>1, <2>2 DEF RefundInv
<1>7. HistoryInv'
  BY <1>1, <1>3, <1>5, <1>6 DEF HistoryInv, OutermostIsNotStatic, Concluded
<1>8. \A n \in 0..Len(frames) :
        saves(n, ledger, logs, frames) = saves(n, ledger', logs', frames')
  <2>1. SUFFICES ASSUME NEW n \in 0..Len(frames)
                 PROVE  saves(n, ledger, logs, frames) = saves(n, ledger', logs', frames')
    OBVIOUS
  <2>2. \A i \in 1..n : i \in 1..Len(frames)
    BY IInvFacts
  <2>3. KeptFor(n, ledger, logs, frames, ledger', logs', frames')
    BY <1>1, <1>2, <1>3, <2>2 DEF KeptFor
  <2>4. n \in Nat
    BY IInvFacts
  <2> QED BY <2>3, <2>4, SavesStay
<1>9. CASE phase = "reverting"
  <2>1. frames # <<>> /\ frames' # <<>>
    BY <1>1, <1>9 DEF IInv, PhasesInv
  <2>2. RestoringView /\ RestoringView'
    BY <1>1, <1>3, <1>9, <2>1, Views, ViewsAfter
  <2>3. Top = frames[Len(frames)] /\ Len(frames) \in 1..Len(frames) /\ Top' = Top
    BY <1>1, <2>1, PopOrdered DEF Top
  <2>4. saving(ledger', logs', Top) = saving(ledger, logs, Top)
    BY <1>1, <1>2, <1>3, <2>3 DEF saving
  <2>5. Len(frames) - 1 \in 0..Len(frames) /\ Len(frames') = Len(frames)
    BY <1>1, <2>3
  <2> QED BY <1>4, <1>7, <1>8, <2>2, <2>3, <2>4, <2>5 DEF RestoringView
<1>10. CASE phase = "aborting"
  <2>1. frames = <<>> /\ frames' = <<>>
    BY <1>1, <1>10 DEF IInv, PhasesInv
  <2>2. AbortingView /\ AbortingView'
    BY <1>1, <1>3, <1>10, <2>1, Views, ViewsAfter
  <2>3. Len(frames) \in 0..Len(frames) /\ Len(frames') = Len(frames)
    BY <2>1
  <2> QED BY <1>1, <1>4, <1>7, <1>8, <2>2, <2>3 DEF AbortingView
<1> QED BY <1>1, <1>9, <1>10

-----------------------------------------------------------------------------
(* The end of the transaction *)

\* Steps that leave the ledger and the frames alone and do not reopen the refund's window.
LEMMA HistoryStays ==
  ASSUME IInv, HistoryInv, ~Concluded, ~Concluded',
         UNCHANGED <<ledger, frames, refund, isStatic, originals>>,
         phase \in OpenPhases \/ phase' \notin OpenPhases
  PROVE  HistoryInv' /\ PreState' = PreState /\ world' = world
<1>1. PreState' = PreState /\ journal' = journal /\ world' = world
  BY DEF PreState, journal, world
<1> QED BY <1>1 DEF HistoryInv, OutermostIsNotStatic, OriginalsInv, EmptiedAreTouched,
                    RefundInv, OpenPhases

\* No frame is open, before or after.
LEMMA NoneSaved ==
  ASSUME frames = <<>>, frames' = <<>>
  PROVE  /\ saves(Len(frames), ledger, logs, frames) = <<>>
         /\ saves(Len(frames'), ledger', logs', frames') = <<>>
<1>1. Len(frames) = 0 /\ Len(frames') = 0
  OBVIOUS
<1> QED BY <1>1, SavesNothing

\* The logs are handed over (take_logs).
LEMMA TakeLogsPromises ==
  ASSUME IInv, HistoryInv, take_logs
  PROVE  HistoryInv' /\ Abstract!Update
<1>1. /\ phase = "running" /\ phase' = "logged" /\ frames = <<>> /\ frames' = <<>>
      /\ UNCHANGED <<ledger, frames, refund, isStatic, originals>> /\ ~Concluded /\ ~Concluded'
      /\ phase \in OpenPhases /\ phase' \in OpenPhases
  BY DEF take_logs, Concluded, OpenPhases
<1>2. HistoryInv' /\ PreState' = PreState /\ world' = world
  BY <1>1, HistoryStays
<1>3. OpenView /\ OpenView'
  BY <1>1, Views, ViewsAfter
<1>4. absSaved' = absSaved /\ absBase' = absBase /\ absMode = "open" /\ absMode' = absMode
  BY <1>1, <1>2, <1>3, NoneSaved DEF OpenView
<1>5. absCurrent'.static = absCurrent.static /\ ~absCurrent.static
  BY <1>1, <1>3, NotStaticOutside DEF OpenView, view
<1> QED BY <1>2, <1>4, <1>5 DEF Abstract!Update

\* The accounts settlement keeps are as they were, neither touched nor doomed if empty.
LEMMA SettledKeeps ==
  ASSUME NEW w \in World, NEW a \in settled(w).accounts
  PROVE  is_empty(settled(w), a) => is_empty(w, a) /\ a \notin w.touched
<1> DEFINE live == remove_accounts(w, w.doomed)
           gone == {b \in w.touched : exists(live, b) /\ is_empty(live, b)}
<1>1. settled(w) = remove_accounts(live, gone)
  BY DEF settled
<1>2. /\ live.accounts = w.accounts \ w.doomed
      /\ live.balance = [b \in Addr |-> IF b \in w.doomed THEN 0 ELSE w.balance[b]]
      /\ live.nonce = [b \in Addr |-> IF b \in w.doomed THEN 0 ELSE w.nonce[b]]
      /\ live.code = [b \in Addr |-> IF b \in w.doomed THEN NoCode ELSE w.code[b]]
      /\ live = [w EXCEPT !.accounts = live.accounts, !.balance = live.balance,
                          !.nonce = live.nonce, !.code = live.code, !.storage = live.storage]
  BY DEF World, remove_accounts
<1> HIDE DEF live
<1>3. /\ settled(w).accounts = live.accounts \ gone
      /\ settled(w).balance = [b \in Addr |-> IF b \in gone THEN 0 ELSE live.balance[b]]
      /\ settled(w).nonce = [b \in Addr |-> IF b \in gone THEN 0 ELSE live.nonce[b]]
      /\ settled(w).code = [b \in Addr |-> IF b \in gone THEN NoCode ELSE live.code[b]]
  BY <1>1, <1>2 DEF World, remove_accounts
<1>4. a \in live.accounts /\ a \notin gone /\ a \notin w.doomed /\ a \in Addr
  BY <1>2, <1>3 DEF World
<1>5. is_empty(settled(w), a) <=> is_empty(live, a)
  BY <1>3, <1>4 DEF is_empty
<1>6. is_empty(live, a) <=> is_empty(w, a)
  BY <1>2, <1>4 DEF is_empty
<1>7. is_empty(live, a) => a \notin w.touched
  BY <1>4 DEF exists
<1> QED BY <1>5, <1>6, <1>7

\* Settlement (settle).
LEMMA SettlePromises ==
  ASSUME IInv, HistoryInv, settle
  PROVE  HistoryInv' /\ Abstract!Settle
<1>1. /\ phase = "logged" /\ phase' = "settled" /\ frames = <<>> /\ frames' = <<>>
      /\ ledger' = [ledger EXCEPT !.world = settled(world)] /\ isStatic' = isStatic
      /\ ~Concluded /\ Concluded' /\ ledger \in Ledger /\ world \in World
  BY IInvFacts DEF settle, rest, Concluded
<1>2. world' = settled(world) /\ ledger'.journal = ledger.journal
      /\ ledger'.before = ledger.before
  BY <1>1 DEF Ledger, world
<1>3. NothingEmptied'
  <2>1. SUFFICES ASSUME NEW a \in world'.accounts, is_empty(world', a)
                 PROVE  is_empty(PreState', a)
    BY DEF NothingEmptied
  <2>2. is_empty(world, a) /\ a \notin world.touched
    BY <1>1, <1>2, <2>1, SettledKeeps
  <2>3. CASE Len(ledger.journal) = 0
    <3>1. PreState' = world'
      BY <1>2, <2>3 DEF PreState, At, world
    <3> QED BY <2>1, <3>1
  <2>4. CASE Len(ledger.journal) # 0
    <3>1. 0 < Len(ledger.journal) /\ Len(journal) \in 0..Len(journal)
      BY <2>4, IInvFacts DEF journal
    <3>2. PreState' = PreState /\ At(ledger, Len(journal)) = world
      BY <1>2, <3>1 DEF PreState, At, journal, world
    <3>3. a \in Addr
      <4>1. world' \in World
        BY <1>1, SettleStep, IInvFacts DEF IInv, TypeOK, Ledger, world
      <4> QED BY <4>1 DEF World
    <3> QED BY <1>1, <2>2, <3>1, <3>2, <3>3 DEF HistoryInv, EmptiedAreTouched
  <2> QED BY <2>3, <2>4
<1>4. HistoryInv'
  BY <1>1, <1>3 DEF HistoryInv, OutermostIsNotStatic
<1>5. OpenView /\ ConcludedView'
  BY <1>1, Views, ViewsAfter DEF OpenPhases
<1>6. absSaved = <<>> /\ absSaved' = <<>>
  BY <1>1, <1>5, NoneSaved DEF OpenView, ConcludedView
<1>7. absMode = "open" /\ absMode' = "ended" /\ absBase' = absCurrent'.state
  BY <1>5 DEF OpenView, ConcludedView, view
<1> QED BY <1>4, <1>6, <1>7 DEF Abstract!Settle

\* The end of the transaction: it stays, or is given up (finish).
LEMMA FinishPromises ==
  ASSUME IInv, HistoryInv, NEW commits \in BOOLEAN, finish(commits)
  PROVE  HistoryInv' /\ AbstractStep
<1>1. /\ frames = <<>> /\ frames' = <<>>
      /\ UNCHANGED <<ledger, frames, logs, refund, isStatic, originals, created, status>>
      /\ \/ phase = "settled" /\ phase' = "committed"
         \/ phase \in OpenPhases /\ phase' = "aborting"
  BY DEF finish, rest, OpenPhases
<1>2. CASE phase = "settled" /\ phase' = "committed"
  <2>1. Concluded /\ Concluded' /\ world' = world /\ PreState' = PreState
    BY <1>1, <1>2 DEF Concluded, world, PreState
  <2>2. HistoryInv'
    BY <1>1, <2>1 DEF HistoryInv, OutermostIsNotStatic, NothingEmptied
  <2>3. ConcludedView /\ ConcludedView'
    BY <2>1, Views, ViewsAfter
  <2>4. UNCHANGED <<absCurrent, absSaved, absBase, absMode>>
    BY <1>1, <2>1, <2>3, NoneSaved DEF ConcludedView
  <2> QED BY <2>2, <2>4 DEF AbstractStep
<1>3. CASE phase \in OpenPhases /\ phase' = "aborting"
  <2>1. ~Concluded /\ ~Concluded'
    BY <1>3 DEF Concluded, OpenPhases
  <2>2. HistoryInv' /\ PreState' = PreState /\ world' = world
    BY <1>1, <1>3, <2>1, HistoryStays
  <2>3. OpenView /\ AbortingView'
    BY <1>1, <1>3, Views, ViewsAfter
  <2>4. absSaved = <<>> /\ absSaved' = <<>>
    BY <1>1, <2>3, NoneSaved DEF OpenView, AbortingView
  <2>5. absMode = "open" /\ absMode' = "ended" /\ absBase' = absBase
    BY <2>2, <2>3 DEF OpenView, AbortingView
  <2>6. absCurrent'.state = absBase /\ absCurrent'.logs = <<>>
    BY <2>2, <2>3 DEF OpenView, AbortingView, view
  <2> QED BY <2>2, <2>4, <2>5, <2>6 DEF AbstractStep, Abstract!Next, Abstract!Abort
<1> QED BY <1>1, <1>2, <1>3

\* The transaction is taken back whole (finish).
LEMMA AbortedPromises ==
  ASSUME IInv, HistoryInv, aborted
  PROVE  HistoryInv' /\ UNCHANGED <<absCurrent, absSaved, absBase, absMode>>
<1>1. /\ phase = "aborting" /\ phase' = "aborted" /\ Len(journal) = 0 /\ logs' = <<>>
      /\ UNCHANGED <<ledger, frames, refund, isStatic, originals, created, status>>
      /\ frames = <<>> /\ frames' = <<>> /\ ~Concluded /\ ~Concluded'
  BY DEF aborted, Concluded, IInv, PhasesInv
<1>2. HistoryInv' /\ PreState' = PreState /\ world' = world
  BY <1>1, HistoryStays DEF OpenPhases
<1>3. PreState = world
  BY <1>1 DEF PreState, At, world, journal
<1>4. AbortingView
  BY <1>1, Views
<1>5. /\ absMode' = "ended" /\ absCurrent' = view(world', logs', refund', isStatic')
      /\ absSaved' = saves(Len(frames'), ledger', logs', frames')
      /\ absBase' = stateOf(PreState')
  BY <1>1 DEF Concluded, Reverting, Aborting, absMode, absCurrent, absSaved, absBase, savedBy,
              saving, saves
<1>6. absCurrent' = absCurrent
  BY <1>1, <1>2, <1>3, <1>4, <1>5 DEF AbortingView
<1>7. absSaved' = absSaved /\ absBase' = absBase /\ absMode' = absMode
  BY <1>1, <1>2, <1>4, <1>5, NoneSaved DEF AbortingView
<1> QED BY <1>2, <1>6, <1>7

-----------------------------------------------------------------------------
(* Every step *)

\* A transaction begins with nothing captured, cleared or open.
LEMMA InitPromises ==
  ASSUME Init
  PROVE  HistoryInv /\ Abstract!Init
<1>1. /\ IInv /\ frames = <<>> /\ logs = <<>> /\ refund = 0 /\ isStatic = FALSE
      /\ originals = [a \in Addr |-> [s \in Slots |-> Uncaptured]] /\ phase = "setup"
  BY InitIInv DEF Init
<1>2. journal = <<>> /\ world \in World /\ PreState = world
  BY <1>1, IInvFacts DEF IInv, PhasesInv, PreState, At, journal, world
<1>3. OriginalsInv
  <2>1. \A k \in 0..Len(journal) : At(ledger, k) = PreState
    BY <1>2 DEF PreState
  <2> QED BY <1>1, <2>1 DEF OriginalsInv
<1>4. EmptiedAreTouched
  BY <1>2 DEF EmptiedAreTouched, PreState
<1>5. RefundInv
  <2>1. cleared(world, world) = {}
    BY DEF cleared
  <2>2. covers(refund, PreState, world)
    BY <1>1, <1>2, <2>1, FS_EmptySet DEF covers
  <2> QED BY <1>1, <2>2 DEF RefundInv
<1>6. HistoryInv
  BY <1>1, <1>3, <1>4, <1>5 DEF HistoryInv, OutermostIsNotStatic, Concluded
<1>7. OpenView
  BY <1>1, Views DEF OpenPhases
<1>8. absSaved = <<>>
  BY <1>1, <1>7, SavesNothing DEF OpenView
<1>9. absBase = absCurrent.state /\ absMode = "open"
  BY <1>2, <1>7 DEF OpenView, view
<1>10. absCurrent.logs = <<>> /\ absCurrent.refund = 0 /\ absCurrent.static = FALSE
  BY <1>1, <1>7 DEF OpenView, view
<1> QED BY <1>6, <1>8, <1>9, <1>10 DEF Abstract!Init

\* Every step keeps the history, and is a step of the nested snapshots or none.
LEMMA NextPromises ==
  ASSUME IInv, HistoryInv, [Next]_vars
  PROVE  HistoryInv' /\ AbstractStep
<1>1. CASE \E a \in Addr : AccountOperation(a)
  BY <1>1, AccountOperationPromises DEF AbstractStep, Abstract!Next
<1>2. CASE \E a \in Addr, s \in Slots : SlotOperation(a, s)
  BY <1>2, SlotOperationPromises DEF AbstractStep, Abstract!Next
<1>3. CASE \E t \in Topics : EmitLog(t)
  BY <1>3, EmitLogPromises DEF AbstractStep, Abstract!Next
<1>4. CASE AddRefund
  <2>1. /\ Operating /\ frames = <<>> /\ refund' = refund + 12500 /\ phase' = "running"
        /\ UNCHANGED <<ledger, frames, logs, isStatic, originals, created, status>>
    BY <1>4 DEF AddRefund
  <2>2. refund' \in Int /\ refund <= refund' /\ ~isStatic
    BY <2>1, IInvFacts, NotStaticOutside
  <2> QED BY <2>1, <2>2, StillPromises DEF AbstractStep, Abstract!Next
<1>5. CASE \E static \in BOOLEAN : checkpoint(static)
  BY <1>5, CheckpointPromises DEF AbstractStep, Abstract!Next
<1>6. CASE commit
  BY <1>6, CommitPromises DEF AbstractStep, Abstract!Next
<1>7. CASE revert
  BY <1>7, RevertPromises DEF AbstractStep, Abstract!Next
<1>8. CASE undo_to
  BY <1>8, UndoPromises DEF AbstractStep
<1>9. CASE reverted
  BY <1>9, RevertedPromises DEF AbstractStep, Abstract!Next
<1>10. CASE take_logs
  BY <1>10, TakeLogsPromises DEF AbstractStep, Abstract!Next
<1>11. CASE settle
  BY <1>11, SettlePromises DEF AbstractStep, Abstract!Next
<1>12. CASE aborted
  BY <1>12, AbortedPromises DEF AbstractStep
<1>13. CASE \E commits \in BOOLEAN : finish(commits)
  BY <1>13, FinishPromises
<1>14. CASE UNCHANGED vars
  <2>1. UNCHANGED <<ledger, frames, logs, refund, isStatic, originals, created, status, phase>>
    BY <1>14 DEF vars
  <2>2. HistoryInv'
    BY <2>1 DEF HistoryInv, OutermostIsNotStatic, OriginalsInv, EmptiedAreTouched, RefundInv,
                NothingEmptied, Concluded, PreState, journal, world
  <2>3. UNCHANGED <<absCurrent, absSaved, absBase, absMode>>
    BY <2>1 DEF absMode, absCurrent, absSaved, absBase, savedBy, Reverting, Aborting, Concluded,
                PreState, Top, world
  <2> QED BY <2>2, <2>3 DEF AbstractStep
<1> QED BY <1>1, <1>2, <1>3, <1>4, <1>5, <1>6, <1>7, <1>8, <1>9, <1>10, <1>11, <1>12, <1>13,
           <1>14 DEF Next

-----------------------------------------------------------------------------
(* Theorems *)

\* Every behaviour of a transaction keeps its history (transaction.fe).
THEOREM HistoryKept == Spec => []HistoryInv
<1>1. Init => HistoryInv
  BY InitPromises
<1>2. IInv /\ HistoryInv /\ [Next]_vars => HistoryInv'
  BY NextPromises
<1> QED BY <1>1, <1>2, Inductive, PTL DEF Spec

\* SSTORE is always priced against the word its slot held when the transaction began,
\* whatever was captured and rolled back in between (transaction.fe, original_storage).
THEOREM PricesAgainstPreState == Spec => []OriginalIsPreState
<1>1. IInv /\ HistoryInv => OriginalIsPreState
  BY OriginalWord DEF OriginalIsPreState
<1> QED BY <1>1, Inductive, HistoryKept, PTL

\* The refund counter is never less than what the cleared slots are owed, so capping it
\* never takes a negative number (gas.fe, finish).
THEOREM RefundsAreCovered == Spec => []RefundCoversCleared
<1>1. ASSUME HistoryInv PROVE RefundCoversCleared
  <2>1. phase \in {"running", "logged"} => covers(refund, PreState, world)
    BY <1>1 DEF HistoryInv, RefundInv, Concluded
  <2> QED BY <2>1 DEF RefundCoversCleared, covers, cleared
<1> QED BY <1>1, HistoryKept, PTL

\* Settling touched accounts only leaves behind no account the transaction emptied
\* (transaction.fe, settle; EIP-161).
THEOREM SettlementIsComplete == Spec => []NoAccountLeftEmptied
<1>1. HistoryInv => NoAccountLeftEmptied
  BY DEF HistoryInv, NothingEmptied, NoAccountLeftEmptied, Concluded
<1> QED BY <1>1, HistoryKept, PTL

\* The journal implements nested snapshots: each frame that reverts gets back exactly what
\* it began from, an aborted transaction too, and a static frame only warms and touches.
THEOREM JournalImplementsSnapshots == Spec => NestedSnapshots
<1>1. Init => Abstract!Init
  BY InitPromises
<1>2. IInv /\ HistoryInv /\ [Next]_vars => [Abstract!Next]_<<absCurrent, absSaved, absBase, absMode>>
  BY NextPromises DEF AbstractStep
<1>3. IInv /\ HistoryInv /\ [Next]_vars => [Abstract!Next]_(Abstract!snapshotVars)
  BY <1>2 DEF Abstract!snapshotVars
<1> QED BY <1>1, <1>3, Inductive, HistoryKept, PTL DEF Spec, NestedSnapshots, Abstract!Spec
=============================================================================
