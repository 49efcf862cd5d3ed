----------------------------- MODULE CodeArena -----------------------------
(***************************************************************************)
(* The code arena of ingots/evm/src/state.fe: all accounts' code packed in *)
(* one buffer, as records of the owner's address, the length, the code and *)
(* its jump destination map.  Replacing a record compacts the buffer and   *)
(* moves the records behind it, whose owners keep their offsets.  A cell   *)
(* holds a word of the header, a byte of code or a byte of the map.        *)
(***************************************************************************)
EXTENDS Integers, Sequences, FiniteSetsExt

CONSTANTS Addr,
          Codes,      \* sequences of bytes
          MaxArena,   \* cells the buffer may be asked for; near 2^62 in the code
          MaxUndo     \* bound: code changes a transaction takes back

ASSUME CellAssumption == Codes \subseteq Seq(0..255) /\ <<>> \in Codes /\ Addr \cap Nat = {}
ASSUME SizeAssumption == {MaxArena, MaxUndo} \subseteq Nat /\ IsFiniteSet(Addr)

VARIABLES accounts,  \* address -> [found, offset, len]; offset counts from 0
          arena,     \* the buffer's cells: addresses, lengths, bytes
          capacity,  \* cells allocated for the buffer; truncation keeps them
          undo,      \* a transaction's changes, the last one last: the account, the
                     \* code it had, and whether it was there
          status     \* what the last operation returned

vars == <<accounts, arena, capacity, undo, status>>

OK == "OK"
ERR_HOST_ALLOCATION == "ERR_HOST_ALLOCATION"

\* Two header cells, the code and one cell of map per eight bytes.
jumpdest_map_len(len) == (len + 7) \div 8
record_len(len) == 2 + len + jumpdest_map_len(len)

PushBytes(op) == IF op \in 96..127 THEN op - 95 ELSE 0

\* Where an instruction begins: at 0 and behind every instruction with its PUSH data.
instructions(c) ==
  LET from[pc \in 0..Len(c) + 32] ==
        IF pc >= Len(c) THEN {} ELSE {pc} \cup from[pc + 1 + PushBytes(c[pc + 1])]
  IN from[0]

\* The map's bytes, with a bit for every JUMPDEST at an instruction.
mark_jumpdests(c) ==
  LET dests == {pc \in instructions(c) : c[pc + 1] = 91}
  IN [i \in 1..jumpdest_map_len(Len(c)) |->
        MapThenSumSet(LAMBDA pc : 2 ^ (pc % 8), {pc \in dests : pc \div 8 = i - 1})]

\* A read past the end, which stops the program, gives -1.
slice(offset, len) ==
  [i \in 1..len |-> IF offset + i <= Len(arena) THEN arena[offset + i] ELSE -1]

\* An account's code, and the jump destinations its program runs with.
code(a) ==
  slice(IF accounts[a].len = 0 THEN 0 ELSE accounts[a].offset + 2, accounts[a].len)
program_jumpdests(a) ==
  LET len == accounts[a].len
      offset == IF len = 0 THEN 0 ELSE accounts[a].offset + 2
  IN slice(offset + len, jumpdest_map_len(len))

Absent == [found |-> FALSE, offset |-> 0, len |-> 0]

-----------------------------------------------------------------------------
(* set_code *)

removed(a) == IF accounts[a].len = 0 THEN 0 ELSE record_len(accounts[a].len)
retained(a) == Len(arena) - removed(a)
needed(c) == IF c = <<>> THEN 0 ELSE record_len(Len(c))

\* The buffer with a's record taken out.
compacted(a) ==
  SubSeq(arena, 1, accounts[a].offset)
  \o SubSeq(arena, accounts[a].offset + removed(a) + 1, Len(arena))

\* The walk over the moved records: the cursor behind one, and after n of them.
behind(cells, cursor) ==
  IF cursor < Len(cells) THEN cursor + record_len(cells[cursor + 2]) ELSE cursor
walk(cells, start) ==
  LET cursor[n \in 0..Len(cells)] == IF n = 0 THEN start ELSE behind(cells, cursor[n - 1])
  IN cursor
moved(cells, start) ==
  LET cursor == walk(cells, start)
  IN {c \in {cursor[n] : n \in 0..Len(cells)} : c < Len(cells)}

\* Mutant: the walk starts behind the first record that moved.
relocated_late(a) ==
  LET cells == compacted(a) IN
  [b \in Addr |->
     LET at == {k \in moved(cells, accounts[a].offset) :
                  k > accounts[a].offset /\ cells[k + 1] = b}
     IN IF at = {} THEN accounts[b] ELSE [accounts[b] EXCEPT !.offset = CHOOSE k \in at : TRUE]]

\* Mutant: no offset goes down.
relocated_none(a) == accounts

\* The walk over the moved records corrects their owners' offsets.
relocated(a) ==
  LET cells == compacted(a) IN
  [b \in Addr |->
     LET at == {k \in moved(cells, accounts[a].offset) : cells[k + 1] = b}
     IN IF at = {} THEN accounts[b] ELSE [accounts[b] EXCEPT !.offset = CHOOSE k \in at : TRUE]]

\* Mutant: the map is written over what compaction left there.
record_unzeroed(a, c, old) ==
  <<a, Len(c)>> \o c
  \o [i \in 1..jumpdest_map_len(Len(c)) |->
        IF retained(a) + 2 + Len(c) + i <= Len(old) THEN 255 ELSE mark_jumpdests(c)[i]]

\* The new record's cells; the map is zeroed first, whatever the buffer held.
record(a, c, old) == <<a, Len(c)>> \o c \o mark_jumpdests(c)

Fails == status' = ERR_HOST_ALLOCATION /\ UNCHANGED <<accounts, arena, capacity>>

\* Replaces a's record; the new one goes to the end.
Writes(a, c) ==
  LET base == IF removed(a) = 0 THEN accounts ELSE relocated(a)
      cells == IF removed(a) = 0 THEN arena ELSE compacted(a)
  IN /\ accounts' = [base EXCEPT ![a] = [found |-> TRUE, offset |-> retained(a), len |-> Len(c)]]
     /\ arena' = IF c = <<>> THEN cells ELSE cells \o record(a, c, arena)
     /\ status' = OK

\* Mutant: truncating the buffer frees it.
grown_or_freed(size) == size

\* Growing within the capacity allocates nothing; truncating keeps it.
grown(size) == IF size > capacity THEN size ELSE capacity

\* The buffer is grown before anything is moved, so a failure changes nothing.
set_code(a, c) ==
  LET new_size == retained(a) + needed(c) IN
  IF ~accounts[a].found /\ c = <<>>
  THEN status' = OK /\ UNCHANGED <<accounts, arena, capacity>>
  ELSE \/ ~accounts[a].found /\ Fails
       \/ c # <<>> /\ new_size > MaxArena /\ Fails
       \/ c # <<>> /\ new_size <= MaxArena /\ new_size > capacity /\ Fails
       \/ /\ c # <<>> => new_size <= MaxArena
          /\ Writes(a, c)
          /\ capacity' = grown(new_size)

-----------------------------------------------------------------------------
Init ==
  /\ accounts = [a \in Addr |-> Absent] /\ arena = <<>> /\ capacity = 0
  /\ undo = <<>> /\ status = OK

\* A host sets code between transactions.
HostSetCode(a, c) == undo = <<>> /\ set_code(a, c) /\ UNCHANGED undo

Creates(a) ==
  /\ accounts' = [accounts EXCEPT ![a].found = TRUE] /\ status' = OK
  /\ UNCHANGED <<arena, capacity>>

\* A host gives an account its record.
ensure_account(a) == undo = <<>> /\ Creates(a) /\ UNCHANGED undo

change(a) == <<a, code(a), accounts[a].found>>

\* A transaction's first write of a balance, nonce or slot of an account that is not there.
TransactionCreates(a) ==
  /\ Len(undo) < MaxUndo /\ ~accounts[a].found
  /\ Creates(a) /\ undo' = Append(undo, change(a))

\* A transaction deploys, delegates or clears a delegation, of an account that may not
\* be there; what fails leaves no change.
TransactionSetCode(a, c) ==
  /\ Len(undo) < MaxUndo
  /\ set_code(a, c)
  /\ undo' = IF status' = OK THEN Append(undo, change(a)) ELSE undo

\* a's record and code are deleted, which takes no memory.
Deletes(a) ==
  /\ LET base == IF removed(a) = 0 THEN accounts ELSE relocated(a)
     IN accounts' = [base EXCEPT ![a] = Absent]
  /\ arena' = IF removed(a) = 0 THEN arena ELSE compacted(a)
  /\ status' = OK /\ UNCHANGED capacity

\* Rollback restores the code before a transaction's last change, which must not fail.  An
\* account that was not there has it cleared and is removed; if that is not there now, as
\* after clearing the delegation of none, an assertion stops the process.
Undo ==
  /\ undo # <<>>
  /\ LET c == undo[Len(undo)]
     IN IF c[3] THEN set_code(c[1], c[2]) ELSE accounts[c[1]].found /\ Deletes(c[1])
  /\ undo' = SubSeq(undo, 1, Len(undo) - 1)

EndTransaction ==
  /\ undo # <<>> /\ undo' = <<>>
  /\ UNCHANGED <<accounts, arena, capacity, status>>

\* Settlement deletes an account with its code.
remove_account(a) ==
  undo = <<>> /\ accounts[a].found /\ Deletes(a) /\ UNCHANGED undo

\* A copy of the world has a buffer of exactly its length.
try_clone ==
  /\ undo = <<>> /\ capacity' = Len(arena) /\ status' = OK
  /\ UNCHANGED <<accounts, arena, undo>>

Next ==
  \/ \E a \in Addr :
       \/ ensure_account(a) \/ TransactionCreates(a) \/ remove_account(a)
       \/ \E c \in Codes : HostSetCode(a, c) \/ TransactionSetCode(a, c)
  \/ Undo \/ EndTransaction \/ try_clone

Spec == Init /\ [][Next]_vars

-----------------------------------------------------------------------------
(* Properties *)

extent(a) == accounts[a].offset + 1..accounts[a].offset + removed(a)
Owners == {a \in Addr : accounts[a].len # 0}

\* "Replacements compact the arena, so retained storage is bounded by the peak
\* live code extent" (state.fe): the records of accounts with code tile the buffer,
\* and each begins with its owner's address and length.
Packed ==
  /\ UNION {extent(a) : a \in Owners} = 1..Len(arena)
  /\ \A a, b \in Owners : a # b => extent(a) \cap extent(b) = {}
  /\ \A a \in Owners : slice(accounts[a].offset, 2) = <<a, accounts[a].len>>
  /\ Len(arena) <= capacity

\* Every program runs with the jump destinations of its own code, although
\* compaction leaves the bytes of other records where maps are written.
JumpdestsOfCode == \A a \in Addr : program_jumpdests(a) = mark_jumpdests(code(a))

\* Rollback of deployments and delegations never needs memory: transaction.fe
\* undo_to asserts that its set_code succeeds, in the middle of a rollback.
UndoNeverFails == [][Undo => status' = OK]_vars

\* A failed write changes no account's code.
Store == INSTANCE CodeStore WITH
  Codes <- Codes, Empty <- <<>>,
  exists <- {a \in Addr : accounts[a].found}, codeOf <- [a \in Addr |-> code(a)]

\* Accounts' codes are independent of each other: moving the records behind a
\* replaced one changes what no other account runs.
ImplementsCodeStore == Store!Spec
=============================================================================
