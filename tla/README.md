# A TLA+ verification of fevm

fevm is an EVM interpreter, a transaction processor and a session server
written in Fe, with Python and Fe tools that build, test and accept it. This directory holds TLA+ models of its state machine, the TLC
configurations that check them on small instances, and TLAPS proofs of their
main results for all instances. Paths below are relative to the repository.

    tlc -workers 2 -config tx_accounts.cfg MCTransaction
    tlapm TransactionProofs.tla

`PROJECT.json` lists the runs, what each property's mutant is, the source lines
of every definition, the hazards the properties are for and the theorems.

## 1. The system

A host hands a `WorldState` and a `TxRequest` to `transact` or `simulate`
(processor.fe). The processor validates the request, buys gas and applies the
authorizations on a `Transaction` (transaction.fe), which owns the world and
journals every change. It runs the message on a `Vm` (vm.fe) that keeps child
frames on an explicit stack, opens a checkpoint of the transaction for each and
reverts the checkpoints of those that fail. It charges fees, settles the world
and returns it with a receipt, or returns the state it began with. `fevm serve`
(session.fe) keeps a world between transactions and takes requests as frames on
standard input; `native/client` drives it from Rust. Nothing in the evaluator
runs concurrently. What makes it hard is that every append and insertion may
fail for want of memory, that failing frames nest and must be taken back
exactly, and that consensus fixes all of it to the last unit of gas and ether.
The session has two processes and two bounded pipes. The tools around the
evaluator run programs that share files: `native/bootstrap.py` builds the pinned
Fe compiler, `accept.fe` checks that build and starts a stage at a time, and
stages such as `native/cli.py` and the two differential runs write reports of
their own; each can fail, hang or be killed, and two of each can run at once.

### Components

**World state** — `ingots/evm/src/state.fe`. State: accounts by address, each
with balance, nonce, and offset and length of its code; storage words by account
and slot; block hashes; the code arena. Operations: `set_balance`, `set_nonce`,
`set_code`, `storage_store`, `remove_account`, `remove_empty_account`,
`try_clone` and the queries. The transaction and hosts between transactions call it.
Correct when a failed write changes no account, a removed account leaves nothing
behind, and queries of one account do not depend on others.

**Code arena** — `state.fe` `set_code`, `types.fe` `mark_jumpdests`. All code in
one buffer, as records of owner, length, code and jump destination map.
Replacing a record compacts the buffer and moves the records behind it. Correct
when every account still finds its own code and a cleared map, the buffer holds
no dead record, and restoring code in a rollback never allocates.

**Journaled transaction** — `transaction.fe`, `journal.fe`. State: the world,
the journal, warm, touched and doomed sets, logs, transient storage, originals,
refund counter, static flag, created accounts. Operations: `mark` and its four
uses, the writes, `checkpoint`, `commit`, `revert`, `settle`, `finish`. The
virtual machine and the processor call it. Correct when a rollback brings back
exactly what the checkpoint found, including which accounts existed, whatever
mixture of committed and reverted children and failed allocations came between.

**Call stack** — `vm.fe` from `transfer` to `run_root`, `processor.fe`
`execute_message`. State: the suspended frames with gas and status, their
checkpoints, the pool of frame allocations, the tracer's position. Operations:
starting calls, creations and precompiles, self-destruction, accepting a child's
result, depositing code. Correct when gas and ether are conserved, a static
frame changes nothing, host failures reach the message, and messages end.

**Instructions, memory and gas** — `vm.fe`, `memory.fe`, `gas.fe`. State: a
frame's stack, memory, program counter. Sequential code with wide integer
arithmetic. Memory is grown in three ways: with the checked extent, on a shortcut
for small ones, and by a call for its input and output together; a finished
frame's buffer goes to a pool from which later frames take it. Correct when
costs equal the definition for every operand, also on the shortcuts, nothing
overflows below the bounds, and no frame sees another's bytes.

**Transaction processor** — `processor.fe`, `status.fe`. State: none of its own;
it threads the transaction, the gas and the receipt. Operations: `validate`,
`intrinsic_gas`, `prepare`, `authorize`, `execute_message`, `apply`, `transact`,
`simulate`. Correct when a valid transaction stops nothing on a chain's state, an
invalid, simulated or host-failed one leaves the state it found, every unit of ether is
accounted for and nothing can be replayed.

**Session mode** — `session.fe`. State: the world, snapshots, settings, and
where it is in a frame. Operations: `serve`'s loop and one command per request.
Correct when client and server stay in step whatever fails, and the host's
knowledge of worlds and snapshots is right.

**Rust client** — `native/client/src/lib.rs`. A process that writes a whole
request, reads a whole answer, and closes the pipe and waits when dropped.

**Logs** — `logs.fe`. Two buffers, entries and their bytes, appended together
and truncated by a rollback. Correct when a failed append or a rollback leaves both consistent.
**Tracing** — `trace.fe`. Lists of steps and calls and their data, with a flag
that says whether a list could not grow. Correct when a complete trace pairs
enters and leaves. **Types and block environment** — `types.fe`, `address.fe`,
`constants.fe`, `lib.fe`. Plain data. **Command line** — `cli.fe`, `hex.fe`.

**Precompiles** — `ingots/precompiles/src`. Dispatch and gas (`lib.fe`), limb
arithmetic (`bignum.fe`, `montgomery.fe`, `modexp.fe`), curves and pairings,
hashes. Pure functions; the limb arithmetic is where carries, quotient
corrections and final subtractions can go wrong for few operands.

**Bootstrap of the compiler** — `native/bootstrap.py`. State: the checkouts, a
Cargo target directory, which `--target-dir` lets builds share, the compiler copied out
of it, `build.json`. Correct when a record that says complete names the compiler that
lies beside it and the pinned revision it was built from.

**Reporting scripts** — `native/cli.py`, `native/differential/run.py` and
`state_run.py`. State: a report in memory and its last saved form. Correct when a
saved report that says complete counts every case, passed, of one executable and unedited sources.

**Acceptance** — `native/tools/src/accept.fe`. State: `acceptance.json`, the stage that
runs and its clock. Reads the build record, refuses a directory that holds an
acceptance already, runs nine stages in order, each with a timeout, and rewrites
its report after each. Correct when it accepts only what all stages passed with one
compiler, and ends.

**State differential tests** — `native/differential`: `state_corpus.py` writes
cases and their encoding, `state_driver` reads and runs them, `reference` runs them
with revm, `state_contract.py` and `contract.py` say what results must be like
and when two agree. Correct when the reader reads what was written, and the
contract holds of right results.

**Other tools** — `native/conformance`, `native/bench`, `native/arith`,
`native/soak`, `native/fixtures`, and the rest of `native/tools`. Programs that
build fevm and compare it with other implementations. The conformance runner
keeps a bounded number of driver processes running, waits for any of them with a
timeout, and tallies outcomes.

### Hazards

PROJECT.json gives each with its line and the properties that catch it.

- *Long legal call sequences*: write orders that create accounts and are rolled
  back; initcode that re-enters its factory; snapshots reverted and taken again.
- *Partial failure*: an allocation can fail between a journal entry and its
  insertion, between a touch and a write, after a child's checkpoint is open,
  after the session's world was replaced.
- *Stale state*: originals captured too late, offsets after compaction, created
  marks that outlive their frame, balances read before either is written, buffers
  that a finished frame wrote, sources edited while their tests run.
- *Numbers*: stipends, refunds that go down as well as up, fees on full balances,
  extents that wrap in 64 bits, quotient digits estimated from two limbs, the window of block hashes.
- *Order*: refund, floor, price and tip; checkpoints and static flags; frames and
  the bytes drained between them; an encoding whose fields have no names.
- *Interleaving*: a build that replaces the compiler in a shared target directory before
  another has copied its own; two acceptances of one directory.
- *Ends*: rollbacks, messages and requests all have to end; pipes block,
  stages hang.

## 2. The modules

| module | models | promises it rests on |
|---|---|---|
| `WorldState` | accounts, code and storage as operators on a record | |
| `Transaction` | transaction.fe and journal.fe, over `WorldState` | |
| `NestedSnapshots` | what a transaction promises: nested copies | |
| `TransactionProofs` | theorems about `Transaction`: the journal, originals, refunds, settlement, refinement | |
| `CodeArena` | the arena and the jump destination maps | |
| `CodeStore` | what the arena promises: a function from address to code | |
| `CodeArenaProofs` | theorems about `CodeArena`: the layout, rollback, refinement | `Sums` |
| `Frames` | the call stack under one message | `NestedSnapshots` |
| `FramesProofs` | theorems about `Frames` | `Sums` |
| `Processor` | one transaction from validation to settlement | `NestedSnapshots`, `Frames` |
| `ProcessorProofs` | theorems about `Processor` | `Sums` |
| `Session` | `fevm serve`, two pipes and the client | `Processor`'s traps and outcomes |
| `SessionProofs` | theorems about `Session` | |
| `Memory` | memory, its pool, its charges and the log buffers, of nested frames | |
| `EvmMemory` | what a program may rely on of them | |
| `MemoryProofs` | theorems about `Memory`: its invariant, refinement | |
| `BigNum`, `ModExp` | limb arithmetic; the MODEXP precompile over it | |
| `StateCorpus` | the cases of `state_corpus.py` and their encoding | |
| `StateFrames` | the instructions the cases use, on one frame | `Transaction` |
| `StateContract` | what results must be like and when two agree | |
| `StateDriver` | the driver that reads a case, and the reference | |
| `Bootstrap` | `bootstrap.py` | |
| `Scripts` | the reporting scripts, over `Bootstrap` | |
| `Acceptance` | accept.fe, over `Scripts` | |
| `AcceptanceProofs` | theorems about `Bootstrap`, `Scripts` and `Acceptance` | |
| `Sums` | lemmas: sums of integers over a finite set, smallest counterexamples | |
| `MC*` | constants of the instances TLC checks | |

The modules are layered as the code is called. A module takes the one below at
its promise: `Frames` holds a copy of the state per checkpoint where the code
has a journal position, because `Transaction` is shown to implement
`NestedSnapshots`. `Processor` takes a message as "gas and ether stay within bounds, nothing
changes unless it succeeds", which the runs of `Frames` show.

### WorldState and Transaction

`ledger.world` is everything a frame may have to take back: accounts, balances,
nonces, code, storage, transient storage, warm and touched sets, doomed accounts.
`ledger.journal` is `Journal`, one record per change with kind, address, slot,
previous word and whether the account existed. `ledger.before` is a history
variable: the world before each change. The other variables are the fields of
`Transaction`; `frames` holds the checkpoints that the code's callers keep on
their stacks. `status` is what the last operation returned and `phase` says
which of `transact`'s calls come next: setup (warming, buying gas), running,
the two rollback loops, settlement.

Every public operation that changes state is one action, with the touch it
makes first and the allocation failures it can meet: `MarkOutcomes` and
`WriteOutcomes` give the worlds a `mark` or `write` may leave, whether it
succeeds, is refused in a static frame or runs out of memory, before or after
the first of its two steps. A rollback is `undo_to` once per change, so that
liveness and the assertions of the loop show; its assertions lead to
`phase = "panicked"`. After a failed operation the caller only closes frames,
which is what `Vm.fault` does.

`NestedSnapshots` has a current state, a stack of saved ones and the state the
transaction began with. `Transaction` implements it under the mapping at the
end of its module: the saved state of a frame is the history at the frame's
journal position, with the logs, refund and static flag the checkpoint holds.

### CodeArena

`arena` is the buffer in cells (an address, a length, a byte), `accounts` the
offsets as the code counts them. `set_code` is modelled down to the walk that
corrects offsets, the order of growing and moving, and the capacity that makes
a later growth free. `mark_jumpdests` works on actual opcodes, with PUSH data.
`undo` has a transaction's changes, each with the code there was and whether there was an
account: `Undo` sets codes back in reverse and removes the accounts the transaction created.
What it cannot take back, a delegation cleared where no account is (finding 1), it asserts, and
the process stops.
`ImplementsCodeStore` hides all of it behind a function.

### Frames

One step is one opcode that starts a frame or writes, an opcode that does
neither (`Execute`), or the end of a frame. A frame keeps gas, status, whether it
creates and its address; the rest of a frame (stack, memory, program counter)
is the choice of the next step. Call costs are split as in `start_call`: access,
value and new-account cost, what is forwarded under the 63/64 cap (`cap`, over
`Fraction`), the stipend. `Call` and `Create` list every early return in order,
and every failure after a checkpoint was opened: no program, no frame, no place
on the stack, value transfer, precompile. `pool` and `open` count frame
allocations and the tracer's enters less its leaves.

### Processor

`validate` is the chain of checks in source order with all nineteen results.
The phases are those of `apply`: prepare, one step per authorization, message,
charge, settle, or undo. Every write of a balance, nonce or code goes through `journaled`,
which appends the change as `Transaction.write` does; a host failure at any point
(`host_failure`) and a simulation keep the world as far as it has come and enter the phase
`undo`, which takes one change back at a time, creating and removing accounts as `undo_to`
does. Nothing is restored by assignment. Two phases are ends of the process: `trapped` is
Fe's checked arithmetic or an assertion on the way, `stopped` the assertion of the undo.
A message may fail in every way a frame can, and
otherwise moves value, creates, pays others, refunds and destroys accounts.
Gas constants are small but keep the order that the checks depend on.

### Session

The pipes hold pieces: a length, then pieces of a body. `serve` is in one of
six phases, as its loop is. A request carries its command and the world it would
leave. `outcomes` is `Session.handle` under all allocation failures. The host
is the Rust client and what it knows: the last world and the snapshots it was
told of. `untold` records that an answer hid a change (finding 2 below).

### Memory and EvmMemory

`stack` holds the frames with their buffers as the code has them, allocated
length and written bytes apart; `pool` the buffers of finished frames,
whose old bytes stay until they are cleared; `entries` and `data` the packed log. One
action is one memory instruction, call or end of a frame, down to the order of
charge, growth and write, the wrapped 64-bit sums, and each allocation's failure.
`EvmMemory` says it without buffers: a frame's memory is a sequence that
extends by zeros, its cost a function of its length, and a log a sequence of
payloads. `ProgramMemory` hides the first behind the second. A word, the width
of integers and the unpayable extent are scaled together, so that every
comparison between them comes out as it does in the code.

### BigNum and ModExp

`BigNum` has normalization, the window of a dividend, the estimate of a
digit, the subtraction of its product and the correction, on arrays of limbs.
`ModExp` is `modexp.fe` as steps: one digit of a division, one bit of the
exponent, one product, so that what a division leaves is what the next one finds.

### State differential tests

`StateCorpus` has an operator per function of the script that makes a kind of
case, and `encode` in the order the fields are written. `StateDriver` reads that
encoding and runs it as it goes, a row of the encoding a step: a transaction, a
frame, an opened or closed scope. `StateFrames` runs the code of a frame: the
instructions with their charges, over a transaction whose checkpoints are saved copies. The
reference is given the case and not its encoding, runs the actions recursively,
takes originals from the database and meters stores by difference (`Metered`);
other instructions are the same operators on both sides, so a disagreement is
one of reading, of scopes or of storage. Memory is its extent here, and data its length.

### Bootstrap, Scripts and Acceptance

A revision stands for its sources, for the compiler built from them and for its
digest. A run of bootstrap.py goes through checkouts, compilation into its target
directory, verification, the copy and the record, each a step that may fail. Which target
directory is a choice of the run (`Start`), so two runs may share one, and nothing keeps
another's `Compile` from coming between one's own and its `Copy`; `overtaken` remembers that it
did. A
script has its report in memory and in `results`, which a kill in the middle of
a save leaves `Torn`. A run of accept.fe reads the build, claims the
directory, and for each stage starts a child, waits with a timeout, reads the
stage's report where it has one and rewrites its own. `Scripts` holds one child per run of
acceptance; the other stages are programs that pass, fail or hang.

## 3. The runs

All bounds are constants of the `.cfg` files. Deadlock is not checked where a
run really ends: a transaction, a message and a session all finish, and hosts
may stop asking.

| run | states | time | shows |
|---|---|---|---|
| `tx_accounts` | 727,738 | 26 s | two accounts, one absent, two nested frames, four changes |
| `tx_storage` | 730,880 | 52 s | one slot with three words, transient storage, log, refunds |
| `tx_restorable` | | | finding 1 |
| `frames` | 1,096,923 | 90 s | calls and creations nested in each other, three deep, two contracts, a precompile |
| `code_arena` | 274,190 | 32 s | three accounts, created, code set, replaced, undone, removed |
| `processor` | 2,068,988 | 24 s | eleven valid kinds of request, every validity code, every way back |
| `session` | 408,738 | 41 s | four requests of any kind over one-piece pipes |
| `session_allocation` | | | finding 2 |
| `memory` | 34,475 | 36 s | two messages, two frames, one pool, every boundary of an extent |
| `modexp` | 471,737 | 8 s | calls with limbs at the edges |
| `state_cases` | 115,823 | 15 s | every case of the state corpus |
| `acceptance` | 434,934 | 60 s | two builds and an acceptance with a fault; edits; two acceptances of one build |

**tx_accounts**: `JournalRestores` (each change, undone where it was made, gives
the world before it), `AbsentAccountsAreEmpty`, `NoAccountLeftEmptied` (settlement
deletes what EIP-161 says),
`OnlyAbsentClearPanics` (the undo loop's assertions fail in one case
only), and the refinement `NestedSnapshots`. Two accounts are needed for one to
be absent and for moving ether between them; four changes in two frames are a
creation, a write, a child's write and a write after it. **tx_storage**: three
words are original, current and new value all different, the case the refund
rules distinguish; three changes are two writes to a slot and one rolled back.
`OriginalIsPreState`, `RefundCoversCleared`, `RollbackEnds`, `TypeOK` and again
the refinement, over logs, refunds and transient storage.

**frames**: a message and two frames below, since a hazard needs a caller, a
callee and somebody the callee calls. Besides sender and precompile there are two
accounts that can be created, so that initcode at one can create the other, and either can
be a contract that was there before: a factory that a creation calls back, and which creates
the same address again while that creation runs; a creation inside a creation; code that was
deposited, runs and destroys itself; and marks of creations that were reverted all occur. Gas
is enough for a handful of operations at unit prices, balances reach their maximum so that
transfers overflow, and every account may call itself. Access is free, for a cold account
only costs more of the same gas. `FailedMessageRestores`, `EtherConserved`,
`StaticChangesNothing`, `TracerBalanced`, `DeploysOntoEmpty`, `OnlyNewAccountsDie`,
`HostFailureStays`, `MessageEnds`.

**code_arena**: three accounts so that a moved record has records on both sides
of it; codes of different lengths, one with a JUMPDEST inside PUSH data; an
arena limit that some of the writes exceed; two changes to take back, one of which may have
created the account of the other. `Packed`,
`JumpdestsOfCode`, `UndoNeverFails`, `ImplementsCodeStore`.

**processor**: worlds whose sender has exactly what `validate` asks, one unit
less and more, with and without code, delegation and nonce, and worlds where a
balance is full. The host may fail before and after each write, so every prefix of a journal
is taken back; the requests delegate, clear and delegate again accounts that are there or
not. `OnlyClearingsStop` (what stops the process), `OnlyCommitsChange` (whatever ends without
a commit ends in the pre-state), `EtherAccounted`, `NoReplay`, `ContractsKeepCode`.

**session**: one-piece pipes make every write wait for a read, which is where
two processes block each other; requests of no, one and two pieces are an empty
one, with nothing to read or drain, one that ends at once and one that does not.
`HostKnows`, `Answered`, `Ends`.

**memory**: a word of 2 bytes, integers that wrap at 44, shortcuts below 6 bytes,
gas that pays for fewer than 20, which is the order the code's constants
have. Gas of 6 and 9 pays for several extensions of the first messages' memory
and for a frame below. Offsets and lengths lie on word boundaries, next to them, and at 45,
which is 1 once truncated. The second message takes the first one's buffers, and two logs are one that a failing frame
drops and one its caller keeps. `ProgramMemory`.

**modexp**: bytes of two bits and limbs of two bytes, so that a limb takes 16 values;
moduli, bases and exponents of up to three limbs from those at the edges, where an estimate
is one too large; zero and one-byte moduli, leading zeros, input that ends
anywhere, a part that is too long. `EstimateNearDigit`, `Powers`.

**state_cases**: the whole corpus but the cases named in section 5. Words
are scaled so that addresses, 64-bit integers and whole words keep their order. The
draws that the script makes from a seed are replaced by every short one.
`InputIsRead` (nothing of a case is misread and nothing left over), `Agrees`
(results equal the reference's and satisfy the contract), `AnchorsHold`.

**acceptance**: three parties. Two builds, of one `--out` directory or two and of one target
directory or two, and an acceptance, with one fault anywhere (a command that fails, a kill, a
hang); one build and an acceptance with a fault and an edit of the
sources; one build and two acceptances of it in one directory. Two levels, one case. A
second fault adds only what one does to another process. `RecordedCompiler` says what a
record is worth, also when builds share a target directory at the same time.
`RecordedCompiler`, `ReportsHold`, `AcceptedIsChecked`, `AcceptanceEnds`.

### Fairness

- `Transaction`: weak fairness of the undo loop's steps and its ends. It is a
  `while` in one function; nothing interrupts it but its assertions.
- `Frames`: weak fairness of the next step. The interpreter is a loop; which
  instruction comes next is the program's choice, and no program is assumed to halt.
- `Session`: weak fairness of the server's loop and of the client's writes and
  reads, both blocking loops. A host need not ask, close or stay alive.
- `Acceptance`: weak fairness of a runner's next step, of the next step of its child, and of
  the child's timeout. They are loops, programs and a clock. A child that hangs has
  no next step, a builder is under no fairness at all, and nobody need edit anything.

### Findings

1. *An undo that asserts what does not hold* (`tx_restorable`, transaction.fe:287).
   A zero delegate on an absent authority journals a change; `set_code` returns
   without creating the account (state.fe:241), so taking the change back fails the
   assertion and the process stops. The comment at transaction.fe:382 says the
   journal can restore it.
   `OnlyAbsentClearPanics`, proved, says that there is no other such change. In the processor
   it means that a host failure or a simulation of such a transaction stops the process, where
   the comment at processor.fe:260 promises the pre-state; `OnlyClearingsStop`, proved, says
   that no other transaction's undo does.
2. *ALLOCATION_FAILED after a change* (`session_allocation`, session.fe:360). The
   world is replaced before the answer is built; native/client/README.md:45 says
   that nothing changed. `HostKnows` holds for hosts that never met this.

Seen while modelling, and narrower than a run:

- The refund of gas and the tip use a trapping addition (processor.fe:431 and 435)
  where README.md:99 says that a balance overflow returns the pre-state.
  `OnlyClearingsStop` shows it cannot happen while all ether together fits in a balance.
- A frame that cannot be allocated after the enter hook (vm.fe:1059) never gets its
  leave hook, which README.md:116-117 promises of every frame. `TracerBalanced` shows that
  this needs a host failure.
- When the calldata cannot be copied, decoding stops with fields unread
  (session.fe:207) and the completeness check (347) answers BAD_REQUEST, which
  native/client/README.md:46 keeps for malformed requests.
- bootstrap.py lets go of Cargo's lock on the target directory when the build ends and copies
  the compiler after two more checks (bootstrap.py:98-108). A build with the same
  `--target-dir` that ends in between has its compiler copied, and a complete record then names
  a compiler that is not of its revision. The comment at line 105 thinks of later builds only.
  `RecordedCompiler` and `AcceptedIsChecked` say that the revision is right unless that
  happened (`Overtaken`), and that the record names the compiler beside it even then.

## 4. The proofs

    for m in Sums TransactionProofs FramesProofs ProcessorProofs CodeArenaProofs \
             SessionProofs AcceptanceProofs MemoryProofs; do tlapm $m.tla; done

Each theorem holds for every value of the constants that the assumptions allow:
any number of accounts, slots and words, journals and stacks of any length, any gas
schedule, any pipes, any operands of a program, any number of builds and runs. TLC checks the same
definitions on the instances of section 3; the invariants the theorems are proved
from were checked there before they were proved.

| module | theorem | says |
|---|---|---|
| `TransactionProofs` | `Inductive` | `IInv` is an invariant |
| | `TypeCorrect` | `TypeOK` |
| | `RollbackIsExact` | `JournalRestores` |
| | `NothingWithoutAccount` | `AbsentAccountsAreEmpty` |
| | `CheckpointsNest` | `FramesOrdered`: checkpoints lie in order in journal and logs |
| | `OnlyOneUndoPanics` | `OnlyAbsentClearPanics` |
| | `HistoryKept` | `HistoryInv` is an invariant |
| | `PricesAgainstPreState` | `OriginalIsPreState` |
| | `RefundsAreCovered` | `RefundCoversCleared` |
| | `SettlementIsComplete` | `NoAccountLeftEmptied` |
| | `JournalImplementsSnapshots` | `NestedSnapshots`, the refinement |
| `FramesProofs` | `Inductive`, `TypeCorrect` | `IInv` and `TypeOK` |
| | `FailureLeavesNothing` | `FailedMessageRestores` |
| | `HostFailureReachesMessage` | `HostFailureStays`, an action property |
| | `TraceNests` | `TracerBalanced` |
| | `StaticIsReadOnly` | `StaticChangesNothing` |
| | `DeploymentAsserts` | `DeploysOntoEmpty` |
| | `EtherIsConserved` | `EtherConserved` |
| | `OldAccountsSurvive` | `OnlyNewAccountsDie` |
| `CodeArenaProofs` | `Inductive` | `IInv` is an invariant |
| | `AlwaysPacked` | `Packed` |
| | `AlwaysJumpdestsOfCode` | `JumpdestsOfCode` |
| | `RollbackNeedsNoMemory` | `UndoNeverFails` |
| | `ImplementsStore` | `ImplementsCodeStore` |
| `ProcessorProofs` | `Inductive`, `TypeCorrect` | `IInv` and `TypeOK` |
| | `StopsOnlyByClearing` | `OnlyClearingsStop` |
| | `UndoneToTheStart` | `OnlyCommitsChange` |
| | `EtherIsAccounted` | `EtherAccounted` |
| | `NonceIsSpent` | `NoReplay` |
| | `ContractsLast` | `ContractsKeepCode` |
| `SessionProofs` | `Inductive` | `Inv` is an invariant |
| | `HostKnowsTheWorld` | `HostKnows` |
| `MemoryProofs` | `MemoryInvariant` | `IInv` is an invariant |
| | `MemoryRefines` | `ProgramMemory`, the refinement |
| `AcceptanceProofs` | `Inductive` | `Inv` is an invariant |
| | `CompleteBuildsAreRecorded` | `RecordedCompiler` |
| | `ReportsSayWhatWasDone` | `ReportsHold` |
| | `AcceptanceIsEarned` | `AcceptedIsChecked` |

### Assumptions

All are about constants, named in the module that declares them.

- `WorldState`, `Transaction`: slots, words and codes are told apart from their "none"
  values; the worlds a transaction may start from give absent accounts nothing; accounts
  and slots are finite, as tables are.
- `CodeArena`: codes are sequences of bytes, the empty one among them; addresses are not
  numbers, as their cells are told apart from lengths, and finite, as 160-bit words are;
  the largest buffer is a natural.
- `Frames`: limits and gas costs are naturals, the nonce limit is not zero (it is 2^64 - 1),
  senders and precompiles are addresses, accounts are finite.
- `Processor`: worlds, requests and blocks are of their types, absent accounts of a world
  hold nothing (which `NothingWithoutAccount` shows of every world a transaction leaves),
  accounts are finite, what messages pay on is a
  natural, gas constants are naturals and the refund quotient is not zero. That the ether of
  all accounts fits in one balance is not assumed of the worlds but is a hypothesis
  inside `OnlyClearingsStop`; without it the additions of fees do trap.
- `Session`: pipes hold something and an answer has a piece.
- `Memory`: operands are naturals; no message has the gas that the extent refused would
  cost, whole words of it, and two ranges below it add up within 64 bits. Of the code both
  are true: gas has 64 bits, and the extent refused is chosen for it (memory.fe:7). The
  sizes themselves, a word of 2 bytes and integers that wrap at 44, are definitions and not
  constants: the theorems are about these, for every operand and every gas below the refusal.
- `Bootstrap`, `Scripts`, `Acceptance`: no revision or target directory is taken for an edited
  tree or for none, every build pins a revision, levels are finitely many, edits are counted.

### Transaction: the journal

`JournalRestores` is not inductive. Undoing a write of an absent account
removes the account, which restores the world only if that account held
nothing; so `AbsentAccountsAreEmpty` has to hold at every point of the
journal, not only now, and each change has to agree with the world it was made
on. `Restorable` says so of a ledger: every recorded change, undone on the world
after it, gives the world before it (`Undoes`), with types and the same
lengths. The lemmas first show `Undoes` for each kind of write (`BalanceUndoes`
to `CodeUndoes`), then that appending such a change and undoing the last one
keep a ledger restorable (`RecordRestorable`, `UndoRestorable`), then that every
operation with its failures does (`MarkKeeps`, `WriteKeeps`,
`TouchThenCodeKeeps`). `IInv` adds `FramesOrdered`, since a frame's position must
stay inside the journal as it shrinks, and which phases may have frames open
(`PhasesInv`). Settlement deletes accounts without journaling and is the last
step, so `Restorable` is asked only before it.

### Transaction: its promises

What a store is priced against, what a refund counter owes and what settlement
looks at are all relations between the present and the pre-state, and a rollback
may return to any point of the journal; so `HistoryInv` says each of them of
every world in the history, `At(ledger, k)`, and not of the present one alone. A word
never captured is the pre-state's at every point (`OriginalsInv`): originals are not rolled
back, so a capture in a reverted frame must still be right. Every emptied account is touched
at every point (`EmptiedAreTouched`), which settlement needs. The counter a frame
saved covers the slots cleared at that frame's position (`RefundInv`). `Made` says
what an operation adds to the ledger; each operation is shown to make such a piece.

`JournalImplementsSnapshots` goes by the refinement mapping at the end of
`Transaction`: the saved state of frame i is the history at the frame's position
with the logs, refund and flag the checkpoint kept. Each action is shown to be a step of
`NestedSnapshots` or to leave the mapped state alone. Opening a frame saves the present; an
operation changes the present and extends the ledger, which leaves what earlier positions
hold; the end of an undo loop is the one step in which the abstract state goes back, and
`Restorable` says that the world it arrives at is the saved one; a step inside the
loop is a stutter. Static frames warm and touch only.

### Frames

`IInv` has, beside types and phases: callers wait, so that a failed frame is
always the top one (`CallersWait`); no kept or current state lost a nonce, a code or an account
that was there before (`HeirsInv`); the account of a running frame cannot be
deployed to from its first opcode on, in every state kept since (`CreationsInv`), which is what
a reverted child must bring back for `DeploysOntoEmpty`; two kept states with only static
frames between them are equal (`StaticInv`); no kept state has more ether than the start
(`EtherInv`). `EtherIsConserved` rests on `Sums`: that the community modules' fold over a
set is well defined, does not depend on the order, and moves by the difference when one
balance changes.

### CodeArena

`Layout` says what the buffer looks like when `held` is what each account holds: the
records of the accounts with code tile it and each has its owner's address, length, code
and map. That is stronger than `Packed`, which does not mention contents, and what both
`JumpdestsOfCode` and the refinement follow from: `code(a)` is `held[a]`. The walk that
corrects offsets is a function that calls itself; `WalkExists` and `WalkIs` show that the
definition has its meaning, and `MovedIs` that the walk stops at every record behind the
one taken out and at nothing else, since each stop lies behind a whole record (`Apart`) and
the records leave no gap (`Boundary`). `CutLayout` and `PutLayout` show that taking a record
out and putting one at the end keep the layout, and `TakenOut` that the corrected offsets are
those of the shifted records.

`RollbackNeedsNoMemory` needs the past: `Past` has what the accounts held before each of the
transaction's changes, and that all of it fitted at that time. The buffer's length is the
sum of what is live (`Live`, over `Sums`), allocation never shrinks within a transaction, so what is
restored fits, although it may be longer than what it replaces. An account that a change
found is there until that change is undone (`Found`), for only a change that did not find
it removes it, and no earlier one can have found it: so what an undo sets code of exists.

### Processor

The invariant is what each phase of `apply` may rely on. `Validated` keeps the
checks that arithmetic later depends on: that `max_cost` is there when gas is
bought at the effective price, which is never above the caps. `PhasesInv` gives the ether of the
world in each phase: bought for, then left by the message, then burned exactly
`Burned`. `Lasting` says that the sender's nonce is above its old one and neither
it nor any contract is among the doomed, which is what settlement could break.

`JournalInv` says, until the world is settled, that there is a trail of worlds, the pre-state
first and the present one last, one for each change of the journal, and that undoing a change
leads from the world after it to the one before it, or it is the clearing of an absent
account's delegation (`Trail`, `Undoes`). `UndoesByStore` and `JournaledWrite` show that of
every kind of write, with whether the account was there; it
needs that absent accounts hold nothing in every world of the trail. An undo therefore either
walks the trail back, to the pre-state when the journal is empty (`UndoneToTheStart`), or stops
at such a clearing (`StopsOnlyByClearing`).

### Session

There is at most one open request, and `InFlight` says where its pieces are: a stretch of
the request that the server read, the next stretch in the pipe, the rest with the host,
without a gap (`Flow`); and likewise what the host has not read of the answer (`Back`).
That is how a drained request leaves the next length where the next request begins.
Wherever the request is, the host agrees with the session (`Told`) or will once it has read
the answer being sent (`ToldBy`), unless an answer hid a change. `OutcomesAre` lists what
a command may do, and one lemma per kind shows that the host learns just that: in particular
that a revert truncates both sides' snapshots alike and that ids given out again stand
for the new ones.

### Memory

A frame's memory is the first `size` cells of a buffer that may be longer, and may have
been another frame's. `ProgramMemory` is shown from four facts of the stack (`StackInv`).
Between a memory's size and its buffer's length every cell is zero (`FramesClean`), so that
growing within the buffer shows zeros without writing any; beyond the length anything may
be left, and `try_resize` clears what it adds (`TryResizeIs`). What a frame paid for its
memory and what the message has left are together less than the price of the extent refused
(`GasHeld`); hence an extent that is granted is one of a few sizes and what is refused is
beyond any gas, wherever its operands lie (`FarIsUnpayable`, `RequiredExtentIs`). The
room for a callee's output is within its caller's memory (`OutputsFit`), so that taking a result
never grows anything. A frame began with no more logs than are kept now (`LogsNest`), and logs
lie whole and in order in the data (`LogInv`), so that truncating the one by the other's
end drops whole logs. `PoolInv` says that a memory lent again has no length.

The proof follows the code in layers. The first says what each way of growing makes of
a frame's buffer (`Extended`, `RestingExtends`) and what it costs, whichever of the three ways was taken,
with the failures of gas and of allocation (`Outcome`, `BothOutcome`). The second says what is read
and written through the definition's eyes (`VisibleIs`, `SliceIs`, `PutIs`). The third has one lemma
per instruction (`LoadStep` to `ReturnStep`, `CallStep`, `RootStep`): it keeps `IInv` and is that
instruction of `EvmMemory`, out of gas there exactly when it is here, or the host's failure.
`EveryStep` joins them.

### Bootstrap, Scripts and Acceptance

`BootInv` gives each `--out` directory one build at a time that may go on, and says which
revision that build's sources and binary hold at each step. A build that is to copy its
compiler still, and has not been overtaken, finds it in its target directory
(`BootsProgress`); one that has finds another's, and only the copy and the record are known
to agree. Nothing is assumed of when builds of one target directory run. A complete
build is left alone by all (`CompleteStays`). `Progress` says of a script that a
level or case in its report was built or passed with the executable it named, and that its
source hash lies between the version it started from and the present one: a report
concludes only if the two are equal, so nothing was edited in between. `OwnersInv` gives
each stage's directory one owner: a script at work in it, or a run that goes on because its
script succeeded. `mkdir` refuses a directory that exists, so two runs in one directory
cannot both pass a stage, and `AcceptanceIsEarned` follows.

### What is only model-checked

- Liveness (`RollbackEnds`, `MessageEnds`, `Answered`, `Ends`, `AcceptanceEnds`): fairness
  and ENABLED are out of the prover's reach.
- `EstimateNearDigit` and `Powers`: they are about powers of the base of the limbs, and the
  prover evaluates a power of two literals but has no law of powers; and about sums and
  products over limbs, which only induction over data would unfold.
- `InputIsRead`, `Agrees` and `AnchorsHold` of the state differential tests: `StateContract`,
  `StateDriver` and `StateCorpus` have RECURSIVE operators, with which the prover has no
  arithmetic, and the corpus is a fixed set of cases that the run covers whole.
- `NeverPanics` and `NothingChanged` are false of the code (section 3, findings).

Induction over data is not available to the provers as a rule; where a proof needs one
(`Sums`, the walk in `CodeArenaProofs`), it takes the smallest set or number that would be a
counterexample.

## 5. What is left out

- *Transaction*: block hashes, configuration, blob hashes (constants during a
  transaction); the undo loop's own table insertions, whose
  failure the code asserts away (transaction.fe:281): they put back keys that
  were there. `code_arena` checks the same for the arena.
- *CodeArena*: code hashes. *Frames*: what other instructions compute;
  stacks, which no other frame sees; the order of creation addresses: any
  address may be derived. *Processor*: signature recovery and address derivation are
  inputs; what happens inside a message; warm sets, which change only gas.
  *Session*: field encodings; seven commands that write settings are one.
- *Memory*: KECCAK256, CODECOPY, EXTCODECOPY and RETURNDATACOPY, which read or copy
  as the instructions modelled do. *ModExp*: the decoding of lengths and the gas
  formula, which is a choice of failing; `montgomery.fe`, which the curves use.
- *StateCorpus*: cases about the bytes that are copied (283-291, 401-404), since
  data is its length; the seed. The corpus of single frames (`corpus.py`) is about
  256-bit arithmetic.
- *Bootstrap*, *Scripts*, *Acceptance*: hosts, toolchains, environments and logs.
  Assumed: an edit never restores an
  earlier version of the sources, and the other stages pass, fail or hang.
- Curves, pairings and hashes are algebra over large fields, tested against
  vectors. The command line, precompile dispatch, tracer lists, the conformance runner,
  the arithmetic matrix (`arith/run.py`), the benchmarks, the client's test driver and the
  soak loop are sequential programs or tables, or time and compare other programs.

## 6. Plan

Done, in this order, for the most consequential state comes first: `Transaction`
with its abstract specification and proofs, `Frames`, `CodeArena`, `Processor`,
`Session`, `Memory` with `EvmMemory`, `BigNum` and `ModExp`, the state
differential tests, `Bootstrap`, `Scripts` and `Acceptance`.

Next, modules:

1. `TraceBuffer`: the tracer's lists and their limits.
2. `Conformance`: the runner's pool of processes, timeouts and tallies.
3. `Montgomery`: the reduction of `montgomery.fe` at a small width against integers.

Proved: the journal, its promises and the refinement of `NestedSnapshots`; the code arena and
the refinement of `CodeStore`; `Frames`, `Processor`, `Session`; memory and the refinement of
`EvmMemory`; and the bootstrap, scripts and acceptance. What stays with TLC is listed at
the end of section 4.
