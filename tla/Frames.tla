------------------------------- MODULE Frames -------------------------------
(***************************************************************************)
(* The call stack of ingots/evm/src/vm.fe under the message of             *)
(* processor.fe: child frames of CALL and CREATE on an explicit stack, each*)
(* with its gas and its checkpoint of the transaction.  What the frames    *)
(* write is abstracted to balances, nonces, code, doomed accounts and one  *)
(* value for storage, transient storage and logs; a checkpoint holds a copy*)
(* of it, as NestedSnapshots promises.  One step is one opcode: its faults,*)
(* early returns and the child it starts, or the end of a frame.           *)
(***************************************************************************)
EXTENDS Integers, Sequences, FiniteSetsExt

CONSTANTS Addr,             \* account addresses
          Precompiles,      \* those of the precompiled contracts
          NoCode, Contract, \* code; a designator's code is the address it names
          Data,             \* values of whatever else a frame writes
          Ops,              \* CALL, CALLCODE, DELEGATECALL and STATICCALL
          Senders,          \* accounts that send transactions
          Values,           \* ether a call may move
          Requests,         \* gas a call may ask for
          Worlds,           \* states the message may start in
          GasLimit,         \* the message's gas
          OpCost, AccessCosts, ValueCost, NewAccountCost, CreateCost, DepositCosts,
          Stipend, Fraction,                  \* 2300 and 64 in the EVM
          MaxBalance, MaxNonce, DepthLimit    \* 2^256 - 1, 2^64 - 1 and 1024

ASSUME CostAssumption ==
  /\ {GasLimit, OpCost, ValueCost, NewAccountCost, CreateCost, Stipend} \subseteq Nat
  /\ AccessCosts \cup DepositCosts \cup Requests \cup Values \subseteq Nat
  /\ Stipend <= ValueCost /\ Fraction \in Nat \ {0}
ASSUME LimitAssumption == MaxBalance \in Nat /\ MaxNonce \in Nat \ {0} /\ DepthLimit \in Nat
ASSUME AddrAssumption == IsFiniteSet(Addr)    \* 160 bits
ASSUME CodeAssumption ==
  /\ NoCode \notin Addr /\ Contract \notin Addr /\ NoCode # Contract
  /\ Precompiles \cup Senders \subseteq Addr

Codes == {NoCode, Contract} \cup Addr
World == [balance: [Addr -> 0..MaxBalance], nonce: [Addr -> 0..MaxNonce],
          code: [Addr -> Codes], data: Data, doomed: SUBSET Addr]

ASSUME WorldsAssumption ==
  \A w \in Worlds : w \in World /\ w.doomed = {} /\ \A p \in Precompiles : w.code[p] = NoCode

OK == "OK"
ERR_REVERT == "ERR_REVERT"
ERR_OUT_OF_GAS == "ERR_OUT_OF_GAS"      \* stands for every other exceptional halt
ERR_STATIC_WRITE == "ERR_STATIC_WRITE"
ERR_ADDRESS_COLLISION == "ERR_ADDRESS_COLLISION"
ERR_HOST_ALLOCATION == "ERR_HOST_ALLOCATION"
ERR_BALANCE_OVERFLOW == "ERR_BALANCE_OVERFLOW"

exceptional(status) == status \in {ERR_OUT_OF_GAS, ERR_STATIC_WRITE, ERR_ADDRESS_COLLISION}
is_evm_outcome(status) == status \in {OK, ERR_REVERT} \/ exceptional(status)

VARIABLES
  world,        \* the transaction's state
  created,      \* accounts created by the transaction; never rolled back
  isStatic,     \* the transaction's static flag
  checkpoints,  \* open checkpoints, innermost last: the message's, then a frame each
  frames,       \* executing frames, innermost last; the first is the root VM
  pool,         \* finished frames' allocations, for later calls
  open,         \* the tracer's enters less its leaves, below the message
  result,       \* what the message returned
  start,        \* history: the state the message started in
  phase         \* "message", "running" or "done"

vars == <<world, created, isStatic, checkpoints, frames, pool, open, result, start, phase>>

\* What an opcode that starts no frame leaves alone, and with it the state.
stack == <<isStatic, checkpoints, pool, open, result, start, phase>>

depth == IF frames = <<>> THEN 0 ELSE Len(frames) - 1
Top == frames[Len(frames)]
Pop(s) == SubSeq(s, 1, Len(s) - 1)

is_delegated(w, a) == w.code[a] \in Addr
is_empty(w, a) == w.balance[a] = 0 /\ w.nonce[a] = 0 /\ w.code[a] = NoCode
deployable(w, a) == w.nonce[a] = 0 /\ w.code[a] = NoCode

\* Whether a call to a runs any code: its own or, for a delegated account, its
\* delegate's; a delegate that is a precompile runs nothing.
runs_code(w, a) ==
  IF is_delegated(w, a) THEN w.code[a] \notin Precompiles /\ w.code[w.code[a]] # NoCode
  ELSE w.code[a] # NoCode

runs_precompile(w, a) == a \in Precompiles /\ ~is_delegated(w, a)

-----------------------------------------------------------------------------
(* Moving ether and starting a contract *)

\* Mutant: both balances are read before either is written.
transfers_stale(w, from, to, v) ==
  IF v > MaxBalance - w.balance[to] THEN {<<w, ERR_BALANCE_OVERFLOW>>}
  ELSE {<<[w EXCEPT !.balance = [@ EXCEPT ![from] = @ - v, ![to] = w.balance[to] + v]], OK>>}

\* Each outcome is a world and a status.  The second of the two balance writes
\* may fail after the first.
transfers(w, from, to, v) ==
  LET debited == [w EXCEPT !.balance[from] = @ - v] IN
  IF from = to THEN {<<w, OK>>, <<w, ERR_HOST_ALLOCATION>>}
  ELSE IF v > MaxBalance - w.balance[to] THEN {<<w, ERR_BALANCE_OVERFLOW>>}
  ELSE {<<[debited EXCEPT !.balance[to] = @ + v], OK>>,
        <<w, ERR_HOST_ALLOCATION>>, <<debited, ERR_HOST_ALLOCATION>>}

\* A call without value touches its target.
moves(w, from, to, v) ==
  IF v = 0 THEN {<<w, OK>>, <<w, ERR_HOST_ALLOCATION>>} ELSE transfers(w, from, to, v)

incremented(w, a) == [w EXCEPT !.nonce[a] = @ + 1]

\* Mutant: the new account keeps nonce zero.
begin_create_without_nonce(w, from, a, v) == moves(w, from, a, v)

\* The prologue of a creation, after its checkpoint: mark, nonce, endowment.
begin_create(w, from, a, v) ==
  {<<w, ERR_HOST_ALLOCATION>>} \cup moves(incremented(w, a), from, a, v)

-----------------------------------------------------------------------------
(* Frames *)

Frame(gas, a, creates) ==
  [gas |-> gas, status |-> OK, halted |-> FALSE, creates |-> creates, address |-> a]

\* The first fault stays; an exceptional halt takes the frame's gas.
fault(f, status) ==
  IF f.status # OK THEN f
  ELSE [f EXCEPT !.status = status, !.gas = IF exceptional(status) THEN 0 ELSE @]

\* Mutant: a child's host failure is a failed call to its caller.
accept_child_hiding_failure(f, status, gas) ==
  [f EXCEPT !.gas = @ + IF status \in {OK, ERR_REVERT} THEN gas ELSE 0]

\* The caller takes a child's result: its gas, unless it halted exceptionally,
\* or its host failure.
accept_child(f, status, gas) ==
  IF ~is_evm_outcome(status) THEN fault(f, status)
  ELSE [f EXCEPT !.gas = @ + IF status \in {OK, ERR_REVERT} THEN gas ELSE 0]

\* The possible ends of a frame and the state it leaves.  A creation whose code
\* ran well deposits it: the code is rejected, unaffordable or written.
deposits(f, w) ==
  IF ~f.creates \/ f.status # OK THEN {<<f, w>>}
  ELSE {<<fault(f, ERR_OUT_OF_GAS), w>>, <<fault(f, ERR_HOST_ALLOCATION), w>>}
       \cup {<<[f EXCEPT !.gas = @ - c], [w EXCEPT !.code[f.address] = code]>> :
               c \in {c \in DepositCosts : c <= f.gas}, code \in {NoCode, Contract}}

SetTop(f) == frames' = [frames EXCEPT ![Len(frames)] = f]

\* The top frame runs its next opcode.
Running == phase = "running" /\ Top.status = OK /\ ~Top.halted

Fails(status) ==
  /\ SetTop(fault(Top, status))
  /\ UNCHANGED <<world, created, stack>>

-----------------------------------------------------------------------------
(* Opcodes that start no frame *)

\* Any opcode may halt exceptionally or fail to allocate; REVERT keeps the gas.
Fault(status) == Running /\ Fails(status)

Execute ==
  /\ Running /\ OpCost <= Top.gas
  /\ SetTop([Top EXCEPT !.gas = @ - OpCost])
  /\ UNCHANGED <<world, created, stack>>

Halt ==
  /\ Running
  /\ SetTop([Top EXCEPT !.halted = TRUE])
  /\ UNCHANGED <<world, created, stack>>

\* Mutant: a static frame may write.
Write_unguarded(d) ==
  /\ Running /\ OpCost <= Top.gas
  /\ world' = [world EXCEPT !.data = d] /\ SetTop([Top EXCEPT !.gas = @ - OpCost])
  /\ UNCHANGED <<created, stack>>

\* SSTORE, TSTORE and LOG.
Write(d) ==
  /\ Running /\ OpCost <= Top.gas
  /\ IF isStatic THEN Fails(ERR_STATIC_WRITE)
     ELSE /\ world' = [world EXCEPT !.data = d]
          /\ SetTop([Top EXCEPT !.gas = @ - OpCost])
          /\ UNCHANGED <<created, stack>>

\* Mutant: any account that destroys itself is deleted, as before EIP-6780.
SelfDestruct_any(beneficiary) ==
  /\ Running /\ OpCost <= Top.gas /\ ~isStatic
  /\ SetTop([Top EXCEPT !.gas = @ - OpCost, !.halted = TRUE])
  /\ world' = [world EXCEPT !.balance[Top.address] = 0, !.doomed = @ \cup {Top.address}]
  /\ UNCHANGED <<created, stack>>

\* The balance moves to the beneficiary; an account this transaction created is
\* doomed and loses ether sent to itself.
SelfDestruct(beneficiary) ==
  LET me == Top.address
      balance == world.balance[me]
      cost == OpCost + IF is_empty(world, beneficiary) /\ balance # 0 THEN NewAccountCost ELSE 0
      paid == [Top EXCEPT !.gas = @ - cost]
      doom(w) == [w EXCEPT !.balance[me] = 0, !.doomed = @ \cup {me}]
  IN /\ Running /\ cost <= Top.gas
     /\ IF isStatic THEN Fails(ERR_STATIC_WRITE)
        ELSE /\ \E t \in transfers(world, me, beneficiary, balance) :
                  /\ world' = IF t[2] = OK /\ me \in created THEN doom(t[1]) ELSE t[1]
                  /\ SetTop([fault(paid, t[2]) EXCEPT !.halted = t[2] = OK])
             /\ UNCHANGED <<created, stack>>

-----------------------------------------------------------------------------
(* Starting a frame *)

Host(f) == fault(f, ERR_HOST_ALLOCATION)
Smaller(m, n) == IF m < n THEN m ELSE n

\* All but one 64th of what a caller has left may go to its child.
cap(gas) == gas - gas \div Fraction

Checkpoint == [world |-> world, static |-> isStatic]

\* A finished frame's allocation, if there is one.
frame_allocation(n) == IF n = 0 THEN 0 ELSE n - 1

\* After its enter hook a child either runs in state w or, when its program, its
\* allocation or its place on the stack cannot be had, is undone and fails the
\* caller, without a leave hook; before is what its checkpoint kept.
Start(caller, child, before, w, static) ==
  /\ open' = open + 1
  /\ \/ /\ frames' = Append([frames EXCEPT ![Len(frames)] = caller], child)
        /\ checkpoints' = Append(checkpoints, [Checkpoint EXCEPT !.world = before])
        /\ pool' = frame_allocation(pool)
        /\ world' = w /\ isStatic' = (isStatic \/ static)
     \/ /\ SetTop(Host(caller))
        /\ pool' \in {pool, frame_allocation(pool)}
        /\ world' = before
        /\ UNCHANGED <<checkpoints, isStatic>>
  /\ UNCHANGED <<result, start, phase>>

\* A precompile, run inline: its status and the gas it leaves.
run_precompile(gas) ==
  {<<OK, gas - c>> : c \in {c \in {0} \cup {OpCost} : c <= gas}}
  \cup {<<ERR_OUT_OF_GAS, 0>>, <<ERR_HOST_ALLOCATION, 0>>}

\* A call's context: the account whose state it runs on.
context(op, a) == IF op \in {"CALLCODE", "DELEGATECALL"} THEN Top.address ELSE a

\* Mutant: the stipend of a call with value is not paid for.
call_cost_free_stipend(op, a, v, access) == OpCost + access

call_cost(op, a, v, access) ==
  OpCost + access + (IF v # 0 THEN ValueCost ELSE 0)
  + IF op = "CALL" /\ v # 0 /\ is_empty(world, a) THEN NewAccountCost ELSE 0

\* Entered, a call runs a precompile, nothing, or a frame.
Enters(op, a, caller, gas, w) ==
  IF runs_precompile(w, a)
  THEN /\ \E r \in run_precompile(gas) :
            /\ SetTop(accept_child(caller, r[1], r[2]))
            /\ world' = IF r[1] = OK THEN w ELSE world
       /\ UNCHANGED <<created, stack>>
  ELSE IF ~runs_code(w, a)
  THEN /\ SetTop(accept_child(caller, OK, gas)) /\ world' = w
       /\ UNCHANGED <<created, stack>>
  ELSE /\ Start(caller, Frame(gas, context(op, a), FALSE), world, w, op = "STATICCALL")
       /\ UNCHANGED created

Call(op, a, v, requested, access) ==
  LET cost == call_cost(op, a, v, access)
      left == Top.gas - cost
      forwarded == Smaller(requested, cap(left))
      child_gas == forwarded + IF v # 0 THEN Stipend ELSE 0
      caller == [Top EXCEPT !.gas = left - forwarded]
  IN /\ Running
     /\ op \notin {"CALL", "CALLCODE"} => v = 0
     /\ IF op = "CALL" /\ v # 0 /\ isStatic THEN Fails(ERR_STATIC_WRITE)
        ELSE /\ cost <= Top.gas
             /\ IF depth = DepthLimit \/ world.balance[Top.address] < v
                THEN /\ SetTop([caller EXCEPT !.gas = @ + child_gas])
                     /\ UNCHANGED <<world, created, stack>>
                ELSE \E t \in moves(world, Top.address, context(op, a), v) :
                       IF t[2] = OK THEN Enters(op, a, caller, child_gas, t[1])
                       ELSE SetTop(fault(caller, t[2])) /\ UNCHANGED <<world, created, stack>>

\* A static frame faults only once the child's gas is taken.  The sender's nonce
\* goes up before the child's checkpoint, and stays up when the child fails.
Create(a, v) ==
  LET left == Top.gas - CreateCost
      create_gas == cap(left)
      me == Top.address
      caller == [Top EXCEPT !.gas = left - create_gas]
      w == incremented(world, me)
  IN /\ Running /\ CreateCost <= Top.gas
     /\ IF isStatic THEN Fails(ERR_STATIC_WRITE)
        ELSE IF world.balance[me] < v \/ world.nonce[me] = MaxNonce \/ depth = DepthLimit
        THEN SetTop([Top EXCEPT !.gas = left]) /\ UNCHANGED <<world, created, stack>>
        ELSE IF ~deployable(world, a)
        THEN SetTop(caller) /\ world' = w /\ UNCHANGED <<created, stack>>
        ELSE \E b \in begin_create(w, me, a, v) :
               \/ /\ b[2] = OK /\ created' = created \cup {a}
                  /\ Start(caller, Frame(create_gas, a, TRUE), w, b[1], FALSE)
               \/ /\ created' \in {created, created \cup {a}}
                  /\ SetTop(fault(caller, IF b[2] = OK THEN ERR_HOST_ALLOCATION ELSE b[2]))
                  /\ world' = w /\ UNCHANGED stack

-----------------------------------------------------------------------------
(* Ending a frame *)

Finished == phase = "running" /\ (Top.status # OK \/ Top.halted)

\* Mutant: no leave hook for a child that failed.
Closes_leaving_on_success(f, w) ==
  LET kept == checkpoints[Len(checkpoints)] IN
  /\ frames' = [Pop(frames) EXCEPT ![depth] = accept_child(@, f.status, f.gas)]
  /\ world' = (IF f.status = OK THEN w ELSE kept.world) /\ isStatic' = kept.static
  /\ checkpoints' = Pop(checkpoints) /\ open' = IF f.status = OK THEN open - 1 ELSE open

\* The frame commits or reverts its checkpoint, the leave hook runs and the caller
\* takes the result.
Closes(f, w) ==
  LET kept == checkpoints[Len(checkpoints)] IN
  /\ frames' = [Pop(frames) EXCEPT ![depth] = accept_child(@, f.status, f.gas)]
  /\ world' = (IF f.status = OK THEN w ELSE kept.world) /\ isStatic' = kept.static
  /\ checkpoints' = Pop(checkpoints) /\ open' = open - 1

\* The pool drops an allocation it has no room for.
FinishChild ==
  /\ Finished /\ depth > 0
  /\ \E d \in deposits(Top, world) : Closes(d[1], d[2])
  /\ pool' \in {pool, pool + 1}
  /\ UNCHANGED <<created, result, start, phase>>

\* Mutant: only the root frame's own checkpoint is reverted.
FinishRoot_root_only ==
  /\ Finished /\ depth = 0
  /\ \E d \in deposits(Top, world) :
       /\ result' = [status |-> d[1].status, gas |-> d[1].gas]
       /\ world' = IF d[1].status = OK THEN d[2] ELSE checkpoints[2].world
  /\ isStatic' = checkpoints[1].static
  /\ frames' = <<>> /\ checkpoints' = <<>> /\ phase' = "done"
  /\ UNCHANGED <<created, pool, open, start>>

\* The root frame's checkpoint and the message's close together.
FinishRoot ==
  /\ Finished /\ depth = 0
  /\ \E d \in deposits(Top, world) :
       /\ result' = [status |-> d[1].status, gas |-> d[1].gas]
       /\ world' = IF d[1].status = OK THEN d[2] ELSE checkpoints[1].world
  /\ isStatic' = checkpoints[1].static
  /\ frames' = <<>> /\ checkpoints' = <<>> /\ phase' = "done"
  /\ UNCHANGED <<created, pool, open, start>>

-----------------------------------------------------------------------------
(* The transaction's message *)

Returns(status, gas, w) ==
  /\ phase' = "done" /\ result' = [status |-> status, gas |-> gas] /\ world' = w
  /\ UNCHANGED <<isStatic, checkpoints, frames, pool, open, start>>

\* An account without code runs an empty program, which halts at once.
StartRoot(f, w) ==
  /\ phase' = "running" /\ world' = w
  /\ frames' = <<f>>
  /\ checkpoints' = <<Checkpoint, [Checkpoint EXCEPT !.world = w]>>
  /\ UNCHANGED <<isStatic, pool, open, result, start>>

CallMessage(sender, a, v) ==
  /\ phase = "message" /\ v <= world.balance[sender]
  /\ \E t \in moves(world, sender, a, v) :
       IF t[2] # OK THEN Returns(t[2], 0, world)
       ELSE IF runs_precompile(world, a)
       THEN \E r \in run_precompile(GasLimit) :
              Returns(r[1], r[2], IF r[1] = OK THEN t[1] ELSE world)
       ELSE \/ Returns(ERR_HOST_ALLOCATION, GasLimit, world)
            \/ is_delegated(world, a) /\ Returns(ERR_HOST_ALLOCATION, 0, world)
            \/ StartRoot([Frame(GasLimit, a, FALSE) EXCEPT !.halted = ~runs_code(t[1], a)], t[1])
  /\ UNCHANGED created

CreateMessage(sender, a, v) ==
  /\ phase = "message" /\ v <= world.balance[sender]
  /\ IF ~deployable(world, a)
     THEN Returns(ERR_ADDRESS_COLLISION, 0, world) /\ UNCHANGED created
     ELSE \E b \in begin_create(world, sender, a, v) :
            \/ /\ b[2] = OK /\ created' = created \cup {a}
               /\ \/ StartRoot(Frame(GasLimit, a, TRUE), b[1])
                  \/ Returns(ERR_HOST_ALLOCATION, GasLimit, world)
            \/ /\ b[2] # OK /\ created' \in {created, created \cup {a}}
               /\ Returns(b[2], 0, world)

-----------------------------------------------------------------------------
Init ==
  /\ world \in Worlds /\ start = world
  /\ created = {} /\ isStatic = FALSE
  /\ checkpoints = <<>> /\ frames = <<>> /\ open = 0
  /\ pool \in {0, DepthLimit}
  /\ result = [status |-> OK, gas |-> GasLimit] /\ phase = "message"

Opcode ==
  \/ \E status \in {ERR_OUT_OF_GAS, ERR_REVERT, ERR_HOST_ALLOCATION} : Fault(status)
  \/ Execute \/ Halt
  \/ \E d \in Data : Write(d)
  \/ \E a \in Addr : SelfDestruct(a)
  \/ \E op \in Ops, a \in Addr, v \in Values, requested \in Requests, access \in AccessCosts :
       Call(op, a, v, requested, access)
  \/ \E a \in Addr \ Precompiles, v \in Values : Create(a, v)

Next ==
  \/ \E sender \in Senders, a \in Addr, v \in Values : CallMessage(sender, a, v)
  \/ \E sender \in Senders, a \in Addr \ Precompiles, v \in Values : CreateMessage(sender, a, v)
  \/ Opcode \/ FinishChild \/ FinishRoot

Spec == Init /\ [][Next]_vars

\* The interpreter is a loop: it takes its next step while it has one.
LiveSpec == Spec /\ WF_vars(Next)

-----------------------------------------------------------------------------
(* Properties *)

HostFailed ==
  \/ \E i \in DOMAIN frames : ~is_evm_outcome(frames[i].status)
  \/ phase = "done" /\ ~is_evm_outcome(result.status)

\* Host failures "must never be reported to EVM code as an ordinary failed CALL"
\* (vm.fe accept_child): once a frame fails for want of memory or by an overflowed
\* balance, so does every frame around it and the message.
HostFailureStays == [][HostFailed => HostFailed']_vars

\* A message that does not succeed changes nothing, whatever its frames did
\* (execute_message and run_root revert both checkpoints).
FailedMessageRestores == phase = "done" /\ result.status # OK => world = start

total_balance(w) == MapThenSumSet(LAMBDA a : w.balance[a], Addr)

\* Ether is neither made nor lost: only an account that destroys itself in the
\* transaction that created it can burn what it holds (transfer, selfdestruct).
EtherConserved ==
  LET now == total_balance(world)
      before == total_balance(start)
  IN now <= before /\ (world.doomed = {} /\ ~HostFailed => now = before)

\* A static frame, and every frame it calls, leaves the state as the outermost
\* static frame found it (start_call, start_create, selfdestruct, the writes).
StaticChangesNothing ==
  \A k \in DOMAIN checkpoints :
    /\ isStatic /\ ~checkpoints[k].static
    /\ \A j \in k + 1..Len(checkpoints) : checkpoints[j].static
    => world = checkpoints[k].world

\* "Contract deployment writes code to an account that has none"
\* (transaction.fe deploy_code asserts it): no other frame deploys to the account
\* of an executing creation.
DeploysOntoEmpty ==
  \A i \in DOMAIN frames : frames[i].creates => world.code[frames[i].address] = NoCode

\* EIP-6780: an account that existed with a nonce or code before the transaction
\* is never deleted by it (selfdestruct, mark_created).
OnlyNewAccountsDie == \A a \in world.doomed : a \in created /\ deployable(start, a)

\* Unless the host fails, the tracer's enters and leaves pair up at every depth.
TracerBalanced == ~HostFailed => open = depth

\* Gas ends every message: no sequence of calls returns what it costs.
MessageEnds == <>(phase = "done")
=============================================================================
