------------------------------- MODULE Memory -------------------------------
(***************************************************************************)
(* How FeVM keeps the memory of its frames and the data of its logs:       *)
(* memory.fe, the memory instructions of vm.fe, the pool that gives the    *)
(* memory of finished frames to later ones, and logs.fe.  Numbers are      *)
(* scaled down with what bounds them: a word is two bytes, integers of 64  *)
(* bits wrap at U64, and no gas pays for UNPAYABLE_EXTENT bytes.           *)
(***************************************************************************)
EXTENDS Integers, Sequences, FiniteSets

CONSTANTS Offsets, Copies, Ranges, Calls, Bytes, GasLimits, MaxDepth, MaxLogs

WORD == 2
U64 == 44
SMALL_EXTENT == 6
UNPAYABLE_EXTENT == 20

\* The operands are given as in EvmMemory.
\* No gas pays for the quadratic part of the extent that is refused, and two ranges below it add up.
ASSUME MemoryAssumption ==
  /\ Offsets \subseteq Nat /\ Bytes \subseteq Nat
  /\ Copies \subseteq Nat \X Nat \X Nat /\ Ranges \subseteq Nat \X Nat
  /\ Calls \subseteq (Nat \X Nat) \X (Nat \X Nat)
  /\ GasLimits \in Seq(Nat) /\ MaxDepth \in Nat /\ MaxLogs \in Nat
  /\ UNPAYABLE_EXTENT % WORD = 0
  /\ \A k \in 1 .. Len(GasLimits) :
       ((UNPAYABLE_EXTENT \div WORD) * (UNPAYABLE_EXTENT \div WORD)) \div 8 > GasLimits[k]
  /\ 2 * UNPAYABLE_EXTENT + WORD < U64

VARIABLES stack,    \* the frames of the message, the running one last
          pool,     \* memories of finished frames
          entries,  \* the logs, each a range of data
          data,
          seen, left
vars == <<stack, pool, entries, data, seen, left>>

\* A buffer has a length and cells; those past the length hold what they held.
NoBuffer == [len |-> 0, cells |-> <<>>]
clear(buffer) == [buffer EXCEPT !.len = 0]
\* Growth zeroes; beyond the capacity it is the allocator's to refuse.
try_resize(buffer, size) ==
  [len |-> size, cells |-> [k \in 1 .. (IF size > Len(buffer.cells) THEN size ELSE Len(buffer.cells)) |->
                              IF k <= buffer.len \/ (k > size /\ k <= Len(buffer.cells)) THEN buffer.cells[k] ELSE 0]]

None == [size |-> -1, gas |-> 0]
u64(word) == word % U64
words(bytes) == (bytes + WORD - 1) \div WORD
Least(a, b) == IF a < b THEN a ELSE b

\* ------------------------------------------------------------------ memory.fe
small_memory_cost(size) == LET w == size \div WORD IN w + (w * w) \div 8
small_growth_cost(current, size) == (small_memory_cost(size) - small_memory_cost(current)) % U64

required_extent(current, offset, len) ==
  LET rounded == WORD * words((u64(offset) + u64(len)) % U64) IN
  IF len = 0 THEN current
  ELSE IF offset >= UNPAYABLE_EXTENT \/ len >= UNPAYABLE_EXTENT \/ rounded >= UNPAYABLE_EXTENT THEN -1
  ELSE IF rounded > current THEN rounded ELSE current

expansion(current, size) ==
  LET cost(w) == w + (w * w) \div 8
      gas == cost(size \div WORD) - cost(current \div WORD)
  IN IF size = -1 THEN None ELSE IF gas >= U64 THEN None ELSE [size |-> size, gas |-> gas]
memory_expansion(current, offset, len) == expansion(current, required_extent(current, offset, len))
copy_expansion(current, dest, source, len) ==
  LET size == required_extent(current, dest, len)
  IN expansion(current, IF size = -1 THEN -1 ELSE required_extent(size, source, len))
copy_gas(len) == words(len)

\* ------------------------------------------------- a frame, growing its memory
ok(f) == f.status = "ok"
Fault(f, status) == [f EXCEPT !.status = status]
charge(f, amount) == IF amount > f.gas THEN Fault(f, "out_of_gas") ELSE [f EXCEPT !.gas = @ - amount]

\* The sizes it may come to and whether the host refuses: a doubled buffer, or what is needed.
expand_memory(f, size) ==
  LET doubled == 2 * f.memory.len
      capacity == Len(f.memory.cells)
      to(n) == [f EXCEPT !.memory = try_resize(@, n), !.size = size]
  IN IF ~ok(f) THEN {f}
     ELSE IF size <= f.memory.len THEN {[f EXCEPT !.size = size]}
     ELSE IF doubled > size
     THEN {to(doubled)} \cup (IF doubled <= capacity THEN {} ELSE {to(size)})
          \cup (IF size <= capacity THEN {} ELSE {Fault(f, "host")})
     ELSE {to(size)} \cup (IF size <= capacity THEN {} ELSE {Fault(f, "host")})

in_memory(f, offset, len) == f.size >= len /\ offset <= f.size - len
plan_memory(f, offset, len) ==
  IF len <= f.size /\ in_memory(f, offset, u64(len)) THEN [size |-> f.size, gas |-> 0]
  ELSE memory_expansion(f.size, offset, len)
\* Charge for a plan and what else the operation costs, then grow.
Grow(f, plan, own) ==
  IF plan = None THEN {Fault(f, "out_of_gas")} ELSE expand_memory(charge(f, plan.gas + own), plan.size)

\* The size of a range within the buffer, or none to be had that way.
buffered_growth(f, offset, len) ==
  LET size == WORD * words(offset + len)
  IN IF offset >= SMALL_EXTENT THEN 0 ELSE IF size > f.memory.len THEN 0 ELSE size
grow_memory(f, offset, len) ==
  LET size == WORD * words(offset + len) IN
  IF offset < SMALL_EXTENT THEN expand_memory(charge(f, small_growth_cost(f.size, size)), size)
  ELSE Grow(f, plan_memory(f, offset, len), 0)
\* MLOAD and MSTORE: within memory, within the buffer, or beyond.
Accessed(f, offset, len) ==
  IF in_memory(f, offset, len) THEN {f}
  ELSE IF len = WORD /\ buffered_growth(f, offset, len) # 0
  THEN LET size == buffered_growth(f, offset, len)
           paid == charge(f, small_growth_cost(f.size, size))
       IN {IF ok(paid) THEN [paid EXCEPT !.size = size] ELSE paid}
  ELSE grow_memory(f, offset, len)

slice(f, offset, len) == SubSeq(f.memory.cells, u64(offset) + 1, u64(offset) + u64(len))
RangeBytes(f, range) == IF range[2] = 0 THEN <<>> ELSE slice(f, range[1], range[2])
Put(f, offset, bytes) ==
  [f EXCEPT !.memory.cells = [k \in 1 .. Len(@) |->
     IF k > u64(offset) /\ k <= u64(offset) + Len(bytes) THEN bytes[k - u64(offset)] ELSE @[k]]]

\* ----------------------------------------------------------------------- logs
payload(k) == SubSeq(data, entries[k].start + 1, entries[k].start + entries[k].len)
\* Both buffers have room by then: a reserve that fails, of the first or of the second,
\* leaves spare room at most, and the frame its host failure.
append(bytes) ==
  entries' = Append(entries, [start |-> Len(data), len |-> Len(bytes)]) /\ data' = data \o bytes
truncate(count) ==
  LET last == entries[count] IN
  /\ entries' = SubSeq(entries, 1, count)
  /\ data' = SubSeq(data, 1, IF count = 0 THEN 0 ELSE last.start + last.len)

\* ----------------------------------------------------------- frames that begin
Running(gas, input, out) ==
  [memory |-> NoBuffer, size |-> 0, gas |-> gas, input |-> input, out |-> out,
   logs |-> Len(entries), status |-> "ok"]
reset(f) == [f EXCEPT !.memory = clear(@), !.size = 0]
\* A frame without memory of its own takes what the pool got last.
adopt(f) == IF pool = <<>> \/ f.memory.cells # <<>> THEN f ELSE [f EXCEPT !.memory = pool[Len(pool)]]
Adopted == IF pool = <<>> THEN pool ELSE SubSeq(pool, 1, Len(pool) - 1)

\* A memory given back as it is.
take_result_full(memories, f, fits) ==
  IF f.memory.cells = <<>> \/ ~fits THEN memories ELSE Append(memories, f.memory)
\* A memory given back is empty; a pool that cannot grow drops it.
take_result(memories, f, fits) ==
  IF f.memory.cells = <<>> \/ ~fits THEN memories ELSE Append(memories, clear(f.memory))

f == stack[Len(stack)]
Under(g) == [stack EXCEPT ![Len(stack)] = g]

\* The caller takes the gas left, and of the output what it has room for.
accept_child(caller, child, gas, output) ==
  Put([caller EXCEPT !.gas = @ + gas], child.out[1], SubSeq(output, 1, Least(child.out[2], Len(output))))

Finish(g, kept, gas, output, fits) ==
  /\ IF kept THEN UNCHANGED <<entries, data>> ELSE truncate(g.logs)
  /\ pool' = take_result(pool, g, fits) /\ seen' = output
  /\ stack' = IF Len(stack) = 1 THEN <<>>
              ELSE [SubSeq(stack, 1, Len(stack) - 1) EXCEPT ![Len(stack) - 1] =
                      accept_child(@, g, gas, output)]
  /\ UNCHANGED left

\* A failure of the host ends every frame; each gives its memory back, the innermost first.
HostFailure(g) ==
  LET given[k \in 0 .. Len(stack)] ==
        IF k = 0 THEN pool
        ELSE take_result(given[k - 1], Under(g)[Len(stack) + 1 - k], TRUE)
  IN /\ pool' = given[Len(stack)] /\ stack' = <<>> /\ seen' = <<>> /\ truncate(0) /\ UNCHANGED left

Failed(g) ==
  \/ g.status = "host" /\ HostFailure(g)
  \/ g.status = "out_of_gas" /\ \E fits \in BOOLEAN : Finish(g, FALSE, 0, <<>>, fits)
\* An operation that left the frame as g goes on from there.
Goes(g) == stack' = Under(g) /\ UNCHANGED <<pool, entries, data, left>>

\* ------------------------------------------------------------ the instructions
Runs == stack # <<>>
Paid == charge(f, 1)
Charged(growths) == IF ok(Paid) THEN growths ELSE {Paid}

mload(offset) ==
  /\ Runs
  /\ \E g \in Charged(Accessed(Paid, offset, WORD)) :
       \/ ok(g) /\ Goes(g) /\ seen' = slice(g, offset, WORD)
       \/ Failed(g)

Stores(offset, bytes) ==
  /\ Runs
  /\ \E g \in Charged(Accessed(Paid, offset, Len(bytes))) :
       \/ ok(g) /\ Goes(Put(g, offset, bytes)) /\ UNCHANGED seen
       \/ Failed(g)
mstore(offset, b) == Stores(offset, <<0, b>>)
mstore8(offset, b) == Stores(offset, <<b>>)

\* What there is of the calldata, then zeros.
calldatacopy(dest, source, len) ==
  /\ Runs
  /\ \E g \in Charged(Grow(Paid, plan_memory(Paid, dest, len), copy_gas(len))) :
       \/ /\ ok(g) /\ UNCHANGED seen
          /\ LET available == IF source < Len(f.input) THEN Len(f.input) - source ELSE 0
                 copied == Least(len, available)
                 zeros == [k \in 1 .. len - copied |-> 0]
             IN Goes(IF len = 0 THEN g ELSE Put(g, dest, SubSeq(f.input, source + 1, source + copied) \o zeros))
       \/ Failed(g)

mcopy(dest, source, len) ==
  /\ Runs
  /\ \E g \in Charged(Grow(Paid, copy_expansion(f.size, dest, source, len), copy_gas(len))) :
       \/ ok(g) /\ Goes(Put(g, dest, RangeBytes(g, <<source, len>>))) /\ UNCHANGED seen
       \/ Failed(g)

\* The data is reserved for before it is kept, in both buffers or in none.
log(range) ==
  /\ Runs /\ Len(entries) < MaxLogs
  /\ LET plan == memory_expansion(f.size, range[1], range[2]) IN
     \E g \in Charged(Grow(Paid, plan, u64(range[2]))) :
       \/ ok(g) /\ stack' = Under(g) /\ append(RangeBytes(g, range)) /\ UNCHANGED <<pool, seen, left>>
       \/ ok(g) /\ HostFailure(g)
       \/ Failed(g)

\* The ranges of input and output are charged for one after the other.
start_call(input, out) ==
  /\ Runs /\ Len(stack) < MaxDepth
  /\ LET first == Charged(Grow(Paid, plan_memory(Paid, input[1], input[2]), 0))
         both == UNION {IF ok(g) THEN Grow(g, plan_memory(g, out[1], out[2]), 0) ELSE {g} : g \in first}
     IN \E g \in both :
          \/ /\ ok(g)
             /\ stack' = Append(Under([g EXCEPT !.gas = 0]),
                                adopt(reset(Running(g.gas, RangeBytes(g, input), IF out[2] = 0 THEN <<0, 0>> ELSE out))))
             /\ pool' = Adopted /\ UNCHANGED <<entries, data, seen, left>>
          \/ ok(g) /\ HostFailure(g)
          \/ Failed(g)

finish_from_memory(range, kept) ==
  /\ Runs
  /\ \E g \in Charged(Grow(Paid, plan_memory(Paid, range[1], range[2]), 0)) :
       \/ ok(g) /\ \E fits \in BOOLEAN : Finish(g, kept, g.gas, RangeBytes(g, range), fits)
       \/ ok(g) /\ range[2] # 0 /\ HostFailure(g)
       \/ Failed(g)

\* A message of its own takes a memory from the pool the caller lent.
run_root ==
  /\ stack = <<>> /\ left > 0 /\ left' = left - 1
  /\ stack' = <<[reset(adopt(Running(GasLimits[left], <<>>, <<0, 0>>))) EXCEPT !.logs = 0]>>
  /\ pool' = Adopted /\ entries' = <<>> /\ data' = <<>> /\ seen' = <<>>

Init == stack = <<>> /\ pool = <<>> /\ entries = <<>> /\ data = <<>> /\ seen = <<>> /\ left = Len(GasLimits)
Next ==
  \/ run_root
  \/ \E offset \in Offsets : mload(offset) \/ \E b \in Bytes : mstore8(offset, b) \/ mstore(offset, b)
  \/ \E c \in Copies : calldatacopy(c[1], c[2], c[3]) \/ mcopy(c[1], c[2], c[3])
  \/ \E range \in Ranges : log(range) \/ \E kept \in BOOLEAN : finish_from_memory(range, kept)
  \/ \E c \in Calls : start_call(c[1], c[2])

Spec == Init /\ [][Next]_vars

\* What a program sees: the bytes below the size, and the data of the logs kept.
Shown == [k \in 1 .. Len(stack) |->
  [bytes |-> SubSeq(stack[k].memory.cells, 1, stack[k].size), gas |-> stack[k].gas,
   input |-> stack[k].input, out |-> stack[k].out, logs |-> stack[k].logs]]
E == INSTANCE EvmMemory WITH frames <- Shown, logs <- [k \in 1 .. Len(entries) |-> payload(k)]

\* A memory taken from the pool reads zero wherever its frame has not written, growth within a buffer or
\* by a shortcut costs what the definition says, no range wraps around, and the logs a revert keeps keep their bytes.
ProgramMemory == E!Spec
=============================================================================
