----------------------------- MODULE StateFrames -----------------------------
(***************************************************************************)
(* One frame of the instructions the state corpus uses, over a transaction *)
(* with its world, access sets, originals, refund counter and logs: the    *)
(* instructions of vm.fe and the charges of gas.fe.  Checkpoints are saved *)
(* copies, which is what Transaction promises of its journal.              *)
(***************************************************************************)
EXTENDS StateCorpus

Precompiles == (1 .. 17) \cup {256}
address_word(word) == word % HIGH
Get(map, key, default) == IF key \in DOMAIN map THEN map[key] ELSE default
Absent == [balance |-> 0, nonce |-> 0, code |-> 0]
code_hash(a) == IF a = Absent THEN 0 ELSE HASH(a.code)

balance_of(t, address) == Get(t.accounts, address, Absent).balance
is_warm(t, address) == address \in Precompiles \cup t.warm_accounts
storage_load(t, key) == Get(t.storage, key, 0)
original_storage(t, key) == Get(t.originals, key, storage_load(t, key))
slot_is_warm(t, key) == key \in t.warm_slots
transient_load(t, key) == Get(t.transient, key, 0)
block_hash(t, number) == Get(t.hashes, number, 0)
blob_hash(t, index) == IF index >= Len(t.blobs) THEN 0 ELSE t.blobs[index + 1]

\* Net metering (EIP-2200) at warm costs (EIP-2929) with lower refunds (EIP-3529).
storage_charge(original, current, value) ==
  CASE current = value -> [gas |-> 100, refund |-> 0]
    [] current # value /\ original = current ->
         IF original = 0 THEN [gas |-> 20000, refund |-> 0]
         ELSE [gas |-> 2900, refund |-> IF value = 0 THEN 4800 ELSE 0]
    [] current # value /\ original # current ->
         [gas |-> 100,
          refund |-> (IF original # 0 /\ current = 0 THEN -4800 ELSE 0)
                     + (IF original # 0 /\ value = 0 THEN 4800 ELSE 0)
                     + (IF original # value THEN 0 ELSE IF original = 0 THEN 19900 ELSE 2800)]

\* revm charges a store by the difference it makes, and takes originals from the database.
Metered(original, current, value) ==
  LET dirty == current # original
      clears(v) == original # 0 /\ v = 0
      restored == IF value # original \/ ~dirty THEN 0 ELSE IF original = 0 THEN 19900 ELSE 2800
      uncleared == IF clears(current) THEN -4800 ELSE 0
      cleared == IF clears(value) THEN 4800 ELSE 0
  IN IF value = current THEN [gas |-> 100, refund |-> 0]
     ELSE [gas |-> IF dirty THEN 100 ELSE IF original = 0 THEN 20000 ELSE 2900,
           refund |-> uncleared + cleared + restored]

\* Each of the two implementations compared runs the frames with its own metering.
Charged(runner, original, current, value) ==
  IF runner = "fevm" THEN storage_charge(original, current, value) ELSE Metered(original, current, value)

\* Originals that are captured after the store.
storage_store_late(t, key, value, refund) ==
  [t EXCEPT !.originals = IF key \in DOMAIN @ THEN @ ELSE key :> value @@ @,
            !.storage = key :> value @@ @, !.refund = @ + refund, !.warm_slots = @ \cup {key}]
storage_store(t, key, value, refund) ==
  [t EXCEPT !.originals = IF key \in DOMAIN @ THEN @ ELSE key :> storage_load(t, key) @@ @,
            !.storage = key :> value @@ @, !.refund = @ + refund, !.warm_slots = @ \cup {key}]

\* --------------------------------------------------------------- the machine
base_cost(name) ==
  CASE name = "PUSH1" -> 3 [] name = "PUSH32" -> 3 [] name = "CALLDATACOPY" -> 3 [] name = "ADD" -> 3
    [] name = "POP" -> 2 [] name = "BLOCKHASH" -> 20 [] name = "BLOBHASH" -> 3
    [] name \in {"TLOAD", "TSTORE"} -> 100 [] OTHER -> 0
Running(m) == m.status = "running"
Fault(m, why) == [m EXCEPT !.status = "exceptional", !.reason = why]
Arg(m, k) == m.stack[Len(m.stack) - k + 1]
Popped(m, n) == [m EXCEPT !.stack = SubSeq(@, 1, Len(@) - n)]
Pushed(m, word) == IF Running(m) THEN [m EXCEPT !.stack = Append(@, word)] ELSE m
Charge(m, amount) == IF m.gas < amount THEN Fault(m, "out_of_gas") ELSE [m EXCEPT !.gas = @ - amount]
Needs(m, n, next) == IF Len(m.stack) < n THEN Fault(m, "stack_underflow") ELSE next
Writes(m, next) == IF m.tx.static THEN Fault(m, "static_write") ELSE next

\* Charge for the memory of a range, and for what is done to it, and extend it.
expand(m, offset, length, extra) ==
  LET size == Extent(offset, length) IN
  IF length > 0 /\ (offset >= UNPAYABLE_EXTENT \/ length >= UNPAYABLE_EXTENT \/ size >= UNPAYABLE_EXTENT)
  THEN Fault(m, "out_of_gas")
  ELSE IF size <= m.size THEN Charge(m, extra)
  ELSE LET paid == Charge(m, extra + Cost(size) - Cost(m.size))
       IN IF Running(paid) THEN [paid EXCEPT !.size = size] ELSE paid
copied(length) == IF length >= UNPAYABLE_EXTENT THEN 0 ELSE 3 * Words(length)

sload(m) ==
  LET key == slot(12, Arg(m, 1))
      paid == Charge(Popped(m, 1), IF slot_is_warm(m.tx, key) THEN 100 ELSE 2100)
  IN IF Running(paid) THEN Pushed([paid EXCEPT !.tx.warm_slots = @ \cup {key}], storage_load(m.tx, key)) ELSE paid

sstore(m, runner) ==
  LET key == slot(12, Arg(m, 1))
      value == Arg(m, 2)
      charge == Charged(runner, original_storage(m.tx, key), storage_load(m.tx, key), value)
      paid == Charge(Popped(m, 2), charge.gas + (IF slot_is_warm(m.tx, key) THEN 0 ELSE 2100))
  IN IF m.gas <= 2300 THEN Fault(m, "out_of_gas")
     ELSE IF Running(paid) THEN [paid EXCEPT !.tx = storage_store(@, key, value, charge.refund)] ELSE paid

Accessed(m, address) == Charge(m, IF is_warm(m.tx, address) THEN 100 ELSE 2600)
Warmed(m, address) == IF Running(m) THEN [m EXCEPT !.tx.warm_accounts = @ \cup {address}] ELSE m
account_field(m, name) ==
  LET address == address_word(Arg(m, 1))
      a == Get(m.tx.accounts, address, Absent)
  IN Pushed(Warmed(Accessed(Popped(m, 1), address), address),
            CASE name = "BALANCE" -> a.balance [] name = "EXTCODESIZE" -> a.code
              [] name = "EXTCODEHASH" -> code_hash(a))
\* The access is charged and remembered only when its memory is affordable as well.
extcodecopy(m) ==
  LET address == address_word(Arg(m, 1))
      paid == Accessed(Popped(m, 4), address)
  IN IF Running(paid) THEN Warmed(expand(paid, Arg(m, 2), Arg(m, 4), copied(Arg(m, 4))), address) ELSE paid

log(m, count) ==
  LET length == Arg(m, 2)
      bytes == IF length >= UNPAYABLE_EXTENT THEN 0 ELSE 8 * length
      paid == expand(Popped(m, 2), Arg(m, 1), length, 375 * (count + 1) + bytes)
      record == log_record([k \in 1 .. count |-> Arg(m, 2 + k)], length)
  IN IF ~Running(paid) THEN paid
     ELSE Needs(paid, count, [Popped(paid, count) EXCEPT !.tx.logs = Append(@, record)])

\* A window that leaves out the oldest block.
block_history_short(m) ==
  LET number == Arg(m, 1)
      known == number < m.tx.number /\ m.tx.number - number < 256
  IN Pushed(Popped(m, 1), IF known THEN block_hash(m.tx, number) ELSE 0)
block_history(m) ==
  LET number == Arg(m, 1)
      known == number < m.tx.number /\ m.tx.number - number <= 256
  IN Pushed(Popped(m, 1), IF known THEN block_hash(m.tx, number) ELSE 0)

execute(m, name, arg, runner) ==
  CASE name = "PUSH" -> Pushed(Charge(m, IF arg = 0 THEN 2 ELSE 3), arg)
    [] name \in {"PUSH1", "PUSH32"} -> Pushed(m, arg)
    [] name = "POP" -> Needs(m, 1, Popped(m, 1))
    [] name = "ADD" -> Needs(m, 2, Pushed(Popped(m, 2), Arg(m, 1) + Arg(m, 2)))
    [] name = "SLOAD" -> Needs(m, 1, sload(m))
    [] name = "SSTORE" -> Writes(m, Needs(m, 2, sstore(m, runner)))
    [] name = "TLOAD" -> Needs(m, 1, Pushed(Popped(m, 1), transient_load(m.tx, slot(12, Arg(m, 1)))))
    [] name = "TSTORE" ->
         Writes(m, Needs(m, 2, [Popped(m, 2) EXCEPT !.tx.transient = slot(12, Arg(m, 1)) :> Arg(m, 2) @@ @]))
    [] name \in {"BALANCE", "EXTCODESIZE", "EXTCODEHASH"} -> Needs(m, 1, account_field(m, name))
    [] name = "EXTCODECOPY" -> Needs(m, 4, extcodecopy(m))
    [] name = "CALLDATACOPY" -> Needs(m, 3, expand(Popped(m, 3), Arg(m, 1), Arg(m, 3), copied(Arg(m, 3))))
    [] name = "BLOCKHASH" -> Needs(m, 1, block_history(m))
    [] name = "BLOBHASH" -> Needs(m, 1, Pushed(Popped(m, 1), blob_hash(m.tx, Arg(m, 1))))
    [] name \in Range(LOGS) -> Writes(m, Needs(m, 2, log(m, SelectInSeq(LOGS, LAMBDA l : l = name) - 1)))
    [] name = "REVERT" ->
         Needs(m, 2, LET done == expand(Popped(m, 2), Arg(m, 1), Arg(m, 2), 0)
                     IN IF Running(done) THEN [done EXCEPT !.status = "revert"] ELSE done)
    [] name = "INVALID" -> Fault(m, "invalid_opcode")

step(m, i, runner) ==
  LET paid == Charge(m, base_cost(i[1]))
  IN IF ~Running(m) THEN m ELSE IF Running(paid) THEN execute(paid, i[1], i[2], runner) ELSE paid

\* What a checkpoint taken of `saved` restores of t: all but the originals.
reverted(t, saved) == [saved EXCEPT !.originals = t.originals]

\* A frame that fails takes its gas and leaves nothing; one that reverts keeps its gas.
frame_result(t, m) ==
  LET left == IF Running(m) THEN [m.tx EXCEPT !.static = t.static] ELSE reverted(m.tx, t)
      lost == m.status = "exceptional"
  IN [tx |-> left, refund_delta |-> left.refund - t.refund,
      frame |-> [outcome |-> IF Running(m) THEN "success" ELSE m.status, reason |-> m.reason,
                 gas_remaining |-> IF lost THEN 0 ELSE m.gas,
                 stack |-> IF lost THEN <<Discarded>> ELSE m.stack,
                 memory |-> IF lost THEN Discarded ELSE m.size]]
execute_vm(t, code, limit, static, runner) ==
  frame_result(t, FoldLeft(LAMBDA m, i : step(m, i, runner),
                           [tx |-> [t EXCEPT !.static = @ \/ static], gas |-> limit, stack |-> <<>>, size |-> 0,
                            status |-> "running", reason |-> "none"],
                           code))

\* What a step shows of the transaction, and what the transaction leaves.
NoFrame == [outcome |-> "scope"]
snapshot(t, watch, shown, delta) ==
  [frame |-> shown, refund_delta |-> delta, refund_counter |-> t.refund, logs |-> t.logs,
   accounts |-> [k \in 1 .. Len(watch.accounts) |->
     [balance |-> balance_of(t, watch.accounts[k]), warm |-> is_warm(t, watch.accounts[k])]],
   storage |-> [k \in 1 .. Len(watch.slots) |->
     [value |-> storage_load(t, watch.slots[k]), original |-> original_storage(t, watch.slots[k]),
      transient |-> transient_load(t, watch.slots[k]), warm |-> slot_is_warm(t, watch.slots[k])]]]
settled(t, watch, steps, refund, refunded, spent) ==
  [steps |-> steps, refund_counter |-> refund, gas_refunded |-> refunded, gas_used |-> spent - refunded,
   balances |-> [k \in 1 .. Len(watch.accounts) |-> balance_of(t, watch.accounts[k])],
   storage |-> [k \in 1 .. Len(watch.slots) |-> storage_load(t, watch.slots[k])], logs |-> t.logs]
=============================================================================
