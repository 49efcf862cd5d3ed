----------------------------- MODULE StateCorpus -----------------------------
(***************************************************************************)
(* native/differential/state_corpus.py: the sequences of frames and scopes *)
(* that FeVM and the reference both run, what some of them must give, and  *)
(* the encoding the driver reads.  Words are scaled down: what matters of  *)
(* a word is whether it fits 64 or 160 bits and which address it aliases.  *)
(* Code is a sequence of instructions, data and memory are their lengths,  *)
(* and one integer of the encoding is a pair of its size and its value.    *)
(***************************************************************************)
EXTENDS Integers, Sequences, SequencesExt, TLC

SIXTY4 == 2^21              \* 2^64, more than any gas limit can pay for
HIGH == 2^24                \* 2^160
TOP == 2 * HIGH             \* 2^255
MAX == 4 * HIGH - 1         \* 2^256 - 1
HASH(n) == 3 * HIGH + n     \* the Keccak hash of some n bytes
UNPAYABLE_EXTENT == 2^20
BLOB == 0                   \* the size of a string of bytes

MinOf(a, b) == IF a < b THEN a ELSE b
Words(bytes) == (bytes + 31) \div 32
Cost(bytes) == 3 * Words(bytes) + (Words(bytes) * Words(bytes)) \div 512

\* --------------------------------------------------------------- instructions
op(name) == <<name, 0>>
push(value) == <<"PUSH", value>>
pushes(values) == [k \in 1 .. Len(values) |-> push(values[k])]
PushGas(values) == FoldLeft(LAMBDA sum, v : sum + (IF v = 0 THEN 2 ELSE 3), 0, values)
store(value, slot) == <<push(value), push(slot), op("SSTORE")>>
transient(value, slot) == <<push(value), push(slot), op("TSTORE")>>
access(name, operand) == <<push(operand), op(name)>>
Loads == access("SLOAD", 0) \o access("TLOAD", 0)
REVERT == <<push(0), push(0), op("REVERT")>>
INVALID == <<op("INVALID")>>
LOGS == <<"LOG0", "LOG1", "LOG2", "LOG3", "LOG4">>
emit(topics, length, offset) ==
  pushes(Reverse(topics)) \o pushes(<<length, offset>>) \o <<op(LOGS[Len(topics) + 1])>>
copying(length, source, dest, address) ==
  pushes(<<length, source, dest, address>>) \o <<op("EXTCODECOPY")>>
log_record(topics, data) == [address |-> 12, topics |-> topics, data |-> data]

\* ----------------------------------------------------------- cases and anchors
Million == 1000000
bounded(code, gas, static) ==
  [kind |-> "frame", code |-> code, calldata |-> 0, gas_limit |-> gas, is_static |-> static]
frame(code) == bounded(code, Million, FALSE)
scope(actions, commit, static) ==
  [kind |-> "scope", actions |-> actions, commit |-> commit, is_static |-> static]
slot(address, number) == <<address, number>>
Slot0 == slot(12, 0)
transaction(actions, warm, commit) ==
  [blob_hashes |-> <<>>, sender |-> 11, destination |-> 12, coinbase |-> 13, block_number |-> 0,
   access_accounts |-> <<>>, access_slots |-> IF warm THEN <<Slot0>> ELSE <<>>,
   commit |-> commit, actions |-> actions]
tx(actions) == transaction(actions, FALSE, TRUE)
one(code) == tx(<<frame(code)>>)
limited(code, gas) == tx(<<bounded(code, gas, FALSE)>>)
warmed(t, warm) == IF warm THEN [t EXCEPT !.access_accounts = <<44>>] ELSE t

\* The code of an account is its length.
account(address, balance, nonce, code) == <<address, balance, nonce, code>>
case(transactions, original, anchors) ==
  [block_hashes |-> <<>>, accounts |-> <<account(44, 99, 0, 0)>>,
   storage |-> <<Append(Slot0, original)>>,
   watch_accounts |-> <<0, 1, 10, 11, 12, 13, 44, 45>>,
   watch_slots |-> <<slot(12, 0), slot(12, 1), slot(12, 2)>>,
   transactions |-> transactions, anchors |-> anchors]
with(row, accounts) == [row EXCEPT !.accounts = accounts]

\* An anchor is a path in the results and what is found at its end.
At(t, path, expected) == <<<<t>> \o path, expected>>
gas(step, left) == At(1, <<"steps", step, "frame", "gas_remaining">>, left)
stack(step, words) == At(1, <<"steps", step, "frame", "stack">>, words)
memory(extent) == At(1, <<"steps", 1, "frame", "memory">>, extent)
reason(step, name) == At(1, <<"steps", step, "frame", "reason">>, name)
outcome(ok) == At(1, <<"steps", 1, "frame", "outcome">>, IF ok THEN "success" ELSE "exceptional")
warm44(step, warm) == At(1, <<"steps", step, "accounts", 7, "warm">>, warm)
logs(t, records) == At(t, <<"logs">>, records)
Discarded == -1             \* the memory of a frame that failed
Affords(adjustment) == <<outcome(adjustment >= 0), gas(1, IF adjustment < 0 THEN 0 ELSE adjustment)>>

\* ------------------------------------------------------------------- storage
NetStorage == <<
  <<0, <<0, 0>>, 2312, 0>>, <<0, <<0, 1>>, 22212, 0>>, <<0, <<1, 0>>, 22212, 19900>>,
  <<0, <<1, 2>>, 22212, 0>>, <<0, <<1, 1>>, 22212, 0>>, <<1, <<0, 0>>, 5112, 4800>>,
  <<1, <<0, 1>>, 5112, 2800>>, <<1, <<0, 2>>, 5112, 0>>, <<1, <<2, 0>>, 5112, 4800>>,
  <<1, <<2, 3>>, 5112, 0>>, <<1, <<2, 1>>, 5112, 2800>>, <<1, <<2, 2>>, 5112, 0>>,
  <<1, <<1, 0>>, 5112, 4800>>, <<1, <<1, 2>>, 5112, 0>>, <<1, <<1, 1>>, 2312, 0>>,
  <<0, <<1, 0, 1>>, 42218, 19900>>, <<1, <<0, 1, 0>>, 8018, 7600>> >>
PUSH1(value) == <<"PUSH1", value>>

net_storage(vector, warm) ==
  LET values == vector[2]
      spent == vector[3] - (IF warm THEN 2100 ELSE 0)
      code == FlattenSeq([k \in 1 .. Len(values) |-> <<PUSH1(values[k]), PUSH1(0), op("SSTORE")>>])
  IN case(<<transaction(<<frame(code)>>, warm, TRUE)>>, vector[1],
          <<gas(1, Million - spent), At(1, <<"steps", 1, "refund_delta">>, vector[4]),
            At(1, <<"gas_refunded">>, MinOf(vector[4], spent \div 5)),
            At(1, <<"storage", 1>>, Last(values))>>)

separate_frames(original, values, warm) ==
  case(<<transaction([k \in 1 .. Len(values) |-> frame(store(values[k], 0))], warm, TRUE)>>, original, <<>>)

balance(target, high) ==
  LET operand == target + (IF high THEN TOP ELSE 0)
      spent == PushGas(<<operand, target>>) + (IF target \in 1 .. 13 THEN 100 ELSE 2600) + 100
      value == IF target = 44 THEN 99 ELSE 0
  IN case(<<one(access("BALANCE", operand) \o access("BALANCE", target))>>, 0,
          <<gas(1, Million - spent), stack(1, <<value, value>>)>>)

gas_boundaries(n, warm) ==
  LET codes == <<access("SLOAD", 0), store(0, 0), store(1, 0), transient(1, 0), access("TLOAD", 0)>>
      boundary == <<IF warm THEN 102 ELSE 2102, 2305, IF warm THEN 20005 ELSE 22105, 105, 102>>[n]
  IN {case(<<transaction(<<bounded(codes[n], limit, FALSE)>>, warm, TRUE)>>, 0, <<>>) :
        limit \in {0, boundary - 1, boundary, boundary + 1}}

static_write(name, value) ==
  case(<<tx(<<bounded(<<push(value), push(0), op(name)>>, Million, TRUE)>>)>>, 0,
       <<outcome(FALSE), reason(1, "static_write"), At(1, <<"storage", 1>>, 0)>>)

Balance44 == access("BALANCE", 44)
Sequences == <<
  case(<<tx(<<scope(<<frame(store(1, 0)), frame(Loads)>>, TRUE, TRUE)>>)>>, 0, <<>>),
  case(<<tx(<<scope(<<frame(store(0, 0) \o transient(9, 0) \o Balance44),
                      scope(<<frame(store(1, 0))>>, TRUE, FALSE)>>, FALSE, FALSE),
              frame(Loads \o Balance44)>>)>>, 1, <<>>),
  case(<<tx(<<scope(<<frame(store(0, 0)), scope(<<frame(store(1, 0))>>, FALSE, FALSE),
                      frame(access("SLOAD", 0))>>, TRUE, FALSE)>>)>>, 1, <<>>),
  case(<<tx(<<frame(store(1, 0) \o transient(9, 0) \o REVERT), frame(Loads)>>)>>, 0, <<>>),
  case(<<tx(<<frame(store(0, 0) \o INVALID), frame(access("SLOAD", 0))>>)>>, 1, <<>>),
  case(<<tx(<<bounded(Append(store(0, 0), push(0)), 5005, FALSE), frame(access("SLOAD", 0))>>)>>, 1, <<>>),
  case(<<tx(<<scope(<<frame(store(2, 0))>>, FALSE, FALSE), frame(store(1, 0)), frame(store(0, 0))>>)>>,
       0, <<>>),
  case(<<transaction(<<scope(<<frame(access("SLOAD", 0) \o Balance44)>>, FALSE, FALSE),
                       frame(access("SLOAD", 0))>>, TRUE, TRUE)>>, 0, <<>>),
  case(<<one(store(7, 0) \o transient(9, 0)), one(access("TLOAD", 0) \o store(0, 0))>>, 0, <<>>),
  case(<<transaction(<<frame(store(0, 0))>>, FALSE, FALSE), one(store(0, 0))>>, 7, <<>>),
  case(<<one(store(0, 0) \o FlattenSeq([k \in 1 .. 10 |-> Append(access("BALANCE", 99 + k), op("POP"))]))>>,
       1, <<At(1, <<"refund_counter">>, 4800), At(1, <<"gas_refunded">>, 4800)>>),
  case(<<tx(<<frame(store(MAX, 2)), frame(access("SLOAD", 2)), frame(store(0, 2))>>)>>, 0, <<>>),
  case(<<[one(Balance44 \o access("SLOAD", 0)) EXCEPT !.access_accounts = <<44, 44>>,
                                                   !.access_slots = <<Slot0, Slot0>>]>>,
       0, <<gas(1, 999795)>>) >>

\* Seeded draws: every short one instead of the 64 drawn.
MixedCode(value, last, ending) ==
  <<store(value, 0), transient(value, 0)>>[last] \o (Loads \o Balance44) \o ending
mixed_state(first, second, third, scoped, commit, warm, original) ==
  LET actions == IF scoped THEN <<scope(<<first, second>>, commit, FALSE), third>> ELSE <<first, second, third>>
  IN case(<<transaction(actions, warm, TRUE)>>, original, <<>>)

\* ------------------------------------------------------ history and accounts
BlockRequests == {<<0, 0>>, <<1, 0>>, <<255, 0>>, <<256, 0>>, <<257, 0>>,
  <<300, 43>>, <<300, 44>>, <<300, 45>>, <<300, 299>>, <<300, 300>>, <<300, 301>>,
  <<300, SIXTY4 + 44>>, <<300, MAX>>, <<SIXTY4 - 1, SIXTY4 - 257>>, <<SIXTY4 - 1, SIXTY4 - 258>>}
blockhash(current, requested, stored) ==
  LET t == [limited(<<<<"PUSH32", requested>>, op("BLOCKHASH")>>, 23) EXCEPT !.block_number = current]
      expected == IF current - requested \in 1 .. 256 THEN stored ELSE 0
  IN [case(<<t>>, 0, <<stack(1, <<expected>>), gas(1, 0)>>) EXCEPT !.block_hashes = <<<<requested, stored>>>>]
blockhash_gas(code, limit) == case(<<limited(code, limit)>>, 0, <<>>)

\* Absent, empty, funded, with a nonce, and with code of three lengths.
Profiles == {<<>>, <<account(44, 0, 0, 0)>>, <<account(44, 1, 0, 0)>>, <<account(44, 0, 1, 0)>>,
             <<account(44, 0, 0, 3)>>, <<account(44, 0, 0, 1)>>, <<account(44, 0, 0, 4)>>}
extcode(profile, warm, static, high) ==
  LET operand == 44 + (IF high THEN TOP ELSE 0)
      code == access("EXTCODESIZE", operand) \o access("EXTCODEHASH", operand)
      size == IF profile = <<>> THEN 0 ELSE profile[1][4]
      digest == IF profile \in {<<>>, <<account(44, 0, 0, 0)>>} THEN 0 ELSE HASH(size)
      spent == (IF warm THEN 100 ELSE 2600) + 100 + 6
  IN with(case(<<warmed(tx(<<bounded(code, Million, static)>>), warm)>>, 0,
               <<stack(1, <<size, digest>>), gas(1, Million - spent), warm44(1, TRUE)>>), profile)

storage_only ==
  [case(<<one(access("EXTCODEHASH", 44))>>, 0, <<stack(1, <<0>>)>>)
   EXCEPT !.accounts = <<account(44, 0, 0, 0)>>, !.storage = <<<<44, 0, 9>>>>]
initial_warm(target) ==
  LET warm == target \in (1 .. 17) \cup {256}     \* sender, destination and coinbase are 11 to 13
  IN case(<<one(access("EXTCODEHASH", target))>>, 0,
          <<gas(1, Million - PushGas(<<target>>) - (IF warm THEN 100 ELSE 2600))>>)
extcode_gas(name, warm, adjustment) ==
  LET spent == 3 + (IF warm THEN 100 ELSE 2600)
  IN with(case(<<warmed(limited(access(name, 44), spent + adjustment), warm)>>, 0,
               Append(Affords(adjustment), warm44(1, warm \/ adjustment >= 0))), <<account(44, 0, 0, 3)>>)

Extent(offset, length) == IF length = 0 THEN 0 ELSE 32 * Words(offset + length)
External == <<account(44, 0, 0, 137)>>
extcopy_range(length, source, dest) ==
  with(case(<<tx(<<bounded(copying(length, source, dest, 44), Million, TRUE)>>)>>, 0,
            <<memory(Extent(dest, length)), warm44(1, TRUE)>>), External)
extcopy_alias(high, warm) ==
  with(case(<<warmed(one(copying(3, 0, 0, high + 44) \o access("EXTCODESIZE", 44)), warm)>>, 0,
            <<memory(32), stack(1, <<3>>), gas(1, Million - (IF warm THEN 100 ELSE 2600) - 119)>>),
       <<account(44, 0, 0, 3)>>)
extcopy_empty(source, dest, warm, adjustment) ==
  LET spent == PushGas(<<0, source, dest, 44>>) + (IF warm THEN 100 ELSE 2600)
  IN case(<<warmed(limited(copying(0, source, dest, 44), spent + adjustment), warm)>>, 0,
          Affords(adjustment) \o <<memory(IF adjustment < 0 THEN Discarded ELSE 0),
                                   warm44(1, warm \/ adjustment >= 0)>>)
extcopy_gas(length, dest, warm, adjustment) ==
  LET spent == PushGas(<<length, 1, dest, 44>>) + (IF warm THEN 100 ELSE 2600)
               + 3 * Words(length) + Cost(dest + length)
  IN with(case(<<warmed(limited(copying(length, 1, dest, 44), spent + adjustment), warm)>>, 0,
               Append(Affords(adjustment), warm44(1, warm \/ adjustment >= 0))), External)
extcopy_overflow(length, dest) ==
  case(<<one(copying(length, 0, dest, 44))>>, 0, <<outcome(FALSE), memory(Discarded), warm44(1, FALSE)>>)
underflow(name, available) ==
  case(<<one(Append(pushes([k \in 1 .. available |-> 0]), op(name)))>>, 0, <<reason(1, "stack_underflow")>>)

Reads == [balance |-> Balance44, size |-> access("EXTCODESIZE", 44), hash |-> access("EXTCODEHASH", 44),
          copy |-> copying(0, 0, 0, 44)]
extcode_shared(first, second, commit) ==
  LET spent == (IF second = "copy" THEN 9 ELSE 3) + (IF commit THEN 100 ELSE 2600)
  IN case(<<tx(<<scope(<<frame(Reads[first])>>, commit, FALSE), frame(Reads[second])>>)>>, 0,
          <<warm44(2, commit), gas(3, Million - spent)>>)
extcode_failed(ending) ==
  case(<<tx(<<frame(access("EXTCODEHASH", 44) \o ending), frame(access("EXTCODESIZE", 44))>>)>>, 0,
       <<warm44(1, FALSE), gas(2, 997397)>>)
extcode_transaction(commit) ==
  LET t == one(access("EXTCODEHASH", 44))
  IN with(case(<<[t EXCEPT !.commit = commit], t>>, 0,
               <<At(2, <<"steps", 1, "frame", "gas_remaining">>, 997397),
                 At(2, <<"steps", 1, "frame", "stack">>, <<HASH(3)>>)>>), <<account(44, 0, 0, 3)>>)

\* ------------------------------------------------------- logs and blob hashes
Topics(count) == SubSeq(<<1, 0, TOP, MAX>>, 1, count)
log_data(count, length, offset) ==
  LET initialize == pushes(<<137, 0, 0>>) \o <<op("CALLDATACOPY")>>
      expected == <<log_record(Topics(count), length)>>
  IN case(<<tx(<<[frame(initialize \o emit(Topics(count), length, offset)) EXCEPT !.calldata = 137]>>)>>, 0,
          <<At(1, <<"steps", 1, "logs">>, expected), logs(1, expected)>>)
log_gas(count, length, offset, adjustment) ==
  LET spent == PushGas(Topics(count) \o <<length, offset>>) + 375 * (count + 1) + 8 * length
               + Cost(Extent(offset, length))
  IN case(<<limited(emit(Topics(count), length, offset), spent + adjustment)>>, 0,
          Append(Affords(adjustment),
                 logs(1, IF adjustment < 0 THEN <<>> ELSE <<log_record(Topics(count), length)>>)))
log_empty(count) ==
  LET spent == 375 * (count + 1) + PushGas(Topics(count) \o <<0, MAX>>)
  IN case(<<limited(emit(Topics(count), 0, MAX), spent)>>, 0,
          <<memory(0), gas(1, 0), logs(1, <<log_record(Topics(count), 0)>>)>>)
LogFails(code, static, why) ==
  case(<<tx(<<bounded(code, Million, static)>>)>>, 0, <<reason(1, why), logs(1, <<>>)>>)
LogUnderflow(count, available) ==
  LogFails(Append(pushes([k \in 1 .. available |-> 0]), op(LOGS[count + 1])), FALSE, "stack_underflow")
LogOverflow(count, range) == LogFails(emit(Topics(count), range[1], range[2]), FALSE, "out_of_gas")
LogStatic(count, length) ==
  LogFails(IF length < 0 THEN <<op(LOGS[count + 1])>> ELSE emit(Topics(count), length, 0), TRUE, "static_write")

E(topic) == frame(emit(<<topic>>, 0, 0))
R(topics) == [k \in 1 .. Len(topics) |-> log_record(<<topics[k]>>, 0)]
failed_frame(ending) ==
  case(<<tx(<<E(1), frame(emit(<<2>>, 0, 0) \o store(9, 0) \o ending), E(3)>>)>>, 0,
       <<At(1, <<"steps", 2, "logs">>, R(<<1>>)), At(1, <<"storage", 1>>, 0), logs(1, R(<<1, 3>>))>>)
logs_transaction(commit) ==
  case(<<transaction(<<E(1)>>, FALSE, commit), tx(<<E(2)>>)>>, 0,
       <<At(1, <<"steps", 1, "logs">>, R(<<1>>)), logs(1, IF commit THEN R(<<1>>) ELSE <<>>),
         logs(2, R(<<2>>))>>)
LogCheckpoints == <<
  case(<<tx(<<E(1), scope(<<E(2), scope(<<E(3)>>, TRUE, FALSE), E(4)>>, FALSE, FALSE), E(5)>>)>>, 0,
       <<At(1, <<"steps", 4, "logs">>, R(<<1, 2, 3>>)), At(1, <<"steps", 6, "logs">>, R(<<1>>)),
         logs(1, R(<<1, 5>>))>>),
  case(<<tx(<<scope(<<E(1), scope(<<E(2)>>, FALSE, FALSE), E(3)>>, TRUE, FALSE)>>)>>, 0,
       <<logs(1, R(<<1, 3>>))>>),
  case(<<tx(<<E(1), scope(<<E(2)>>, TRUE, TRUE)>>)>>, 0,
       <<reason(2, "static_write"), logs(1, R(<<1>>))>>),
  case(<<tx(<<E(1), bounded(Append(emit(<<>>, 0, 0), push(0)), 379, FALSE)>>)>>, 0,
       <<reason(2, "out_of_gas"), logs(1, R(<<1>>))>>) >>

Hashes(count) == [k \in 1 .. count |-> HIGH + 16 + k]
blobhash(count, index, static) ==
  LET t == [tx(<<bounded(access("BLOBHASH", index), Million, static)>>) EXCEPT !.blob_hashes = Hashes(count)]
  IN case(<<t>>, 0, <<stack(1, <<IF index < count THEN Hashes(count)[index + 1] ELSE 0>>),
                      gas(1, Million - PushGas(<<index>>) - 3)>>)
blobhash_gas(index, adjustment) ==
  LET t == limited(access("BLOBHASH", index), PushGas(<<index>>) + 3 + adjustment)
  IN case(<<[t EXCEPT !.blob_hashes = <<HIGH + 99>>]>>, 0, Affords(adjustment))
BlobLifetime ==
  LET first == transaction(<<scope(<<frame(access("BLOBHASH", 0))>>, FALSE, FALSE), frame(access("BLOBHASH", 0))>>,
                           FALSE, FALSE)
  IN case(<<[first EXCEPT !.blob_hashes = <<HIGH + 1>>],
            [one(access("BLOBHASH", 0)) EXCEPT !.blob_hashes = <<HIGH + 2>>]>>, 0,
          <<stack(3, <<HIGH + 1>>), At(2, <<"steps", 1, "frame", "stack">>, <<HIGH + 2>>)>>)

\* ------------------------------------------------------------------ encoding
Fields(row, sizes) == [k \in 1 .. Len(sizes) |-> <<sizes[k], row[k]>>]
Listed(rows, sizes) ==
  <<<<2, Len(rows)>>>> \o FlattenSeq([k \in 1 .. Len(rows) |-> Fields(rows[k], sizes)])
Singles(values) == [k \in 1 .. Len(values) |-> <<values[k]>>]
Flag(b) == IF b THEN 1 ELSE 0
ACCOUNT == <<20, 32, 8, BLOB>>
STORAGE == <<20, 32, 32>>
SLOT == <<20, 32>>
HEADER == <<20, 20, 20, 32>>

RECURSIVE actions(_)
actions(rows) ==
  LET encoded(row) ==
        <<<<1, Flag(row.kind = "scope")>>, <<1, Flag(row.is_static)>>>>
        \o (IF row.kind = "scope" THEN <<<<1, Flag(row.commit)>>>> \o actions(row.actions)
            ELSE <<<<8, row.gas_limit>>, <<BLOB, row.code>>, <<BLOB, row.calldata>>>>)
  IN <<<<2, Len(rows)>>>> \o FlattenSeq([k \in 1 .. Len(rows) |-> encoded(rows[k])])

\* The access lists before whether to commit.
transactions_reordered(t) ==
  Fields(<<t.sender, t.destination, t.coinbase, t.block_number>>, HEADER)
  \o Listed(Singles(t.blob_hashes), <<32>>) \o Listed(Singles(t.access_accounts), <<20>>)
  \o <<<<1, Flag(t.commit)>>>> \o Listed(t.access_slots, SLOT) \o actions(t.actions)
transactions(t) ==
  Fields(<<t.sender, t.destination, t.coinbase, t.block_number>>, HEADER)
  \o Listed(Singles(t.blob_hashes), <<32>>) \o <<<<1, Flag(t.commit)>>>>
  \o Listed(Singles(t.access_accounts), <<20>>) \o Listed(t.access_slots, SLOT) \o actions(t.actions)

encode(row) ==
  <<<<1, 4>>>> \o Listed(row.block_hashes, <<32, 32>>) \o Listed(row.accounts, ACCOUNT)
  \o Listed(row.storage, STORAGE) \o Listed(Singles(row.watch_accounts), <<20>>)
  \o Listed(row.watch_slots, SLOT) \o <<<<2, Len(row.transactions)>>>>
  \o FlattenSeq([k \in 1 .. Len(row.transactions) |-> transactions(row.transactions[k])])
=============================================================================
