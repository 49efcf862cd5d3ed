----------------------------- MODULE StateDriver -----------------------------
(***************************************************************************)
(* native/differential/state_driver, the program state_run.py gives a case *)
(* of the corpus to, and the reference it is compared with.  The driver    *)
(* reads the encoding of a case field by field as it runs the case; the    *)
(* reference (differential/reference/src/state.rs) is given the case.      *)
(***************************************************************************)
EXTENDS StateContract

VARIABLES
  row,        \* the case
  input,      \* what the reader has left of its encoding
  pc,         \* what it reads next, "done", or "trapped" by an assertion
  watch,      \* the accounts and slots observed
  t,          \* the transaction, over the world
  before,     \* the transaction before its first action
  opened,     \* the checkpoints of the open scopes, outermost first
  left,       \* actions to read of the list being read, transactions of the case
  steps, spent, commit,
  results

vars == <<row, input, pc, watch, t, before, opened, left, steps, spent, commit, results>>

\* ------------------------------------------------------------------ the reader
\* Each reads a value and what follows it; a field of another size is misread.
Misread == [ok |-> FALSE]
Reading(value, rest) == [ok |-> TRUE, value |-> value, rest |-> rest]
Word(from, size) ==
  IF from # <<>> /\ Head(from)[1] = size THEN Reading(Head(from)[2], Tail(from)) ELSE Misread
Row(from, sizes) ==
  LET n == Len(sizes) IN
  IF Len(from) >= n /\ \A k \in 1 .. n : from[k][1] = sizes[k]
  THEN Reading([k \in 1 .. n |-> from[k][2]], SubSeq(from, n + 1, Len(from))) ELSE Misread
Rows(from, sizes) ==
  LET counted == Word(from, 2)
      n == IF counted.ok THEN counted.value ELSE 0
      flat == Row(counted.rest, FlattenSeq([k \in 1 .. n |-> sizes]))
      width == Len(sizes)
  IN IF ~counted.ok THEN Misread ELSE IF ~flat.ok THEN Misread
     ELSE Reading([k \in 1 .. n |-> SubSeq(flat.value, (k - 1) * width + 1, k * width)], flat.rest)
Then(reading, next(_)) == IF reading.ok THEN next(reading) ELSE Misread
\* Lists one after another.
Lists(from, sizes) ==
  FoldLeft(LAMBDA read, size : IF ~read.ok THEN Misread
                               ELSE LET more == Rows(read.rest, size)
                                    IN IF more.ok THEN Reading(Append(read.value, more.value), more.rest)
                                       ELSE Misread,
           Reading(<<>>, from), sizes)
First(rows) == [k \in 1 .. Len(rows) |-> rows[k][1]]
Trap == pc' = "trapped" /\ UNCHANGED <<row, input, watch, t, before, opened, left, steps, spent, commit, results>>

Map(rows, key(_), value(_)) == FoldLeft(LAMBDA m, r : key(r) :> value(r) @@ m, <<>>, rows)
Hashed(rows) == Map(rows, LAMBDA r : r[1], LAMBDA r : r[2])
Held(rows) == Map(rows, LAMBDA r : r[1], LAMBDA r : [balance |-> r[2], nonce |-> r[3], code |-> r[4]])
Stored(rows) == Map(rows, LAMBDA r : slot(r[1], r[2]), LAMBDA r : r[3])
World(hashes, accounts, storage) == [hashes |-> hashes, accounts |-> accounts, storage |-> storage]
NewTransaction(world, number, senders, blobs, warm, slots) ==
  [hashes |-> world.hashes, accounts |-> world.accounts, storage |-> world.storage, number |-> number,
   warm_accounts |-> Range(senders) \cup Range(warm) \cup {s[1] : s \in Range(slots)},
   warm_slots |-> Range(slots), originals |-> <<>>, transient |-> <<>>, refund |-> 0,
   logs |-> <<>>, static |-> FALSE, blobs |-> blobs]

\* ------------------------------------------------------------------ the driver
\* The version of the encoding, the world, and what to observe.
ReadWorld ==
  /\ pc = "world"
  /\ LET version == Word(input, 1)
         read == Then(version, LAMBDA v : Lists(v.rest, <<<<32, 32>>, ACCOUNT, STORAGE, <<20>>, SLOT>>))
         count == Then(read, LAMBDA r : Word(r.rest, 2))
     IN IF ~count.ok THEN Trap ELSE IF version.value # 4 THEN Trap
        ELSE /\ t' = World(Hashed(read.value[1]), Held(read.value[2]), Stored(read.value[3]))
             /\ watch' = [accounts |-> First(read.value[4]), slots |-> read.value[5]]
             /\ left' = <<count.value>> /\ input' = count.rest /\ pc' = "transaction"
             /\ UNCHANGED <<row, before, opened, steps, spent, commit, results>>

BeginTransaction ==
  /\ pc = "transaction" /\ left[1] > 0
  /\ LET header == Row(input, HEADER)
         blobs == Then(header, LAMBDA h : Rows(h.rest, <<32>>))
         committed == Then(blobs, LAMBDA b : Word(b.rest, 1))
         lists == Then(committed, LAMBDA c : Lists(c.rest, <<<<20>>, SLOT>>))
         count == Then(lists, LAMBDA l : Word(l.rest, 2))
     IN IF ~count.ok THEN Trap ELSE IF committed.value \notin {0, 1} THEN Trap
        ELSE /\ t' = NewTransaction(t, header.value[4], SubSeq(header.value, 1, 3), First(blobs.value),
                                    First(lists.value[1]), lists.value[2])
             /\ before' = t' /\ commit' = (committed.value = 1)
             /\ left' = <<left[1] - 1, count.value>> /\ steps' = <<>> /\ spent' = 0
             /\ input' = count.rest /\ pc' = "action"
             /\ UNCHANGED <<row, watch, opened, results>>

Acting == pc = "action" /\ Last(left) > 0
IsFrame == Word(input, 1) = Reading(0, Tail(input))
Acted == [left EXCEPT ![Len(left)] = @ - 1]

Framed(f, ran) ==
  /\ t' = ran.tx /\ spent' = spent + f.value[2] - ran.frame.gas_remaining
  /\ steps' = Append(steps, snapshot(ran.tx, watch, ran.frame, ran.refund_delta))
  /\ left' = Acted /\ input' = f.rest
  /\ UNCHANGED <<row, pc, watch, before, opened, commit, results>>
run_frame ==
  /\ Acting /\ IsFrame
  /\ LET f == Row(Tail(input), <<1, 8, BLOB, BLOB>>) IN
     IF ~f.ok THEN Trap
     ELSE Framed(f, execute_vm(t, f.value[3], f.value[2], f.value[1] = 1, "fevm"))

OpenScope ==
  /\ Acting /\ ~IsFrame
  /\ LET s == Row(input, <<1, 1, 1, 2>>) IN
     IF ~s.ok THEN Trap ELSE IF s.value[1] # 1 THEN Trap
     ELSE /\ opened' = Append(opened, [saved |-> t, commit |-> s.value[3] = 1])
          /\ t' = [t EXCEPT !.static = @ \/ s.value[2] = 1]
          /\ left' = Append(Acted, s.value[4]) /\ input' = s.rest
          /\ UNCHANGED <<row, pc, watch, before, steps, spent, commit, results>>

CloseScope ==
  /\ pc = "action" /\ Last(left) = 0 /\ opened # <<>>
  /\ LET point == Last(opened) IN
     t' = IF point.commit THEN [t EXCEPT !.static = point.saved.static] ELSE reverted(t, point.saved)
  /\ steps' = Append(steps, snapshot(t', watch, NoFrame, 0))
  /\ opened' = Front(opened) /\ left' = Front(left)
  /\ UNCHANGED <<row, input, pc, watch, before, spent, commit, results>>

capped_refund(refund, gas_spent) == IF refund <= 0 THEN 0 ELSE MinOf(refund, gas_spent \div 5)
Finish ==
  /\ pc = "action" /\ Last(left) = 0 /\ opened = <<>>
  /\ LET ended == IF commit THEN t ELSE reverted(t, before)
         refund == IF commit THEN t.refund ELSE 0
         refunded == IF commit THEN capped_refund(t.refund, spent) ELSE 0
     IN /\ results' = Append(results, settled(ended, watch, steps, refund, refunded, spent))
        /\ t' = World(ended.hashes, ended.accounts, ended.storage)
  /\ left' = Front(left) /\ pc' = "transaction"
  /\ UNCHANGED <<row, input, watch, before, opened, steps, spent, commit>>

End ==
  /\ pc = "transaction" /\ left[1] = 0
  /\ pc' = IF input = <<>> THEN "done" ELSE "trapped"
  /\ UNCHANGED <<row, input, watch, t, before, opened, left, steps, spent, commit, results>>

\* --------------------------------------------------------------- the reference
\* The actions of one list, one after another; a scope that does not commit leaves what it found.
ran_frame(s, a, ran, shown) ==
  [tx |-> ran.tx, gas |-> s.gas + a.gas_limit - ran.frame.gas_remaining,
   steps |-> Append(s.steps, snapshot(ran.tx, shown, ran.frame, ran.refund_delta))]
ran_scope(s, a, inner, shown) ==
  LET after == IF a.commit THEN [inner.tx EXCEPT !.static = s.tx.static] ELSE s.tx
  IN [tx |-> after, gas |-> inner.gas, steps |-> Append(inner.steps, snapshot(after, shown, NoFrame, 0))]
RECURSIVE acts(_, _, _)
acts(state, rows, shown) ==
  FoldLeft(LAMBDA s, a :
             IF a.kind = "frame"
             THEN ran_frame(s, a, execute_vm(s.tx, a.code, a.gas_limit, a.is_static, "reference"), shown)
             ELSE ran_scope(s, a, acts([s EXCEPT !.tx.static = @ \/ a.is_static], a.actions, shown), shown),
           state, rows)

Ended(results_before, ended, ran, shown) ==
  LET refunded == MinOf(IF ended.refund < 0 THEN 0 ELSE ended.refund, ran.gas \div 5)
  IN [world |-> World(ended.hashes, ended.accounts, ended.storage),
      results |-> Append(results_before, settled(ended, shown, ran.steps, ended.refund, refunded, ran.gas))]
Transacted(run, tr, shown) ==
  LET fresh == [NewTransaction(run.world, tr.block_number, <<tr.sender, tr.destination, tr.coinbase>>,
                               tr.blob_hashes, tr.access_accounts, tr.access_slots)
                EXCEPT !.originals = run.world.storage]
      finished(ran) == Ended(run.results, IF tr.commit THEN ran.tx ELSE fresh, ran, shown)
  IN finished(acts([tx |-> fresh, steps |-> <<>>, gas |-> 0], tr.actions, shown))

Reference ==
  LET world == World(Hashed(row.block_hashes), Held(row.accounts), Stored(row.storage))
      shown == [accounts |-> row.watch_accounts, slots |-> row.watch_slots]
  IN FoldLeft(LAMBDA run, tr : Transacted(run, tr, shown), [world |-> world, results |-> <<>>],
              row.transactions).results

\* --------------------------------------------------------------- the corpus
Adjustments == {-1, 0, 1}
Draws == {bounded(MixedCode(value, last, ending), 25000, static) :
            value \in {0, 2}, last \in 1 .. 2, ending \in {<<>>, REVERT}, static \in BOOLEAN}
         \cup {bounded(store(1, 0), 2300, FALSE), bounded(store(1, 0) \o INVALID, 100000, FALSE)}

StorageCases ==
  \/ \E k \in 1 .. Len(NetStorage), warm \in BOOLEAN : row = net_storage(NetStorage[k], warm)
  \/ \E original \in 0 .. 2, values \in [1 .. 3 -> 0 .. 2], warm \in BOOLEAN :
       row = separate_frames(original, values, warm)
  \/ \E n \in 1 .. 5, warm \in BOOLEAN : row \in gas_boundaries(n, warm)
  \/ \E name \in {"SSTORE", "TSTORE"}, value \in {0, 1} : row = static_write(name, value)
  \/ \E k \in 1 .. Len(Sequences) : row = Sequences[k]
  \/ \E first, second \in Draws, third \in {bounded(Loads, 5000, FALSE), bounded(store(1, 0), 25000, FALSE)},
        commits \in {"unscoped", "committed", "reverted"}, warm \in BOOLEAN, original \in 0 .. 2 :
       row = mixed_state(first, second, third, commits # "unscoped", commits = "committed", warm, original)

AccountCases ==
  \/ \E target \in {0} \cup 1 .. 13 \cup {44, 45}, high \in BOOLEAN : row = balance(target, high)
  \/ \E request \in BlockRequests, stored \in {0, 4660} : row = blockhash(request[1], request[2], stored)
  \/ \E limit \in 21 .. 23 : row = blockhash_gas(access("BLOCKHASH", 0), limit)
  \/ row = blockhash_gas(<<op("BLOCKHASH")>>, 20)
  \/ \E profile \in Profiles, warm, static, high \in BOOLEAN : row = extcode(profile, warm, static, high)
  \/ row = storage_only
  \/ \E target \in 0 .. 18 \cup {256, 257, 44, 45} : row = initial_warm(target)
  \/ \E name \in {"EXTCODESIZE", "EXTCODEHASH"}, warm \in BOOLEAN, adjustment \in Adjustments :
       row = extcode_gas(name, warm, adjustment)
  \/ \E length \in {0, 1, 31, 32, 33, 136, 137}, source \in {0, 1, 136, 137, 138, SIXTY4, MAX}, dest \in {0, 31} :
       row = extcopy_range(length, source, dest)
  \/ \E high \in {HIGH, TOP}, warm \in BOOLEAN : row = extcopy_alias(high, warm)
  \/ \E source, dest \in {0, MAX}, warm \in BOOLEAN, adjustment \in Adjustments :
       row = extcopy_empty(source, dest, warm, adjustment)
  \/ \E length \in {1, 31, 32, 33, 137}, dest \in {0, 31, 32}, warm \in BOOLEAN, adjustment \in Adjustments :
       row = extcopy_gas(length, dest, warm, adjustment)
  \/ \E range \in {<<1, SIXTY4>>, <<1, TOP>>, <<1, MAX>>, <<MAX, 0>>} : row = extcopy_overflow(range[1], range[2])
  \/ \E available \in 0 .. 3 : row = underflow("EXTCODECOPY", available)
  \/ \E name \in {"EXTCODESIZE", "EXTCODEHASH", "BLOBHASH"} : row = underflow(name, 0)
  \/ \E first, second \in DOMAIN Reads, commits \in BOOLEAN : row = extcode_shared(first, second, commits)
  \/ \E ending \in {REVERT, INVALID} : row = extcode_failed(ending)
  \/ \E commits \in BOOLEAN : row = extcode_transaction(commits)

LogCases ==
  \/ \E count \in 0 .. 4, length \in {0, 1, 31, 32, 33, 136, 257}, offset \in {0, 1, 31, 136} :
       row = log_data(count, length, offset)
  \/ \E count \in 0 .. 4, length \in {0, 1, 32, 33}, offset \in {0, 31}, adjustment \in Adjustments :
       row = log_gas(count, length, offset, adjustment)
  \/ \E count \in 0 .. 4 :
       \/ row = log_empty(count)
       \/ \E available \in 0 .. count + 1 : row = LogUnderflow(count, available)
       \/ \E range \in {<<1, SIXTY4>>, <<SIXTY4, 0>>, <<TOP, 0>>, <<MAX, 1>>} : row = LogOverflow(count, range)
       \/ \E length \in {-1, 1, MAX} : row = LogStatic(count, length)
  \/ \E k \in 1 .. Len(LogCheckpoints) : row = LogCheckpoints[k]
  \/ \E ending \in {REVERT, INVALID, <<op("ADD")>>} : row = failed_frame(ending)
  \/ \E commits \in BOOLEAN : row = logs_transaction(commits)
  \/ \E count \in {0, 1, 2, 6}, index \in {0, 1, 2, 5, 6, SIXTY4, TOP, MAX}, static \in BOOLEAN :
       row = blobhash(count, index, static)
  \/ \E index \in {0, 1, TOP}, adjustment \in Adjustments : row = blobhash_gas(index, adjustment)
  \/ row = BlobLifetime

Init ==
  /\ StorageCases \/ AccountCases \/ LogCases
  /\ input = encode(row) /\ pc = "world"
  /\ watch = [accounts |-> <<>>, slots |-> <<>>] /\ t = <<>> /\ before = <<>> /\ opened = <<>> /\ left = <<>>
  /\ steps = <<>> /\ spent = 0 /\ commit = FALSE /\ results = <<>>

Next == \/ ReadWorld \/ BeginTransaction \/ run_frame \/ OpenScope \/ CloseScope \/ Finish \/ End
Spec == Init /\ [][Next]_vars

\* Every case of the corpus is encoded so that the driver reads each field as what it is, to the last.
InputIsRead == pc # "trapped"

\* What the driver prints of a case is what the reference computes from the case itself: the frames, the
\* access sets, originals and refunds after every step, across scopes, aborts and transactions; and both
\* are as the contract wants them, the gas and refund of a transaction following from its frames.
Agrees == pc = "done" => compare(row, Reference, results)

\* The anchors written down in the corpus from the specifications hold of the results.
AnchorsHold == pc = "done" => assert_anchors(row, results)
=============================================================================
