---------------------------- MODULE StateContract ----------------------------
(***************************************************************************)
(* native/differential/state_contract.py, and the part of contract.py it   *)
(* uses: what the results of a case must be like whoever computed them,    *)
(* the anchors they must match, and when two results agree.                *)
(***************************************************************************)
EXTENDS StateFrames

FrameReasons == {"stack_underflow", "stack_overflow", "invalid_jump", "invalid_opcode",
                 "out_of_gas", "return_data_oob", "static_write"}

\* A scope comes after what it contains.
RECURSIVE flattened(_)
flattened(rows) ==
  FlattenSeq([k \in 1 .. Len(rows) |->
    IF rows[k].kind = "scope" THEN Append(flattened(rows[k].actions), rows[k]) ELSE <<rows[k]>>])

validate_frame(f, limit) ==
  /\ f.gas_remaining \in 0 .. limit
  /\ \/ f.outcome = "exceptional" /\ f.reason \in FrameReasons /\ f.gas_remaining = 0
        /\ f.stack = <<Discarded>> /\ f.memory = Discarded
     \/ f.outcome \in {"success", "revert"} /\ f.reason = "none" /\ Len(f.stack) <= 1024
        /\ f.memory >= 0 /\ f.memory % 32 = 0

Spent(rows, steps) ==
  FoldLeft(LAMBDA sum, k : sum + (IF rows[k].kind = "frame" THEN rows[k].gas_limit - steps[k].frame.gas_remaining
                                  ELSE 0),
           0, [k \in 1 .. Len(rows) |-> k])
valid_step(row, action, s) ==
  /\ IF action.kind = "frame"
     THEN validate_frame(s.frame, action.gas_limit) /\ (s.frame.outcome # "success" => s.refund_delta = 0)
     ELSE s.frame = NoFrame /\ s.refund_delta = 0
  /\ \A k \in 1 .. Len(s.logs) : Len(s.logs[k].topics) <= 4
  /\ Len(s.accounts) = Len(row.watch_accounts) /\ Len(s.storage) = Len(row.watch_slots)
valid_transaction(row, t, result) ==
  LET rows == flattened(t.actions)
      spent == Spent(rows, result.steps)
      refund == IF result.refund_counter < 0 THEN 0 ELSE MinOf(result.refund_counter, spent \div 5)
  IN /\ Len(result.steps) = Len(rows)
     /\ \A k \in 1 .. Len(rows) : valid_step(row, rows[k], result.steps[k])
     /\ ~t.commit => result.logs = <<>> /\ result.refund_counter = 0
     /\ result.gas_refunded = refund /\ result.gas_used = spent - refund
     /\ Len(result.balances) = Len(row.watch_accounts) /\ Len(result.storage) = Len(row.watch_slots)
validate(row, results) ==
  /\ Len(results) = Len(row.transactions)
  /\ \A k \in 1 .. Len(results) : valid_transaction(row, row.transactions[k], results[k])

Follow(results, path) == FoldLeft(LAMBDA found, part : found[part], results, path)
assert_anchors(row, results) ==
  \A k \in 1 .. Len(row.anchors) : Follow(results, row.anchors[k][1]) = row.anchors[k][2]

compare(row, reference, observed) ==
  validate(row, reference) /\ validate(row, observed) /\ reference = observed
=============================================================================
