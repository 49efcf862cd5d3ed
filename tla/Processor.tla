----------------------------- MODULE Processor -----------------------------
(***************************************************************************)
(* One transaction through ingots/evm/src/processor.fe: validation, buying *)
(* gas, authorizations, the message, fees, and settlement or the way back. *)
(* Every write to the world is journaled, and a transaction given up takes *)
(* its changes back one by one, as Transaction does.  The message is taken *)
(* at the promise of the call stack (Frames): it keeps ether and gas in    *)
(* bounds, and changes nothing unless it succeeds.  Arithmetic traps where *)
(* it would overflow.                                                      *)
(***************************************************************************)
EXTENDS Integers, Sequences, FiniteSetsExt

CONSTANTS Addr, NoCode, Contract,  \* addresses and codes; a designator's is its delegate
          NoSigner,                \* what a bad signature recovers
          NoChain,                 \* the chain of a transaction signed for any
          Worlds, Requests, Blocks, Configs,
          MaxBalance, MaxNonce,    \* 2^256 - 1 and 2^64 - 1
          TxGas, TokenGas, FloorTokenGas, CreateGas, WordGas, AccessGas, AuthorizationGas,
          ExistingAuthorityRefund, RefundQuotient, GasPerBlob, MaxBlobs,
          MessageRefunds, Payments \* what a message may refund and pay on

Codes == {NoCode, Contract} \cup Addr

\* Mutants: the nonce, the code are not looked at.
is_empty_nonceless(w, a) == w.balance[a] = 0 /\ w.code[a] = NoCode
is_empty_codeless(w, a) == w.balance[a] = 0 /\ w.nonce[a] = 0

is_empty(w, a) == w.balance[a] = 0 /\ w.nonce[a] = 0 /\ w.code[a] = NoCode

\* An account without a record holds nothing.
World == {w \in [exists: SUBSET Addr, balance: [Addr -> 0..MaxBalance],
                 nonce: [Addr -> 0..MaxNonce + 1], code: [Addr -> Codes]] :
            \A a \in Addr \ w.exists : is_empty(w, a)}

ASSUME CodeAssumption == NoCode \notin Addr /\ Contract \notin Addr /\ NoCode # Contract
ASSUME WorldsAssumption == Worlds \subseteq World
ASSUME AddrAssumption == IsFiniteSet(Addr)

Kinds == {"LEGACY", "FEE_MARKET", "BLOB", "SET_CODE"}

\* What a caller hands in, unsigned as the code has it; the amounts a message may
\* refund may be negative.
Authorization == [signer: Addr \cup {NoSigner}, chain_id: Nat, nonce: Nat,
                  delegate: Addr \cup {NoCode}]
Request == [kind: STRING, chain_id: Nat \cup {NoChain}, sender: Addr, to: Addr,
            creates: BOOLEAN, nonce: Nat, gas_limit: Nat, gas_price: Nat,
            max_priority_fee: Nat, max_fee_per_blob_gas: Nat, blobs: Nat, versioned: BOOLEAN,
            value: Nat, tokens: Nat, words: Nat, access: Nat,
            authorizations: Seq(Authorization)]
Block == [basefee: Nat, blobbasefee: Nat, gaslimit: Nat, coinbase: Addr, chainid: Nat]

ASSUME InputAssumption ==
  /\ Requests \subseteq Request /\ Blocks \subseteq Block
  /\ MessageRefunds \subseteq Int /\ Payments \subseteq Nat
ASSUME GasAssumption ==
  /\ {MaxBalance, MaxNonce, TxGas, TokenGas, FloorTokenGas, CreateGas, WordGas, AccessGas,
      AuthorizationGas, ExistingAuthorityRefund, GasPerBlob, MaxBlobs} \subseteq Nat
  /\ RefundQuotient \in Nat \ {0}

VARIABLES
  world,     \* the transaction's state
  journal,   \* its changes, to take back
  pre,       \* the state it started from
  request, block, config,
  commits,   \* transact, or simulate
  touched,   \* accounts to look at when settling
  doomed,    \* accounts that destroyed themselves
  refund,    \* the refund counter
  next,      \* the next authorization
  result,    \* the message's status and the gas it left
  receipt,   \* what the caller gets
  phase      \* how far apply has come

vars == <<world, journal, pre, request, block, config, commits, touched, doomed, refund, next,
          result, receipt, phase>>

inputs == <<pre, request, block, config, commits>>

NoReceipt == [invalid |-> "VALID", status |-> "OK", gas_used |-> 0, gas_refunded |-> 0]

OK == "OK"
ERR_REVERT == "ERR_REVERT"
ERR_OUT_OF_GAS == "ERR_OUT_OF_GAS"      \* stands for every exceptional halt
ERR_ADDRESS_COLLISION == "ERR_ADDRESS_COLLISION"
ERR_HOST_ALLOCATION == "ERR_HOST_ALLOCATION"
ERR_BALANCE_OVERFLOW == "ERR_BALANCE_OVERFLOW"
is_evm_outcome(status) == status \in {OK, ERR_REVERT, ERR_OUT_OF_GAS, ERR_ADDRESS_COLLISION}

-----------------------------------------------------------------------------
(* The journaled world *)

\* WorldState's setters: writing nothing to an absent account creates none.
set_balance(w, a, v) ==
  IF a \notin w.exists /\ v = 0 THEN w
  ELSE [w EXCEPT !.balance[a] = v, !.exists = @ \cup {a}]
set_nonce(w, a, v) ==
  IF a \notin w.exists /\ v = 0 THEN w
  ELSE [w EXCEPT !.nonce[a] = v, !.exists = @ \cup {a}]
set_code(w, a, c) ==
  IF a \notin w.exists /\ c = NoCode THEN w
  ELSE [w EXCEPT !.code[a] = c, !.exists = @ \cup {a}]

store(w, kind, a, v) ==
  CASE kind = "BALANCE" -> set_balance(w, a, v)
    [] kind = "NONCE" -> set_nonce(w, a, v)
    [] OTHER -> set_code(w, a, v)

state == [world |-> world, journal |-> journal]

change(w, kind, a, previous) ==
  [kind |-> kind, address |-> a, previous |-> previous, existed |-> a \in w.exists]

\* Mutant: whether the account existed is read after the write.
journaled_late(s, kind, a, previous, v) ==
  LET w == store(s.world, kind, a, v)
  IN [world |-> w, journal |-> Append(s.journal, change(w, kind, a, previous))]

\* A write with its change appended.
journaled(s, kind, a, previous, v) ==
  [world |-> store(s.world, kind, a, v),
   journal |-> Append(s.journal, change(s.world, kind, a, previous))]

\* Mutant: an unchanged balance is journaled, too.
write_balance_always(s, a, v) == journaled(s, "BALANCE", a, s.world.balance[a], v)

write_balance(s, a, v) ==
  IF v = s.world.balance[a] THEN s ELSE journaled(s, "BALANCE", a, s.world.balance[a], v)
increment_nonce(s, a) == journaled(s, "NONCE", a, s.world.nonce[a], s.world.nonce[a] + 1)
\* deploy_code and delegate_code, which journals a delegation that stays as it is.
write_code(s, a, c) == journaled(s, "CODE", a, s.world.code[a], c)

becomes(s) == world' = s.world /\ journal' = s.journal

-----------------------------------------------------------------------------
(* Validation *)

Smaller(m, n) == IF m < n THEN m ELSE n
Larger(m, n) == IF m < n THEN n ELSE m

is_delegated(w, a) == w.code[a] \in Addr
deployable(w, a) == w.nonce[a] = 0 /\ w.code[a] = NoCode
fee_market(r) == r.kind # "LEGACY"

\* tokens weighs the calldata's bytes, words counts its words, access the access
\* list's entries.
intrinsic_gas(r) ==
  [regular |-> TxGas + TokenGas * r.tokens + AccessGas * r.access
               + AuthorizationGas * Len(r.authorizations)
               + IF r.creates THEN CreateGas + WordGas * r.words ELSE 0,
   floor |-> TxGas + FloorTokenGas * r.tokens]

effective_gas_price(r, base_fee) ==
  IF ~fee_market(r) \/ r.gas_price <= base_fee THEN r.gas_price
  ELSE base_fee + Smaller(r.max_priority_fee, r.gas_price - base_fee)

blob_fee(r, price) == r.blobs * GasPerBlob * price

\* The most a transaction can cost; more than any balance when it overflows.
max_cost(r) == r.gas_limit * r.gas_price + r.value
               + IF r.kind = "BLOB" THEN blob_fee(r, r.max_fee_per_blob_gas) ELSE 0

affordable(w, r) == w.balance[r.sender] >= max_cost(r)

\* The includability checks in their order: the first that fails names the reason.
checks(w, r, b, c) ==
  LET intrinsic == intrinsic_gas(r) IN
  << <<r.kind \notin Kinds, "INVALID_TX_TYPE">>,
     <<r.kind # "BLOB" /\ r.blobs # 0, "INVALID_TX_TYPE">>,
     <<r.kind # "SET_CODE" /\ r.authorizations # <<>>, "INVALID_TX_TYPE">>,
     <<Larger(intrinsic.regular, intrinsic.floor) > r.gas_limit, "INVALID_INTRINSIC_GAS">>,
     <<r.creates /\ r.words > c.max_initcode_words, "INVALID_INITCODE_SIZE">>,
     <<r.gas_limit > c.tx_gas_limit_cap, "INVALID_GAS_LIMIT_CAP">>,
     <<r.nonce >= MaxNonce, "INVALID_NONCE_LIMIT">>,
     <<fee_market(r) /\ r.gas_price < r.max_priority_fee, "INVALID_PRIORITY_FEE">>,
     <<r.gas_limit > b.gaslimit, "INVALID_GAS_LIMIT">>,
     <<c.check_chain_id /\ r.chain_id \notin {NoChain, b.chainid}, "INVALID_CHAIN_ID">>,
     <<c.check_base_fee /\ r.gas_price < b.basefee, "INVALID_FEE_CAP">>,
     <<r.kind = "BLOB" /\ r.blobs = 0, "INVALID_NO_BLOBS">>,
     <<r.kind = "BLOB" /\ r.blobs > MaxBlobs, "INVALID_BLOB_COUNT">>,
     <<r.kind = "BLOB" /\ ~r.versioned, "INVALID_BLOB_VERSION">>,
     <<r.kind = "BLOB" /\ r.max_fee_per_blob_gas < b.blobbasefee, "INVALID_BLOB_FEE_CAP">>,
     <<r.kind \in {"BLOB", "SET_CODE"} /\ r.creates, "INVALID_CREATE">>,
     <<r.kind = "SET_CODE" /\ r.authorizations = <<>>, "INVALID_NO_AUTHORIZATIONS">>,
     <<c.check_nonce /\ w.nonce[r.sender] # r.nonce, "INVALID_NONCE">>,
     <<~affordable(w, r), "INVALID_BALANCE">>,
     <<c.check_sender_code /\ w.code[r.sender] # NoCode /\ ~is_delegated(w, r.sender),
       "INVALID_SENDER_CODE">> >>

validate(w, r, b, c) ==
  LET failed == {i \in DOMAIN checks(w, r, b, c) : checks(w, r, b, c)[i][1]}
  IN IF failed = {} THEN "VALID" ELSE checks(w, r, b, c)[Min(failed)][2]

Start ==
  /\ phase = "idle"
  /\ LET invalid == validate(world, request, block, config)
     IN IF invalid = "VALID" THEN phase' = "prepare" /\ UNCHANGED receipt
        ELSE phase' = "done" /\ receipt' = [NoReceipt EXCEPT !.invalid = invalid]
  /\ UNCHANGED <<world, journal, inputs, touched, doomed, refund, next, result>>

-----------------------------------------------------------------------------
(* Before the message *)

price == effective_gas_price(request, block.basefee)

\* A failure of the host gives the transaction up, with what s has done so far.
host_failure(s, status) ==
  /\ becomes(s) /\ phase' = "undo"
  /\ receipt' = [NoReceipt EXCEPT !.status = status]

\* Arithmetic beyond its range stops the process.
Traps == phase' = "trapped" /\ UNCHANGED <<world, journal, receipt>>

\* Warms the access list, counts the nonce up and buys the gas.
prepare ==
  /\ phase = "prepare"
  /\ LET sender == request.sender
         fee == request.gas_limit * price + blob_fee(request, block.blobbasefee)
         counted == increment_nonce(state, sender)
     IN \/ host_failure(state, ERR_HOST_ALLOCATION) /\ UNCHANGED touched
        \/ IF fee > world.balance[sender] THEN Traps /\ UNCHANGED touched ELSE
           \/ host_failure(counted, ERR_HOST_ALLOCATION) /\ UNCHANGED touched
           \/ /\ becomes(write_balance(counted, sender, world.balance[sender] - fee))
              /\ touched' = touched \cup {sender}
              /\ phase' = IF request.kind = "SET_CODE" THEN "authorize" ELSE "message"
              /\ UNCHANGED receipt
  /\ UNCHANGED <<inputs, doomed, refund, next, result>>

authority(a) ==
  IF a.chain_id \in {0, block.chainid} /\ a.nonce < MaxNonce THEN a.signer ELSE NoSigner

delegable(w, a) == w.code[a] = NoCode \/ is_delegated(w, a)

delegates(w, a, signer) == delegable(w, signer) /\ w.nonce[signer] = a.nonce

\* One authorization; a delegate of NoCode clears the delegation.  delegate_code
\* asserts what delegates checks.
authorize ==
  /\ phase = "authorize"
  /\ IF next > Len(request.authorizations)
     THEN phase' = "message" /\ UNCHANGED <<world, journal, touched, refund, next, receipt>>
     ELSE LET a == request.authorizations[next]
              signer == authority(a)
              delegated == write_code(state, signer, a.delegate)
          IN \/ /\ signer # NoSigner /\ host_failure(state, ERR_HOST_ALLOCATION)
                /\ UNCHANGED <<touched, refund, next>>
             \/ IF signer = NoSigner \/ ~delegates(world, a, signer)
                THEN /\ next' = next + 1
                     /\ UNCHANGED <<world, journal, touched, refund, receipt, phase>>
                ELSE IF ~delegable(world, signer) THEN Traps /\ UNCHANGED <<touched, refund, next>>
                ELSE \/ /\ host_failure(delegated, ERR_HOST_ALLOCATION)
                        /\ UNCHANGED <<touched, refund, next>>
                     \/ /\ becomes(increment_nonce(delegated, signer))
                        /\ next' = next + 1 /\ UNCHANGED <<receipt, phase>>
                        /\ touched' = touched \cup {signer}
                        /\ refund' = refund + IF signer \in world.exists
                                              THEN ExistingAuthorityRefund ELSE 0
  /\ UNCHANGED <<inputs, doomed, result>>

-----------------------------------------------------------------------------
(* The message *)

gas == request.gas_limit - intrinsic_gas(request).regular

\* Ether moved from one account to another.
transfer(s, from, to, v) ==
  IF v = 0 \/ from = to THEN s
  ELSE LET sent == write_balance(s, from, s.world.balance[from] - v)
       IN write_balance(sent, to, s.world.balance[to] + v)

overflows(w, from, to, v) == from # to /\ v > MaxBalance - w.balance[to]

\* Accounts whose code a message may run.
running(w) == {a \in Addr : w.code[a] # NoCode \/ (a = request.to /\ request.creates)}

\* A creation counts its new account's nonce, then the value moves.
begun == IF request.creates THEN increment_nonce(state, request.to) ELSE state
moved == transfer(begun, request.sender, request.to, request.value)

\* What a frame that runs may pay on to another account.
paying(from, to, v) ==
  from \in running(moved.world) /\ v # 0 /\ v <= moved.world.balance[from]

unfunded == request.value > world.balance[request.sender]

\* A frame that fails, a collision, a balance that overflows, a host out of memory:
\* the message's checkpoint undoes what it did.  A transfer asserts its funds.
message_fails ==
  /\ phase = "message"
  /\ IF unfunded THEN Traps /\ UNCHANGED result ELSE
     /\ phase' = "charge" /\ UNCHANGED <<world, journal, receipt>>
     /\ \/ result' \in {[status |-> ERR_REVERT, gas |-> g] : g \in {0, gas}}
        \/ result' \in {[status |-> s, gas |-> 0] : s \in {ERR_OUT_OF_GAS, ERR_HOST_ALLOCATION}}
        \/ /\ request.creates /\ ~deployable(world, request.to)
           /\ result' = [status |-> ERR_ADDRESS_COLLISION, gas |-> 0]
        \/ /\ \/ overflows(begun.world, request.sender, request.to, request.value)
              \/ \E from, to \in Addr, v \in Payments :
                   paying(from, to, v) /\ overflows(moved.world, from, to, v)
           /\ result' = [status |-> ERR_BALANCE_OVERFLOW, gas |-> 0]
  /\ UNCHANGED <<inputs, touched, doomed, refund, next>>

\* A message that succeeds leaves its value moved and a contract deployed, with code
\* or without, or, when it destroyed itself, doomed, and may pay on.
message_succeeds ==
  /\ phase = "message" /\ ~unfunded
  /\ request.creates => deployable(world, request.to)
  /\ ~overflows(begun.world, request.sender, request.to, request.value)
  /\ result' \in {[status |-> OK, gas |-> g] : g \in {0, gas}}
  /\ \E r \in MessageRefunds : refund' = refund + r
  /\ \E from, to \in Addr, v \in Payments \cup {0} :
       /\ v = 0 \/ (paying(from, to, v) /\ ~overflows(moved.world, from, to, v))
       /\ touched' = touched \cup {request.to} \cup IF v = 0 THEN {} ELSE {from, to}
       /\ LET after == transfer(moved, from, to, v)
          IN IF ~request.creates THEN becomes(after) /\ UNCHANGED doomed
             ELSE \/ /\ \E c \in {NoCode, Contract} : becomes(write_code(after, request.to, c))
                     /\ UNCHANGED doomed
                  \/ becomes(after) /\ doomed' = doomed \cup {request.to}
  /\ phase' = "charge"
  /\ UNCHANGED <<inputs, next, receipt>>

-----------------------------------------------------------------------------
(* After the message *)

capped_refund(spent) == IF refund <= 0 THEN 0 ELSE Smaller(refund, spent \div RefundQuotient)

gas_spent == request.gas_limit
             - IF result.status \in {OK, ERR_REVERT} THEN result.gas ELSE 0

\* Mutant: the floor comes before the refund.
gas_used_floored == Larger(gas_spent, intrinsic_gas(request).floor) - capped_refund(gas_spent)

gas_used == Larger(gas_spent - capped_refund(gas_spent), intrinsic_gas(request).floor)

tip == IF price > block.basefee THEN price - block.basefee ELSE 0

\* Refunds unused gas to the sender and pays the coinbase.
charge ==
  /\ phase = "charge"
  /\ LET sender == request.sender
         unused == (request.gas_limit - gas_used) * price
         repaid == write_balance(state, sender, world.balance[sender] + unused)
         held == repaid.world.balance[block.coinbase]
         fee == gas_used * tip
     IN IF ~is_evm_outcome(result.status)
        THEN host_failure(state, result.status) /\ UNCHANGED touched
        ELSE \/ unused > MaxBalance - world.balance[sender] /\ Traps /\ UNCHANGED touched
             \/ /\ unused <= MaxBalance - world.balance[sender]
                /\ \/ host_failure(state, ERR_HOST_ALLOCATION) /\ UNCHANGED touched
                   \/ fee > MaxBalance - held /\ Traps /\ UNCHANGED touched
                   \/ /\ fee <= MaxBalance - held
                      /\ \/ host_failure(repaid, ERR_HOST_ALLOCATION) /\ UNCHANGED touched
                         \/ /\ becomes(write_balance(repaid, block.coinbase, held + fee))
                            /\ touched' = touched \cup {sender, block.coinbase}
                            /\ phase' = IF commits THEN "settle" ELSE "undo"
                            /\ receipt' = [NoReceipt EXCEPT !.status = result.status,
                                             !.gas_used = gas_used,
                                             !.gas_refunded = Larger(0, gas_spent - gas_used)]
  /\ UNCHANGED <<inputs, doomed, refund, next, result>>

without(w, gone) ==
  [exists |-> w.exists \ gone,
   balance |-> [a \in Addr |-> IF a \in gone THEN 0 ELSE w.balance[a]],
   nonce |-> [a \in Addr |-> IF a \in gone THEN 0 ELSE w.nonce[a]],
   code |-> [a \in Addr |-> IF a \in gone THEN NoCode ELSE w.code[a]]]

\* Deletes self-destructed accounts, then touched ones left empty.
settle ==
  /\ phase = "settle" /\ phase' = "done"
  /\ LET live == without(world, doomed)
     IN world' = without(live, {a \in touched : is_empty(live, a)})
  /\ UNCHANGED <<journal, inputs, touched, doomed, refund, next, result, receipt>>

removable(w, a) == a \in w.exists /\ is_empty(w, a)
removed(w, a) == [w EXCEPT !.exists = @ \ {a}]

\* Takes the last change of a transaction given up, or simulated, back; one that
\* created its account removes it, and asserts that it is there and empty.
undo ==
  /\ phase = "undo"
  /\ IF journal = <<>> THEN phase' = "done" /\ UNCHANGED <<world, journal>>
     ELSE LET last == Len(journal)
              c == journal[last]
              w == store(world, c.kind, c.address, c.previous)
          IN /\ journal' = SubSeq(journal, 1, last - 1)
             /\ \/ c.existed /\ world' = w /\ UNCHANGED phase
                \/ /\ ~c.existed /\ removable(w, c.address)
                   /\ world' = removed(w, c.address) /\ UNCHANGED phase
                \/ /\ ~c.existed /\ ~removable(w, c.address)
                   /\ world' = w /\ phase' = "stopped"
  /\ UNCHANGED <<inputs, touched, doomed, refund, next, result, receipt>>

-----------------------------------------------------------------------------
Init ==
  /\ world \in Worlds /\ pre = world /\ journal = <<>>
  /\ request \in Requests /\ block \in Blocks /\ config \in Configs /\ commits \in BOOLEAN
  /\ touched = {} /\ doomed = {} /\ refund = 0 /\ next = 1
  /\ result = [status |-> OK, gas |-> 0] /\ receipt = NoReceipt /\ phase = "idle"

Next == Start \/ prepare \/ authorize \/ message_fails \/ message_succeeds
        \/ charge \/ settle \/ undo

Spec == Init /\ [][Next]_vars

-----------------------------------------------------------------------------
(* Properties *)

Applied == phase = "done" /\ receipt.invalid = "VALID" /\ is_evm_outcome(receipt.status)
Committed == Applied /\ commits

total(w) == MapThenSumSet(LAMBDA a : w.balance[a], Addr)

\* An authorization that clears the delegation of an account that is not there.
ClearsAbsent(a) ==
  a.delegate = NoCode /\ a.nonce = 0 /\ authority(a) \in Addr \ pre.exists

\* What stops the process.  No arithmetic does when all ether together fits in a
\* balance, as on a chain: what validation promised is there when gas is bought, and
\* refunds and tips fit.  No undo's assertion does but for a cleared delegation of an
\* absent account, which journals a change and makes none.
OnlyClearingsStop ==
  /\ phase = "trapped" => total(pre) > MaxBalance
  /\ phase = "stopped" => \E i \in DOMAIN request.authorizations :
                            ClearsAbsent(request.authorizations[i])

\* "Invalid transactions leave the state untouched" (status.fe), and a host failure
\* at any point and a simulation that end return the pre-state (processor.fe): taking
\* the journaled changes back restores every account, and which accounts there were.
OnlyCommitsChange == phase = "done" /\ ~Committed => world = pre

\* Ether leaves the state only as the base fee of the gas used, the blob fee and
\* what destroyed accounts held, and no refund takes the gas used below the floor.
EtherAccounted ==
  Committed =>
    LET burned == receipt.gas_used * Smaller(price, block.basefee)
                  + blob_fee(request, block.blobbasefee)
    IN /\ receipt.gas_used >= intrinsic_gas(request).floor
       /\ total(world) <= total(pre) - burned
       /\ doomed = {} => total(world) = total(pre) - burned

\* A committed transaction cannot be included again: its nonce is spent, whatever
\* its message did, its failure and settlement included.
NoReplay ==
  Committed /\ config.check_nonce =>
    validate(world, request, block, config) # "VALID"

\* No transaction takes a contract's code away: not an authorization by its address,
\* not a creation on top of it, not the settlement of touched accounts.
ContractsKeepCode ==
  Committed => \A a \in Addr : pre.code[a] = Contract => world.code[a] = Contract

=============================================================================
