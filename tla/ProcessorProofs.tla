-------------------------- MODULE ProcessorProofs --------------------------
(***************************************************************************)
(* What Processor promises of a transaction, proved for every address      *)
(* space, fee schedule, world and request.                                 *)
(***************************************************************************)
EXTENDS Processor, Sums, SequenceTheorems

\* The worlds a transaction goes through; validation keeps a nonce from its limit
\* only when it checks nonces.
Wide == {w \in [exists: SUBSET Addr, balance: [Addr -> Nat], nonce: [Addr -> Nat],
                code: [Addr -> Codes]] :
           \A a \in Addr \ w.exists : is_empty(w, a)}

ChangeKinds == {"BALANCE", "NONCE", "CODE"}
Values == Nat \cup Codes
Change == [kind: ChangeKinds, address: Addr, previous: Values, existed: BOOLEAN]

Phases == {"idle", "prepare", "authorize", "message", "charge", "settle", "undo", "done",
           "trapped", "stopped"}

Reasons ==
  {"VALID", "INVALID_TX_TYPE", "INVALID_INTRINSIC_GAS", "INVALID_INITCODE_SIZE",
   "INVALID_GAS_LIMIT_CAP", "INVALID_NONCE_LIMIT", "INVALID_PRIORITY_FEE", "INVALID_GAS_LIMIT",
   "INVALID_CHAIN_ID", "INVALID_FEE_CAP", "INVALID_NO_BLOBS", "INVALID_BLOB_COUNT",
   "INVALID_BLOB_VERSION", "INVALID_BLOB_FEE_CAP", "INVALID_CREATE",
   "INVALID_NO_AUTHORIZATIONS", "INVALID_NONCE", "INVALID_BALANCE", "INVALID_SENDER_CODE"}
Statuses == {OK, ERR_REVERT, ERR_OUT_OF_GAS, ERR_ADDRESS_COLLISION, ERR_HOST_ALLOCATION,
             ERR_BALANCE_OVERFLOW}
Receipt == [invalid: Reasons, status: Statuses, gas_used: Nat, gas_refunded: Nat]

\* Type correctness of every variable.
TypeOK ==
  /\ world \in Wide /\ pre \in World /\ journal \in Seq(Change)
  /\ request \in Request /\ block \in Block /\ config \in Configs /\ commits \in BOOLEAN
  /\ touched \in SUBSET Addr /\ doomed \in SUBSET Addr /\ refund \in Int
  /\ next \in Nat \ {0}
  /\ result \in [status: Statuses, gas: Nat] /\ receipt \in Receipt /\ phase \in Phases

Bought == request.gas_limit * price + blob_fee(request, block.blobbasefee)
Burned == receipt.gas_used * Smaller(price, block.basefee)
          + blob_fee(request, block.blobbasefee)

\* What validation established of the request in the pre-state.
Validated ==
  /\ intrinsic_gas(request).regular <= request.gas_limit
  /\ intrinsic_gas(request).floor <= request.gas_limit
  /\ request.kind # "BLOB" => request.blobs = 0
  /\ request.kind = "BLOB" => block.blobbasefee <= request.max_fee_per_blob_gas
  /\ max_cost(request) <= pre.balance[request.sender]
  /\ config.check_nonce => request.nonce = pre.nonce[request.sender]

\* The sender's nonce is spent for good, and no contract loses its code.
Lasting ==
  /\ pre.nonce[request.sender] < world.nonce[request.sender]
  /\ request.sender \notin doomed
  /\ \A a \in Addr : pre.code[a] = Contract => world.code[a] = Contract /\ a \notin doomed

\* The absent accounts whose delegation the transaction clears.
Clearing == {a \in Addr : \E i \in DOMAIN request.authorizations :
                             /\ ClearsAbsent(request.authorizations[i])
                             /\ authority(request.authorizations[i]) = a}

\* Taking change c back in the world after it gives the world before it, unless it
\* belongs to a stuck account, where the undo asserts.
Undoes(c, after, before, stuck) ==
  LET w == store(after, c.kind, c.address, c.previous)
  IN \/ c.existed /\ w = before
     \/ /\ ~c.existed /\ removable(w, c.address)
        /\ removed(w, c.address) = before
     \/ /\ ~c.existed /\ ~removable(w, c.address) /\ w = after
        /\ c.address \in stuck

\* The worlds before each change of journal j, and w at the end.
Trail(h, w, j, start, stuck) ==
  /\ h \in Seq(Wide) /\ Len(h) = Len(j) + 1 /\ h[1] = start /\ h[Len(h)] = w
  /\ \A k \in 1..Len(j) : Undoes(j[k], h[k + 1], h[k], stuck)

Reversible(w, j, start, stuck) == \E h \in Seq(Wide) : Trail(h, w, j, start, stuck)

\* A journaled world whose changes lead back to start.
Journaled(s, start, stuck) ==
  /\ s.world \in Wide /\ s.journal \in Seq(Change)
  /\ Reversible(s.world, s.journal, start, stuck)

Running == {"authorize", "message", "charge", "settle"}

\* The journal leads back to pre for as long as it can be needed.
JournalInv ==
  phase \notin {"settle", "done", "trapped", "stopped"} => Journaled(state, pre, Clearing)

\* How far each phase has come.
PhasesInv ==
  /\ phase = "idle" => receipt.invalid = "VALID"
  /\ phase \in {"idle", "prepare"} => world = pre
  /\ phase \in {"idle", "prepare", "authorize", "message"} => doomed = {}
  /\ phase \in {"prepare"} \cup Running => Validated
  /\ phase \in Running => Lasting
  /\ phase = "authorize" => pre.exists \subseteq world.exists
  /\ phase \in {"authorize", "message"} =>
       world.balance = [pre.balance EXCEPT ![request.sender] = @ - Bought]
  /\ phase = "charge" => result.gas <= gas /\ total(world) = total(pre) - Bought
  /\ phase = "settle" => /\ total(world) = total(pre) - Burned
                         /\ receipt.gas_used >= intrinsic_gas(request).floor
                         /\ receipt.invalid = "VALID" /\ is_evm_outcome(receipt.status)
                         /\ commits
  /\ phase = "undo" => ~is_evm_outcome(receipt.status) \/ ~commits
  /\ Committed => Validated

IInv ==
  /\ TypeOK /\ PhasesInv /\ JournalInv
  /\ OnlyClearingsStop /\ OnlyCommitsChange /\ EtherAccounted /\ NoReplay /\ ContractsKeepCode

-----------------------------------------------------------------------------
(* Validation *)

\* A set of check numbers that is not empty has a least one.
LEMMA MinIsMember ==
  ASSUME NEW F \in SUBSET Nat, F # {}
  PROVE  Min(F) \in F
BY LeastNat DEF Min

LEMMA ChecksShape ==
  ASSUME NEW w, NEW r, NEW b, NEW c
  PROVE  /\ DOMAIN checks(w, r, b, c) = 1..20
         /\ \A i \in 1..20 : checks(w, r, b, c)[i][2] # "VALID"
BY DEF checks

\* A transaction is valid exactly when none of the checks fails.
LEMMA ValidMeansNoneFails ==
  ASSUME NEW w, NEW r, NEW b, NEW c
  PROVE  validate(w, r, b, c) = "VALID" <=> \A i \in 1..20 : ~checks(w, r, b, c)[i][1]
<1> DEFINE ch == checks(w, r, b, c)
           F == {i \in 1..20 : ch[i][1]}
<1>1. DOMAIN ch = 1..20 /\ \A i \in 1..20 : ch[i][2] # "VALID"
  BY ChecksShape
<1>2. validate(w, r, b, c) = IF F = {} THEN "VALID" ELSE ch[Min(F)][2]
  BY <1>1 DEF validate
<1>3. F # {} => Min(F) \in F
  BY MinIsMember
<1>4. validate(w, r, b, c) = "VALID" <=> \A i \in 1..20 : ~ch[i][1]
  <2> HIDE DEF ch
  <2> QED BY <1>1, <1>2, <1>3
<1> QED BY <1>4

LEMMA ReasonIsNamed ==
  ASSUME NEW w, NEW r, NEW b, NEW c
  PROVE  validate(w, r, b, c) \in Reasons
<1> DEFINE ch == checks(w, r, b, c)
           F == {i \in 1..20 : ch[i][1]}
<1>1. DOMAIN ch = 1..20 /\ \A i \in 1..20 : ch[i][2] \in Reasons
  BY DEF checks, Reasons
<1>2. validate(w, r, b, c) = IF F = {} THEN "VALID" ELSE ch[Min(F)][2]
  BY <1>1 DEF validate
<1>3. F # {} => Min(F) \in F
  BY MinIsMember
<1>4. "VALID" \in Reasons
  BY DEF Reasons
<1> HIDE DEF ch
<1> QED BY <1>1, <1>2, <1>3, <1>4

\* The checks that the proofs need.
LEMMA ValidMeans ==
  ASSUME NEW w, NEW r, NEW b, NEW c, validate(w, r, b, c) = "VALID"
  PROVE  /\ ~(r.kind # "BLOB" /\ r.blobs # 0)
         /\ ~(Larger(intrinsic_gas(r).regular, intrinsic_gas(r).floor) > r.gas_limit)
         /\ ~(r.kind = "BLOB" /\ r.max_fee_per_blob_gas < b.blobbasefee)
         /\ ~(c.check_nonce /\ w.nonce[r.sender] # r.nonce)
         /\ affordable(w, r)
<1>1. \A i \in 1..20 : ~checks(w, r, b, c)[i][1]
  BY ValidMeansNoneFails
<1>2. /\ ~checks(w, r, b, c)[2][1] /\ ~checks(w, r, b, c)[4][1] /\ ~checks(w, r, b, c)[15][1]
      /\ ~checks(w, r, b, c)[18][1] /\ ~checks(w, r, b, c)[19][1]
  BY <1>1
<1>3. /\ checks(w, r, b, c)[2][1] = (r.kind # "BLOB" /\ r.blobs # 0)
      /\ checks(w, r, b, c)[4][1] =
           (Larger(intrinsic_gas(r).regular, intrinsic_gas(r).floor) > r.gas_limit)
      /\ checks(w, r, b, c)[15][1] = (r.kind = "BLOB" /\ r.max_fee_per_blob_gas < b.blobbasefee)
      /\ checks(w, r, b, c)[18][1] = (c.check_nonce /\ w.nonce[r.sender] # r.nonce)
      /\ checks(w, r, b, c)[19][1] = ~affordable(w, r)
  BY DEF checks
<1> QED BY <1>2, <1>3

LEMMA WrongNonceInvalid ==
  ASSUME NEW w, NEW r, NEW b, NEW c, c.check_nonce, w.nonce[r.sender] # r.nonce
  PROVE  validate(w, r, b, c) # "VALID"
<1>1. checks(w, r, b, c)[18][1] = (c.check_nonce /\ w.nonce[r.sender] # r.nonce)
  BY DEF checks
<1>2. \E i \in 1..20 : checks(w, r, b, c)[i][1]
  <2>1. 18 \in 1..20
    OBVIOUS
  <2>2. checks(w, r, b, c)[18][1]
    BY <1>1, Zenon
  <2> QED BY <2>1, <2>2
<1> QED BY <1>2, ValidMeansNoneFails

-----------------------------------------------------------------------------
(* Gas and prices *)

LEMMA ProductNat ==
  ASSUME NEW m \in Nat, NEW n \in Nat
  PROVE  m * n \in Nat
OBVIOUS

LEMMA ProductMono ==
  ASSUME NEW m \in Nat, NEW n \in Nat, NEW k \in Nat, m <= n
  PROVE  m * k <= n * k /\ k * m <= k * n
<1>1. PICK d \in Nat : n = m + d
  <2>1. n - m \in Nat /\ n = m + (n - m)
    OBVIOUS
  <2> QED BY <2>1
<1>2. n * k = m * k + d * k /\ k * n = k * m + k * d
  BY <1>1
<1>3. m * k \in Nat /\ d * k \in Nat /\ k * m \in Nat /\ k * d \in Nat
  BY ProductNat
<1> QED BY <1>2, <1>3

\* What is bought comes back as unused gas, as the tip and as what is burned.
LEMMA FeeSplits ==
  ASSUME NEW limit \in Nat, NEW used \in Nat, used <= limit,
         NEW t \in Nat, NEW m \in Nat, NEW p \in Nat, t + m = p
  PROVE  (limit - used) * p + used * t = limit * p - used * m
<1>1. PICK d \in Nat : limit = used + d
  <2>1. limit - used \in Nat /\ limit = used + (limit - used)
    OBVIOUS
  <2> QED BY <2>1
<1>2. limit - used = d
  BY <1>1
<1>3. limit * p = used * p + d * p /\ used * p = used * t + used * m
  BY <1>1
<1>4. d * p \in Nat /\ used * p \in Nat /\ used * t \in Nat /\ used * m \in Nat
  BY ProductNat
<1> QED BY <1>2, <1>3, <1>4

LEMMA InputTypes ==
  ASSUME TypeOK
  PROVE  /\ request.sender \in Addr /\ request.to \in Addr /\ request.creates \in BOOLEAN
         /\ {request.gas_limit, request.gas_price, request.max_priority_fee,
             request.max_fee_per_blob_gas, request.blobs, request.value, request.nonce,
             request.tokens, request.words, request.access} \subseteq Nat
         /\ request.authorizations \in Seq(Authorization)
         /\ {block.basefee, block.blobbasefee} \subseteq Nat /\ block.coinbase \in Addr
BY DEF TypeOK, Request, Block

\* The price is at most the one the sender offers, and splits into tip and burned part.
LEMMA PriceFacts ==
  ASSUME TypeOK
  PROVE  /\ price \in Nat /\ price <= request.gas_price
         /\ tip \in Nat /\ Smaller(price, block.basefee) \in Nat
         /\ tip + Smaller(price, block.basefee) = price
<1>1. price \in Nat /\ price <= request.gas_price
  <2>1. request.gas_price \in Nat /\ request.max_priority_fee \in Nat /\ block.basefee \in Nat
    BY InputTypes
  <2> QED BY <2>1 DEF price, effective_gas_price, Smaller
<1>2. block.basefee \in Nat
  BY InputTypes
<1> QED BY <1>1, <1>2 DEF tip, Smaller

LEMMA BlobFeeNat ==
  ASSUME TypeOK, NEW p \in Nat
  PROVE  blob_fee(request, p) \in Nat
<1>1. request.blobs \in Nat /\ GasPerBlob \in Nat
  BY InputTypes, GasAssumption
<1>2. request.blobs * GasPerBlob \in Nat
  BY <1>1, ProductNat
<1> QED BY <1>2, ProductNat DEF blob_fee

LEMMA IntrinsicNat ==
  ASSUME TypeOK
  PROVE  intrinsic_gas(request).regular \in Nat /\ intrinsic_gas(request).floor \in Nat
<1>1. {request.tokens, request.access, request.words} \subseteq Nat
      /\ Len(request.authorizations) \in Nat
  BY InputTypes
<1>2. {TokenGas, FloorTokenGas, AccessGas, AuthorizationGas, CreateGas, WordGas, TxGas} \subseteq Nat
  BY GasAssumption
<1>3. /\ TokenGas * request.tokens \in Nat /\ AccessGas * request.access \in Nat
      /\ AuthorizationGas * Len(request.authorizations) \in Nat
      /\ WordGas * request.words \in Nat /\ FloorTokenGas * request.tokens \in Nat
  BY <1>1, <1>2, ProductNat
<1>4. PICK t, x, y, z, u \in Nat :
        /\ t = TokenGas * request.tokens /\ x = AccessGas * request.access
        /\ y = AuthorizationGas * Len(request.authorizations)
        /\ z = WordGas * request.words /\ u = FloorTokenGas * request.tokens
  BY <1>3
<1>5. /\ intrinsic_gas(request).regular
           = TxGas + t + x + y + IF request.creates THEN CreateGas + z ELSE 0
      /\ intrinsic_gas(request).floor = TxGas + u
  BY <1>4 DEF intrinsic_gas
<1>6. TxGas \in Nat /\ CreateGas \in Nat
  BY <1>2
<1> QED BY <1>5, <1>6

\* Validation's maximum covers what is bought and the value.
LEMMA BoughtIsCovered ==
  ASSUME TypeOK, Validated
  PROVE  Bought \in Nat /\ Bought + request.value <= pre.balance[request.sender]
<1>1. /\ price \in Nat /\ price <= request.gas_price /\ request.gas_price \in Nat
      /\ request.gas_limit \in Nat /\ request.value \in Nat /\ block.blobbasefee \in Nat
      /\ request.max_fee_per_blob_gas \in Nat /\ request.blobs \in Nat /\ GasPerBlob \in Nat
  BY PriceFacts, InputTypes, GasAssumption
<1>2. /\ request.gas_limit * price <= request.gas_limit * request.gas_price
      /\ request.gas_limit * price \in Nat /\ request.gas_limit * request.gas_price \in Nat
  BY <1>1, ProductMono, ProductNat
<1>3. /\ blob_fee(request, block.blobbasefee) \in Nat
      /\ blob_fee(request, request.max_fee_per_blob_gas) \in Nat
  BY <1>1, BlobFeeNat
<1>4. pre.balance[request.sender] \in Nat
  <2>1. request.sender \in Addr /\ MaxBalance \in Nat
    BY InputTypes, GasAssumption
  <2> QED BY <2>1 DEF TypeOK, World
<1>5. CASE request.kind = "BLOB"
  <2>1. request.blobs * GasPerBlob \in Nat
    BY <1>1, ProductNat
  <2>2. block.blobbasefee <= request.max_fee_per_blob_gas
    BY <1>5 DEF Validated
  <2>3. blob_fee(request, block.blobbasefee) <= blob_fee(request, request.max_fee_per_blob_gas)
    BY <1>1, <2>1, <2>2, ProductMono DEF blob_fee
  <2>4. request.gas_limit * request.gas_price + request.value
          + blob_fee(request, request.max_fee_per_blob_gas) <= pre.balance[request.sender]
    BY <1>5 DEF Validated, max_cost
  <2> QED BY <1>1, <1>2, <1>3, <1>4, <2>3, <2>4 DEF Bought
<1>6. CASE request.kind # "BLOB"
  <2>1. request.blobs = 0
    BY <1>6 DEF Validated
  <2>2. blob_fee(request, block.blobbasefee) = 0
    BY <1>1, <2>1 DEF blob_fee
  <2>3. request.gas_limit * request.gas_price + request.value + 0 <= pre.balance[request.sender]
    BY <1>6 DEF Validated, max_cost
  <2> QED BY <1>1, <1>2, <1>4, <2>2, <2>3 DEF Bought
<1> QED BY <1>5, <1>6

\* No more gas is used than the limit, whatever is refunded.
LEMMA GasUsedInRange ==
  ASSUME TypeOK, Validated, result.gas <= gas
  PROVE  /\ gas_used \in Nat /\ gas_used <= request.gas_limit /\ gas_spent \in Nat
         /\ intrinsic_gas(request).floor <= gas_used
<1>1. /\ request.gas_limit \in Nat /\ result.gas \in Nat /\ refund \in Int
      /\ RefundQuotient \in Nat \ {0}
      /\ intrinsic_gas(request).regular \in Nat /\ intrinsic_gas(request).floor \in Nat
  BY InputTypes, IntrinsicNat, GasAssumption DEF TypeOK
<1>2. gas_spent \in Nat /\ gas_spent <= request.gas_limit
  BY <1>1 DEF gas_spent, gas
<1>3. capped_refund(gas_spent) \in Nat
  <2>1. gas_spent \div RefundQuotient \in Nat
    BY <1>1, <1>2
  <2> QED BY <1>1, <2>1 DEF capped_refund, Smaller
<1>4. intrinsic_gas(request).floor <= request.gas_limit
  BY DEF Validated
<1> QED BY <1>1, <1>2, <1>3, <1>4 DEF gas_used, Larger

-----------------------------------------------------------------------------
(* The ether of a world *)

LEMMA WorldIsWide == World \subseteq Wide
BY GasAssumption DEF World, Wide

LEMMA WideFields ==
  ASSUME NEW w \in Wide
  PROVE  /\ w.exists \in SUBSET Addr /\ w.balance \in [Addr -> Nat]
         /\ w.nonce \in [Addr -> Nat] /\ w.code \in [Addr -> Codes]
         /\ \A a \in Addr \ w.exists : w.balance[a] = 0 /\ w.nonce[a] = 0 /\ w.code[a] = NoCode
         /\ w = [exists |-> w.exists, balance |-> w.balance, nonce |-> w.nonce, code |-> w.code]
BY DEF Wide, is_empty

LEMMA WideMade ==
  ASSUME NEW e \in SUBSET Addr, NEW b \in [Addr -> Nat], NEW n \in [Addr -> Nat],
         NEW c \in [Addr -> Codes],
         \A a \in Addr \ e : b[a] = 0 /\ n[a] = 0 /\ c[a] = NoCode
  PROVE  [exists |-> e, balance |-> b, nonce |-> n, code |-> c] \in Wide
BY DEF Wide, is_empty

LEMMA TotalIsSum ==
  ASSUME NEW w
  PROVE  total(w) = Sum(w.balance, Addr)
BY DEF total, Sum

LEMMA TotalNat ==
  ASSUME NEW w \in Wide
  PROVE  total(w) \in Nat
<1>1. w.balance \in [Addr -> Nat]
  BY DEF Wide
<1> QED BY <1>1, TotalIsSum, AddrAssumption, SumNat

LEMMA TotalExcept ==
  ASSUME NEW w \in Wide, NEW u, NEW a \in Addr, NEW v \in Nat,
         u.balance = [w.balance EXCEPT ![a] = v]
  PROVE  total(u) = total(w) - w.balance[a] + v
<1>1. w.balance \in [Addr -> Nat]
  BY DEF Wide
<1>2. total(w) = Sum(w.balance, Addr) /\ total(u) = Sum(u.balance, Addr)
  BY TotalIsSum
<1> QED BY <1>1, <1>2, AddrAssumption, SumExcept

\* What one account holds is at most everything.
LEMMA BalanceInTotal ==
  ASSUME NEW w \in Wide, NEW a \in Addr
  PROVE  w.balance[a] <= total(w)
<1>1. w.balance \in [Addr -> Nat]
  BY DEF Wide
<1> QED BY <1>1, TotalIsSum, AddrAssumption, SumTerm

-----------------------------------------------------------------------------
(* Writes, and taking them back *)

LEMMA SetBalanceFacts ==
  ASSUME NEW w \in Wide, NEW a \in Addr, NEW v \in Nat, NEW u, u = set_balance(w, a, v)
  PROVE  /\ u \in Wide /\ u.balance = [w.balance EXCEPT ![a] = v]
         /\ u.nonce = w.nonce /\ u.code = w.code
         /\ a \notin w.exists /\ v = 0 => u.exists = w.exists
         /\ a \in w.exists \/ v # 0 => u.exists = w.exists \cup {a}
<1>1. /\ w.exists \in SUBSET Addr /\ w.balance \in [Addr -> Nat]
      /\ w.nonce \in [Addr -> Nat] /\ w.code \in [Addr -> Codes]
      /\ \A b \in Addr \ w.exists : w.balance[b] = 0 /\ w.nonce[b] = 0 /\ w.code[b] = NoCode
      /\ w = [exists |-> w.exists, balance |-> w.balance, nonce |-> w.nonce, code |-> w.code]
  BY WideFields
<1>2. CASE a \notin w.exists /\ v = 0
  <2>1. u = w
    BY <1>2 DEF set_balance
  <2>2. w.balance = [w.balance EXCEPT ![a] = v]
    BY <1>1, <1>2
  <2> QED BY <1>2, <2>1, <2>2
<1>3. CASE ~(a \notin w.exists /\ v = 0)
  <2>1. u = [exists |-> w.exists \cup {a}, balance |-> [w.balance EXCEPT ![a] = v],
             nonce |-> w.nonce, code |-> w.code]
    BY <1>1, <1>3 DEF set_balance
  <2>2. [w.balance EXCEPT ![a] = v] \in [Addr -> Nat]
    BY <1>1
  <2>3. u \in Wide
    BY <1>1, <2>1, <2>2, WideMade
  <2> QED BY <1>3, <2>1, <2>3
<1> QED BY <1>2, <1>3

LEMMA SetNonceFacts ==
  ASSUME NEW w \in Wide, NEW a \in Addr, NEW v \in Nat, NEW u, u = set_nonce(w, a, v)
  PROVE  /\ u \in Wide /\ u.nonce = [w.nonce EXCEPT ![a] = v]
         /\ u.balance = w.balance /\ u.code = w.code
         /\ a \notin w.exists /\ v = 0 => u.exists = w.exists
         /\ a \in w.exists \/ v # 0 => u.exists = w.exists \cup {a}
<1>1. /\ w.exists \in SUBSET Addr /\ w.balance \in [Addr -> Nat]
      /\ w.nonce \in [Addr -> Nat] /\ w.code \in [Addr -> Codes]
      /\ \A b \in Addr \ w.exists : w.balance[b] = 0 /\ w.nonce[b] = 0 /\ w.code[b] = NoCode
      /\ w = [exists |-> w.exists, balance |-> w.balance, nonce |-> w.nonce, code |-> w.code]
  BY WideFields
<1>2. CASE a \notin w.exists /\ v = 0
  <2>1. u = w
    BY <1>2 DEF set_nonce
  <2>2. w.nonce = [w.nonce EXCEPT ![a] = v]
    BY <1>1, <1>2
  <2> QED BY <1>2, <2>1, <2>2
<1>3. CASE ~(a \notin w.exists /\ v = 0)
  <2>1. u = [exists |-> w.exists \cup {a}, balance |-> w.balance,
             nonce |-> [w.nonce EXCEPT ![a] = v], code |-> w.code]
    BY <1>1, <1>3 DEF set_nonce
  <2>2. [w.nonce EXCEPT ![a] = v] \in [Addr -> Nat]
    BY <1>1
  <2>3. u \in Wide
    BY <1>1, <2>1, <2>2, WideMade
  <2> QED BY <1>3, <2>1, <2>3
<1> QED BY <1>2, <1>3

LEMMA SetCodeFacts ==
  ASSUME NEW w \in Wide, NEW a \in Addr, NEW v \in Codes, NEW u, u = set_code(w, a, v)
  PROVE  /\ u \in Wide /\ u.code = [w.code EXCEPT ![a] = v]
         /\ u.balance = w.balance /\ u.nonce = w.nonce
         /\ a \notin w.exists /\ v = NoCode => u.exists = w.exists
         /\ a \in w.exists \/ v # NoCode => u.exists = w.exists \cup {a}
<1>1. /\ w.exists \in SUBSET Addr /\ w.balance \in [Addr -> Nat]
      /\ w.nonce \in [Addr -> Nat] /\ w.code \in [Addr -> Codes]
      /\ \A b \in Addr \ w.exists : w.balance[b] = 0 /\ w.nonce[b] = 0 /\ w.code[b] = NoCode
      /\ w = [exists |-> w.exists, balance |-> w.balance, nonce |-> w.nonce, code |-> w.code]
  BY WideFields
<1>2. CASE a \notin w.exists /\ v = NoCode
  <2>1. u = w
    BY <1>2 DEF set_code
  <2>2. w.code = [w.code EXCEPT ![a] = v]
    BY <1>1, <1>2
  <2> QED BY <1>2, <2>1, <2>2
<1>3. CASE ~(a \notin w.exists /\ v = NoCode)
  <2>1. u = [exists |-> w.exists \cup {a}, balance |-> w.balance, nonce |-> w.nonce,
             code |-> [w.code EXCEPT ![a] = v]]
    BY <1>1, <1>3 DEF set_code
  <2>2. [w.code EXCEPT ![a] = v] \in [Addr -> Codes]
    BY <1>1
  <2>3. u \in Wide
    BY <1>1, <2>1, <2>2, WideMade
  <2> QED BY <1>3, <2>1, <2>3
<1> QED BY <1>2, <1>3

\* A world that differs from w by account a being there at most.
LEMMA TakenBack ==
  ASSUME NEW w \in Wide, NEW back \in Wide, NEW a \in Addr,
         back.balance = w.balance, back.nonce = w.nonce, back.code = w.code,
         back.exists = w.exists \cup {a}
  PROVE  /\ a \in w.exists => back = w
         /\ a \notin w.exists => removable(back, a) /\ removed(back, a) = w
<1>1. /\ w.exists \in SUBSET Addr
      /\ \A b \in Addr \ w.exists : w.balance[b] = 0 /\ w.nonce[b] = 0 /\ w.code[b] = NoCode
      /\ w = [exists |-> w.exists, balance |-> w.balance, nonce |-> w.nonce, code |-> w.code]
      /\ back = [exists |-> back.exists, balance |-> back.balance, nonce |-> back.nonce,
                 code |-> back.code]
  BY WideFields
<1>2. ASSUME a \in w.exists PROVE back = w
  <2>1. back.exists = w.exists
    BY <1>2
  <2> QED BY <1>1, <2>1
<1>3. ASSUME a \notin w.exists
      PROVE  removable(back, a) /\ removed(back, a) = w
  <2>1. removable(back, a)
    BY <1>1, <1>3 DEF removable, is_empty
  <2>2. back.exists \ {a} = w.exists
    BY <1>3
  <2>3. removed(back, a) = w
    BY <1>1, <2>2 DEF removed
  <2> QED BY <2>1, <2>3
<1> QED BY <1>2, <1>3

\* A change of account a is taken back when storing the old value gives the world
\* before it, with a in it.
LEMMA UndoesByStore ==
  ASSUME NEW w \in Wide, NEW after \in Wide, NEW a \in Addr, NEW c, NEW stuck,
         c.address = a, (c.existed <=> a \in w.exists),
         NEW back \in Wide, back = store(after, c.kind, a, c.previous),
         back.balance = w.balance, back.nonce = w.nonce, back.code = w.code,
         back.exists = w.exists \cup {a}
  PROVE  Undoes(c, after, w, stuck)
<1>1. CASE a \in w.exists
  <2>1. back = w /\ c.existed
    BY <1>1, TakenBack
  <2> QED BY <2>1 DEF Undoes
<1>2. CASE a \notin w.exists
  <2>1. removable(back, a) /\ removed(back, a) = w /\ ~c.existed
    BY <1>2, TakenBack
  <2> QED BY <2>1 DEF Undoes
<1> QED BY <1>1, <1>2

LEMMA AppendReversible ==
  ASSUME NEW w, NEW j \in Seq(Change), NEW start, NEW stuck, Reversible(w, j, start, stuck),
         NEW u \in Wide, NEW c \in Change, Undoes(c, u, w, stuck), NEW i, i = Append(j, c)
  PROVE  Reversible(u, i, start, stuck)
<1>1. PICK h \in Seq(Wide) : Trail(h, w, j, start, stuck)
  BY DEF Reversible
<1>2. /\ Len(h) = Len(j) + 1 /\ h[1] = start /\ h[Len(h)] = w /\ Len(j) \in Nat
      /\ \A k \in 1..Len(j) : Undoes(j[k], h[k + 1], h[k], stuck)
  BY <1>1 DEF Trail
<1>3. PICK g \in Seq(Wide) : g = Append(h, u)
  <2>1. Append(h, u) \in Seq(Wide)
    OBVIOUS
  <2> QED BY <2>1
<1>4. /\ Len(g) = Len(h) + 1 /\ g[Len(h) + 1] = u /\ \A k \in 1..Len(h) : g[k] = h[k]
      /\ Len(i) = Len(j) + 1 /\ i[Len(j) + 1] = c /\ \A k \in 1..Len(j) : i[k] = j[k]
  BY <1>3
<1>5. ASSUME NEW k \in 1..Len(i) PROVE Undoes(i[k], g[k + 1], g[k], stuck)
  <2>1. CASE k \in 1..Len(j)
    <3>1. i[k] = j[k] /\ g[k] = h[k] /\ g[k + 1] = h[k + 1]
      BY <1>2, <1>4, <2>1
    <3> QED BY <1>2, <2>1, <3>1
  <2>2. CASE k = Len(j) + 1
    <3>1. i[k] = c /\ g[k] = w /\ g[k + 1] = u
      BY <1>2, <1>4, <2>2
    <3> QED BY <3>1
  <2>3. k \in 1..Len(j) \/ k = Len(j) + 1
    BY <1>2, <1>4
  <2> QED BY <2>1, <2>2, <2>3
<1>6. Trail(g, u, i, start, stuck)
  BY <1>2, <1>4, <1>5 DEF Trail
<1> QED BY <1>3, <1>6 DEF Reversible

LEMMA ChangeFacts ==
  ASSUME NEW w, NEW kind \in ChangeKinds, NEW a \in Addr,
         NEW previous \in Values
  PROVE  LET c == change(w, kind, a, previous)
         IN /\ c \in Change /\ c.kind = kind /\ c.address = a /\ c.previous = previous
            /\ (c.existed <=> a \in w.exists)
<1> DEFINE existed == a \in w.exists
           c == change(w, kind, a, previous)
<1>1. existed \in BOOLEAN
  OBVIOUS
<1>2. c = [kind |-> kind, address |-> a, previous |-> previous, existed |-> existed]
  BY Zenon DEF change
<1> HIDE DEF existed, c
<1>3. c \in Change /\ c.kind = kind /\ c.address = a /\ c.previous = previous
      /\ c.existed = existed
  BY <1>1, <1>2 DEF Change
<1> QED BY <1>3, Zenon DEF existed, c

\* One journaled write.
LEMMA JournaledWrite ==
  ASSUME NEW s, NEW start, NEW stuck, Journaled(s, start, stuck),
         NEW kind \in ChangeKinds, NEW a \in Addr, NEW previous \in Values,
         NEW v, NEW t, t = journaled(s, kind, a, previous, v),
         NEW u \in Wide, u = store(s.world, kind, a, v),
         NEW c \in Change, c = change(s.world, kind, a, previous),
         Undoes(c, u, s.world, stuck)
  PROVE  Journaled(t, start, stuck) /\ t.world = u
<1>1. /\ s.world \in Wide /\ s.journal \in Seq(Change)
      /\ Reversible(s.world, s.journal, start, stuck)
  BY DEF Journaled
<1>2. t.world = u /\ t.journal = Append(s.journal, c)
  BY Zenon DEF journaled
<1>3. t.journal \in Seq(Change)
  BY <1>1, <1>2
<1>4. Reversible(u, t.journal, start, stuck)
  BY <1>1, <1>2, AppendReversible
<1> QED BY <1>2, <1>3, <1>4 DEF Journaled

LEMMA WriteBalanceFacts ==
  ASSUME NEW s, NEW start, NEW stuck, Journaled(s, start, stuck),
         NEW a \in Addr, NEW v \in Nat, NEW t, t = write_balance(s, a, v)
  PROVE  /\ Journaled(t, start, stuck)
         /\ t.world.balance = [s.world.balance EXCEPT ![a] = v]
         /\ t.world.nonce = s.world.nonce /\ t.world.code = s.world.code
         /\ s.world.exists \subseteq t.world.exists
         /\ total(t.world) = total(s.world) - s.world.balance[a] + v
<1>1. PICK w \in Wide : w = s.world
  BY DEF Journaled
<1>2. w.balance \in [Addr -> Nat] /\ (a \notin w.exists => w.balance[a] = 0)
  BY WideFields
<1>3. CASE v = w.balance[a]
  <2>1. t = s
    BY <1>1, <1>3 DEF write_balance
  <2>2. w.balance = [w.balance EXCEPT ![a] = v]
    BY <1>2, <1>3
  <2>3. total(w) = total(w) - w.balance[a] + v
    BY <1>2, <1>3, TotalNat
  <2> QED BY <1>1, <2>1, <2>2, <2>3
<1>4. CASE v # w.balance[a]
  <2>1. PICK old \in Nat : old = w.balance[a]
    BY <1>2
  <2>2. t = journaled(s, "BALANCE", a, old, v)
    BY <1>1, <1>4, <2>1, Zenon DEF write_balance
  <2>3. PICK u : u = set_balance(w, a, v)
    OBVIOUS
  <2>4. /\ u \in Wide /\ u.balance = [w.balance EXCEPT ![a] = v]
        /\ u.nonce = w.nonce /\ u.code = w.code /\ u.exists = w.exists \cup {a}
    <3>1. /\ u \in Wide /\ u.balance = [w.balance EXCEPT ![a] = v]
          /\ u.nonce = w.nonce /\ u.code = w.code
          /\ a \notin w.exists /\ v = 0 => u.exists = w.exists
          /\ a \in w.exists \/ v # 0 => u.exists = w.exists \cup {a}
      BY <2>3, SetBalanceFacts
    <3>2. a \in w.exists \/ v # 0
      BY <1>2, <1>4
    <3> QED BY <3>1, <3>2
  <2>5. PICK back : back = set_balance(u, a, old)
    OBVIOUS
  <2>6. /\ back \in Wide /\ back.balance = w.balance
        /\ back.nonce = w.nonce /\ back.code = w.code /\ back.exists = w.exists \cup {a}
    <3>1. /\ back \in Wide /\ back.balance = [u.balance EXCEPT ![a] = old]
          /\ back.nonce = u.nonce /\ back.code = u.code /\ back.exists = u.exists \cup {a}
      <4>1. a \in u.exists
        BY <2>4
      <4> QED BY <2>4, <2>5, <4>1, SetBalanceFacts
    <3>2. back.balance = w.balance
      BY <1>2, <2>1, <2>4, <3>1
    <3> QED BY <2>4, <3>1, <3>2
  <2>7. PICK c \in Change :
         /\ c = change(w, "BALANCE", a, old) /\ c.kind = "BALANCE" /\ c.address = a
         /\ c.previous = old /\ (c.existed <=> a \in w.exists)
    <3>1. PICK d : d = change(w, "BALANCE", a, old)
      OBVIOUS
    <3>2. old \in Values /\ "BALANCE" \in ChangeKinds
      BY DEF Values, ChangeKinds
    <3>3. /\ d \in Change /\ d.kind = "BALANCE" /\ d.address = a
          /\ d.previous = old /\ (d.existed <=> a \in w.exists)
      BY <3>1, <3>2, ChangeFacts
    <3> QED BY <3>1, <3>3, Zenon
  <2>8. store(w, "BALANCE", a, v) = u /\ store(u, "BALANCE", a, old) = back
    BY <2>3, <2>5 DEF store
  <2>9. Undoes(c, u, w, stuck)
    BY <2>4, <2>6, <2>7, <2>8, UndoesByStore
  <2>10. Journaled(t, start, stuck) /\ t.world = u
    <3>1. old \in Values /\ "BALANCE" \in ChangeKinds /\ u \in Wide
      BY <2>4 DEF Values, ChangeKinds
    <3>2. /\ t = journaled(s, "BALANCE", a, old, v) /\ u = store(s.world, "BALANCE", a, v)
          /\ c = change(s.world, "BALANCE", a, old) /\ Undoes(c, u, s.world, stuck)
      BY <1>1, <2>2, <2>7, <2>8, <2>9
    <3> QED BY <3>1, <3>2, JournaledWrite
  <2>11. total(u) = total(w) - w.balance[a] + v
    BY <2>4, TotalExcept
  <2> QED BY <1>1, <2>4, <2>10, <2>11
<1> QED BY <1>3, <1>4

LEMMA IncrementNonceFacts ==
  ASSUME NEW s, NEW start, NEW stuck, Journaled(s, start, stuck),
         NEW a \in Addr, NEW t, t = increment_nonce(s, a)
  PROVE  /\ Journaled(t, start, stuck)
         /\ t.world.nonce = [s.world.nonce EXCEPT ![a] = @ + 1]
         /\ t.world.balance = s.world.balance /\ t.world.code = s.world.code
         /\ t.world.exists = s.world.exists \cup {a}
         /\ total(t.world) = total(s.world)
<1>1. PICK w \in Wide : w = s.world
  BY DEF Journaled
<1>2. w.nonce \in [Addr -> Nat] /\ (a \notin w.exists => w.nonce[a] = 0)
  BY WideFields
<1>3. PICK old, v \in Nat : old = w.nonce[a] /\ v = old + 1
  BY <1>2
<1>4. t = journaled(s, "NONCE", a, old, v)
  BY <1>1, <1>3, Zenon DEF increment_nonce
<1>5. PICK u : u = set_nonce(w, a, v)
  OBVIOUS
<1>6. /\ u \in Wide /\ u.nonce = [w.nonce EXCEPT ![a] = v]
      /\ u.balance = w.balance /\ u.code = w.code /\ u.exists = w.exists \cup {a}
  <2>1. a \in w.exists \/ v # 0
    BY <1>3
  <2> QED BY <1>5, <2>1, SetNonceFacts
<1>7. PICK back : back = set_nonce(u, a, old)
  OBVIOUS
<1>8. /\ back \in Wide /\ back.nonce = w.nonce
      /\ back.balance = w.balance /\ back.code = w.code /\ back.exists = w.exists \cup {a}
  <2>1. /\ back \in Wide /\ back.nonce = [u.nonce EXCEPT ![a] = old]
        /\ back.balance = u.balance /\ back.code = u.code /\ back.exists = u.exists \cup {a}
    <3>1. a \in u.exists
      BY <1>6
    <3> QED BY <1>6, <1>7, <3>1, SetNonceFacts
  <2>2. back.nonce = w.nonce
    BY <1>2, <1>3, <1>6, <2>1
  <2> QED BY <1>6, <2>1, <2>2
<1>9. PICK c \in Change :
       /\ c = change(w, "NONCE", a, old) /\ c.kind = "NONCE" /\ c.address = a
       /\ c.previous = old /\ (c.existed <=> a \in w.exists)
  <2>1. PICK d : d = change(w, "NONCE", a, old)
    OBVIOUS
  <2>2. old \in Values /\ "NONCE" \in ChangeKinds
    BY DEF Values, ChangeKinds
  <2>3. /\ d \in Change /\ d.kind = "NONCE" /\ d.address = a
        /\ d.previous = old /\ (d.existed <=> a \in w.exists)
    BY <2>1, <2>2, ChangeFacts
  <2> QED BY <2>1, <2>3, Zenon
<1>10. store(w, "NONCE", a, v) = u /\ store(u, "NONCE", a, old) = back
  BY <1>5, <1>7 DEF store
<1>11. Undoes(c, u, w, stuck)
  BY <1>6, <1>8, <1>9, <1>10, UndoesByStore
<1>12. Journaled(t, start, stuck) /\ t.world = u
  <2>1. old \in Values /\ "NONCE" \in ChangeKinds /\ u \in Wide
    BY <1>6 DEF Values, ChangeKinds
  <2>2. /\ t = journaled(s, "NONCE", a, old, v) /\ u = store(s.world, "NONCE", a, v)
        /\ c = change(s.world, "NONCE", a, old) /\ Undoes(c, u, s.world, stuck)
    BY <1>1, <1>4, <1>9, <1>10, <1>11
  <2> QED BY <2>1, <2>2, JournaledWrite
<1>13. total(u) = total(w)
  BY <1>6, TotalIsSum
<1> QED BY <1>1, <1>3, <1>6, <1>12, <1>13

\* Code is written to an account that is there, or it is some code, or the account is
\* one of the stuck.
LEMMA WriteCodeFacts ==
  ASSUME NEW s, NEW start, NEW stuck, Journaled(s, start, stuck),
         NEW a \in Addr, NEW v \in Codes, NEW t, t = write_code(s, a, v),
         a \in s.world.exists \/ v # NoCode \/ a \in stuck
  PROVE  /\ Journaled(t, start, stuck)
         /\ t.world.code = [s.world.code EXCEPT ![a] = v]
         /\ t.world.balance = s.world.balance /\ t.world.nonce = s.world.nonce
         /\ s.world.exists \subseteq t.world.exists
         /\ total(t.world) = total(s.world)
<1>1. PICK w \in Wide : w = s.world
  BY DEF Journaled
<1>2. w.code \in [Addr -> Codes] /\ (a \notin w.exists => w.code[a] = NoCode)
  BY WideFields
<1>3. PICK old \in Codes : old = w.code[a]
  BY <1>2
<1>4. t = journaled(s, "CODE", a, old, v)
  BY <1>1, <1>3, Zenon DEF write_code
<1>5. PICK u : u = set_code(w, a, v)
  OBVIOUS
<1>6. /\ u \in Wide /\ u.code = [w.code EXCEPT ![a] = v]
      /\ u.balance = w.balance /\ u.nonce = w.nonce
      /\ a \notin w.exists /\ v = NoCode => u.exists = w.exists
      /\ a \in w.exists \/ v # NoCode => u.exists = w.exists \cup {a}
  BY <1>5, SetCodeFacts
<1>7. PICK c \in Change :
       /\ c = change(w, "CODE", a, old) /\ c.kind = "CODE" /\ c.address = a
       /\ c.previous = old /\ (c.existed <=> a \in w.exists)
  <2>1. PICK d : d = change(w, "CODE", a, old)
    OBVIOUS
  <2>2. old \in Values /\ "CODE" \in ChangeKinds
    BY DEF Values, ChangeKinds
  <2>3. /\ d \in Change /\ d.kind = "CODE" /\ d.address = a
        /\ d.previous = old /\ (d.existed <=> a \in w.exists)
    BY <2>1, <2>2, ChangeFacts
  <2> QED BY <2>1, <2>3, Zenon
<1>8. PICK back : back = set_code(u, a, old)
  OBVIOUS
<1>9. store(w, "CODE", a, v) = u /\ store(u, "CODE", a, old) = back
  BY <1>5, <1>8 DEF store
<1>10. ASSUME a \in w.exists \/ v # NoCode PROVE Undoes(c, u, w, stuck)
  <2>1. /\ back \in Wide /\ back.code = [u.code EXCEPT ![a] = old]
        /\ back.balance = u.balance /\ back.nonce = u.nonce /\ back.exists = u.exists \cup {a}
    <3>1. a \in u.exists
      BY <1>6, <1>10
    <3> QED BY <1>6, <1>8, <3>1, SetCodeFacts
  <2>2. back.code = w.code
    BY <1>2, <1>3, <1>6, <2>1
  <2>3. back.exists = w.exists \cup {a}
    BY <1>6, <1>10, <2>1
  <2> QED BY <1>6, <1>7, <1>9, <2>1, <2>2, <2>3, UndoesByStore
<1>11. ASSUME a \notin w.exists, v = NoCode PROVE Undoes(c, u, w, stuck)
  <2>1. u.exists = w.exists /\ a \notin u.exists /\ old = NoCode
    BY <1>2, <1>3, <1>6, <1>11
  <2>2. back = u
    BY <1>8, <2>1 DEF set_code
  <2>3. ~removable(back, a) /\ a \in stuck
    BY <1>1, <1>11, <2>1, <2>2 DEF removable
  <2> QED BY <1>7, <1>9, <1>11, <2>2, <2>3 DEF Undoes
<1>12. Undoes(c, u, w, stuck)
  BY <1>10, <1>11
<1>13. Journaled(t, start, stuck) /\ t.world = u
  <2>1. old \in Values /\ "CODE" \in ChangeKinds /\ u \in Wide
    BY <1>6 DEF Values, ChangeKinds
  <2>2. /\ t = journaled(s, "CODE", a, old, v) /\ u = store(s.world, "CODE", a, v)
        /\ c = change(s.world, "CODE", a, old) /\ Undoes(c, u, s.world, stuck)
    BY <1>1, <1>4, <1>7, <1>9, <1>12
  <2> QED BY <2>1, <2>2, JournaledWrite
<1>14. total(u) = total(w)
  BY <1>6, TotalIsSum
<1> QED BY <1>1, <1>6, <1>13, <1>14

\* Ether that moves is ether kept.
LEMMA TransferFacts ==
  ASSUME NEW s, NEW start, NEW stuck, Journaled(s, start, stuck),
         NEW from \in Addr, NEW to \in Addr, NEW v \in Nat, v <= s.world.balance[from],
         NEW t, t = transfer(s, from, to, v)
  PROVE  /\ Journaled(t, start, stuck)
         /\ t.world.nonce = s.world.nonce /\ t.world.code = s.world.code
         /\ s.world.exists \subseteq t.world.exists
         /\ total(t.world) = total(s.world)
<1>1. CASE v = 0 \/ from = to
  <2>1. t = s
    BY <1>1 DEF transfer
  <2> QED BY <2>1
<1>2. CASE ~(v = 0 \/ from = to)
  <2>1. s.world \in Wide /\ s.world.balance \in [Addr -> Nat]
    BY WideFields DEF Journaled
  <2>2. PICK left, more \in Nat : left = s.world.balance[from] - v /\ more = s.world.balance[to] + v
    <3>1. s.world.balance[from] - v \in Nat /\ s.world.balance[to] + v \in Nat
      BY <2>1
    <3> QED BY <3>1
  <2>3. PICK sent : sent = write_balance(s, from, left)
    OBVIOUS
  <2>4. t = write_balance(sent, to, more)
    BY <1>2, <2>2, <2>3, Zenon DEF transfer
  <2>5. /\ Journaled(sent, start, stuck)
        /\ sent.world.balance = [s.world.balance EXCEPT ![from] = left]
        /\ sent.world.nonce = s.world.nonce /\ sent.world.code = s.world.code
        /\ s.world.exists \subseteq sent.world.exists
        /\ total(sent.world) = total(s.world) - s.world.balance[from] + left
    BY <2>2, <2>3, WriteBalanceFacts
  <2>6. /\ Journaled(t, start, stuck)
        /\ t.world.balance = [sent.world.balance EXCEPT ![to] = more]
        /\ t.world.nonce = sent.world.nonce /\ t.world.code = sent.world.code
        /\ sent.world.exists \subseteq t.world.exists
        /\ total(t.world) = total(sent.world) - sent.world.balance[to] + more
    <3>1. Journaled(sent, start, stuck) /\ more \in Nat
      BY <2>2, <2>5
    <3> QED BY <2>4, <3>1, WriteBalanceFacts
  <2>7. sent.world.balance[to] = s.world.balance[to]
    BY <1>2, <2>1, <2>5
  <2>8. total(s.world) \in Nat /\ s.world.balance[to] \in Nat /\ s.world.balance[from] \in Nat
    BY <2>1, TotalNat
  <2>9. total(t.world) = total(s.world)
    BY <2>2, <2>5, <2>6, <2>7, <2>8
  <2> QED BY <2>5, <2>6, <2>9
<1> QED BY <1>1, <1>2

\* Deleting accounts takes their ether, and none when they hold none.
LEMMA WithoutFacts ==
  ASSUME NEW w \in Wide, NEW gone \in SUBSET Addr
  PROVE  /\ without(w, gone) \in Wide
         /\ total(without(w, gone)) <= total(w)
         /\ (\A a \in gone : w.balance[a] = 0) => total(without(w, gone)) = total(w)
         /\ \A a \in Addr \ gone : /\ without(w, gone).nonce[a] = w.nonce[a]
                                   /\ without(w, gone).code[a] = w.code[a]
                                   /\ without(w, gone).balance[a] = w.balance[a]
<1> DEFINE u == without(w, gone)
<1>1. w.balance \in [Addr -> Nat] /\ w.nonce \in [Addr -> Nat] /\ w.code \in [Addr -> Codes]
      /\ w.exists \in SUBSET Addr
  BY DEF Wide
<1>2. u \in Wide /\ u.balance \in [Addr -> Nat]
  <2> DEFINE b == [a \in Addr |-> IF a \in gone THEN 0 ELSE w.balance[a]]
             n == [a \in Addr |-> IF a \in gone THEN 0 ELSE w.nonce[a]]
             c == [a \in Addr |-> IF a \in gone THEN NoCode ELSE w.code[a]]
  <2>1. b \in [Addr -> Nat] /\ n \in [Addr -> Nat] /\ c \in [Addr -> Codes]
    BY <1>1 DEF Codes
  <2>2. \A a \in Addr \ (w.exists \ gone) : b[a] = 0 /\ n[a] = 0 /\ c[a] = NoCode
    BY WideFields
  <2>3. u = [exists |-> w.exists \ gone, balance |-> b, nonce |-> n, code |-> c]
    BY DEF without
  <2>4. w.exists \ gone \in SUBSET Addr
    BY <1>1
  <2> HIDE DEF b, n, c
  <2>5. u \in Wide
    BY <2>1, <2>2, <2>3, <2>4, WideMade
  <2> QED BY <2>1, <2>3, <2>5
<1>3. \A a \in Addr : /\ u.balance[a] = IF a \in gone THEN 0 ELSE w.balance[a]
                      /\ a \notin gone => u.nonce[a] = w.nonce[a] /\ u.code[a] = w.code[a]
  BY DEF without
<1> HIDE DEF u
<1>4. \A a \in Addr : u.balance[a] <= w.balance[a]
  BY <1>1, <1>3
<1>5. total(u) = Sum(u.balance, Addr) /\ total(w) = Sum(w.balance, Addr)
  BY TotalIsSum
<1>6. total(u) <= total(w)
  BY <1>1, <1>2, <1>4, <1>5, AddrAssumption, SumMono
<1>7. ASSUME \A a \in gone : w.balance[a] = 0
      PROVE  total(u) = total(w)
  <2>1. \A a \in Addr : w.balance[a] <= u.balance[a]
    BY <1>1, <1>3, <1>7
  <2>2. total(w) <= total(u)
    BY <1>1, <1>2, <1>5, <2>1, AddrAssumption, SumMono
  <2>3. total(u) \in Nat /\ total(w) \in Nat
    BY <1>2, TotalNat
  <2> QED BY <1>6, <2>2, <2>3
<1>8. u \in Wide /\ total(u) <= total(w)
      /\ ((\A a \in gone : w.balance[a] = 0) => total(u) = total(w))
      /\ \A a \in Addr \ gone : u.nonce[a] = w.nonce[a] /\ u.code[a] = w.code[a]
                                /\ u.balance[a] = w.balance[a]
  BY <1>2, <1>3, <1>6, <1>7
<1> QED BY <1>8 DEF u

-----------------------------------------------------------------------------
(* Every step preserves the invariant *)

LEMMA ReceiptTypes ==
  /\ NoReceipt \in Receipt /\ NoReceipt.invalid = "VALID"
  /\ \A i \in Reasons : /\ [NoReceipt EXCEPT !.invalid = i] \in Receipt
                        /\ [NoReceipt EXCEPT !.invalid = i].invalid = i
  /\ \A s \in Statuses : /\ [NoReceipt EXCEPT !.status = s] \in Receipt
                         /\ [NoReceipt EXCEPT !.status = s].status = s
<1>1. "VALID" \in Reasons /\ "OK" \in Statuses
  BY DEF Reasons, Statuses, OK
<1> QED BY <1>1 DEF NoReceipt, Receipt

LEMMA HostFailures ==
  /\ {ERR_HOST_ALLOCATION, ERR_BALANCE_OVERFLOW} \subseteq Statuses
  /\ \A s \in Statuses : is_evm_outcome(s) <=> s \notin {ERR_HOST_ALLOCATION, ERR_BALANCE_OVERFLOW}
BY DEF Statuses, is_evm_outcome, OK, ERR_REVERT, ERR_OUT_OF_GAS, ERR_ADDRESS_COLLISION,
       ERR_HOST_ALLOCATION, ERR_BALANCE_OVERFLOW

LEMMA InitIInv == Init => IInv
<1> SUFFICES ASSUME Init PROVE IInv
  OBVIOUS
<1>1. world \in World /\ world \in Wide /\ world = pre /\ journal = <<>>
  BY WorldsAssumption, WorldIsWide DEF Init
<1>2. TypeOK
  <2>1. [status |-> OK, gas |-> 0] \in [status: Statuses, gas: Nat]
    BY DEF Statuses
  <2>2. journal \in Seq(Change)
    BY <1>1
  <2> QED BY <1>1, <2>1, <2>2, InputAssumption, ReceiptTypes DEF Init, TypeOK, Phases
<1>3. phase = "idle" /\ receipt.invalid = "VALID" /\ doomed = {}
  BY DEF Init, NoReceipt
<1>4. PhasesInv
  BY <1>1, <1>3 DEF PhasesInv, Running, Committed, Applied
<1>5. JournalInv
  <2>1. PICK h \in Seq(Wide) : h = <<world>>
    <3>1. <<world>> \in Seq(Wide)
      BY <1>1
    <3> QED BY <3>1
  <2>2. Len(h) = 1 /\ h[1] = world /\ Len(journal) = 0
    BY <1>1, <2>1
  <2>3. Trail(h, world, journal, pre, Clearing)
    <3>1. \A k \in 1..Len(journal) : Undoes(journal[k], h[k + 1], h[k], Clearing)
      BY <2>2
    <3> QED BY <1>1, <2>1, <2>2, <3>1 DEF Trail
  <2>4. Reversible(world, journal, pre, Clearing)
    BY <2>1, <2>3 DEF Reversible
  <2> QED BY <1>2, <2>4 DEF JournalInv, Journaled, state, TypeOK
<1>6. OnlyClearingsStop /\ OnlyCommitsChange
  BY <1>1, <1>3 DEF OnlyClearingsStop, OnlyCommitsChange
<1>7. EtherAccounted /\ NoReplay /\ ContractsKeepCode
  BY <1>3 DEF EtherAccounted, NoReplay, ContractsKeepCode, Committed, Applied
<1> QED BY <1>2, <1>4, <1>5, <1>6, <1>7 DEF IInv

\* What is computed from the inputs stays as it is.
LEMMA SameInputs ==
  ASSUME UNCHANGED inputs
  PROVE  /\ pre' = pre /\ request' = request /\ block' = block /\ config' = config
         /\ commits' = commits
         /\ price' = price /\ gas' = gas /\ Bought' = Bought /\ Validated' = Validated
         /\ Clearing' = Clearing
<1>1. /\ pre' = pre /\ request' = request /\ block' = block /\ config' = config
      /\ commits' = commits
  BY DEF inputs
<1>2. price' = price /\ gas' = gas /\ Bought' = Bought
  BY <1>1 DEF price, gas, Bought
<1>3. Validated' = Validated
  BY <1>1 DEF Validated
<1>4. Clearing' = Clearing
  BY <1>1, Zenon DEF Clearing, ClearsAbsent, authority
<1> QED BY <1>1, <1>2, <1>3, <1>4

\* The transaction goes on from a journaled world.
LEMMA Becoming ==
  ASSUME UNCHANGED inputs, NEW s, Journaled(s, pre, Clearing), becomes(s)
  PROVE  /\ world' = s.world /\ world' \in Wide /\ journal' \in Seq(Change)
         /\ JournalInv'
<1>1. world' = s.world /\ journal' = s.journal
  BY DEF becomes
<1>2. /\ s.world \in Wide /\ s.journal \in Seq(Change)
      /\ Reversible(s.world, s.journal, pre, Clearing)
  BY DEF Journaled
<1>3. Reversible(world', journal', pre', Clearing')
  BY <1>1, <1>2, SameInputs
<1>4. JournalInv'
  BY <1>1, <1>2, <1>3 DEF JournalInv, Journaled, state
<1> QED BY <1>1, <1>2, <1>4

LEMMA JournalKept ==
  ASSUME IInv, phase \notin {"settle", "done", "trapped", "stopped"}, UNCHANGED inputs,
         UNCHANGED <<world, journal>>
  PROVE  Journaled(state, pre, Clearing) /\ JournalInv'
<1>1. Journaled(state, pre, Clearing)
  BY DEF IInv, JournalInv
<1>2. becomes(state)
  BY DEF becomes, state
<1> QED BY <1>1, <1>2, Becoming

\* While a transaction is under way only its phase and its journal say something.
LEMMA UnderWay ==
  ASSUME TypeOK', phase' \notin {"done", "trapped", "stopped"}, PhasesInv', JournalInv'
  PROVE  IInv'
BY DEF IInv, OnlyClearingsStop, OnlyCommitsChange, EtherAccounted, NoReplay,
       ContractsKeepCode, Committed, Applied

\* A transaction that is not committed ends where it started.
LEMMA NotCommitted ==
  ASSUME TypeOK', phase' = "done", world' = pre', ~Committed'
  PROVE  IInv'
<1>1. PhasesInv' /\ JournalInv'
  BY DEF PhasesInv, Running, JournalInv
<1> QED
  BY <1>1 DEF IInv, OnlyClearingsStop, OnlyCommitsChange, EtherAccounted, NoReplay,
              ContractsKeepCode

LEMMA HostFailureStep ==
  ASSUME IInv, UNCHANGED inputs, NEW s, Journaled(s, pre, Clearing),
         NEW status \in Statuses, host_failure(s, status),
         ~is_evm_outcome(status), touched' \in SUBSET Addr,
         UNCHANGED <<doomed, refund, next, result>>
  PROVE  IInv'
<1>1. /\ phase' = "undo" /\ receipt'.status = status /\ receipt' \in Receipt
      /\ becomes(s)
  BY ReceiptTypes DEF host_failure
<1>2. world' \in Wide /\ journal' \in Seq(Change) /\ JournalInv'
  BY <1>1, Becoming
<1>3. TypeOK'
  BY <1>1, <1>2, SameInputs DEF IInv, TypeOK, Phases
<1>4. PhasesInv'
  BY <1>1 DEF PhasesInv, Running, Committed, Applied
<1> QED BY <1>1, <1>2, <1>3, <1>4, UnderWay

\* A trap when there is more ether than a balance holds.
LEMMA TrapStep ==
  ASSUME IInv, UNCHANGED inputs, Traps, total(pre) > MaxBalance,
         touched' \in SUBSET Addr, UNCHANGED <<doomed, refund, next, result>>
  PROVE  IInv'
<1>1. phase' = "trapped" /\ UNCHANGED <<world, journal, receipt>>
  BY DEF Traps
<1>2. TypeOK'
  BY <1>1, SameInputs DEF IInv, TypeOK, Phases
<1>3. PhasesInv' /\ JournalInv'
  BY <1>1 DEF PhasesInv, Running, Committed, Applied, JournalInv
<1>4. total(pre') > MaxBalance
  BY SameInputs
<1>5. OnlyClearingsStop'
  BY <1>1, <1>4 DEF OnlyClearingsStop
<1> QED
  BY <1>1, <1>2, <1>3, <1>5 DEF IInv, OnlyCommitsChange, EtherAccounted, NoReplay,
     ContractsKeepCode, Committed, Applied

LEMMA StartStep ==
  ASSUME IInv, Start
  PROVE  IInv'
<1>1. UNCHANGED <<inputs, world, journal, touched, doomed, refund, next, result>> /\ phase = "idle"
  BY DEF Start
<1>2. world = pre /\ receipt.invalid = "VALID" /\ doomed = {}
  BY <1>1 DEF IInv, PhasesInv
<1>3. CASE validate(world, request, block, config) = "VALID"
  <2>1. phase' = "prepare" /\ receipt' = receipt
    BY <1>3 DEF Start
  <2>2. TypeOK'
    BY <1>1, <2>1, SameInputs DEF IInv, TypeOK, Phases
  <2>3. Validated
    <3>1. TypeOK
      BY DEF IInv
    <3>2. /\ request.kind # "BLOB" => request.blobs = 0
          /\ ~(Larger(intrinsic_gas(request).regular, intrinsic_gas(request).floor)
                 > request.gas_limit)
          /\ ~(request.kind = "BLOB" /\ request.max_fee_per_blob_gas < block.blobbasefee)
          /\ config.check_nonce => pre.nonce[request.sender] = request.nonce
          /\ affordable(pre, request)
      BY <1>2, <1>3, ValidMeans
    <3>3. /\ {request.gas_limit, block.blobbasefee, request.max_fee_per_blob_gas} \subseteq Nat
          /\ intrinsic_gas(request).regular \in Nat /\ intrinsic_gas(request).floor \in Nat
      BY <3>1, InputTypes, IntrinsicNat
    <3>4. /\ intrinsic_gas(request).regular <= request.gas_limit
          /\ intrinsic_gas(request).floor <= request.gas_limit
      BY <3>2, <3>3 DEF Larger
    <3>5. max_cost(request) <= pre.balance[request.sender]
      BY <3>2 DEF affordable
    <3> QED BY <3>2, <3>3, <3>4, <3>5 DEF Validated
  <2>4. PhasesInv'
    BY <1>1, <1>2, <2>1, <2>3, SameInputs DEF PhasesInv, Running, Committed, Applied
  <2>5. JournalInv'
    BY <1>1, JournalKept
  <2> QED BY <2>1, <2>2, <2>4, <2>5, UnderWay
<1>4. CASE validate(world, request, block, config) # "VALID"
  <2> DEFINE invalid == validate(world, request, block, config)
  <2>1. phase' = "done" /\ receipt' = [NoReceipt EXCEPT !.invalid = invalid]
    BY <1>4 DEF Start
  <2>2. invalid \in Reasons
    BY ReasonIsNamed
  <2> HIDE DEF invalid
  <2>3. receipt'.invalid = invalid /\ receipt' \in Receipt
    BY <2>1, <2>2, ReceiptTypes
  <2>4. TypeOK'
    BY <1>1, <2>1, <2>3, SameInputs DEF IInv, TypeOK, Phases
  <2>5. ~Committed'
    BY <1>4, <2>3 DEF Committed, Applied, invalid
  <2> QED BY <1>1, <1>2, <2>1, <2>4, <2>5, SameInputs, NotCommitted
<1> QED BY <1>3, <1>4

LEMMA PrepareStep ==
  ASSUME IInv, prepare
  PROVE  IInv'
<1> DEFINE sender == request.sender
           fee == request.gas_limit * price + blob_fee(request, block.blobbasefee)
           counted == increment_nonce(state, sender)
           left == world.balance[sender] - fee
           bought == write_balance(counted, sender, left)
<1>1. /\ UNCHANGED <<inputs, doomed, refund, next, result>> /\ phase = "prepare"
      /\ TypeOK /\ Validated /\ world = pre /\ doomed = {}
      /\ Journaled(state, pre, Clearing) /\ state.world = world
  BY DEF prepare, IInv, PhasesInv, JournalInv, state
<1>2. /\ sender \in Addr /\ fee \in Nat /\ fee = Bought /\ fee <= world.balance[sender]
      /\ left \in Nat /\ world.nonce[sender] \in Nat
  <2>1. fee = Bought
    BY DEF Bought
  <2>2. sender \in Addr /\ request.value \in Nat
    BY <1>1, InputTypes
  <2>3. world.balance[sender] \in Nat /\ world.nonce[sender] \in Nat
    BY <1>1, <2>2, WideFields DEF TypeOK
  <2> HIDE DEF fee
  <2> QED BY <1>1, <2>1, <2>2, <2>3, BoughtIsCovered
<1>3. \/ host_failure(state, ERR_HOST_ALLOCATION) /\ UNCHANGED touched
      \/ fee > world.balance[sender]
      \/ host_failure(counted, ERR_HOST_ALLOCATION) /\ UNCHANGED touched
      \/ /\ becomes(bought) /\ touched' = touched \cup {sender}
         /\ phase' = IF request.kind = "SET_CODE" THEN "authorize" ELSE "message"
         /\ UNCHANGED receipt
  BY Zenon DEF prepare
<1> HIDE DEF fee, sender, counted, left, bought
<1>4. /\ Journaled(counted, pre, Clearing)
      /\ counted.world.nonce = [world.nonce EXCEPT ![sender] = @ + 1]
      /\ counted.world.balance = world.balance /\ counted.world.code = world.code
      /\ counted.world.exists = world.exists \cup {sender}
  BY <1>1, <1>2, IncrementNonceFacts DEF counted
<1>5. /\ Journaled(bought, pre, Clearing)
      /\ bought.world.balance = [counted.world.balance EXCEPT ![sender] = left]
      /\ bought.world.nonce = counted.world.nonce /\ bought.world.code = counted.world.code
      /\ counted.world.exists \subseteq bought.world.exists
  BY <1>2, <1>4, WriteBalanceFacts DEF bought
<1>6. CASE host_failure(state, ERR_HOST_ALLOCATION) /\ UNCHANGED touched
  <2>1. touched' \in SUBSET Addr
    BY <1>1, <1>6 DEF TypeOK
  <2> QED BY <1>1, <1>6, <2>1, HostFailureStep, HostFailures
<1>7. CASE host_failure(counted, ERR_HOST_ALLOCATION) /\ UNCHANGED touched
  <2>1. touched' \in SUBSET Addr
    BY <1>1, <1>7 DEF TypeOK
  <2> QED BY <1>1, <1>4, <1>7, <2>1, HostFailureStep, HostFailures
<1>8. CASE /\ becomes(bought) /\ touched' = touched \cup {sender}
           /\ phase' = IF request.kind = "SET_CODE" THEN "authorize" ELSE "message"
           /\ UNCHANGED receipt
  <2>1. /\ world' = bought.world /\ world' \in Wide /\ journal' \in Seq(Change)
        /\ JournalInv'
    BY <1>1, <1>5, <1>8, Becoming
  <2>2. phase' \in {"authorize", "message"}
    BY <1>8
  <2>3. TypeOK'
    BY <1>1, <1>2, <1>8, <2>1, <2>2, SameInputs DEF TypeOK, Phases
  <2>4. /\ world'.nonce = [world.nonce EXCEPT ![sender] = @ + 1]
        /\ world'.balance = [world.balance EXCEPT ![sender] = left]
        /\ world'.code = world.code /\ world.exists \subseteq world'.exists
    BY <1>4, <1>5, <2>1
  <2>5. world \in Wide /\ world.nonce \in [Addr -> Nat]
    BY <1>1, WideFields DEF TypeOK
  <2>6. Lasting'
    <3>1. world'.nonce[sender] = world.nonce[sender] + 1
      BY <1>2, <2>4, <2>5
    <3> QED BY <1>1, <1>2, <2>4, <3>1, SameInputs DEF Lasting, sender
  <2>7. world'.balance = [pre'.balance EXCEPT ![request'.sender] = @ - Bought']
    BY <1>1, <1>2, <2>4, SameInputs DEF left, sender
  <2>8. PhasesInv'
    BY <1>1, <2>2, <2>4, <2>6, <2>7, SameInputs DEF PhasesInv, Running, Committed, Applied
  <2> QED BY <2>1, <2>2, <2>3, <2>8, UnderWay
<1>9. ~(fee > world.balance[sender])
  <2>1. world.balance[sender] \in Nat
    BY <1>1, <1>2, WideFields DEF TypeOK
  <2> QED BY <1>2, <2>1
<1> QED BY <1>3, <1>6, <1>7, <1>8, <1>9

LEMMA AuthorizeStep ==
  ASSUME IInv, authorize
  PROVE  IInv'
<1>1. /\ UNCHANGED <<inputs, doomed, result>> /\ phase = "authorize"
      /\ TypeOK /\ Validated /\ Lasting /\ doomed = {} /\ pre.exists \subseteq world.exists
      /\ world.balance = [pre.balance EXCEPT ![request.sender] = @ - Bought]
      /\ Journaled(state, pre, Clearing) /\ state.world = world
  BY DEF authorize, IInv, PhasesInv, Running, JournalInv, state
<1>2. ASSUME world' \in Wide, journal' \in Seq(Change), JournalInv',
             world'.balance = world.balance, world.exists \subseteq world'.exists, Lasting',
             receipt' = receipt, phase' \in {"authorize", "message"},
             touched' \in SUBSET Addr, refund' \in Int, next' \in Nat \ {0}
      PROVE  IInv'
  <2>1. TypeOK'
    BY <1>1, <1>2, SameInputs DEF TypeOK, Phases
  <2>2. PhasesInv'
    BY <1>1, <1>2, SameInputs DEF PhasesInv, Running, Committed, Applied
  <2> QED BY <1>2, <2>1, <2>2, UnderWay
<1>3. UNCHANGED <<world, doomed>> => Lasting'
  BY <1>1, SameInputs DEF Lasting
<1>4. UNCHANGED <<world, journal>> => JournalInv'
  BY <1>1, JournalKept
<1>5. CASE next > Len(request.authorizations)
  <2>1. phase' = "message" /\ UNCHANGED <<world, journal, touched, refund, next, receipt>>
    BY <1>5 DEF authorize
  <2> QED BY <1>1, <1>2, <1>3, <1>4, <2>1 DEF TypeOK
<1>6. CASE ~(next > Len(request.authorizations))
  <2>1. PICK a \in Authorization : a = request.authorizations[next]
    <3>1. request.authorizations \in Seq(Authorization) /\ next \in Nat \ {0}
      BY <1>1, InputTypes DEF TypeOK
    <3> QED BY <1>6, <3>1
  <2>2. PICK signer \in Addr \cup {NoSigner} : signer = authority(a)
    BY <2>1 DEF authority, Authorization
  <2>3. PICK delegated : delegated = write_code(state, signer, a.delegate)
    OBVIOUS
  <2>4. \/ /\ signer # NoSigner /\ host_failure(state, ERR_HOST_ALLOCATION)
           /\ UNCHANGED <<touched, refund, next>>
        \/ /\ signer = NoSigner \/ ~delegates(world, a, signer)
           /\ next' = next + 1
           /\ UNCHANGED <<world, journal, touched, refund, receipt, phase>>
        \/ /\ signer # NoSigner /\ delegates(world, a, signer)
           /\ ~delegable(world, signer)
        \/ /\ signer # NoSigner /\ delegates(world, a, signer)
           /\ host_failure(delegated, ERR_HOST_ALLOCATION)
           /\ UNCHANGED <<touched, refund, next>>
        \/ /\ signer # NoSigner /\ delegates(world, a, signer)
           /\ becomes(increment_nonce(delegated, signer))
           /\ next' = next + 1 /\ UNCHANGED <<receipt, phase>>
           /\ touched' = touched \cup {signer}
           /\ refund' = refund + IF signer \in world.exists
                                 THEN ExistingAuthorityRefund ELSE 0
    BY <1>6, <2>1, <2>2, <2>3, Zenon DEF authorize
  <2>5. ASSUME signer # NoSigner, delegates(world, a, signer)
        PROVE  /\ signer \in Addr /\ a.delegate \in Codes /\ world.code[signer] # Contract
               /\ Journaled(delegated, pre, Clearing)
               /\ delegated.world.code = [world.code EXCEPT ![signer] = a.delegate]
               /\ delegated.world.balance = world.balance
               /\ delegated.world.nonce = world.nonce
               /\ world.exists \subseteq delegated.world.exists
    <3>1. signer \in Addr /\ a.delegate \in Codes
      BY <2>1, <2>2, <2>5 DEF Authorization, Codes
    <3>2. world.code[signer] # Contract
      BY <2>5, CodeAssumption DEF delegates, delegable, is_delegated
    <3>3. signer \in world.exists \/ a.delegate # NoCode \/ signer \in Clearing
      <4>1. ASSUME signer \notin world.exists, a.delegate = NoCode
            PROVE  signer \in Clearing
        <5>1. world.nonce[signer] = 0
          BY <1>1, <3>1, <4>1, WideFields DEF TypeOK
        <5>2. a.nonce = 0
          BY <2>5, <5>1 DEF delegates
        <5>3. signer \in Addr \ pre.exists
          BY <1>1, <3>1, <4>1
        <5>4. ClearsAbsent(a)
          BY <2>2, <4>1, <5>2, <5>3 DEF ClearsAbsent
        <5>5. next \in DOMAIN request.authorizations
          BY <1>1, <1>6, InputTypes DEF TypeOK
        <5> QED BY <2>1, <2>2, <3>1, <5>4, <5>5 DEF Clearing
      <4> QED BY <4>1
    <3>4. /\ Journaled(delegated, pre, Clearing)
          /\ delegated.world.code = [state.world.code EXCEPT ![signer] = a.delegate]
          /\ delegated.world.balance = state.world.balance
          /\ delegated.world.nonce = state.world.nonce
          /\ state.world.exists \subseteq delegated.world.exists
      BY <1>1, <2>3, <3>1, <3>3, WriteCodeFacts
    <3> QED BY <1>1, <3>1, <3>2, <3>4
  <2>6. CASE /\ signer # NoSigner /\ host_failure(state, ERR_HOST_ALLOCATION)
             /\ UNCHANGED <<touched, refund, next>>
    <3>1. touched' \in SUBSET Addr
      BY <1>1, <2>6 DEF TypeOK
    <3> QED BY <1>1, <2>6, <3>1, HostFailureStep, HostFailures
  <2>7. CASE /\ signer = NoSigner \/ ~delegates(world, a, signer)
             /\ next' = next + 1
             /\ UNCHANGED <<world, journal, touched, refund, receipt, phase>>
    BY <1>1, <1>2, <1>3, <1>4, <2>7 DEF TypeOK
  <2>8. CASE /\ signer # NoSigner /\ delegates(world, a, signer)
             /\ host_failure(delegated, ERR_HOST_ALLOCATION)
             /\ UNCHANGED <<touched, refund, next>>
    <3>1. touched' \in SUBSET Addr /\ Journaled(delegated, pre, Clearing)
      BY <1>1, <2>5, <2>8 DEF TypeOK
    <3> QED BY <1>1, <2>8, <3>1, HostFailureStep, HostFailures
  <2>9. CASE /\ signer # NoSigner /\ delegates(world, a, signer)
             /\ becomes(increment_nonce(delegated, signer))
             /\ next' = next + 1 /\ UNCHANGED <<receipt, phase>>
             /\ touched' = touched \cup {signer}
             /\ refund' = refund + IF signer \in world.exists
                                   THEN ExistingAuthorityRefund ELSE 0
    <3>1. /\ signer \in Addr /\ a.delegate \in Codes /\ world.code[signer] # Contract
          /\ Journaled(delegated, pre, Clearing)
          /\ delegated.world.code = [world.code EXCEPT ![signer] = a.delegate]
          /\ delegated.world.balance = world.balance
          /\ delegated.world.nonce = world.nonce
          /\ world.exists \subseteq delegated.world.exists
      BY <2>5, <2>9
    <3>2. PICK counted : counted = increment_nonce(delegated, signer)
      OBVIOUS
    <3>3. /\ Journaled(counted, pre, Clearing)
          /\ counted.world.nonce = [delegated.world.nonce EXCEPT ![signer] = @ + 1]
          /\ counted.world.balance = delegated.world.balance
          /\ counted.world.code = delegated.world.code
          /\ counted.world.exists = delegated.world.exists \cup {signer}
      BY <3>1, <3>2, IncrementNonceFacts
    <3>4. /\ world' = counted.world /\ world' \in Wide /\ journal' \in Seq(Change)
          /\ JournalInv'
      BY <1>1, <2>9, <3>2, <3>3, Becoming
    <3>5. /\ world'.balance = world.balance /\ world.exists \subseteq world'.exists
          /\ world'.code = [world.code EXCEPT ![signer] = a.delegate]
          /\ world'.nonce = [world.nonce EXCEPT ![signer] = @ + 1]
      BY <3>1, <3>3, <3>4
    <3>6. world.nonce \in [Addr -> Nat] /\ world.code \in [Addr -> Codes]
      BY <1>1, WideFields DEF TypeOK
    <3>7. Lasting'
      <4>1. request.sender \in Addr /\ pre.nonce[request.sender] \in Nat
        <5>1. request.sender \in Addr /\ pre \in Wide
          BY <1>1, InputTypes, WorldIsWide DEF TypeOK
        <5> QED BY <5>1, WideFields
      <4>2. pre.nonce[request.sender] < world'.nonce[request.sender]
        BY <1>1, <3>1, <3>5, <3>6, <4>1 DEF Lasting
      <4>3. \A b \in Addr : pre.code[b] = Contract => world'.code[b] = Contract
        BY <1>1, <3>1, <3>5, <3>6 DEF Lasting
      <4> QED BY <1>1, <4>2, <4>3, SameInputs DEF Lasting
    <3>8. refund' \in Int /\ touched' \in SUBSET Addr /\ next' \in Nat \ {0}
      BY <1>1, <2>9, <3>1, GasAssumption DEF TypeOK
    <3> QED BY <1>1, <1>2, <2>9, <3>4, <3>5, <3>7, <3>8
  <2>10. delegates(world, a, signer) => delegable(world, signer)
    BY DEF delegates
  <2> QED BY <2>4, <2>6, <2>7, <2>8, <2>9, <2>10
<1> QED BY <1>5, <1>6

\* When the message begins, the gas is paid for and the value is there.
LEMMA MessageFunded ==
  ASSUME IInv, phase = "message"
  PROVE  /\ TypeOK /\ Validated /\ Lasting /\ doomed = {} /\ gas \in Nat
         /\ ~unfunded /\ total(world) = total(pre) - Bought
         /\ Journaled(state, pre, Clearing) /\ state.world = world
<1>1. /\ TypeOK /\ Validated /\ Lasting /\ doomed = {}
      /\ world.balance = [pre.balance EXCEPT ![request.sender] = @ - Bought]
      /\ Journaled(state, pre, Clearing) /\ state.world = world
  BY DEF IInv, PhasesInv, Running, JournalInv, state
<1>2. /\ Bought \in Nat /\ Bought + request.value <= pre.balance[request.sender]
      /\ request.sender \in Addr /\ request.value \in Nat /\ pre \in Wide /\ world \in Wide
  BY <1>1, BoughtIsCovered, InputTypes, WorldIsWide DEF TypeOK
<1>3. pre.balance \in [Addr -> Nat] /\ pre.balance[request.sender] - Bought \in Nat
      /\ pre.balance[request.sender] \in Nat
  <2>1. pre.balance \in [Addr -> Nat]
    BY <1>2 DEF Wide
  <2>2. pre.balance[request.sender] \in Nat
    BY <1>2, <2>1
  <2> QED BY <1>2, <2>1, <2>2
<1>4. ~unfunded
  <2>1. world.balance[request.sender] = pre.balance[request.sender] - Bought
    BY <1>1, <1>2, <1>3
  <2> QED BY <1>2, <1>3, <2>1 DEF unfunded
<1>5. total(world) = total(pre) - pre.balance[request.sender]
                     + (pre.balance[request.sender] - Bought)
  BY <1>1, <1>2, <1>3, TotalExcept
<1>6. total(pre) \in Nat
  BY <1>2, TotalNat
<1>7. gas \in Nat
  BY <1>1, InputTypes, IntrinsicNat, SMTT(30) DEF gas, Validated
<1> QED BY <1>1, <1>2, <1>3, <1>4, <1>5, <1>6, <1>7

LEMMA MessageFailsStep ==
  ASSUME IInv, message_fails
  PROVE  IInv'
<1>1. /\ UNCHANGED <<inputs, touched, doomed, refund, next>> /\ phase = "message"
      /\ TypeOK /\ Validated /\ Lasting /\ doomed = {} /\ gas \in Nat
      /\ ~unfunded /\ total(world) = total(pre) - Bought
  BY MessageFunded DEF message_fails
<1>2. phase' = "charge" /\ UNCHANGED <<world, journal, receipt>>
  BY <1>1 DEF message_fails
<1>3. result' \in [status: Statuses, gas: {0, gas}]
  <2>1. {ERR_REVERT, ERR_OUT_OF_GAS, ERR_HOST_ALLOCATION, ERR_ADDRESS_COLLISION,
         ERR_BALANCE_OVERFLOW} \subseteq Statuses
    BY DEF Statuses
  <2> QED BY <1>1, <2>1 DEF message_fails
<1>4. TypeOK'
  BY <1>1, <1>2, <1>3, SameInputs DEF TypeOK, Phases
<1>5. Lasting'
  BY <1>1, <1>2, SameInputs DEF Lasting
<1>6. result'.gas <= gas'
  BY <1>1, <1>3, SameInputs
<1>7. PhasesInv'
  BY <1>1, <1>2, <1>5, <1>6, SameInputs DEF PhasesInv, Running, Committed, Applied
<1>8. JournalInv'
  BY <1>1, <1>2, JournalKept
<1> QED BY <1>2, <1>4, <1>7, <1>8, UnderWay

\* What a message that succeeds starts from: a new contract's nonce is counted and the
\* value has moved.
LEMMA MovedFacts ==
  ASSUME IInv, phase = "message", request.creates => deployable(world, request.to)
  PROVE  /\ Journaled(moved, pre, Clearing) /\ total(moved.world) = total(world)
         /\ moved.world.code = world.code
         /\ moved.world.nonce[request.sender] = world.nonce[request.sender]
         /\ request.creates => request.to \in moved.world.exists
<1>1. /\ TypeOK /\ Lasting /\ ~unfunded /\ world \in Wide /\ pre \in Wide
      /\ request.sender \in Addr /\ request.to \in Addr /\ request.value \in Nat
      /\ request.creates \in BOOLEAN
      /\ Journaled(state, pre, Clearing) /\ state.world = world
  BY MessageFunded, InputTypes, WorldIsWide DEF TypeOK
<1>2. world.balance \in [Addr -> Nat] /\ world.nonce \in [Addr -> Nat]
      /\ pre.nonce \in [Addr -> Nat]
  BY <1>1, WideFields
<1>3. /\ Journaled(begun, pre, Clearing) /\ total(begun.world) = total(world)
      /\ begun.world.balance = world.balance /\ begun.world.code = world.code
      /\ begun.world.nonce[request.sender] = world.nonce[request.sender]
      /\ request.creates => request.to \in begun.world.exists
  <2>1. CASE request.creates
    <3>1. begun = increment_nonce(state, request.to)
      BY <2>1 DEF begun
    <3>2. /\ Journaled(begun, pre, Clearing)
          /\ begun.world.nonce = [state.world.nonce EXCEPT ![request.to] = @ + 1]
          /\ begun.world.balance = state.world.balance
          /\ begun.world.code = state.world.code
          /\ begun.world.exists = state.world.exists \cup {request.to}
          /\ total(begun.world) = total(state.world)
      BY <1>1, <3>1, IncrementNonceFacts
    <3>3. request.to # request.sender
      <4>1. world.nonce[request.sender] # 0
        BY <1>1, <1>2 DEF Lasting
      <4> QED BY <2>1, <4>1 DEF deployable
    <3>4. begun.world.nonce[request.sender] = world.nonce[request.sender]
      BY <1>1, <1>2, <3>2, <3>3
    <3> QED BY <1>1, <3>2, <3>4
  <2>2. CASE ~request.creates
    <3>1. begun = state
      BY <2>2 DEF begun
    <3> QED BY <1>1, <2>2, <3>1
  <2> QED BY <2>1, <2>2
<1>4. request.value <= begun.world.balance[request.sender]
  <2>1. world.balance[request.sender] \in Nat
    BY <1>1, <1>2
  <2> QED BY <1>1, <1>3, <2>1 DEF unfunded
<1>5. /\ Journaled(moved, pre, Clearing)
      /\ moved.world.nonce = begun.world.nonce /\ moved.world.code = begun.world.code
      /\ begun.world.exists \subseteq moved.world.exists
      /\ total(moved.world) = total(begun.world)
  BY <1>1, <1>3, <1>4, TransferFacts DEF moved
<1> QED BY <1>3, <1>5

LEMMA MessageSucceedsStep ==
  ASSUME IInv, message_succeeds
  PROVE  IInv'
<1>1. /\ UNCHANGED <<inputs, next, receipt>> /\ phase = "message" /\ phase' = "charge"
      /\ TypeOK /\ Validated /\ Lasting /\ doomed = {} /\ gas \in Nat
      /\ ~unfunded /\ total(world) = total(pre) - Bought
      /\ request.creates => deployable(world, request.to)
  BY MessageFunded DEF message_succeeds
<1>2. /\ Journaled(moved, pre, Clearing) /\ total(moved.world) = total(world)
      /\ moved.world.code = world.code
      /\ moved.world.nonce[request.sender] = world.nonce[request.sender]
      /\ request.creates => request.to \in moved.world.exists
  BY <1>1, MovedFacts
<1>3. PICK from, to \in Addr, v \in Payments \cup {0} :
        /\ v = 0 \/ (paying(from, to, v) /\ ~overflows(moved.world, from, to, v))
        /\ touched' = touched \cup {request.to} \cup IF v = 0 THEN {} ELSE {from, to}
        /\ LET after == transfer(moved, from, to, v)
           IN IF ~request.creates THEN becomes(after) /\ UNCHANGED doomed
              ELSE \/ /\ \E c \in {NoCode, Contract} : becomes(write_code(after, request.to, c))
                      /\ UNCHANGED doomed
                   \/ becomes(after) /\ doomed' = doomed \cup {request.to}
  BY DEF message_succeeds
<1>4. PICK after : after = transfer(moved, from, to, v)
  OBVIOUS
<1>5. /\ Journaled(after, pre, Clearing) /\ total(after.world) = total(world)
      /\ after.world.code = world.code
      /\ after.world.nonce[request.sender] = world.nonce[request.sender]
      /\ request.creates => request.to \in after.world.exists
  <2>1. v \in Nat /\ moved.world.balance[from] \in Nat
    <3>1. v \in Nat
      BY InputAssumption
    <3>2. moved.world.balance[from] \in Nat
      BY <1>2, WideFields DEF Journaled
    <3> QED BY <3>1, <3>2
  <2>2. v <= moved.world.balance[from]
    BY <1>3, <2>1 DEF paying
  <2>3. /\ Journaled(after, pre, Clearing)
        /\ after.world.nonce = moved.world.nonce /\ after.world.code = moved.world.code
        /\ moved.world.exists \subseteq after.world.exists
        /\ total(after.world) = total(moved.world)
    BY <1>2, <1>4, <2>1, <2>2, TransferFacts
  <2> QED BY <1>2, <2>3
<1>6. request.sender \in Addr /\ request.to \in Addr /\ request.creates \in BOOLEAN
      /\ world \in Wide /\ pre \in Wide
  BY <1>1, InputTypes, WorldIsWide DEF TypeOK
<1>7. \/ becomes(after) /\ doomed' = doomed
      \/ /\ request.creates /\ doomed' = doomed
         /\ \E c \in {NoCode, Contract} : becomes(write_code(after, request.to, c))
      \/ request.creates /\ becomes(after) /\ doomed' = doomed \cup {request.to}
  BY <1>3, <1>4, <1>6, Zenon
<1>8. PICK s : /\ Journaled(s, pre, Clearing) /\ becomes(s)
               /\ total(s.world) = total(world) /\ s.world.nonce = after.world.nonce
               /\ \/ s.world.code = world.code
                  \/ /\ request.creates
                     /\ \E c \in {NoCode, Contract} :
                          s.world.code = [world.code EXCEPT ![request.to] = c]
  <2>1. CASE becomes(after)
    BY <1>5, <2>1
  <2>2. CASE request.creates
             /\ \E c \in {NoCode, Contract} : becomes(write_code(after, request.to, c))
    <3>1. PICK c \in Codes : /\ c \in {NoCode, Contract}
                             /\ becomes(write_code(after, request.to, c))
      BY <2>2 DEF Codes
    <3>2. PICK s : s = write_code(after, request.to, c)
      OBVIOUS
    <3>3. /\ Journaled(s, pre, Clearing)
          /\ s.world.code = [after.world.code EXCEPT ![request.to] = c]
          /\ s.world.balance = after.world.balance /\ s.world.nonce = after.world.nonce
          /\ total(s.world) = total(after.world)
      BY <1>5, <1>6, <2>2, <3>2, WriteCodeFacts
    <3>4. becomes(s)
      BY <3>1, <3>2
    <3> QED BY <1>5, <2>2, <3>1, <3>3, <3>4
  <2> QED BY <1>7, <2>1, <2>2
<1>9. /\ world' = s.world /\ world' \in Wide /\ journal' \in Seq(Change) /\ JournalInv'
  BY <1>1, <1>8, Becoming
<1>10. Lasting'
  <2>1. pre.nonce[request.sender] < world'.nonce[request.sender]
    BY <1>1, <1>5, <1>8, <1>9 DEF Lasting
  <2>2. pre.nonce[request.sender] \in Nat /\ world.nonce[request.sender] \in Nat
        /\ world.code \in [Addr -> Codes]
    BY <1>6, WideFields
  <2>3. request.creates => /\ request.to # request.sender
                           /\ pre.code[request.to] # Contract
    <3>1. request.creates => world.nonce[request.to] = 0 /\ world.code[request.to] # Contract
      BY <1>1, CodeAssumption DEF deployable
    <3>2. world.nonce[request.sender] # 0
      BY <1>1, <2>2 DEF Lasting
    <3>3. request.creates => pre.code[request.to] # Contract
      BY <1>1, <1>6, <3>1 DEF Lasting
    <3> QED BY <3>1, <3>2, <3>3
  <2>4. doomed' \subseteq IF request.creates THEN {request.to} ELSE {}
    BY <1>1, <1>7
  <2>5. request.sender \notin doomed'
    BY <2>3, <2>4
  <2>6. \A a \in Addr : pre.code[a] = Contract => world'.code[a] = Contract /\ a \notin doomed'
    <3> SUFFICES ASSUME NEW a \in Addr, pre.code[a] = Contract
                 PROVE  world'.code[a] = Contract /\ a \notin doomed'
      OBVIOUS
    <3>1. world.code[a] = Contract
      BY <1>1 DEF Lasting
    <3>2. request.creates => a # request.to
      BY <2>3
    <3>3. world'.code[a] = world.code[a]
      BY <1>8, <1>9, <2>2, <3>2
    <3> QED BY <2>4, <3>1, <3>2, <3>3
  <2> QED BY <1>1, <2>1, <2>5, <2>6, SameInputs DEF Lasting
<1>11. result' \in [status: Statuses, gas: {0, gas}] /\ refund' \in Int
  <2>1. OK \in Statuses
    BY DEF Statuses
  <2>2. PICK r \in MessageRefunds : refund' = refund + r
    BY DEF message_succeeds
  <2> QED BY <1>1, <2>1, <2>2, InputAssumption DEF message_succeeds, TypeOK
<1>12. touched' \in SUBSET Addr /\ doomed' \in SUBSET Addr
  BY <1>1, <1>3, <1>6, <1>7 DEF TypeOK
<1>13. TypeOK'
  BY <1>1, <1>9, <1>11, <1>12, SameInputs DEF TypeOK, Phases
<1>14. result'.gas <= gas'
  BY <1>1, <1>11, SameInputs
<1>15. total(world') = total(pre') - Bought'
  BY <1>1, <1>8, <1>9, SameInputs
<1>16. PhasesInv'
  BY <1>1, <1>10, <1>14, <1>15, SameInputs DEF PhasesInv, Running, Committed, Applied
<1> QED BY <1>1, <1>9, <1>13, <1>16, UnderWay

\* What is handed back and what the coinbase gets, against what was bought.
LEMMA FeesReturn ==
  ASSUME IInv, phase = "charge"
  PROVE  /\ (request.gas_limit - gas_used) * price \in Nat /\ gas_used * tip \in Nat
         /\ gas_used * Smaller(price, block.basefee)
              + blob_fee(request, block.blobbasefee) \in Nat
         /\ total(world) + (request.gas_limit - gas_used) * price + gas_used * tip
              = total(pre) - (gas_used * Smaller(price, block.basefee)
                              + blob_fee(request, block.blobbasefee))
<1>1. TypeOK /\ Validated /\ result.gas <= gas /\ total(world) = total(pre) - Bought
  BY DEF IInv, PhasesInv, Running
<1>2. PICK limit, used, p, t, m \in Nat :
        /\ limit = request.gas_limit /\ used = gas_used /\ p = price /\ t = tip
        /\ m = Smaller(price, block.basefee) /\ t + m = p /\ used <= limit
  BY <1>1, InputTypes, GasUsedInRange, PriceFacts
<1>3. (limit - used) * p + used * t = limit * p - used * m
  BY <1>2, FeeSplits
<1>4. PICK bought, back, fee, burned, blob \in Nat :
        /\ bought = limit * p /\ back = (limit - used) * p /\ fee = used * t
        /\ burned = used * m /\ blob = blob_fee(request, block.blobbasefee)
  <2>1. limit - used \in Nat
    BY <1>2
  <2>2. limit * p \in Nat /\ (limit - used) * p \in Nat /\ used * t \in Nat /\ used * m \in Nat
    BY <2>1, ProductNat
  <2>3. blob_fee(request, block.blobbasefee) \in Nat
    BY <1>1, InputTypes, BlobFeeNat
  <2> QED BY <2>2, <2>3
<1>5. back + fee = bought - burned
  BY <1>3, <1>4
<1>6. total(world) = total(pre) - (bought + blob)
  BY <1>1, <1>2, <1>4 DEF Bought
<1>7. total(world) \in Nat /\ total(pre) \in Nat
  BY <1>1, TotalNat, WorldIsWide DEF TypeOK
<1>8. total(world) + back + fee = total(pre) - (burned + blob) /\ burned + blob \in Nat
  BY <1>5, <1>6, <1>7
<1> QED BY <1>2, <1>4, <1>8

LEMMA ChargeStep ==
  ASSUME IInv, charge
  PROVE  IInv'
<1>1. /\ UNCHANGED <<inputs, doomed, refund, next, result>> /\ phase = "charge"
      /\ TypeOK /\ Validated /\ Lasting /\ result.gas <= gas
      /\ Journaled(state, pre, Clearing) /\ state.world = world
  BY DEF charge, IInv, PhasesInv, Running, JournalInv, state
<1>2. PICK unused, fee, burnt \in Nat :
        /\ unused = (request.gas_limit - gas_used) * price /\ fee = gas_used * tip
        /\ burnt = gas_used * Smaller(price, block.basefee)
                   + blob_fee(request, block.blobbasefee)
        /\ total(world) + unused + fee = total(pre) - burnt
  BY <1>1, FeesReturn
<1>3. request.sender \in Addr /\ block.coinbase \in Addr /\ world \in Wide /\ pre \in Wide
      /\ result.status \in Statuses
  BY <1>1, InputTypes, WorldIsWide DEF TypeOK
<1>4. /\ world.balance[request.sender] \in Nat
      /\ world.balance[request.sender] <= total(world)
      /\ total(world) \in Nat /\ total(pre) \in Nat /\ MaxBalance \in Nat
  BY <1>3, WideFields, BalanceInTotal, TotalNat, GasAssumption
<1>5. PICK repaid : repaid = write_balance(state, request.sender,
                                           world.balance[request.sender] + unused)
  OBVIOUS
<1>6. /\ Journaled(repaid, pre, Clearing) /\ repaid.world \in Wide
      /\ repaid.world.nonce = world.nonce /\ repaid.world.code = world.code
      /\ total(repaid.world) = total(world) + unused
  <2>1. PICK more \in Nat : more = world.balance[request.sender] + unused
    BY <1>2, <1>4
  <2>2. /\ Journaled(repaid, pre, Clearing)
        /\ repaid.world.nonce = state.world.nonce /\ repaid.world.code = state.world.code
        /\ total(repaid.world) = total(state.world) - state.world.balance[request.sender] + more
    <3>1. /\ Journaled(state, pre, Clearing) /\ request.sender \in Addr
          /\ repaid = write_balance(state, request.sender, more)
      BY <1>1, <1>3, <1>5, <2>1
    <3>2. /\ Journaled(repaid, pre, Clearing)
          /\ repaid.world.balance = [state.world.balance EXCEPT ![request.sender] = more]
          /\ repaid.world.nonce = state.world.nonce /\ repaid.world.code = state.world.code
          /\ state.world.exists \subseteq repaid.world.exists
          /\ total(repaid.world) = total(state.world) - state.world.balance[request.sender]
                                   + more
      BY <3>1, WriteBalanceFacts
    <3> QED BY <3>2
  <2>3. repaid.world \in Wide
    BY <2>2 DEF Journaled
  <2> QED BY <1>1, <1>2, <1>4, <2>1, <2>2, <2>3
<1>7. PICK held \in Nat : held = repaid.world.balance[block.coinbase] /\ held <= total(repaid.world)
  BY <1>3, <1>6, WideFields, BalanceInTotal
<1>8. PICK paid : paid = write_balance(repaid, block.coinbase, held + fee)
  OBVIOUS
<1>9. /\ Journaled(paid, pre, Clearing)
      /\ paid.world.nonce = world.nonce /\ paid.world.code = world.code
      /\ total(paid.world) = total(world) + unused + fee
  <2>1. PICK more \in Nat : more = held + fee
    BY <1>2, <1>7
  <2>2. /\ Journaled(paid, pre, Clearing)
        /\ paid.world.nonce = repaid.world.nonce /\ paid.world.code = repaid.world.code
        /\ total(paid.world) = total(repaid.world) - repaid.world.balance[block.coinbase] + more
    <3>1. /\ Journaled(repaid, pre, Clearing) /\ block.coinbase \in Addr
          /\ paid = write_balance(repaid, block.coinbase, more)
      BY <1>3, <1>6, <1>8, <2>1
    <3>2. /\ Journaled(paid, pre, Clearing)
          /\ paid.world.balance = [repaid.world.balance EXCEPT ![block.coinbase] = more]
          /\ paid.world.nonce = repaid.world.nonce /\ paid.world.code = repaid.world.code
          /\ repaid.world.exists \subseteq paid.world.exists
          /\ total(paid.world) = total(repaid.world) - repaid.world.balance[block.coinbase]
                                 + more
      BY <3>1, WriteBalanceFacts
    <3> QED BY <3>2
  <2>3. total(repaid.world) \in Nat
    BY <1>6, TotalNat
  <2> QED BY <1>2, <1>4, <1>6, <1>7, <2>1, <2>2, <2>3
<1>10. touched' \in SUBSET Addr
  BY <1>1, <1>3 DEF charge, TypeOK
<1>11. \/ ~is_evm_outcome(result.status) /\ host_failure(state, result.status)
       \/ host_failure(state, ERR_HOST_ALLOCATION)
       \/ host_failure(repaid, ERR_HOST_ALLOCATION)
       \/ Traps /\ unused > MaxBalance - world.balance[request.sender]
       \/ Traps /\ fee > MaxBalance - held
       \/ /\ is_evm_outcome(result.status) /\ becomes(paid)
          /\ phase' = IF commits THEN "settle" ELSE "undo"
          /\ receipt' = [NoReceipt EXCEPT !.status = result.status, !.gas_used = gas_used,
                           !.gas_refunded = Larger(0, gas_spent - gas_used)]
  BY <1>2, <1>5, <1>7, <1>8, Zenon DEF charge
<1>12. CASE ~is_evm_outcome(result.status) /\ host_failure(state, result.status)
  BY <1>1, <1>3, <1>10, <1>12, HostFailureStep
<1>13. CASE host_failure(state, ERR_HOST_ALLOCATION)
  BY <1>1, <1>10, <1>13, HostFailureStep, HostFailures
<1>14. CASE host_failure(repaid, ERR_HOST_ALLOCATION)
  BY <1>1, <1>6, <1>10, <1>14, HostFailureStep, HostFailures
<1>15. CASE Traps /\ unused > MaxBalance - world.balance[request.sender]
  <2>1. total(pre) > MaxBalance
    BY <1>2, <1>4, <1>15
  <2> QED BY <1>1, <1>10, <1>15, <2>1, TrapStep
<1>16. CASE Traps /\ fee > MaxBalance - held
  <2>1. total(pre) > MaxBalance
    BY <1>2, <1>4, <1>6, <1>7, <1>16
  <2> QED BY <1>1, <1>10, <1>16, <2>1, TrapStep
<1>17. CASE /\ is_evm_outcome(result.status) /\ becomes(paid)
            /\ phase' = IF commits THEN "settle" ELSE "undo"
            /\ receipt' = [NoReceipt EXCEPT !.status = result.status, !.gas_used = gas_used,
                             !.gas_refunded = Larger(0, gas_spent - gas_used)]
  <2>1. /\ world' = paid.world /\ world' \in Wide /\ journal' \in Seq(Change) /\ JournalInv'
    BY <1>1, <1>9, <1>17, Becoming
  <2>2. /\ receipt' \in Receipt /\ receipt'.gas_used = gas_used
        /\ receipt'.invalid = "VALID" /\ receipt'.status = result.status
    <3>1. gas_used \in Nat /\ gas_spent \in Nat
      BY <1>1, GasUsedInRange
    <3>2. Larger(0, gas_spent - gas_used) \in Nat
      BY <3>1 DEF Larger
    <3>3. NoReceipt \in Receipt /\ NoReceipt.invalid = "VALID"
      BY ReceiptTypes
    <3> QED BY <1>3, <1>17, <3>1, <3>2, <3>3 DEF Receipt
  <2>3. phase' \in {"settle", "undo"} /\ (phase' = "settle" <=> commits) /\ commits \in BOOLEAN
    BY <1>1, <1>17 DEF TypeOK
  <2>4. TypeOK'
    BY <1>1, <1>10, <2>1, <2>2, <2>3, SameInputs DEF TypeOK, Phases
  <2>5. Lasting'
    BY <1>1, <1>9, <2>1, SameInputs DEF Lasting
  <2>6. total(world') = total(pre') - Burned'
    <3>1. Burned' = burnt
      BY <1>1, <1>2, <2>2, SameInputs DEF Burned
    <3> QED BY <1>1, <1>2, <1>9, <2>1, <3>1, SameInputs
  <2>7. receipt'.gas_used >= intrinsic_gas(request').floor
    <3>1. gas_used >= intrinsic_gas(request).floor
      BY <1>1, GasUsedInRange
    <3> QED BY <1>1, <2>2, <3>1, SameInputs
  <2>8. PhasesInv'
    BY <1>1, <1>17, <2>2, <2>3, <2>5, <2>6, <2>7, SameInputs
    DEF PhasesInv, Running, Committed, Applied
  <2> QED BY <2>1, <2>3, <2>4, <2>8, UnderWay
<1> QED BY <1>11, <1>12, <1>13, <1>14, <1>15, <1>16, <1>17

LEMMA SettleStep ==
  ASSUME IInv, settle
  PROVE  IInv'
<1>1. /\ UNCHANGED <<journal, inputs, touched, doomed, refund, next, result, receipt>>
      /\ phase = "settle" /\ phase' = "done" /\ commits
      /\ TypeOK /\ Validated /\ Lasting /\ total(world) = total(pre) - Burned
      /\ receipt.gas_used >= intrinsic_gas(request).floor
      /\ receipt.invalid = "VALID" /\ is_evm_outcome(receipt.status)
      /\ world \in Wide /\ pre \in Wide
  BY WorldIsWide DEF settle, IInv, PhasesInv, Running, TypeOK
<1>2. PICK live : live = without(world, doomed)
  OBVIOUS
<1>3. PICK gone : gone = {a \in touched : is_empty(live, a)}
  OBVIOUS
<1>4. world' = without(live, gone)
  BY <1>2, <1>3 DEF settle
<1>5. doomed \in SUBSET Addr /\ gone \in SUBSET Addr
  BY <1>1, <1>3 DEF TypeOK
<1>6. /\ live \in Wide /\ total(live) <= total(world)
      /\ doomed = {} => total(live) = total(world)
      /\ \A a \in Addr \ doomed : /\ live.nonce[a] = world.nonce[a]
                                  /\ live.code[a] = world.code[a]
  BY <1>1, <1>2, <1>5, WithoutFacts
<1>7. \A a \in gone : live.balance[a] = 0 /\ live.nonce[a] = 0 /\ live.code[a] = NoCode
  BY <1>3 DEF is_empty
<1>8. /\ world' \in Wide /\ total(world') = total(live)
      /\ \A a \in Addr \ gone : /\ world'.nonce[a] = live.nonce[a]
                                /\ world'.code[a] = live.code[a]
  BY <1>4, <1>5, <1>6, <1>7, WithoutFacts
<1>9. TypeOK'
  BY <1>1, <1>8, SameInputs DEF TypeOK, Phases
<1>10. EtherAccounted'
  <2>1. total(world') <= total(world) /\ (doomed' = {} => total(world') = total(world))
    BY <1>1, <1>6, <1>8
  <2>2. Burned' = Burned
    BY <1>1, SameInputs DEF Burned
  <2>3. /\ total(world') <= total(pre') - Burned'
        /\ doomed' = {} => total(world') = total(pre') - Burned'
        /\ receipt'.gas_used >= intrinsic_gas(request').floor
    BY <1>1, <2>1, <2>2, SameInputs
  <2> QED BY <2>3 DEF EtherAccounted, Burned
<1>11. NoReplay'
  <2>1. request.sender \in Addr \ doomed /\ pre.nonce[request.sender] \in Nat
        /\ world.nonce[request.sender] \in Nat
    <3>1. request.sender \in Addr
      BY <1>1, InputTypes
    <3> QED BY <1>1, <3>1, WideFields DEF Lasting
  <2>2. live.nonce[request.sender] = world.nonce[request.sender]
    BY <1>6, <2>1
  <2>3. request.sender \notin gone
    BY <1>1, <1>7, <2>1, <2>2 DEF Lasting
  <2>4. world'.nonce[request.sender] = world.nonce[request.sender]
    BY <1>8, <2>1, <2>2, <2>3
  <2>5. config.check_nonce => world'.nonce[request.sender] # request.nonce
    BY <1>1, <2>1, <2>4 DEF Validated, Lasting
  <2>6. config'.check_nonce => validate(world', request', block', config') # "VALID"
    BY <1>1, <2>5, SameInputs, WrongNonceInvalid
  <2> QED BY <2>6 DEF NoReplay
<1>12. ContractsKeepCode'
  <2>1. ASSUME NEW a \in Addr, pre.code[a] = Contract
        PROVE  world'.code[a] = Contract
    <3>1. world.code[a] = Contract /\ a \notin doomed
      BY <1>1, <2>1 DEF Lasting
    <3>2. live.code[a] = Contract
      BY <1>6, <3>1
    <3>3. a \notin gone
      BY <1>7, <3>2, CodeAssumption
    <3> QED BY <1>8, <3>2, <3>3
  <2> QED BY <1>1, <2>1, SameInputs DEF ContractsKeepCode
<1>13. OnlyCommitsChange' /\ OnlyClearingsStop'
  BY <1>1, SameInputs DEF OnlyCommitsChange, OnlyClearingsStop, Committed, Applied
<1>14. PhasesInv' /\ JournalInv'
  BY <1>1, SameInputs DEF PhasesInv, Running, JournalInv
<1> QED BY <1>9, <1>10, <1>11, <1>12, <1>13, <1>14 DEF IInv

\* A change less: the world before it is still on the way to start.
LEMMA ShorterReversible ==
  ASSUME NEW w, NEW j \in Seq(Change), NEW start, NEW stuck, Reversible(w, j, start, stuck),
         j # <<>>, NEW i, i = SubSeq(j, 1, Len(j) - 1)
  PROVE  /\ i \in Seq(Change)
         /\ \E before \in Wide : /\ Undoes(j[Len(j)], w, before, stuck)
                                 /\ Reversible(before, i, start, stuck)
<1>1. PICK h \in Seq(Wide) : Trail(h, w, j, start, stuck)
  BY DEF Reversible
<1>2. PICK n \in Nat : n = Len(j) - 1
  <2>1. Len(j) - 1 \in Nat
    BY EmptySeq
  <2> QED BY <2>1
<1>3. /\ Len(j) = n + 1 /\ Len(h) = n + 2 /\ h[1] = start /\ h[n + 2] = w
      /\ \A k \in 1..n + 1 : Undoes(j[k], h[k + 1], h[k], stuck)
  BY <1>1, <1>2 DEF Trail
<1>4. /\ i \in Seq(Change) /\ Len(i) = n /\ \A k \in 1..n : i[k] = j[k]
  <2>1. \A k \in 1..n : j[k] \in Change
    BY <1>3
  <2>2. i = SubSeq(j, 1, n)
    BY <1>2
  <2>3. /\ i \in Seq(Change) /\ Len(i) = IF 1 <= n THEN n - 1 + 1 ELSE 0
        /\ \A k \in 1..n - 1 + 1 : i[k] = j[1 + k - 1]
    BY <2>1, <2>2, SubSeqProperties
  <2> QED BY <2>3
<1>5. PICK g : g = SubSeq(h, 1, n + 1)
  OBVIOUS
<1>6. /\ g \in Seq(Wide) /\ Len(g) = n + 1 /\ \A k \in 1..n + 1 : g[k] = h[k]
  <2>1. \A k \in 1..n + 1 : h[k] \in Wide
    BY <1>3
  <2>2. /\ g \in Seq(Wide) /\ Len(g) = IF 1 <= n + 1 THEN n + 1 - 1 + 1 ELSE 0
        /\ \A k \in 1..n + 1 - 1 + 1 : g[k] = h[1 + k - 1]
    BY <1>5, <2>1, SubSeqProperties
  <2> QED BY <2>2
<1>7. PICK before \in Wide : before = h[n + 1]
  BY <1>3
<1>8. Undoes(j[Len(j)], w, before, stuck)
  <2>1. Undoes(j[n + 1], h[n + 1 + 1], h[n + 1], stuck)
    BY <1>3
  <2>2. n + 1 + 1 = n + 2
    OBVIOUS
  <2> QED BY <1>3, <1>7, <2>1, <2>2
<1>9. Trail(g, before, i, start, stuck)
  <2>1. ASSUME NEW k \in 1..n PROVE Undoes(i[k], g[k + 1], g[k], stuck)
    <3>1. k \in 1..n + 1 /\ k + 1 \in 1..n + 1
      OBVIOUS
    <3>2. i[k] = j[k] /\ g[k] = h[k] /\ g[k + 1] = h[k + 1]
      BY <1>4, <1>6, <3>1
    <3> QED BY <1>3, <3>1, <3>2
  <2>2. g[1] = start /\ g[Len(g)] = before
    BY <1>3, <1>6, <1>7
  <2> QED BY <1>4, <1>6, <2>1, <2>2 DEF Trail
<1>10. Reversible(before, i, start, stuck)
  BY <1>6, <1>9 DEF Reversible
<1> QED BY <1>4, <1>7, <1>8, <1>10

LEMMA UndoStep ==
  ASSUME IInv, undo
  PROVE  IInv'
<1>1. /\ UNCHANGED <<inputs, touched, doomed, refund, next, result, receipt>>
      /\ phase = "undo" /\ TypeOK /\ world \in Wide /\ journal \in Seq(Change)
      /\ ~is_evm_outcome(receipt.status) \/ ~commits
      /\ Reversible(world, journal, pre, Clearing)
  BY DEF undo, IInv, PhasesInv, JournalInv, Journaled, state, TypeOK
<1>2. ~Committed'
  BY <1>1, SameInputs DEF Committed, Applied
<1>3. CASE journal = <<>>
  <2>1. phase' = "done" /\ world' = world /\ journal' = journal
    BY <1>3 DEF undo
  <2>2. PICK h \in Seq(Wide) : Trail(h, world, journal, pre, Clearing)
    BY <1>1 DEF Reversible
  <2>3. Len(journal) = 0
    BY <1>3
  <2>4. world = pre
    BY <2>2, <2>3 DEF Trail
  <2>5. TypeOK'
    BY <1>1, <2>1, SameInputs DEF TypeOK, Phases
  <2> QED BY <1>1, <1>2, <2>1, <2>4, <2>5, SameInputs, NotCommitted
<1>4. CASE journal # <<>>
  <2>1. PICK c \in Change : c = journal[Len(journal)]
    <3>1. Len(journal) \in 1..Len(journal)
      BY <1>1, <1>4, EmptySeq
    <3> QED BY <1>1, <3>1
  <2>2. PICK w : w = store(world, c.kind, c.address, c.previous)
    OBVIOUS
  <2>3. PICK i : i = SubSeq(journal, 1, Len(journal) - 1)
    OBVIOUS
  <2>4. /\ journal' = i
        /\ \/ c.existed /\ world' = w /\ phase' = phase
           \/ /\ ~c.existed /\ removable(w, c.address)
              /\ world' = removed(w, c.address) /\ phase' = phase
           \/ /\ ~c.existed /\ ~removable(w, c.address)
              /\ world' = w /\ phase' = "stopped"
    BY <1>4, <2>1, <2>2, <2>3, Zenon DEF undo
  <2>5. i \in Seq(Change)
    BY <1>1, <1>4, <2>3, ShorterReversible
  <2>6. PICK before \in Wide : /\ Undoes(c, world, before, Clearing)
                               /\ Reversible(before, i, pre, Clearing)
    BY <1>1, <1>4, <2>1, <2>3, ShorterReversible
  <2>7. \/ c.existed /\ w = before
        \/ /\ ~c.existed /\ removable(w, c.address)
           /\ removed(w, c.address) = before
        \/ /\ ~c.existed /\ ~removable(w, c.address) /\ w = world
           /\ c.address \in Clearing
    BY <2>2, <2>6, Zenon DEF Undoes
  <2>8. CASE world' = before /\ phase' = "undo"
    <3>1. TypeOK'
      BY <1>1, <2>4, <2>5, <2>8, SameInputs DEF TypeOK, Phases
    <3>2. Journaled(state', pre', Clearing')
      <4>1. state'.world = before /\ state'.journal = i
        BY <2>4, <2>8 DEF state
      <4> QED BY <1>1, <2>5, <2>6, <4>1, SameInputs DEF Journaled
    <3>3. JournalInv'
      BY <3>2 DEF JournalInv
    <3>4. PhasesInv'
      BY <1>1, <1>2, <2>8, SameInputs DEF PhasesInv, Running
    <3> QED BY <2>8, <3>1, <3>3, <3>4, UnderWay
  <2>9. CASE world' = world /\ phase' = "stopped" /\ c.address \in Clearing
    <3>1. TypeOK'
      BY <1>1, <2>4, <2>5, <2>9, SameInputs DEF TypeOK, Phases
    <3>2. PhasesInv' /\ JournalInv'
      BY <1>2, <2>9 DEF PhasesInv, Running, JournalInv
    <3>3. \E k \in DOMAIN request.authorizations : ClearsAbsent(request.authorizations[k])
      BY <2>9 DEF Clearing
    <3>4. OnlyClearingsStop'
      <4>1. \E k \in DOMAIN request'.authorizations : ClearsAbsent(request.authorizations[k])'
        BY <1>1, <3>3, SameInputs, Zenon DEF ClearsAbsent, authority
      <4> QED BY <2>9, <4>1 DEF OnlyClearingsStop
    <3>5. OnlyCommitsChange' /\ EtherAccounted' /\ NoReplay' /\ ContractsKeepCode'
      BY <1>2, <2>9 DEF OnlyCommitsChange, EtherAccounted, NoReplay, ContractsKeepCode
    <3> QED BY <3>1, <3>2, <3>4, <3>5 DEF IInv
  <2> QED BY <1>1, <2>4, <2>7, <2>8, <2>9
<1> QED BY <1>3, <1>4

-----------------------------------------------------------------------------
(* The theorems *)

\* IInv is inductive: it holds at the start and every step of a transaction keeps it.
THEOREM Inductive == Spec => []IInv
<1>1. IInv /\ [Next]_vars => IInv'
  <2> SUFFICES ASSUME IInv, [Next]_vars PROVE IInv'
    OBVIOUS
  <2>1. CASE Start
    BY <2>1, StartStep
  <2>2. CASE prepare
    BY <2>2, PrepareStep
  <2>3. CASE authorize
    BY <2>3, AuthorizeStep
  <2>4. CASE message_fails
    BY <2>4, MessageFailsStep
  <2>5. CASE message_succeeds
    BY <2>5, MessageSucceedsStep
  <2>6. CASE charge
    BY <2>6, ChargeStep
  <2>7. CASE settle
    BY <2>7, SettleStep
  <2>8. CASE undo
    BY <2>8, UndoStep
  <2>9. CASE UNCHANGED vars
    <3>1. JournalInv'
      BY <2>9, Zenon DEF vars, IInv, JournalInv, state, Clearing, ClearsAbsent, authority
    <3> QED
      BY <2>9, <3>1 DEF vars, IInv, TypeOK, PhasesInv, Lasting, Validated, Bought, Burned,
         price, gas, OnlyClearingsStop, ClearsAbsent, authority, OnlyCommitsChange,
         EtherAccounted, NoReplay, ContractsKeepCode, Committed, Applied
  <2> QED BY <2>1, <2>2, <2>3, <2>4, <2>5, <2>6, <2>7, <2>8, <2>9 DEF Next
<1> QED BY InitIInv, <1>1, PTL DEF Spec

\* Every variable keeps its type: balances and nonces never go below zero, an absent
\* account holds nothing, and the journal holds changes.
THEOREM TypeCorrect == Spec => []TypeOK
<1>1. IInv => TypeOK
  BY DEF IInv
<1> QED BY Inductive, <1>1, PTL

\* What validate promised is there when apply spends it, on a chain whose ether fits in
\* one balance; and the undo's assertion stops the process for no transaction but one
\* that clears the delegation of an account that is not there.
THEOREM StopsOnlyByClearing == Spec => []OnlyClearingsStop
<1>1. IInv => OnlyClearingsStop
  BY DEF IInv
<1> QED BY Inductive, <1>1, PTL

\* Taking back the journaled changes of a transaction given up or simulated, one by
\* one, ends in the state it started from, whatever it wrote and wherever it failed.
THEOREM UndoneToTheStart == Spec => []OnlyCommitsChange
<1>1. IInv => OnlyCommitsChange
  BY DEF IInv
<1> QED BY Inductive, <1>1, PTL

\* Ether leaves the state only as base fee, blob fee and with destroyed accounts.
THEOREM EtherIsAccounted == Spec => []EtherAccounted
<1>1. IInv => EtherAccounted
  BY DEF IInv
<1> QED BY Inductive, <1>1, PTL

\* A committed transaction does not validate against the state it leaves.
THEOREM NonceIsSpent == Spec => []NoReplay
<1>1. IInv => NoReplay
  BY DEF IInv
<1> QED BY Inductive, <1>1, PTL

\* Contracts outlive every transaction.
THEOREM ContractsLast == Spec => []ContractsKeepCode
<1>1. IInv => ContractsKeepCode
  BY DEF IInv
<1> QED BY Inductive, <1>1, PTL
=============================================================================
