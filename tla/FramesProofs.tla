---------------------------- MODULE FramesProofs ----------------------------
(***************************************************************************)
(* The call stack keeps its promises to the message, for every set of      *)
(* accounts, every schedule of gas costs, and stacks of any depth.         *)
(***************************************************************************)
EXTENDS Frames, Sums, SequenceTheorems, TLAPS

(* The inductive invariant *)

Statuses == {OK, ERR_REVERT, ERR_OUT_OF_GAS, ERR_STATIC_WRITE, ERR_ADDRESS_COLLISION,
             ERR_HOST_ALLOCATION, ERR_BALANCE_OVERFLOW}
FrameType == [gas : Nat, status : Statuses, halted : BOOLEAN, creates : BOOLEAN, address : Addr]
CheckpointType == [world : World, static : BOOLEAN]

TypeOK ==
  /\ world \in World /\ start \in World
  /\ created \in SUBSET Addr /\ isStatic \in BOOLEAN
  /\ checkpoints \in Seq(CheckpointType) /\ frames \in Seq(FrameType)
  /\ pool \in Nat /\ open \in Int
  /\ result \in [status : Statuses, gas : Nat]
  /\ phase \in {"message", "running", "done"}

\* What every phase is sure of: the message's checkpoint keeps the start.
PhasesInv ==
  /\ phase = "message" => /\ world = start /\ created = {} /\ ~isStatic /\ open = 0
                          /\ frames = <<>> /\ checkpoints = <<>> /\ result.status = OK
  /\ phase = "running" => /\ Len(frames) >= 1 /\ Len(checkpoints) = Len(frames) + 1
                          /\ checkpoints[1].world = start /\ ~checkpoints[1].static
  /\ phase = "done" => frames = <<>> /\ checkpoints = <<>>

\* A caller waits for its child: it neither failed nor halted.
CallersWait == \A i \in 1..Len(frames) - 1 : frames[i].status = OK /\ ~frames[i].halted

\* The states that are kept or current, oldest first, and the static flag in each.
Kept == 1..Len(checkpoints) + 1
state(k) == IF k > Len(checkpoints) THEN world ELSE checkpoints[k].world
static(k) == IF k > Len(checkpoints) THEN isStatic ELSE checkpoints[k].static

\* No account loses its code or its nonce, and only created ones are doomed.
Heir(w) ==
  /\ \A a \in Addr : start.nonce[a] # 0 => w.nonce[a] # 0
  /\ \A a \in Addr : start.code[a] # NoCode => w.code[a] # NoCode
  /\ w.doomed \subseteq created

HeirsInv ==
  /\ \A k \in Kept : Heir(state(k))
  /\ \A a \in created : deployable(start, a)

\* From its first opcode on, a frame's account cannot be deployed to, and that of
\* a creation has a nonce and no code.
Occupied(w, f) ==
  /\ ~f.halted => ~deployable(w, f.address)
  /\ f.creates => w.nonce[f.address] # 0 /\ w.code[f.address] = NoCode

CreationsInv ==
  /\ \A i \in DOMAIN frames : \A k \in i + 2..Len(checkpoints) + 1 : Occupied(state(k), frames[i])
  /\ \A i, j \in DOMAIN frames :
       frames[i].creates /\ frames[j].creates /\ i # j => frames[i].address # frames[j].address

\* A static frame has left the state as its checkpoint kept it, and so has every
\* frame above it; it is no creation.  Checkpoint i + 1 is frame i's.
StaticInv ==
  /\ \A k, m \in Kept : k < m /\ static(k + 1) => static(m) /\ state(m) = state(k)
  /\ \A i \in DOMAIN frames : frames[i].creates => ~static(i + 2)

\* A kept state lost no ether, unless an account that held some is doomed.
EtherInv ==
  /\ EtherConserved
  /\ \A k \in DOMAIN checkpoints :
       LET w == checkpoints[k].world IN
       /\ total_balance(w) <= total_balance(start)
       /\ w.doomed = {} => total_balance(w) = total_balance(start)

IInv ==
  /\ TypeOK /\ PhasesInv /\ CallersWait /\ HeirsInv /\ CreationsInv /\ StaticInv /\ EtherInv
  /\ FailedMessageRestores /\ TracerBalanced

-----------------------------------------------------------------------------
(* Moving ether *)

\* The ether of a state is the sum of its balances.
LEMMA TotalNat ==
  ASSUME NEW w \in World
  PROVE  total_balance(w) \in Nat
<1>1. w.balance \in [Addr -> Nat]
  BY LimitAssumption DEF World
<1>2. total_balance(w) = Sum(w.balance, Addr)
  BY DEF total_balance, Sum
<1> QED BY <1>1, <1>2, AddrAssumption, SumNat

LEMMA TotalSame ==
  ASSUME NEW w, NEW u, u.balance = w.balance
  PROVE  total_balance(u) = total_balance(w)
<1>1. total_balance(w) = Sum(w.balance, Addr) /\ total_balance(u) = Sum(u.balance, Addr)
  BY DEF total_balance, Sum
<1> QED BY <1>1

LEMMA TotalExcept ==
  ASSUME NEW w \in World, NEW u, NEW a \in Addr, NEW v \in Nat,
         u.balance = [w.balance EXCEPT ![a] = v]
  PROVE  total_balance(u) = total_balance(w) - w.balance[a] + v
<1>1. w.balance \in [Addr -> Nat]
  BY LimitAssumption DEF World
<1>2. total_balance(w) = Sum(w.balance, Addr) /\ total_balance(u) = Sum(u.balance, Addr)
  BY DEF total_balance, Sum
<1> QED BY <1>1, <1>2, AddrAssumption, SumExcept

\* A transfer touches nothing but the two balances, which stay in range, and
\* nothing at all when they are the same account's.
LEMMA TransferFacts ==
  ASSUME NEW w \in World, NEW from \in Addr, NEW to \in Addr, NEW v \in Nat,
         v <= w.balance[from], NEW t \in transfers(w, from, to, v)
  PROVE  /\ t[1] \in World /\ t[2] \in {OK, ERR_HOST_ALLOCATION, ERR_BALANCE_OVERFLOW}
         /\ t[1].nonce = w.nonce /\ t[1].code = w.code /\ t[1].doomed = w.doomed
         /\ from = to => t[1] = w
         /\ total_balance(t[1]) <= total_balance(w)
         /\ t[2] = OK => total_balance(t[1]) = total_balance(w)
<1> DEFINE debited == [w EXCEPT !.balance[from] = @ - v]
           credited == [debited EXCEPT !.balance[to] = @ + v]
<1>1. debited \in World /\ debited.nonce = w.nonce /\ debited.code = w.code
      /\ debited.doomed = w.doomed
  BY LimitAssumption DEF World
<1>2. ASSUME from # to, ~(v > MaxBalance - w.balance[to])
      PROVE  credited \in World /\ credited.nonce = w.nonce /\ credited.code = w.code
             /\ credited.doomed = w.doomed
  <2>1. debited.balance[to] = w.balance[to]
    BY <1>2 DEF World
  <2>2. debited.balance[to] + v \in 0..MaxBalance
    BY <1>2, <2>1, LimitAssumption DEF World
  <2> HIDE DEF debited
  <2> QED BY <1>1, <2>2 DEF World
<1>t. total_balance(w) \in Nat
  BY TotalNat
<1>d. total_balance(debited) = total_balance(w) - v
  <2>1. debited.balance = [w.balance EXCEPT ![from] = w.balance[from] - v]
        /\ w.balance[from] \in Nat
    BY LimitAssumption DEF World
  <2>2. w.balance[from] - v \in Nat
    BY <2>1
  <2> HIDE DEF debited
  <2> QED BY <1>t, <2>1, <2>2, TotalExcept
<1>c. ASSUME from # to PROVE total_balance(credited) = total_balance(w)
  <2>1. debited.balance[to] = w.balance[to] /\ w.balance[to] \in Nat
    BY <1>c, LimitAssumption DEF World
  <2>2. credited.balance = [debited.balance EXCEPT ![to] = w.balance[to] + v]
    <3>1. credited.balance = [debited.balance EXCEPT ![to] = debited.balance[to] + v]
      <4> HIDE DEF debited
      <4> QED BY <1>1 DEF World
    <3> QED BY <2>1, <3>1
  <2> HIDE DEF debited, credited
  <2>3. total_balance(credited) = total_balance(debited) - debited.balance[to] + (w.balance[to] + v)
    BY <1>1, <2>1, <2>2, TotalExcept
  <2> QED BY <1>t, <1>d, <2>1, <2>3
<1> HIDE DEF debited, credited
<1>3. CASE from = to
  BY <1>3, <1>t DEF transfers
<1>4. CASE from # to /\ v > MaxBalance - w.balance[to]
  BY <1>4, <1>t DEF transfers, OK, ERR_BALANCE_OVERFLOW
<1>5. CASE from # to /\ ~(v > MaxBalance - w.balance[to])
  <2>1. t \in {<<credited, OK>>, <<w, ERR_HOST_ALLOCATION>>, <<debited, ERR_HOST_ALLOCATION>>}
    BY <1>5 DEF transfers, credited, debited
  <2>2. total_balance(debited) <= total_balance(w) /\ total_balance(credited) = total_balance(w)
    BY <1>t, <1>c, <1>d, <1>5
  <2>3. CASE t = <<credited, OK>>
    BY <1>2, <1>5, <1>t, <2>2, <2>3
  <2>4. CASE t = <<w, ERR_HOST_ALLOCATION>>
    BY <1>5, <1>t, <2>4 DEF OK, ERR_HOST_ALLOCATION
  <2>5. CASE t = <<debited, ERR_HOST_ALLOCATION>>
    BY <1>1, <1>5, <2>2, <2>5 DEF OK, ERR_HOST_ALLOCATION
  <2> QED BY <2>1, <2>3, <2>4, <2>5
<1> QED BY <1>3, <1>4, <1>5

\* A call that moves no ether, or moves it to the caller itself, changes nothing.
LEMMA MoveFacts ==
  ASSUME NEW w \in World, NEW from \in Addr, NEW to \in Addr, NEW v \in Nat,
         v <= w.balance[from], NEW t \in moves(w, from, to, v)
  PROVE  /\ t[1] \in World /\ t[2] \in {OK, ERR_HOST_ALLOCATION, ERR_BALANCE_OVERFLOW}
         /\ t[1].nonce = w.nonce /\ t[1].code = w.code /\ t[1].doomed = w.doomed
         /\ v = 0 \/ from = to => t[1] = w
         /\ total_balance(t[1]) <= total_balance(w)
         /\ t[2] = OK => total_balance(t[1]) = total_balance(w)
<1>1. CASE v = 0
  BY <1>1, TotalNat DEF moves
<1>2. CASE v # 0
  <2>1. t \in transfers(w, from, to, v)
    BY <1>2 DEF moves
  <2> QED BY <1>2, <2>1, TransferFacts
<1> QED BY <1>1, <1>2

\* A nonce below the limit goes up by one.
LEMMA IncrementFacts ==
  ASSUME NEW w \in World, NEW a \in Addr, w.nonce[a] # MaxNonce
  PROVE  /\ incremented(w, a) \in World
         /\ incremented(w, a).balance = w.balance /\ incremented(w, a).code = w.code
         /\ incremented(w, a).doomed = w.doomed
         /\ incremented(w, a).nonce[a] # 0
         /\ \A x \in Addr : x # a => incremented(w, a).nonce[x] = w.nonce[x]
BY LimitAssumption DEF World, incremented

\* The prologue of a creation gives the new account a nonce and moves the endowment.
LEMMA BeginCreateFacts ==
  ASSUME NEW w \in World, NEW from \in Addr, NEW a \in Addr, NEW v \in Nat,
         v <= w.balance[from], w.nonce[a] = 0, NEW b \in begin_create(w, from, a, v)
  PROVE  /\ b[2] \in {OK, ERR_HOST_ALLOCATION, ERR_BALANCE_OVERFLOW}
         /\ b[2] = OK => /\ b[1] \in World /\ b[1].code = w.code /\ b[1].doomed = w.doomed
                         /\ b[1].nonce[a] # 0
                         /\ \A x \in Addr : x # a => b[1].nonce[x] = w.nonce[x]
                         /\ total_balance(b[1]) = total_balance(w)
<1>1. CASE b = <<w, ERR_HOST_ALLOCATION>>
  BY <1>1 DEF OK, ERR_HOST_ALLOCATION
<1>2. CASE b \in moves(incremented(w, a), from, a, v)
  <2> DEFINE u == incremented(w, a)
  <2>1. w.nonce[a] # MaxNonce
    BY LimitAssumption
  <2>2. /\ u \in World /\ u.balance = w.balance /\ u.code = w.code /\ u.doomed = w.doomed
        /\ u.nonce[a] # 0
        /\ \A x \in Addr : x # a => u.nonce[x] = w.nonce[x]
        /\ total_balance(u) = total_balance(w)
    BY <2>1, IncrementFacts, TotalSame
  <2> HIDE DEF u
  <2>3. b \in moves(u, from, a, v)
    BY <1>2 DEF u
  <2>4. /\ b[1] \in World /\ b[2] \in {OK, ERR_HOST_ALLOCATION, ERR_BALANCE_OVERFLOW}
        /\ b[1].nonce = u.nonce /\ b[1].code = u.code /\ b[1].doomed = u.doomed
        /\ b[2] = OK => total_balance(b[1]) = total_balance(u)
    <3>1. v <= u.balance[from]
      BY <2>2
    <3> QED BY <2>2, <2>3, <3>1, MoveFacts
  <2> QED BY <2>2, <2>4
<1> QED BY <1>1, <1>2 DEF begin_create

-----------------------------------------------------------------------------
(* Frames and their ends *)

\* A new frame.
LEMMA FrameFacts ==
  ASSUME NEW gas \in Nat, NEW a \in Addr, NEW creates \in BOOLEAN
  PROVE  /\ Frame(gas, a, creates) \in FrameType
         /\ Frame(gas, a, creates).gas = gas /\ Frame(gas, a, creates).status = OK
         /\ Frame(gas, a, creates).halted = FALSE
         /\ Frame(gas, a, creates).creates = creates /\ Frame(gas, a, creates).address = a
BY DEF FrameType, Statuses, Frame

\* A fault keeps a frame's account and purpose; on a running frame it is its status.
LEMMA FaultFacts ==
  ASSUME NEW f \in FrameType, NEW s \in Statuses
  PROVE  /\ fault(f, s) \in FrameType
         /\ fault(f, s).creates = f.creates /\ fault(f, s).address = f.address
         /\ fault(f, s).halted = f.halted
         /\ f.status = OK => fault(f, s).status = s
         /\ f.status # OK => fault(f, s) = f
<1>1. CASE f.status # OK
  BY <1>1 DEF fault
<1>2. CASE f.status = OK
  <2> DEFINE n == IF exceptional(s) THEN 0 ELSE f.gas
  <2>1. n \in Nat
    BY DEF FrameType
  <2>2. fault(f, s) = [f EXCEPT !.status = s, !.gas = n]
    BY <1>2 DEF fault
  <2> HIDE DEF n
  <2> QED BY <1>2, <2>1, <2>2 DEF FrameType
<1> QED BY <1>1, <1>2

\* A caller takes a child's result, and its status only when the host failed.
LEMMA AcceptFacts ==
  ASSUME NEW f \in FrameType, NEW s \in Statuses, NEW g \in Nat
  PROVE  /\ accept_child(f, s, g) \in FrameType
         /\ accept_child(f, s, g).creates = f.creates
         /\ accept_child(f, s, g).address = f.address
         /\ accept_child(f, s, g).halted = f.halted
         /\ is_evm_outcome(s) => accept_child(f, s, g).status = f.status
         /\ ~is_evm_outcome(s) /\ f.status = OK => accept_child(f, s, g).status = s
<1>1. CASE ~is_evm_outcome(s)
  BY <1>1, FaultFacts DEF accept_child
<1>2. CASE is_evm_outcome(s)
  <2>1. accept_child(f, s, g) = [f EXCEPT !.gas = @ + IF s \in {OK, ERR_REVERT} THEN g ELSE 0]
    BY <1>2 DEF accept_child
  <2> QED BY <1>2, <2>1 DEF FrameType
<1> QED BY <1>1, <1>2

\* A frame that ends leaves the state alone, unless it is a creation that went well:
\* then it may have written its account's code.
LEMMA DepositFacts ==
  ASSUME NEW f \in FrameType, NEW w \in World, NEW d \in deposits(f, w)
  PROVE  /\ d[1] \in FrameType /\ d[2] \in World
         /\ f.status # OK => d[1] = f
         /\ d[2] = w \/ /\ f.creates /\ d[1].status = OK
                        /\ \E code \in {NoCode, Contract} : d[2] = [w EXCEPT !.code[f.address] = code]
<1>1. CASE ~f.creates \/ f.status # OK
  BY <1>1 DEF deposits
<1>2. CASE f.creates /\ f.status = OK
  <2>1. CASE d \in {<<fault(f, ERR_OUT_OF_GAS), w>>, <<fault(f, ERR_HOST_ALLOCATION), w>>}
    BY <1>2, <2>1, FaultFacts DEF Statuses
  <2>2. ASSUME NEW c \in DepositCosts, c <= f.gas, NEW code \in {NoCode, Contract},
               d = <<[f EXCEPT !.gas = @ - c], [w EXCEPT !.code[f.address] = code]>>
        PROVE  d[1] \in FrameType /\ d[1].status = OK /\ d[2] \in World
    <3>1. [f EXCEPT !.gas = @ - c] \in FrameType /\ [f EXCEPT !.gas = @ - c].status = OK
      BY <1>2, <2>2, CostAssumption DEF FrameType
    <3>2. [w EXCEPT !.code[f.address] = code] \in World
      BY DEF World, Codes, FrameType
    <3> QED BY <2>2, <3>1, <3>2
  <2> QED BY <1>2, <2>1, <2>2 DEF deposits
<1> QED BY <1>1, <1>2

-----------------------------------------------------------------------------
(* The stack *)

\* While the message runs, its stack has a top frame and one checkpoint more than frames.
LEMMA StackFacts ==
  ASSUME IInv, phase = "running"
  PROVE  /\ frames \in Seq(FrameType) /\ Len(frames) \in Nat /\ Len(frames) >= 1
         /\ Top = frames[Len(frames)] /\ Top \in FrameType /\ Top.address \in Addr
         /\ checkpoints \in Seq(CheckpointType) /\ Len(checkpoints) = Len(frames) + 1
         /\ world \in World /\ created \in SUBSET Addr /\ isStatic \in BOOLEAN /\ start \in World
<1>1. frames \in Seq(FrameType) /\ Len(frames) \in Nat /\ Len(frames) >= 1
  BY DEF IInv, TypeOK, PhasesInv
<1>2. Top = frames[Len(frames)] /\ Top \in FrameType
  BY <1>1 DEF Top
<1> QED BY <1>1, <1>2 DEF IInv, TypeOK, PhasesInv, FrameType

\* Replacing the top frame leaves the others where they are.
LEMMA SetTopFacts ==
  ASSUME IInv, phase = "running", NEW f \in FrameType, SetTop(f)
  PROVE  /\ frames' \in Seq(FrameType) /\ Len(frames') = Len(frames)
         /\ DOMAIN frames' = 1..Len(frames) /\ frames'[Len(frames)] = f
         /\ \A i \in 1..Len(frames) - 1 : frames'[i] = frames[i]
<1>1. frames \in Seq(FrameType) /\ Len(frames) \in 1..Len(frames)
  BY StackFacts
<1>2. frames' = [frames EXCEPT ![Len(frames)] = f]
  BY DEF SetTop
<1> QED BY <1>1, <1>2, ExceptSeq

\* The host has not failed while the top frame runs.
LEMMA RunningHasNotFailed ==
  ASSUME IInv, Running
  PROVE  ~HostFailed
<1>1. phase = "running" /\ Top.status = OK
  BY DEF Running
<1>2. \A i \in DOMAIN frames : frames[i].status = OK
  <2>1. DOMAIN frames = 1..Len(frames) /\ frames[Len(frames)].status = OK /\ Len(frames) \in Nat
    BY <1>1, StackFacts
  <2> QED BY <2>1 DEF IInv, CallersWait
<1> QED BY <1>1, <1>2 DEF HostFailed, is_evm_outcome

\* What a step of the top frame may leave of the state and the created accounts.
Successor(w, c) ==
  /\ w \in World /\ w.code = world.code
  /\ \A a \in Addr : world.nonce[a] # 0 => w.nonce[a] # 0
  /\ w.doomed \subseteq c /\ world.doomed \subseteq w.doomed
  /\ total_balance(w) <= total_balance(world)
  /\ isStatic => w = world
  /\ created \subseteq c /\ c \in SUBSET Addr /\ \A a \in c \ created : deployable(world, a)

\* Only a doomed account burns what it holds.
Conserves(w) == w.doomed = {} => total_balance(w) = total_balance(world)

\* The state is its own successor.
LEMMA WorldFacts ==
  ASSUME IInv
  PROVE  /\ Heir(world) /\ world \in World /\ created \in SUBSET Addr
         /\ Successor(world, created) /\ Conserves(world) /\ total_balance(world) \in Nat
<1>1. Len(checkpoints) + 1 \in Kept /\ state(Len(checkpoints) + 1) = world
  BY DEF Kept, state, IInv, TypeOK
<1>2. Heir(world)
  BY <1>1 DEF IInv, HeirsInv
<1>3. world \in World /\ total_balance(world) \in Nat
  BY TotalNat DEF IInv, TypeOK
<1> QED BY <1>2, <1>3 DEF Successor, Conserves, Heir, IInv, TypeOK

\* A successor inherits from the start, and occupies whatever account was occupied.
LEMMA SuccessorFacts ==
  ASSUME IInv, NEW w, NEW c, Successor(w, c)
  PROVE  /\ \A a \in Addr : start.nonce[a] # 0 => w.nonce[a] # 0
         /\ \A a \in Addr : start.code[a] # NoCode => w.code[a] # NoCode
         /\ w.doomed \subseteq c
         /\ \A a \in c : deployable(start, a)
         /\ \A f \in FrameType : Occupied(world, f) => Occupied(w, f)
<1>1. Heir(world)
  BY WorldFacts
<1>2. \A a \in c : deployable(start, a)
  BY <1>1 DEF Successor, Heir, IInv, HeirsInv, deployable
<1>3. \A f \in FrameType : Occupied(world, f) => Occupied(w, f)
  BY DEF Successor, Occupied, deployable, FrameType
<1>4. \A a \in Addr : start.nonce[a] # 0 => w.nonce[a] # 0
  BY <1>1 DEF Heir, Successor
<1>5. \A a \in Addr : start.code[a] # NoCode => w.code[a] # NoCode
  BY <1>1 DEF Heir, Successor
<1>6. w.doomed \subseteq c
  BY DEF Successor
<1> QED BY <1>2, <1>3, <1>4, <1>5, <1>6

\* A successor's ether, next to the start's.
LEMMA SuccessorEther ==
  ASSUME IInv, ~HostFailed, NEW w, NEW c, Successor(w, c)
  PROVE  /\ total_balance(w) <= total_balance(start)
         /\ Conserves(w) /\ w.doomed = {} => total_balance(w) = total_balance(start)
<1>1. total_balance(world) \in Nat /\ total_balance(w) \in Nat /\ total_balance(start) \in Nat
  BY TotalNat DEF IInv, TypeOK, Successor
<1>2. /\ total_balance(world) <= total_balance(start)
      /\ world.doomed = {} => total_balance(world) = total_balance(start)
  BY DEF IInv, EtherInv, EtherConserved
<1> QED BY <1>1, <1>2 DEF Successor, Conserves

\* The parts of the invariant, one frame or one pair of states at a time.
LEMMA OccupiedFact ==
  ASSUME IInv, NEW i \in DOMAIN frames, NEW k \in i + 2..Len(checkpoints) + 1
  PROVE  Occupied(state(k), frames[i])
BY DEF IInv, CreationsInv

LEMMA DistinctFact ==
  ASSUME IInv, NEW i \in DOMAIN frames, NEW j \in DOMAIN frames, i # j,
         frames[i].creates, frames[j].creates
  PROVE  frames[i].address # frames[j].address
BY DEF IInv, CreationsInv

LEMMA StaticFact ==
  ASSUME IInv, NEW k \in Kept, NEW m \in Kept, k < m, static(k + 1)
  PROVE  static(m) /\ state(m) = state(k)
BY DEF IInv, StaticInv

LEMMA CreationIsNotStatic ==
  ASSUME IInv, NEW i \in DOMAIN frames, frames[i].creates
  PROVE  ~static(i + 2)
BY DEF IInv, StaticInv

\* A step of the top frame alone keeps the invariant; when it fails the host, the
\* tracer may be left with an enter that nothing leaves.
LEMMA TopSteps ==
  ASSUME IInv, Running, NEW f \in FrameType, NEW w, NEW c,
         f.creates = Top.creates, f.address = Top.address, Successor(w, c),
         is_evm_outcome(f.status) => Conserves(w),
         SetTop(f), world' = w, created' = c,
         pool' \in Nat, open' \in Int, is_evm_outcome(f.status) => open' = open,
         UNCHANGED <<isStatic, checkpoints, result, start, phase>>
  PROVE  IInv'
<1>1. phase = "running" /\ ~Top.halted
  BY DEF Running
<1> USE <1>1
<1>2. /\ frames \in Seq(FrameType) /\ Len(frames) \in Nat /\ Len(frames) >= 1
      /\ Top = frames[Len(frames)] /\ Top \in FrameType
      /\ checkpoints \in Seq(CheckpointType) /\ Len(checkpoints) = Len(frames) + 1
  BY StackFacts
<1>3. /\ frames' \in Seq(FrameType) /\ Len(frames') = Len(frames)
      /\ DOMAIN frames' = 1..Len(frames) /\ frames'[Len(frames)] = f
      /\ \A i \in 1..Len(frames) - 1 : frames'[i] = frames[i]
  BY SetTopFacts
<1>4. TypeOK'
  BY <1>3 DEF IInv, TypeOK, Successor
<1>5. PhasesInv'
  BY <1>3 DEF IInv, PhasesInv
<1>6. CallersWait'
  BY <1>2, <1>3 DEF IInv, CallersWait
<1>7. \A k \in Kept : state(k)' = IF k = Len(checkpoints) + 1 THEN w ELSE state(k)
  BY <1>2 DEF Kept, state
<1>8. Kept' = Kept /\ \A k \in Kept : static(k)' = static(k)
  BY DEF Kept, static
<1>9. HeirsInv'
  <2>1. \A k \in Kept : Heir(state(k))'
    <3> TAKE k \in Kept
    <3>1. CASE k = Len(checkpoints) + 1
      BY <1>7, <3>1, SuccessorFacts DEF Heir
    <3>2. CASE k # Len(checkpoints) + 1
      <4>1. Heir(state(k)) /\ state(k)' = state(k) /\ created \subseteq c
        BY <1>7, <3>2 DEF IInv, HeirsInv, Successor
      <4> QED BY <4>1 DEF Heir
    <3> QED BY <3>1, <3>2
  <2>2. \A a \in c : deployable(start, a)
    BY SuccessorFacts
  <2> QED BY <1>8, <2>1, <2>2 DEF HeirsInv, deployable
<1>10. CreationsInv'
  <2>1. ASSUME NEW i \in 1..Len(frames), NEW k \in i + 2..Len(checkpoints) + 1
        PROVE  Occupied(state(k)', frames'[i])
    <3>1. k \in Kept /\ Occupied(state(k), frames[i]) /\ frames[i] \in FrameType
      BY <1>2 DEF IInv, CreationsInv, Kept
    <3>2. Occupied(state(k)', frames[i])
      <4>1. CASE k = Len(checkpoints) + 1
        <5>1. state(k) = world /\ state(k)' = w
          BY <1>2, <1>7, <3>1, <4>1 DEF state
        <5> QED BY <3>1, <5>1, SuccessorFacts
      <4>2. CASE k # Len(checkpoints) + 1
        BY <1>7, <3>1, <4>2
      <4> QED BY <4>1, <4>2
    <3>3. CASE i = Len(frames)
      BY <1>2, <1>3, <3>2, <3>3 DEF Occupied
    <3>4. CASE i # Len(frames)
      <4>1. i \in 1..Len(frames) - 1
        BY <1>2, <3>4
      <4> QED BY <1>3, <3>2, <4>1
    <3> QED BY <3>3, <3>4
  <2>2. \A i \in 1..Len(frames) :
          frames'[i].creates = frames[i].creates /\ frames'[i].address = frames[i].address
    BY <1>2, <1>3
  <2>3. ASSUME NEW i \in 1..Len(frames), NEW j \in 1..Len(frames), i # j,
               frames'[i].creates, frames'[j].creates
        PROVE  frames'[i].address # frames'[j].address
    <3>1. i \in DOMAIN frames /\ j \in DOMAIN frames
      BY <1>2
    <3> QED BY <2>2, <2>3, <3>1, DistinctFact
  <2> QED BY <1>2, <1>3, <2>1, <2>3 DEF CreationsInv, Occupied
<1>11. StaticInv'
  <2>1. ASSUME NEW k \in Kept, NEW m \in Kept, k < m, static(k + 1)
        PROVE  static(m) /\ state(m)' = state(k)'
    <3>1. static(m) /\ state(m) = state(k)
      BY <2>1 DEF IInv, StaticInv
    <3>2. state(k)' = state(k)
      BY <1>2, <1>7, <2>1 DEF Kept
    <3>3. CASE m = Len(checkpoints) + 1
      <4>1. static(m) = isStatic /\ state(m) = world
        BY <1>2, <3>3 DEF static, state
      <4>2. isStatic /\ w = world
        BY <3>1, <4>1 DEF Successor
      <4>3. state(m)' = w
        BY <1>7, <3>3
      <4> QED BY <3>1, <3>2, <4>1, <4>2, <4>3
    <3>4. CASE m # Len(checkpoints) + 1
      BY <1>7, <3>1, <3>2, <3>4
    <3> QED BY <3>1, <3>3, <3>4
  <2>2. \A k \in Kept : k + 1 \in Kept \/ k = Len(checkpoints) + 1
    BY <1>2 DEF Kept
  <2>3. \A k, m \in Kept : k < m => k + 1 \in Kept
    BY <1>2 DEF Kept
  <2>4. ASSUME NEW i \in 1..Len(frames), frames'[i].creates
        PROVE  ~static(i + 2)'
    <3>1. frames[i].creates
      BY <1>2, <1>3, <2>4
    <3>2. ~static(i + 2) /\ i + 2 \in Kept
      BY <1>2, <3>1 DEF IInv, StaticInv, Kept
    <3> QED BY <1>8, <3>2
  <2>5. \A k, m \in Kept : k < m /\ static(k + 1)' => static(m)' /\ state(m)' = state(k)'
    BY <1>8, <2>1, <2>3
  <2> QED BY <1>3, <1>8, <2>4, <2>5 DEF StaticInv
<1>12. FailedMessageRestores'
  BY DEF FailedMessageRestores
<1>13. ~HostFailed' => is_evm_outcome(f.status)
  BY <1>2, <1>3 DEF HostFailed, is_evm_outcome, exceptional
<1>14. TracerBalanced'
  <2>1. depth' = depth
    BY <1>2, <1>3 DEF depth
  <2> QED BY <1>13, <2>1, RunningHasNotFailed DEF IInv, TracerBalanced
<1>15. EtherInv'
  <2>1. EtherConserved'
    <3>1. /\ total_balance(w) <= total_balance(start)
          /\ Conserves(w) /\ w.doomed = {} => total_balance(w) = total_balance(start)
      BY RunningHasNotFailed, SuccessorEther
    <3> QED BY <1>13, <3>1 DEF EtherConserved
  <2> QED BY <2>1 DEF IInv, EtherInv
<1> QED BY <1>4, <1>5, <1>6, <1>9, <1>10, <1>11, <1>12, <1>14, <1>15 DEF IInv

\* Where a frame and a state stand when one frame is added to n.
LEMMA WhereAbove ==
  ASSUME NEW n \in Nat, NEW i \in 1..n + 1, NEW k \in i + 2..n + 3
  PROVE  \/ k = n + 3 /\ i = n + 1
         \/ k \in {n + 2, n + 3} /\ i \in 1..n
         \/ k \in i + 2..n + 1 /\ k \in 1..n + 1 /\ i \in 1..n
<1>1. CASE i = n + 1
  BY <1>1
<1>2. CASE i # n + 1 /\ k <= n + 1
  BY <1>2
<1>3. CASE i # n + 1 /\ k > n + 1
  BY <1>3
<1> QED BY <1>1, <1>2, <1>3

\* A checkpoint that keeps another state than the current one.
LEMMA KeptBefore ==
  ASSUME NEW r \in CheckpointType, NEW w \in World
  PROVE  [r EXCEPT !.world = w] = [world |-> w, static |-> r.static]
BY DEF CheckpointType

\* A frame that starts keeps the invariant: its checkpoint holds the successor it
\* was given, and what it runs in differs from it only by the ether it received.
LEMMA ChildStarts ==
  ASSUME IInv, Running, NEW caller \in FrameType, NEW child \in FrameType,
         NEW before, NEW w \in World, NEW c, NEW s \in BOOLEAN,
         caller.status = OK, ~caller.halted,
         caller.creates = Top.creates, caller.address = Top.address,
         Successor(before, c), Conserves(before),
         w.code = before.code, w.doomed = before.doomed,
         total_balance(w) = total_balance(before),
         \A a \in Addr : before.nonce[a] # 0 => w.nonce[a] # 0,
         isStatic \/ s => w = before,
         Occupied(w, child),
         child.creates => deployable(world, child.address) /\ ~isStatic /\ ~s,
         frames' = Append([frames EXCEPT ![Len(frames)] = caller], child),
         checkpoints' = Append(checkpoints, [world |-> before, static |-> isStatic]),
         isStatic' = (isStatic \/ s), world' = w, created' = c,
         pool' \in Nat, open' = open + 1, UNCHANGED <<result, start, phase>>
  PROVE  IInv'
<1> DEFINE kept == [world |-> before, static |-> isStatic]
<1>1. phase = "running" /\ ~Top.halted
  BY DEF Running
<1> USE <1>1
<1>n. PICK n \in Nat : n = Len(frames)
  BY StackFacts
<1>2. /\ frames \in Seq(FrameType) /\ n = Len(frames) /\ n \in Nat /\ n >= 1
      /\ DOMAIN frames = 1..n
      /\ Top = frames[n] /\ Top \in FrameType
      /\ checkpoints \in Seq(CheckpointType) /\ Len(checkpoints) = n + 1
      /\ isStatic \in BOOLEAN
  BY <1>n, StackFacts
<1>3. /\ frames' \in Seq(FrameType) /\ Len(frames') = n + 1 /\ DOMAIN frames' = 1..n + 1
      /\ frames'[n + 1] = child /\ frames'[n] = caller
      /\ \A i \in 1..n - 1 : frames'[i] = frames[i]
  <2> DEFINE fs == [frames EXCEPT ![n] = caller]
  <2>1. fs \in Seq(FrameType) /\ Len(fs) = n /\ fs[n] = caller
        /\ \A i \in 1..n - 1 : fs[i] = frames[i]
    BY <1>2, ExceptSeq
  <2>2. frames' = Append(fs, child)
    BY <1>2
  <2> HIDE DEF fs
  <2> QED BY <1>2, <2>1, <2>2, AppendProperties
<1>4. /\ checkpoints' \in Seq(CheckpointType) /\ Len(checkpoints') = n + 2
      /\ checkpoints'[n + 2] = kept
      /\ \A k \in 1..n + 1 : checkpoints'[k] = checkpoints[k]
  <2>1. kept \in CheckpointType
    BY <1>2 DEF CheckpointType, Successor
  <2> HIDE DEF kept
  <2> QED BY <1>2, <2>1, AppendProperties DEF kept
<1>5. /\ Kept' = 1..n + 3 /\ Kept = 1..n + 2
      /\ state(n + 3)' = w /\ state(n + 2)' = before /\ state(n + 2) = world
      /\ \A k \in 1..n + 1 : state(k)' = state(k)
  BY <1>2, <1>4 DEF Kept, state
<1>6. /\ static(n + 3)' = (isStatic \/ s) /\ static(n + 2) = isStatic
      /\ \A k \in 1..n + 2 : static(k)' = static(k)
  BY <1>2, <1>4 DEF static
<1>7. /\ \A a \in Addr : start.nonce[a] # 0 => before.nonce[a] # 0 /\ w.nonce[a] # 0
      /\ \A a \in Addr : start.code[a] # NoCode => before.code[a] # NoCode /\ w.code[a] # NoCode
      /\ before.doomed \subseteq c /\ w.doomed \subseteq c /\ created \subseteq c
      /\ \A a \in c : deployable(start, a)
  BY SuccessorFacts DEF Successor
<1>8. \A f \in FrameType : Occupied(world, f) => Occupied(before, f) /\ Occupied(w, f)
  <2>1. \A f \in FrameType : Occupied(before, f) => Occupied(w, f)
    BY DEF Occupied, deployable, FrameType
  <2> QED BY <2>1, SuccessorFacts
<1>9. TypeOK'
  BY <1>2, <1>3, <1>4 DEF IInv, TypeOK, Successor
<1>10. PhasesInv'
  BY <1>2, <1>3, <1>4 DEF IInv, PhasesInv
<1>11. CallersWait'
  BY <1>2, <1>3 DEF IInv, CallersWait
<1>12. HeirsInv'
  <2>1. \A k \in 1..n + 1 : Heir(state(k))'
    <3> TAKE k \in 1..n + 1
    <3>1. Heir(state(k)) /\ state(k)' = state(k)
      BY <1>5, <1>2 DEF IInv, HeirsInv
    <3> QED BY <1>7, <3>1 DEF Heir
  <2>2. Heir(state(n + 2))' /\ Heir(state(n + 3))'
    BY <1>5, <1>7 DEF Heir
  <2>3. \A k \in 1..n + 3 : Heir(state(k))'
    BY <1>2, <2>1, <2>2
  <2> QED BY <1>5, <1>7, <2>3 DEF HeirsInv, deployable
<1>13. CreationsInv'
  <2>1. \A i \in 1..n : frames'[i] \in FrameType /\ Occupied(world, frames'[i])
                        /\ frames'[i].creates = frames[i].creates
                        /\ frames'[i].address = frames[i].address
                        /\ frames'[i].halted = frames[i].halted
    <3> TAKE i \in 1..n
    <3>1. /\ frames'[i].creates = frames[i].creates /\ frames'[i].address = frames[i].address
          /\ frames'[i].halted = frames[i].halted /\ frames'[i] \in FrameType
      <4>1. CASE i = n
        <5>1. caller.halted = FALSE /\ Top.halted = FALSE
          BY <1>2 DEF FrameType
        <5> QED BY <1>2, <1>3, <4>1, <5>1
      <4>2. CASE i \in 1..n - 1
        BY <1>2, <1>3, <4>2, ElementOfSeq
      <4> QED BY <1>2, <4>1, <4>2
    <3>2. n + 2 \in i + 2..Len(checkpoints) + 1
      BY <1>2
    <3>3. Occupied(world, frames[i])
      BY <1>2, <1>5, <3>2 DEF IInv, CreationsInv
    <3> QED BY <3>1, <3>3 DEF Occupied
  <2>2. ASSUME NEW i \in 1..n + 1, NEW k \in i + 2..n + 3
        PROVE  Occupied(state(k)', frames'[i])
    <3>1. CASE k = n + 3 /\ i = n + 1
      BY <1>3, <1>5, <3>1
    <3>2. CASE k \in {n + 2, n + 3} /\ i \in 1..n
      BY <1>5, <1>8, <2>1, <3>2
    <3>3. CASE k \in i + 2..n + 1 /\ k \in 1..n + 1 /\ i \in 1..n
      <4>0. i \in DOMAIN frames /\ k \in i + 2..Len(checkpoints) + 1
        BY <1>2, <3>3
      <4>1. Occupied(state(k), frames[i])
        BY <4>0, OccupiedFact
      <4> QED BY <1>5, <2>1, <3>3, <4>1 DEF Occupied
    <3> QED BY <3>1, <3>2, <3>3, WhereAbove
  <2>3. ASSUME NEW i \in 1..n, frames'[i].creates, child.creates
        PROVE  frames'[i].address # child.address
    BY <2>1, <2>3 DEF Occupied, deployable
  <2>4. ASSUME NEW i \in 1..n + 1, NEW j \in 1..n + 1,
               frames'[i].creates, frames'[j].creates, i # j
        PROVE  frames'[i].address # frames'[j].address
    <3>1. CASE i \in 1..n /\ j \in 1..n
      <4>1. /\ i \in DOMAIN frames /\ j \in DOMAIN frames
            /\ frames[i].creates /\ frames[j].creates
            /\ frames'[i].address = frames[i].address /\ frames'[j].address = frames[j].address
        BY <1>2, <2>1, <2>4, <3>1
      <4> QED BY <2>4, <4>1, DistinctFact
    <3>2. CASE i = n + 1 /\ j \in 1..n
      <4>1. frames'[i] = child
        BY <1>3, <3>2
      <4> QED BY <2>3, <2>4, <3>2, <4>1
    <3>3. CASE j = n + 1 /\ i \in 1..n
      <4>1. frames'[j] = child
        BY <1>3, <3>3
      <4> QED BY <2>3, <2>4, <3>3, <4>1
    <3>4. \/ i \in 1..n /\ j \in 1..n
          \/ i = n + 1 /\ j \in 1..n
          \/ j = n + 1 /\ i \in 1..n
      BY <2>4
    <3> QED BY <3>1, <3>2, <3>3, <3>4
  <2>5. \A i \in DOMAIN frames' : \A k \in i + 2..Len(checkpoints') + 1 :
          Occupied(state(k), frames[i])'
    BY <1>3, <1>4, <2>2, SMTT(30) DEF Occupied
  <2> QED BY <1>3, <2>4, <2>5 DEF CreationsInv
<1>14. StaticInv'
  <2>1. \A k \in 1..n + 1 : static(k + 1) => isStatic /\ state(k) = world
    BY <1>2, <1>5, <1>6 DEF IInv, StaticInv
  <2>2. isStatic => before = world
    BY DEF Successor
  <2>3. ASSUME NEW k \in 1..n + 3, NEW m \in 1..n + 3, k < m, static(k + 1)'
        PROVE  static(m)' /\ state(m)' = state(k)'
    <3>1. CASE k = n + 2
      BY <1>2, <1>5, <1>6, <2>3, <3>1
    <3>2. CASE k \in 1..n + 1
      <4>1. k + 1 \in 1..n + 2
        BY <1>2, <3>2
      <4>2. static(k + 1)
        BY <1>6, <2>3, <4>1
      <4>3. isStatic /\ state(k)' = state(k) /\ state(k) = world
        BY <1>5, <2>1, <3>2, <4>2
      <4>4. CASE m \in 1..n + 1
        <5>1. static(m) /\ state(m) = state(k)
          <6>1. k \in Kept /\ m \in Kept
            BY <1>2, <1>5, <3>2, <4>4
          <6> QED BY <2>3, <4>2, <6>1, StaticFact
        <5>2. m \in 1..n + 2
          BY <1>2, <4>4
        <5> QED BY <1>5, <1>6, <4>3, <4>4, <5>1, <5>2
      <4>5. CASE m \in {n + 2, n + 3}
        <5>1. n + 2 \in 1..n + 2
          BY <1>2
        <5>2. static(m)'
          BY <1>6, <4>3, <4>5, <5>1
        <5>3. state(m)' = world
          BY <1>5, <2>2, <4>3, <4>5
        <5> QED BY <4>3, <5>2, <5>3
      <4>6. m \in 1..n + 1 \/ m \in {n + 2, n + 3}
        BY <1>2
      <4> QED BY <4>4, <4>5, <4>6
    <3>3. k = n + 2 \/ k \in 1..n + 1
      BY <1>2, <2>3
    <3> QED BY <3>1, <3>2, <3>3
  <2>4. ASSUME NEW i \in 1..n + 1, frames'[i].creates
        PROVE  ~static(i + 2)'
    <3>1. CASE i = n + 1
      BY <1>2, <1>3, <1>6, <2>4, <3>1
    <3>2. CASE i \in 1..n
      <4>1. frames[i].creates /\ i \in DOMAIN frames /\ i + 2 \in 1..n + 2
        <5>1. frames'[i].creates = frames[i].creates
          BY <1>2, <1>3, <3>2
        <5> QED BY <1>2, <2>4, <3>2, <5>1
      <4> QED BY <1>6, <4>1, CreationIsNotStatic
    <3> QED BY <1>2, <3>1, <3>2
  <2> QED BY <1>3, <1>5, <2>3, <2>4 DEF StaticInv
<1>15. FailedMessageRestores'
  BY DEF FailedMessageRestores
<1>16. TracerBalanced'
  <2>1. depth' = depth + 1
    BY <1>2, <1>3 DEF depth
  <2> QED BY <2>1, RunningHasNotFailed DEF IInv, TracerBalanced
<1>17. EtherInv'
  <2>1. /\ total_balance(before) <= total_balance(start)
        /\ before.doomed = {} => total_balance(before) = total_balance(start)
    BY RunningHasNotFailed, SuccessorEther
  <2>2. EtherConserved'
    BY <2>1 DEF EtherConserved
  <2>3. ASSUME NEW k \in 1..n + 2
        PROVE  LET u == checkpoints'[k].world IN
               /\ total_balance(u) <= total_balance(start)
               /\ u.doomed = {} => total_balance(u) = total_balance(start)
    <3>1. CASE k = n + 2
      BY <1>4, <2>1, <3>1
    <3>2. CASE k \in 1..n + 1
      <4>1. k \in DOMAIN checkpoints
        BY <1>2, <3>2
      <4> QED BY <1>4, <3>2, <4>1 DEF IInv, EtherInv
    <3>3. k = n + 2 \/ k \in 1..n + 1
      OBVIOUS
    <3> QED BY <3>1, <3>2, <3>3
  <2>4. DOMAIN checkpoints' = 1..n + 2
    BY <1>4
  <2> QED BY <2>2, <2>3, <2>4 DEF EtherInv
<1> QED BY <1>9, <1>10, <1>11, <1>12, <1>13, <1>14, <1>15, <1>16, <1>17 DEF IInv

\* How a deposit leaves the state: nothing but the code of an account that had none,
\* in a frame that is not static.
Deposited(w) ==
  /\ w \in World
  /\ \A a \in Addr : start.nonce[a] # 0 => w.nonce[a] # 0
  /\ \A a \in Addr : start.code[a] # NoCode => w.code[a] # NoCode
  /\ w.doomed \subseteq created
  /\ w.doomed = world.doomed /\ total_balance(w) = total_balance(world)
  /\ isStatic => w = world
  /\ \A i \in 1..Len(frames) - 1 : Occupied(w, frames[i])

LEMMA DepositKeeps ==
  ASSUME IInv, phase = "running", NEW d \in deposits(Top, world)
  PROVE  Deposited(d[2])
<1>1. PICK n \in Nat : n = Len(frames)
  BY StackFacts
<1>2. /\ frames \in Seq(FrameType) /\ n = Len(frames) /\ n >= 1 /\ DOMAIN frames = 1..n
      /\ Top = frames[n] /\ Top \in FrameType /\ Top.address \in Addr
      /\ Len(checkpoints) = n + 1 /\ world \in World /\ isStatic \in BOOLEAN
  BY <1>1, StackFacts
<1>3. n + 2 \in Kept /\ state(n + 2) = world /\ static(n + 2) = isStatic
  BY <1>2 DEF Kept, state, static
<1>4. Heir(world)
  BY <1>3 DEF IInv, HeirsInv
<1>5. \A i \in 1..n : Occupied(world, frames[i]) /\ frames[i] \in FrameType
  <2> TAKE i \in 1..n
  <2>1. i \in DOMAIN frames /\ n + 2 \in i + 2..Len(checkpoints) + 1
    BY <1>2
  <2> QED BY <1>2, <1>3, <2>1, OccupiedFact, ElementOfSeq
<1>6. CASE d[2] = world
  BY <1>2, <1>4, <1>5, <1>6 DEF Deposited, Heir
<1>7. ASSUME Top.creates, NEW code \in {NoCode, Contract},
             d[2] = [world EXCEPT !.code[Top.address] = code]
      PROVE  Deposited(d[2])
  <2>1. ~isStatic
    BY <1>2, <1>3, <1>7, CreationIsNotStatic
  <2>2. world.nonce[Top.address] # 0 /\ world.code[Top.address] = NoCode
    BY <1>2, <1>5, <1>7 DEF Occupied
  <2>3. d[2] \in World
    BY DepositFacts, <1>2
  <2>4. /\ d[2].nonce = world.nonce /\ d[2].doomed = world.doomed
        /\ d[2].balance = world.balance
        /\ \A a \in Addr : a # Top.address => d[2].code[a] = world.code[a]
    BY <1>2, <1>7 DEF World
  <2>6. total_balance(d[2]) = total_balance(world)
    BY <2>4, TotalSame
  <2>5. ASSUME NEW i \in 1..n - 1
        PROVE  Occupied(d[2], frames[i])
    <3>1. i \in 1..n /\ i # n /\ i \in DOMAIN frames /\ n \in DOMAIN frames
      BY <1>2
    <3>2. Occupied(world, frames[i]) /\ frames[i].address \in Addr
      BY <1>5, <3>1 DEF FrameType
    <3>3. frames[i].creates => frames[i].address # Top.address
      BY <1>2, <1>7, <3>1, DistinctFact
    <3> QED BY <2>2, <2>4, <3>2, <3>3 DEF Occupied, deployable
  <2> QED BY <1>2, <1>4, <2>1, <2>2, <2>3, <2>4, <2>5, <2>6 DEF Deposited, Heir
<1>8. d[2] = world \/ /\ Top.creates
                      /\ \E code \in {NoCode, Contract} :
                           d[2] = [world EXCEPT !.code[Top.address] = code]
  BY <1>2, DepositFacts, SMTT(30)
<1> QED BY <1>6, <1>7, <1>8

\* A host failure at any depth is one of the top frame.
LEMMA HostFailureIsOnTop ==
  ASSUME IInv, phase = "running"
  PROVE  HostFailed <=> ~is_evm_outcome(Top.status)
<1>1. frames[Len(frames)] = Top /\ Len(frames) \in DOMAIN frames
      /\ \A i \in DOMAIN frames : i # Len(frames) => i \in 1..Len(frames) - 1
  BY StackFacts
<1>2. \A i \in DOMAIN frames : i # Len(frames) => is_evm_outcome(frames[i].status)
  BY <1>1 DEF IInv, CallersWait, is_evm_outcome
<1> QED BY <1>1, <1>2 DEF HostFailed

\* What closing the top frame leaves of the stack.
LEMMA CloseFacts ==
  ASSUME IInv, phase = "running", NEW n \in Nat, n = Len(frames), n >= 2,
         NEW f \in FrameType, NEW w, Closes(f, w)
  PROVE  /\ frames' \in Seq(FrameType) /\ Len(frames') = n - 1 /\ DOMAIN frames' = 1..n - 1
         /\ frames'[n - 1] = accept_child(frames[n - 1], f.status, f.gas)
         /\ \A i \in 1..n - 2 : frames'[i] = frames[i]
         /\ checkpoints' \in Seq(CheckpointType) /\ Len(checkpoints') = n
         /\ Kept' = 1..n + 1 /\ Kept = 1..n + 2
         /\ \A k \in 1..n : state(k)' = state(k)
         /\ \A k \in 1..n + 1 : static(k)' = static(k)
         /\ state(n + 1)' = IF f.status = OK THEN w ELSE state(n + 1)
<1>1. /\ frames \in Seq(FrameType) /\ DOMAIN frames = 1..n
      /\ checkpoints \in Seq(CheckpointType) /\ Len(checkpoints) = n + 1
  BY StackFacts
<1> DEFINE popped == Pop(frames)
           g == accept_child(frames[n - 1], f.status, f.gas)
<1>2. popped \in Seq(FrameType) /\ Len(popped) = n - 1
      /\ \A i \in 1..n - 1 : popped[i] = frames[i]
  BY <1>1, SubSeqProperties DEF Pop
<1>3. g \in FrameType
  <2>1. frames[n - 1] \in FrameType
    BY <1>1, ElementOfSeq
  <2>2. f.status \in Statuses /\ f.gas \in Nat
    BY DEF FrameType
  <2> QED BY <2>1, <2>2, AcceptFacts
<1>4. frames' = [popped EXCEPT ![n - 1] = g]
  <2>1. depth = n - 1
    BY <1>1 DEF depth
  <2>2. popped[n - 1] = frames[n - 1]
    BY <1>2
  <2>3. frames' = [popped EXCEPT ![n - 1] = accept_child(popped[n - 1], f.status, f.gas)]
    BY <2>1 DEF Closes
  <2> QED BY <2>2, <2>3
<1>5. /\ frames' \in Seq(FrameType) /\ Len(frames') = n - 1 /\ frames'[n - 1] = g
      /\ \A i \in 1..n - 2 : frames'[i] = frames[i]
  <2> HIDE DEF popped, g
  <2>1. n - 1 \in 1..Len(popped)
    BY <1>2
  <2>2. \A i \in 1..n - 2 : i \in 1..n - 1 /\ i # n - 1
    OBVIOUS
  <2> QED BY <1>2, <1>3, <1>4, <2>1, <2>2, ExceptSeq
<1>6. /\ checkpoints' \in Seq(CheckpointType) /\ Len(checkpoints') = n
      /\ \A k \in 1..n : checkpoints'[k] = checkpoints[k]
  BY <1>1, SubSeqProperties DEF Pop, Closes
<1>7. /\ world' = IF f.status = OK THEN w ELSE checkpoints[n + 1].world
      /\ isStatic' = checkpoints[n + 1].static
  BY <1>1 DEF Closes
<1>8. Kept' = 1..n + 1 /\ Kept = 1..n + 2
  BY <1>1, <1>6 DEF Kept
<1>9. \A k \in 1..n : state(k)' = state(k) /\ static(k)' = static(k)
  BY <1>1, <1>6 DEF state, static
<1>10. static(n + 1)' = static(n + 1)
       /\ state(n + 1)' = IF f.status = OK THEN w ELSE state(n + 1)
  BY <1>1, <1>6, <1>7 DEF state, static
<1>11. \A k \in 1..n + 1 : static(k)' = static(k)
  <2> TAKE k \in 1..n + 1
  <2>1. k \in 1..n \/ k = n + 1
    OBVIOUS
  <2> QED BY <1>9, <1>10, <2>1
<1> QED BY <1>5, <1>6, <1>8, <1>9, <1>10, <1>11

\* A child that ends keeps the invariant: its account's deposit, or the state its
\* checkpoint kept, suits the frames that wait.
LEMMA ChildEnds ==
  ASSUME IInv, FinishChild
  PROVE  IInv' /\ (HostFailed => HostFailed')
<1>1. phase = "running" /\ depth > 0 /\ Finished
  BY DEF FinishChild, Finished
<1> USE <1>1
<1>2. PICK n \in Nat : n = Len(frames)
  BY StackFacts
<1>3. /\ frames \in Seq(FrameType) /\ n = Len(frames) /\ n >= 2 /\ DOMAIN frames = 1..n
      /\ Top = frames[n] /\ Top \in FrameType
      /\ Len(checkpoints) = n + 1 /\ world \in World /\ isStatic \in BOOLEAN
  BY <1>2, StackFacts DEF depth
<1>4. PICK d \in deposits(Top, world) : Closes(d[1], d[2])
  BY DEF FinishChild
<1>5. PICK f \in FrameType, w \in World : f = d[1] /\ w = d[2]
  BY <1>3, DepositFacts
<1>6. /\ frames' \in Seq(FrameType) /\ Len(frames') = n - 1 /\ DOMAIN frames' = 1..n - 1
      /\ frames'[n - 1] = accept_child(frames[n - 1], f.status, f.gas)
      /\ \A i \in 1..n - 2 : frames'[i] = frames[i]
      /\ checkpoints' \in Seq(CheckpointType) /\ Len(checkpoints') = n
      /\ Kept' = 1..n + 1 /\ Kept = 1..n + 2
      /\ \A k \in 1..n : state(k)' = state(k)
      /\ \A k \in 1..n + 1 : static(k)' = static(k)
      /\ state(n + 1)' = IF f.status = OK THEN w ELSE state(n + 1)
  BY <1>2, <1>3, <1>4, <1>5, CloseFacts
<1>7. Deposited(w)
  BY <1>4, <1>5, DepositKeeps
<1>8. /\ world' = state(n + 1)' /\ isStatic' = static(n + 1)'
  BY <1>6 DEF state, static
<1>9. UNCHANGED <<created, result, start, phase>> /\ open' = open - 1 /\ pool' \in {pool, pool + 1}
  BY <1>4 DEF FinishChild, Closes
<1>10. \A i \in 1..n - 1 :
         /\ frames[i] \in FrameType /\ frames[i].status = OK /\ ~frames[i].halted
         /\ frames'[i].creates = frames[i].creates /\ frames'[i].address = frames[i].address
         /\ frames'[i].halted = frames[i].halted
  <2> TAKE i \in 1..n - 1
  <2>1. frames[i] \in FrameType /\ frames[i].status = OK /\ ~frames[i].halted
    BY <1>3, ElementOfSeq DEF IInv, CallersWait
  <2>2. CASE i = n - 1
    <3>1. f.status \in Statuses /\ f.gas \in Nat
      BY DEF FrameType
    <3>2. frames'[i] = accept_child(frames[i], f.status, f.gas)
      BY <1>6, <2>2
    <3> QED BY <2>1, <3>1, <3>2, AcceptFacts
  <2>3. CASE i \in 1..n - 2
    BY <1>6, <2>1, <2>3
  <2>4. i = n - 1 \/ i \in 1..n - 2
    BY <1>3
  <2> QED BY <2>1, <2>2, <2>3, <2>4
<1>11. HostFailed => HostFailed'
  <2> SUFFICES ASSUME HostFailed PROVE HostFailed'
    OBVIOUS
  <2>1. ~is_evm_outcome(Top.status)
    BY HostFailureIsOnTop
  <2>2. Top.status # OK
    BY <2>1 DEF is_evm_outcome
  <2>3. f = Top
    <3>1. Top \in FrameType /\ world \in World
      BY <1>3
    <3>2. d[1] = Top
      BY <2>2, <3>1, DepositFacts
    <3> QED BY <1>5, <3>2
  <2>4. n - 1 \in 1..n - 1
    BY <1>3
  <2>5. frames'[n - 1].status = f.status
    <3>1. f.status \in Statuses /\ f.gas \in Nat
      BY DEF FrameType
    <3>2. frames[n - 1] \in FrameType /\ frames[n - 1].status = OK
      BY <1>10, <2>4
    <3>3. frames'[n - 1] = accept_child(frames[n - 1], f.status, f.gas)
      BY <1>6
    <3>4. ~is_evm_outcome(f.status)
      BY <2>1, <2>3
    <3> QED BY <3>1, <3>2, <3>3, <3>4, AcceptFacts
  <2> QED BY <1>6, <2>1, <2>3, <2>4, <2>5 DEF HostFailed
<1>12. TypeOK'
  <2>1. world' \in World /\ isStatic' \in BOOLEAN
    <3>1. checkpoints[n + 1] \in CheckpointType
      BY <1>3, StackFacts, ElementOfSeq
    <3>2. checkpoints[Len(checkpoints)] = checkpoints[n + 1]
      BY <1>3
    <3>3. isStatic' = checkpoints[n + 1].static
          /\ (world' = w \/ world' = checkpoints[n + 1].world)
      BY <1>4, <1>5, <3>2 DEF Closes
    <3> QED BY <3>1, <3>3 DEF CheckpointType
  <2> QED BY <1>6, <1>9, <2>1 DEF IInv, TypeOK
<1>13. PhasesInv'
  <2>1. checkpoints'[1] = checkpoints[1]
    BY <1>3, <1>4, StackFacts, SubSeqProperties DEF Closes, Pop
  <2> QED BY <1>3, <1>6, <1>9, <2>1 DEF IInv, PhasesInv
<1>14. CallersWait'
  BY <1>3, <1>6, <1>10 DEF CallersWait
<1>15. HeirsInv'
  <2>1. \A k \in 1..n + 1 : Heir(state(k))'
    <3> TAKE k \in 1..n + 1
    <3>1. Heir(state(k))
      BY <1>3, <1>6 DEF IInv, HeirsInv
    <3>2. CASE state(k)' = state(k)
      BY <1>9, <3>1, <3>2 DEF Heir
    <3>3. CASE state(k)' = w
      BY <1>7, <1>9, <3>3 DEF Heir, Deposited
    <3>4. k \in 1..n \/ k = n + 1
      OBVIOUS
    <3> QED BY <1>6, <3>2, <3>3, <3>4
  <2> QED BY <1>6, <1>9, <2>1 DEF IInv, HeirsInv, deployable
<1>16. CreationsInv'
  <2>1. ASSUME NEW i \in 1..n - 1, NEW k \in i + 2..n + 1
        PROVE  Occupied(state(k)', frames'[i])
    <3>1. i \in DOMAIN frames /\ k \in i + 2..Len(checkpoints) + 1
      BY <1>3
    <3>2. Occupied(state(k), frames[i])
      BY <3>1, OccupiedFact
    <3>3. Occupied(w, frames[i])
      BY <1>3, <1>7 DEF Deposited
    <3>4. state(k)' = state(k) \/ state(k)' = w
      <4>1. k \in 1..n \/ k = n + 1
        OBVIOUS
      <4> QED BY <1>6, <4>1
    <3> QED BY <1>10, <3>2, <3>3, <3>4 DEF Occupied
  <2>2. ASSUME NEW i \in 1..n - 1, NEW j \in 1..n - 1,
               frames'[i].creates, frames'[j].creates, i # j
        PROVE  frames'[i].address # frames'[j].address
    <3>1. i \in DOMAIN frames /\ j \in DOMAIN frames
      BY <1>3
    <3> QED BY <1>10, <2>2, <3>1, DistinctFact
  <2> QED BY <1>6, <2>1, <2>2 DEF CreationsInv, Occupied
<1>17. StaticInv'
  <2>1. ASSUME NEW k \in 1..n + 1, NEW m \in 1..n + 1, k < m, static(k + 1)'
        PROVE  static(m)' /\ state(m)' = state(k)'
    <3>1. k \in Kept /\ m \in Kept /\ n + 2 \in Kept /\ k + 1 \in 1..n + 1 /\ k \in 1..n
          /\ k < n + 2
      BY <1>6, <2>1
    <3>2. static(k + 1)
      BY <1>6, <2>1, <3>1
    <3>3. static(m) /\ state(m) = state(k)
      BY <2>1, <3>1, <3>2, StaticFact
    <3>4. static(n + 2) /\ state(n + 2) = state(k)
      BY <3>1, <3>2, StaticFact
    <3>5. isStatic /\ world = state(k)
      BY <1>3, <3>4 DEF static, state
    <3>6. w = state(k)
      BY <1>7, <3>5 DEF Deposited
    <3>7. state(m)' = state(m) \/ state(m)' = w
      <4>1. m \in 1..n \/ m = n + 1
        OBVIOUS
      <4> QED BY <1>6, <4>1
    <3> QED BY <1>6, <3>1, <3>3, <3>6, <3>7
  <2>2. ASSUME NEW i \in 1..n - 1, frames'[i].creates
        PROVE  ~static(i + 2)'
    <3>1. i \in DOMAIN frames /\ frames[i].creates /\ i + 2 \in 1..n + 1
      BY <1>3, <1>10, <2>2
    <3> QED BY <1>6, <3>1, CreationIsNotStatic
  <2> QED BY <1>6, <2>1, <2>2 DEF StaticInv
<1>18. FailedMessageRestores'
  BY <1>9 DEF FailedMessageRestores
<1>19. TracerBalanced'
  <2>1. depth' = depth - 1
    BY <1>3, <1>6 DEF depth
  <2> QED BY <1>9, <1>11, <2>1 DEF IInv, TracerBalanced
<1>20. EtherInv'
  <2>1. \A k \in 1..n : k \in DOMAIN checkpoints /\ checkpoints'[k] = checkpoints[k]
    BY <1>3, <1>4, StackFacts, SubSeqProperties DEF Closes, Pop
  <2>2. /\ total_balance(world) <= total_balance(start)
        /\ world.doomed = {} /\ ~HostFailed => total_balance(world) = total_balance(start)
    BY DEF IInv, EtherInv, EtherConserved
  <2>3. LET u == checkpoints[n + 1].world IN
        /\ total_balance(u) <= total_balance(start)
        /\ u.doomed = {} => total_balance(u) = total_balance(start)
    <3>1. n + 1 \in DOMAIN checkpoints
      BY <1>3, StackFacts
    <3> QED BY <3>1 DEF IInv, EtherInv
  <2>4. w.doomed = world.doomed /\ total_balance(w) = total_balance(world)
    BY <1>7 DEF Deposited
  <2>5. world' = w \/ world' = checkpoints[n + 1].world
    BY <1>3, <1>4, <1>5 DEF Closes
  <2>6. EtherConserved'
    BY <1>9, <1>11, <2>2, <2>3, <2>4, <2>5 DEF EtherConserved
  <2>7. DOMAIN checkpoints' = 1..n
    BY <1>6
  <2> QED BY <1>9, <2>1, <2>6, <2>7 DEF IInv, EtherInv
<1> QED BY <1>11, <1>12, <1>13, <1>14, <1>15, <1>16, <1>17, <1>18, <1>19, <1>20 DEF IInv

\* The root frame's end keeps the invariant: the message closes both checkpoints.
LEMMA RootEnds ==
  ASSUME IInv, FinishRoot
  PROVE  IInv' /\ (HostFailed => HostFailed')
<1>1. phase = "running" /\ depth = 0
  BY DEF FinishRoot, Finished
<1> USE <1>1
<1>2. /\ frames # <<>> /\ Top \in FrameType /\ Len(checkpoints) >= 1
      /\ checkpoints \in Seq(CheckpointType)
      /\ world \in World /\ start \in World
  BY StackFacts
<1>3. PICK d \in deposits(Top, world) :
        /\ result' = [status |-> d[1].status, gas |-> d[1].gas]
        /\ world' = IF d[1].status = OK THEN d[2] ELSE checkpoints[1].world
  BY DEF FinishRoot
<1>4. PICK f \in FrameType, w \in World : f = d[1] /\ w = d[2]
  BY <1>2, DepositFacts
<1>5. /\ result' = [status |-> f.status, gas |-> f.gas]
      /\ world' = IF f.status = OK THEN w ELSE start
      /\ isStatic' = FALSE /\ frames' = <<>> /\ checkpoints' = <<>> /\ phase' = "done"
      /\ UNCHANGED <<created, pool, open, start>>
  <2>1. checkpoints[1].world = start /\ ~checkpoints[1].static
    BY DEF IInv, PhasesInv
  <2>2. checkpoints[1].static \in BOOLEAN
    <3>1. 1 \in 1..Len(checkpoints)
      BY <1>2
    <3>2. checkpoints[1] \in CheckpointType
      BY <1>2, <3>1, ElementOfSeq
    <3> QED BY <3>2 DEF CheckpointType
  <2> QED BY <1>3, <1>4, <2>1, <2>2 DEF FinishRoot
<1>6. Deposited(w)
  BY <1>3, <1>4, DepositKeeps
<1>7. f.status \in Statuses /\ f.gas \in Nat
  BY DEF FrameType
<1>8. Heir(world)'
  <2>1. 1 \in Kept /\ state(1) = start
    BY <1>2 DEF Kept, state, IInv, PhasesInv
  <2>2. Heir(start)
    BY <2>1 DEF IInv, HeirsInv
  <2>3. Heir(w)
    BY <1>6 DEF Heir, Deposited
  <2>4. world' = w \/ world' = start
    BY <1>5
  <2> QED BY <1>5, <2>2, <2>3, <2>4 DEF Heir
<1>9. /\ Kept' = 1..1 /\ DOMAIN frames' = {} /\ Len(frames') = 0 /\ state(1)' = world'
  BY <1>5 DEF Kept, state
<1>10. TypeOK'
  <2>1. world' \in World /\ start' \in World
    BY <1>2, <1>5
  <2>2. result' \in [status : Statuses, gas : Nat]
    BY <1>5, <1>7
  <2>3. frames' \in Seq(FrameType) /\ checkpoints' \in Seq(CheckpointType)
    BY <1>5
  <2> QED BY <1>5, <2>1, <2>2, <2>3 DEF IInv, TypeOK
<1>11. PhasesInv' /\ CallersWait' /\ CreationsInv' /\ FailedMessageRestores'
  BY <1>5, <1>9 DEF PhasesInv, CallersWait, CreationsInv, FailedMessageRestores
<1>12. HeirsInv'
  BY <1>5, <1>8, <1>9 DEF IInv, HeirsInv, Heir, deployable
<1>13. StaticInv'
  BY <1>9 DEF StaticInv
<1>14. HostFailed => HostFailed'
  <2>1. HostFailed => f = Top /\ ~is_evm_outcome(f.status)
    BY <1>2, <1>3, <1>4, HostFailureIsOnTop, DepositFacts DEF is_evm_outcome
  <2> QED BY <1>5, <2>1 DEF HostFailed
<1>15. TracerBalanced'
  BY <1>5, <1>9, <1>14 DEF IInv, TracerBalanced, depth
<1>16. EtherInv'
  <2>1. /\ total_balance(world) <= total_balance(start)
        /\ world.doomed = {} /\ ~HostFailed => total_balance(world) = total_balance(start)
    BY DEF IInv, EtherInv, EtherConserved
  <2>2. w.doomed = world.doomed /\ total_balance(w) = total_balance(world)
    BY <1>6 DEF Deposited
  <2>3. total_balance(start) \in Nat
    BY <1>2, TotalNat
  <2>4. world' = w \/ world' = start
    BY <1>5
  <2>5. EtherConserved'
    BY <1>5, <1>14, <2>1, <2>2, <2>3, <2>4 DEF EtherConserved
  <2> QED BY <1>5, <2>5 DEF EtherInv
<1> QED BY <1>10, <1>11, <1>12, <1>13, <1>14, <1>15, <1>16 DEF IInv

-----------------------------------------------------------------------------
(* The message *)

\* A message that returns without a frame keeps the invariant, if it leaves the
\* state as it was unless it succeeds.
LEMMA MessageReturns ==
  ASSUME IInv, phase = "message", NEW status \in Statuses, NEW gas \in Nat, NEW w, NEW c,
         Successor(w, c), Conserves(w), status # OK => w = world,
         Returns(status, gas, w), created' = c
  PROVE  IInv'
<1>1. /\ phase' = "done" /\ result' = [status |-> status, gas |-> gas] /\ world' = w
      /\ UNCHANGED <<isStatic, checkpoints, frames, pool, open, start>>
  BY DEF Returns
<1>2. world = start /\ open = 0 /\ frames = <<>> /\ checkpoints = <<>>
  BY DEF IInv, PhasesInv
<1>3. TypeOK'
  BY <1>1 DEF IInv, TypeOK, Successor
<1>4. Kept' = 1..1 /\ DOMAIN frames' = {} /\ Len(frames') = 0 /\ state(1)' = w
  BY <1>1, <1>2 DEF Kept, state
<1>5. HeirsInv'
  <2>1. Heir(state(1))'
    BY <1>1, <1>4, SuccessorFacts DEF Heir
  <2> QED BY <1>1, <1>4, <2>1, SuccessorFacts DEF HeirsInv, deployable
<1>6. PhasesInv' /\ CallersWait' /\ CreationsInv' /\ StaticInv'
  BY <1>1, <1>2, <1>4 DEF PhasesInv, CallersWait, CreationsInv, StaticInv
<1>7. FailedMessageRestores' /\ TracerBalanced'
  BY <1>1, <1>2, <1>4 DEF FailedMessageRestores, TracerBalanced, depth
<1>8. EtherInv'
  <2>1. ~HostFailed
    BY <1>2 DEF HostFailed
  <2>2. /\ total_balance(w) <= total_balance(start)
        /\ w.doomed = {} => total_balance(w) = total_balance(start)
    BY <2>1, SuccessorEther
  <2>3. EtherConserved'
    BY <1>1, <2>2 DEF EtherConserved
  <2> QED BY <1>1, <1>2, <2>3 DEF EtherInv
<1> QED BY <1>3, <1>5, <1>6, <1>7, <1>8 DEF IInv

\* A message that starts its root frame keeps the invariant.
LEMMA RootStarts ==
  ASSUME IInv, phase = "message", NEW f \in FrameType, f.status = OK, NEW w, NEW c,
         Successor(w, c), Conserves(w), Occupied(w, f), StartRoot(f, w), created' = c
  PROVE  IInv'
<1>1. /\ phase' = "running" /\ world' = w /\ frames' = <<f>>
      /\ checkpoints' = <<Checkpoint, [Checkpoint EXCEPT !.world = w]>>
      /\ UNCHANGED <<isStatic, pool, open, result, start>>
  BY DEF StartRoot
<1>2. /\ world = start /\ open = 0 /\ frames = <<>> /\ checkpoints = <<>> /\ isStatic = FALSE
      /\ world \in World /\ w \in World /\ created = {}
  BY DEF IInv, PhasesInv, TypeOK, Successor
<1>3. /\ checkpoints' = <<[world |-> start, static |-> FALSE], [world |-> w, static |-> FALSE]>>
      /\ isStatic' = FALSE
  <2>1. Checkpoint = [world |-> start, static |-> FALSE]
    BY <1>2 DEF Checkpoint
  <2>2. [Checkpoint EXCEPT !.world = w] = [world |-> w, static |-> FALSE]
    <3>1. Checkpoint \in CheckpointType /\ Checkpoint.static = FALSE
      BY <1>2, <2>1 DEF CheckpointType
    <3> QED BY <1>2, <3>1, KeptBefore
  <2> QED BY <1>1, <1>2, <2>1, <2>2
<1>4. /\ Len(frames') = 1 /\ frames'[1] = f /\ DOMAIN frames' = 1..1
      /\ Len(checkpoints') = 2 /\ Kept' = 1..3
      /\ checkpoints'[1].world = start /\ ~checkpoints'[1].static
      /\ state(1)' = start /\ state(2)' = w /\ state(3)' = w
      /\ static(1)' = FALSE /\ static(2)' = FALSE /\ static(3)' = FALSE
  BY <1>1, <1>3 DEF Kept, state, static
<1>5. TypeOK'
  <2>1. frames' \in Seq(FrameType)
    BY <1>1
  <2>2. checkpoints' \in Seq(CheckpointType)
    BY <1>2, <1>3 DEF CheckpointType
  <2> QED BY <1>1, <1>2, <1>3, <2>1, <2>2 DEF IInv, TypeOK, Successor
<1>6. PhasesInv' /\ CallersWait'
  BY <1>1, <1>4 DEF PhasesInv, CallersWait
<1>7. HeirsInv'
  <2>1. Heir(start)
    BY <1>2 DEF IInv, HeirsInv, Kept, state
  <2>2. Heir(state(1))' /\ Heir(state(2))' /\ Heir(state(3))'
    BY <1>1, <1>2, <1>4, <2>1, SuccessorFacts DEF Heir
  <2> QED BY <1>1, <1>4, <2>2, SuccessorFacts DEF HeirsInv, deployable
<1>8. CreationsInv'
  <2>1. Occupied(state(3)', frames'[1])
    BY <1>4
  <2>2. \A i \in DOMAIN frames' : i = 1
    BY <1>4
  <2>3. \A k \in 3..3 : k = 3
    OBVIOUS
  <2> QED BY <1>4, <2>1, <2>2, <2>3 DEF CreationsInv, Occupied
<1>9. StaticInv'
  <2>1. \A k \in 1..3 : static(k)' = FALSE
    BY <1>4
  <2>2. \A k \in 1..3 : \A m \in 1..3 : k < m => k + 1 \in 1..3
    OBVIOUS
  <2> QED BY <1>4, <2>1, <2>2 DEF StaticInv
<1>10. FailedMessageRestores' /\ TracerBalanced'
  BY <1>1, <1>2, <1>4 DEF FailedMessageRestores, TracerBalanced, depth
<1>11. EtherInv'
  <2>1. ~HostFailed
    BY <1>2 DEF HostFailed
  <2>2. /\ total_balance(w) <= total_balance(start)
        /\ w.doomed = {} => total_balance(w) = total_balance(start)
    BY <2>1, SuccessorEther
  <2>3. EtherConserved'
    BY <1>1, <2>2 DEF EtherConserved
  <2>4. total_balance(start) \in Nat
    BY <1>2, TotalNat
  <2>5. /\ checkpoints'[1].world = start /\ checkpoints'[2].world = w
        /\ DOMAIN checkpoints' = 1..2
    BY <1>3
  <2>6. \A k \in 1..2 : k = 1 \/ k = 2
    OBVIOUS
  <2> QED BY <1>1, <2>2, <2>3, <2>4, <2>5, <2>6 DEF EtherInv
<1> QED BY <1>5, <1>6, <1>7, <1>8, <1>9, <1>10, <1>11 DEF IInv

\* What a precompile may return.
LEMMA PrecompileFacts ==
  ASSUME NEW gas \in Nat, NEW r \in run_precompile(gas)
  PROVE  r[1] \in Statuses /\ r[2] \in Nat
BY CostAssumption DEF run_precompile, Statuses

\* Moved ether is a successor of the state it was moved in.
LEMMA MoveSuccessor ==
  ASSUME IInv, NEW from \in Addr, NEW to \in Addr, NEW v \in Nat, v <= world.balance[from],
         ~isStatic \/ v = 0 \/ from = to,
         NEW t \in moves(world, from, to, v)
  PROVE  /\ Successor(t[1], created) /\ t[2] \in Statuses
         /\ t[2] = OK => Conserves(t[1])
<1>1. Successor(world, created)
  BY WorldFacts
<1>2. world \in World
  BY WorldFacts
<1>3. /\ t[1] \in World /\ t[2] \in {OK, ERR_HOST_ALLOCATION, ERR_BALANCE_OVERFLOW}
      /\ t[1].nonce = world.nonce /\ t[1].code = world.code /\ t[1].doomed = world.doomed
      /\ v = 0 \/ from = to => t[1] = world
      /\ total_balance(t[1]) <= total_balance(world)
      /\ t[2] = OK => total_balance(t[1]) = total_balance(world)
  BY <1>2, MoveFacts
<1> QED BY <1>1, <1>3 DEF Successor, Statuses, Conserves

\* A creation's prologue leaves a successor, once its account counts as created.
LEMMA BeginCreateSuccessor ==
  ASSUME IInv, NEW from \in Addr, NEW a \in Addr, NEW v \in Nat, v <= world.balance[from],
         ~isStatic, deployable(world, a), NEW b \in begin_create(world, from, a, v)
  PROVE  /\ b[2] \in Statuses
         /\ b[2] = OK => /\ Successor(b[1], created \cup {a}) /\ Conserves(b[1])
                         /\ b[1] \in World
                         /\ b[1].nonce[a] # 0 /\ b[1].code[a] = NoCode
<1>1. Heir(world) /\ world \in World /\ created \in SUBSET Addr /\ total_balance(world) \in Nat
  BY WorldFacts
<1>2. /\ b[2] \in {OK, ERR_HOST_ALLOCATION, ERR_BALANCE_OVERFLOW}
      /\ b[2] = OK => /\ b[1] \in World /\ b[1].code = world.code /\ b[1].doomed = world.doomed
                      /\ b[1].nonce[a] # 0
                      /\ \A x \in Addr : x # a => b[1].nonce[x] = world.nonce[x]
                      /\ total_balance(b[1]) = total_balance(world)
  BY <1>1, BeginCreateFacts DEF deployable
<1>3. ASSUME b[2] = OK
      PROVE  Successor(b[1], created \cup {a}) /\ Conserves(b[1])
  BY <1>1, <1>2, <1>3 DEF Successor, Conserves, Heir
<1> QED BY <1>2, <1>3 DEF Statuses, deployable

\* The call message keeps the invariant, whichever way it ends.
LEMMA CallMessageKeeps ==
  ASSUME IInv, NEW sender \in Senders, NEW a \in Addr, NEW v \in Values,
         CallMessage(sender, a, v)
  PROVE  IInv'
<1>1. phase = "message" /\ v <= world.balance[sender] /\ created' = created /\ ~isStatic
  BY DEF CallMessage, IInv, PhasesInv
<1>2. sender \in Addr /\ v \in Nat /\ GasLimit \in Nat
  BY CodeAssumption, CostAssumption
<1>3. PICK t \in moves(world, sender, a, v) :
        IF t[2] # OK THEN Returns(t[2], 0, world)
        ELSE IF runs_precompile(world, a)
        THEN \E r \in run_precompile(GasLimit) :
               Returns(r[1], r[2], IF r[1] = OK THEN t[1] ELSE world)
        ELSE \/ Returns(ERR_HOST_ALLOCATION, GasLimit, world)
             \/ is_delegated(world, a) /\ Returns(ERR_HOST_ALLOCATION, 0, world)
             \/ StartRoot([Frame(GasLimit, a, FALSE) EXCEPT !.halted = ~runs_code(t[1], a)], t[1])
  BY DEF CallMessage
<1>4. Successor(t[1], created) /\ t[2] \in Statuses /\ (t[2] = OK => Conserves(t[1]))
  BY <1>1, <1>2, MoveSuccessor
<1>5. Successor(world, created) /\ Conserves(world)
  BY WorldFacts
<1>6. ERR_HOST_ALLOCATION \in Statuses /\ ERR_HOST_ALLOCATION # OK
  BY DEF Statuses, ERR_HOST_ALLOCATION, OK
<1>7. CASE Returns(t[2], 0, world)
  BY <1>1, <1>4, <1>5, <1>7, MessageReturns
<1>8. ASSUME NEW r \in run_precompile(GasLimit),
             t[2] = OK, Returns(r[1], r[2], IF r[1] = OK THEN t[1] ELSE world)
      PROVE  IInv'
  <2>1. r[1] \in Statuses /\ r[2] \in Nat
    BY <1>2, PrecompileFacts
  <2>2. CASE r[1] = OK
    <3>1. Returns(r[1], r[2], t[1])
      BY <1>8, <2>2
    <3> QED BY <1>1, <1>4, <1>8, <2>1, <2>2, <3>1, MessageReturns
  <2>3. CASE r[1] # OK
    <3>1. Returns(r[1], r[2], world)
      BY <1>8, <2>3
    <3> QED BY <1>1, <1>5, <2>1, <3>1, MessageReturns
  <2> QED BY <2>2, <2>3
<1>9. CASE Returns(ERR_HOST_ALLOCATION, GasLimit, world) \/ Returns(ERR_HOST_ALLOCATION, 0, world)
  BY <1>1, <1>2, <1>5, <1>6, <1>9, MessageReturns
<1>10. ASSUME t[2] = OK,
              StartRoot([Frame(GasLimit, a, FALSE) EXCEPT !.halted = ~runs_code(t[1], a)], t[1])
       PROVE  IInv'
  <2>1. PICK h \in BOOLEAN : h = ~runs_code(t[1], a)
    OBVIOUS
  <2>2. PICK f \in FrameType :
          f = [gas |-> GasLimit, status |-> OK, halted |-> h, creates |-> FALSE, address |-> a]
    BY <1>2 DEF FrameType, Statuses
  <2>3. [Frame(GasLimit, a, FALSE) EXCEPT !.halted = h] = f
    <3>1. PICK r \in FrameType : r = Frame(GasLimit, a, FALSE)
      BY <1>2 DEF FrameType, Statuses, Frame
    <3>2. /\ r.gas = GasLimit /\ r.status = OK /\ r.creates = FALSE /\ r.address = a
      BY <3>1 DEF Frame
    <3>3. [r EXCEPT !.halted = h]
          = [gas |-> r.gas, status |-> r.status, halted |-> h, creates |-> r.creates,
             address |-> r.address]
      BY DEF FrameType
    <3> QED BY <2>2, <3>1, <3>2, <3>3
  <2>4. StartRoot(f, t[1])
    BY <1>10, <2>1, <2>3
  <2>5. runs_code(t[1], a) => t[1].code[a] # NoCode
    BY CodeAssumption DEF runs_code, is_delegated
  <2>6. Occupied(t[1], f)
    BY <2>1, <2>2, <2>5 DEF Occupied, deployable
  <2> QED BY <1>1, <1>4, <1>10, <2>2, <2>4, <2>6, RootStarts
<1> QED BY <1>3, <1>7, <1>8, <1>9, <1>10

\* The creation message keeps the invariant, whichever way it ends.
LEMMA CreateMessageKeeps ==
  ASSUME IInv, NEW sender \in Senders, NEW a \in Addr \ Precompiles, NEW v \in Values,
         CreateMessage(sender, a, v)
  PROVE  IInv'
<1>1. phase = "message" /\ v <= world.balance[sender] /\ ~isStatic
  BY DEF CreateMessage, IInv, PhasesInv
<1>2. sender \in Addr /\ v \in Nat /\ GasLimit \in Nat
  BY CodeAssumption, CostAssumption
<1>3. Heir(world) /\ world \in World /\ created \in SUBSET Addr
  BY WorldFacts
<1>4. Successor(world, created) /\ Conserves(world)
  BY WorldFacts
<1>5. CASE ~deployable(world, a)
  <2>1. Returns(ERR_ADDRESS_COLLISION, 0, world) /\ created' = created
    BY <1>5 DEF CreateMessage
  <2>2. ERR_ADDRESS_COLLISION \in Statuses
    BY DEF Statuses
  <2> QED BY <1>1, <1>4, <2>1, <2>2, MessageReturns
<1>6. CASE deployable(world, a)
  <2>1. PICK b \in begin_create(world, sender, a, v) :
          \/ /\ b[2] = OK /\ created' = created \cup {a}
             /\ \/ StartRoot(Frame(GasLimit, a, TRUE), b[1])
                \/ Returns(ERR_HOST_ALLOCATION, GasLimit, world)
          \/ /\ b[2] # OK /\ created' \in {created, created \cup {a}}
             /\ Returns(b[2], 0, world)
    BY <1>6 DEF CreateMessage
  <2>2. /\ b[2] \in Statuses
        /\ b[2] = OK => /\ Successor(b[1], created \cup {a}) /\ Conserves(b[1])
                        /\ b[1] \in World
                        /\ b[1].nonce[a] # 0 /\ b[1].code[a] = NoCode
    BY <1>1, <1>2, <1>6, BeginCreateSuccessor
  <2>3. Successor(world, created \cup {a})
    BY <1>3, <1>4, <1>6 DEF Successor
  <2>4. CASE b[2] = OK /\ created' = created \cup {a} /\ StartRoot(Frame(GasLimit, a, TRUE), b[1])
    <3>1. PICK f \in FrameType : f = Frame(GasLimit, a, TRUE)
      BY <1>2 DEF FrameType, Statuses, Frame
    <3>2. Occupied(b[1], f) /\ f.status = OK
      BY <2>2, <2>4, <3>1 DEF Occupied, deployable, Frame
    <3> QED BY <1>1, <2>2, <2>4, <3>1, <3>2, RootStarts
  <2>5. CASE created' = created \cup {a} /\ Returns(ERR_HOST_ALLOCATION, GasLimit, world)
    <3>1. ERR_HOST_ALLOCATION \in Statuses
      BY DEF Statuses
    <3> QED BY <1>1, <1>2, <2>3, <2>5, <3>1, WorldFacts, MessageReturns
  <2>6. CASE created' \in {created, created \cup {a}} /\ Returns(b[2], 0, world)
    BY <1>1, <1>4, <2>2, <2>3, <2>6, WorldFacts, MessageReturns
  <2> QED BY <2>1, <2>4, <2>5, <2>6
<1> QED BY <1>5, <1>6

-----------------------------------------------------------------------------
(* Opcodes *)

\* A frame with other gas, or halted, is the same frame.
LEMMA GasFacts ==
  ASSUME NEW f \in FrameType, NEW g \in Nat
  PROVE  /\ [f EXCEPT !.gas = g] \in FrameType
         /\ [f EXCEPT !.gas = g].creates = f.creates /\ [f EXCEPT !.gas = g].address = f.address
         /\ [f EXCEPT !.gas = g].status = f.status /\ [f EXCEPT !.gas = g].halted = f.halted
         /\ [f EXCEPT !.gas = g].gas = g
BY DEF FrameType

LEMMA HaltFacts ==
  ASSUME NEW f \in FrameType, NEW h \in BOOLEAN
  PROVE  /\ [f EXCEPT !.halted = h] \in FrameType
         /\ [f EXCEPT !.halted = h].creates = f.creates
         /\ [f EXCEPT !.halted = h].address = f.address
         /\ [f EXCEPT !.halted = h].status = f.status
BY DEF FrameType

\* The executing frame, and what its account is.
LEMMA RunningFacts ==
  ASSUME IInv, Running
  PROVE  /\ phase = "running" /\ Top \in FrameType /\ Top.status = OK /\ ~Top.halted
         /\ Top.gas \in Nat /\ Top.address \in Addr
         /\ Occupied(world, Top) /\ ~deployable(world, Top.address)
         /\ world \in World /\ pool \in Nat /\ open \in Int
<1>1. phase = "running" /\ Top.status = OK /\ ~Top.halted
  BY DEF Running
<1>2. /\ Len(frames) \in DOMAIN frames /\ frames[Len(frames)] = Top /\ Top \in FrameType
      /\ Len(frames) + 2 \in Len(frames) + 2..Len(checkpoints) + 1
      /\ state(Len(frames) + 2) = world
  BY <1>1, StackFacts DEF state
<1>3. Occupied(world, Top)
  BY <1>2, OccupiedFact
<1> QED BY <1>1, <1>2, <1>3 DEF Occupied, FrameType, IInv, TypeOK

\* An opcode that starts no frame and leaves the stack alone.
LEMMA OpcodeSteps ==
  ASSUME IInv, Running, NEW f \in FrameType, NEW w, NEW c,
         f.creates = Top.creates, f.address = Top.address, Successor(w, c),
         is_evm_outcome(f.status) => Conserves(w),
         SetTop(f), world' = w, created' = c, UNCHANGED stack
  PROVE  IInv'
<1>1. UNCHANGED <<isStatic, checkpoints, result, start, phase>>
  BY DEF stack
<1>2. pool' = pool /\ open' = open /\ pool \in Nat /\ open \in Int
  BY RunningFacts DEF stack
<1> QED BY <1>1, <1>2, TopSteps

\* An opcode that fails.
LEMMA FailsKeeps ==
  ASSUME IInv, Running, NEW status \in Statuses, Fails(status)
  PROVE  IInv'
<1>1. PICK f \in FrameType : f = fault(Top, status)
  BY RunningFacts, FaultFacts
<1>2. f.creates = Top.creates /\ f.address = Top.address
  BY <1>1, RunningFacts, FaultFacts
<1>3. SetTop(f) /\ world' = world /\ created' = created /\ UNCHANGED stack
  BY <1>1 DEF Fails
<1> QED BY <1>2, <1>3, WorldFacts, OpcodeSteps

\* A frame that is started, or cannot be.
LEMMA StartKeeps ==
  ASSUME IInv, Running, NEW caller \in FrameType, NEW child \in FrameType,
         NEW before \in World, NEW w \in World, NEW c, NEW s \in BOOLEAN,
         caller.status = OK, ~caller.halted,
         caller.creates = Top.creates, caller.address = Top.address,
         Successor(before, c), Conserves(before),
         w.code = before.code, w.doomed = before.doomed,
         total_balance(w) = total_balance(before),
         \A a \in Addr : before.nonce[a] # 0 => w.nonce[a] # 0,
         isStatic \/ s => w = before,
         Occupied(w, child),
         child.creates => deployable(world, child.address) /\ ~isStatic /\ ~s,
         Start(caller, child, before, w, s), created' = c
  PROVE  IInv'
<1>1. open' = open + 1 /\ UNCHANGED <<result, start, phase>> /\ open' \in Int
  BY RunningFacts DEF Start
<1>2. frame_allocation(pool) \in Nat /\ pool \in Nat
  BY RunningFacts DEF frame_allocation
<1>3. [Checkpoint EXCEPT !.world = before] = [world |-> before, static |-> isStatic]
  <2>1. Checkpoint \in CheckpointType /\ Checkpoint.static = isStatic
    BY DEF Checkpoint, CheckpointType, IInv, TypeOK
  <2> QED BY <2>1, KeptBefore
<1>4. CASE /\ frames' = Append([frames EXCEPT ![Len(frames)] = caller], child)
           /\ checkpoints' = Append(checkpoints, [Checkpoint EXCEPT !.world = before])
           /\ pool' = frame_allocation(pool)
           /\ world' = w /\ isStatic' = (isStatic \/ s)
  <2>1. checkpoints' = Append(checkpoints, [world |-> before, static |-> isStatic])
    BY <1>3, <1>4
  <2> QED BY <1>1, <1>2, <1>4, <2>1, ChildStarts
<1>5. CASE /\ SetTop(Host(caller)) /\ pool' \in {pool, frame_allocation(pool)}
           /\ world' = before /\ UNCHANGED <<checkpoints, isStatic>>
  <2>1. PICK f \in FrameType : f = Host(caller)
    BY FaultFacts DEF Host, Statuses
  <2>2. f.creates = Top.creates /\ f.address = Top.address /\ f.status = ERR_HOST_ALLOCATION
    BY <2>1, FaultFacts DEF Host, Statuses
  <2>3. ~is_evm_outcome(f.status)
    BY <2>2 DEF is_evm_outcome, exceptional, ERR_HOST_ALLOCATION, OK, ERR_REVERT,
                ERR_OUT_OF_GAS, ERR_STATIC_WRITE, ERR_ADDRESS_COLLISION
  <2>4. pool' \in Nat /\ SetTop(f)
    BY <1>2, <1>5, <2>1
  <2>5. UNCHANGED <<isStatic, checkpoints, result, start, phase>>
    BY <1>1, <1>5
  <2> QED BY <1>1, <1>5, <2>2, <2>3, <2>4, <2>5, TopSteps
<1> QED BY <1>4, <1>5 DEF Start

\* Faults, plain opcodes and halting.
LEMMA PlainKeeps ==
  ASSUME IInv,
         (\E status \in {ERR_OUT_OF_GAS, ERR_REVERT, ERR_HOST_ALLOCATION} : Fault(status))
         \/ Execute \/ Halt
  PROVE  IInv'
<1>1. ASSUME NEW status \in {ERR_OUT_OF_GAS, ERR_REVERT, ERR_HOST_ALLOCATION}, Fault(status)
      PROVE  IInv'
  <2>1. status \in Statuses /\ Running /\ Fails(status)
    BY <1>1 DEF Statuses, Fault
  <2> QED BY <2>1, FailsKeeps
<1>2. ASSUME Execute PROVE IInv'
  <2>1. Running /\ OpCost <= Top.gas /\ SetTop([Top EXCEPT !.gas = Top.gas - OpCost])
        /\ world' = world /\ created' = created /\ UNCHANGED stack
    BY <1>2 DEF Execute
  <2>2. Top \in FrameType /\ Top.gas - OpCost \in Nat
    BY <2>1, RunningFacts, CostAssumption
  <2> QED BY <2>1, <2>2, GasFacts, WorldFacts, OpcodeSteps
<1>3. ASSUME Halt PROVE IInv'
  <2>1. Running /\ SetTop([Top EXCEPT !.halted = TRUE])
        /\ world' = world /\ created' = created /\ UNCHANGED stack
    BY <1>3 DEF Halt
  <2>2. Top \in FrameType
    BY <2>1, RunningFacts
  <2> QED BY <2>1, <2>2, HaltFacts, WorldFacts, OpcodeSteps
<1> QED BY <1>1, <1>2, <1>3

\* SSTORE, TSTORE and LOG write in frames that are not static.
LEMMA WriteKeeps ==
  ASSUME IInv, NEW d \in Data, Write(d)
  PROVE  IInv'
<1>1. Running /\ OpCost <= Top.gas
  BY DEF Write
<1>2. CASE isStatic
  <2>1. ERR_STATIC_WRITE \in Statuses /\ Fails(ERR_STATIC_WRITE)
    BY <1>2 DEF Statuses, Write
  <2> QED BY <1>1, <2>1, FailsKeeps
<1>3. CASE ~isStatic
  <2>1. /\ world' = [world EXCEPT !.data = d]
        /\ SetTop([Top EXCEPT !.gas = Top.gas - OpCost])
        /\ created' = created /\ UNCHANGED stack
    BY <1>3 DEF Write
  <2>2. Top \in FrameType /\ Top.gas - OpCost \in Nat /\ world \in World
    BY <1>1, RunningFacts, CostAssumption
  <2>3. PICK w \in World : w = [world EXCEPT !.data = d]
    BY <2>2 DEF World
  <2>4. /\ w.balance = world.balance /\ w.code = world.code /\ w.nonce = world.nonce
        /\ w.doomed = world.doomed
    BY <2>2, <2>3 DEF World
  <2>5. total_balance(w) = total_balance(world)
    BY <2>4, TotalSame
  <2>6. Successor(w, created) /\ Conserves(w)
    BY <1>3, <2>4, <2>5, WorldFacts DEF Successor, Conserves
  <2> QED BY <1>1, <2>1, <2>2, <2>3, <2>6, GasFacts, OpcodeSteps
<1> QED BY <1>2, <1>3

\* A doomed account holds nothing.
LEMMA DoomFacts ==
  ASSUME NEW w \in World, NEW a \in Addr
  PROVE  LET u == [w EXCEPT !.balance[a] = 0, !.doomed = @ \cup {a}]
         IN  /\ u \in World /\ u.nonce = w.nonce /\ u.code = w.code
             /\ u.doomed = w.doomed \cup {a} /\ total_balance(u) <= total_balance(w)
<1> DEFINE u == [w EXCEPT !.balance[a] = 0, !.doomed = @ \cup {a}]
<1>1. 0 \in 0..MaxBalance /\ w.doomed \cup {a} \in SUBSET Addr
  BY LimitAssumption DEF World
<1>2. [w.balance EXCEPT ![a] = 0] \in [Addr -> 0..MaxBalance]
  BY <1>1 DEF World
<1>3. u \in World
  BY <1>1, <1>2 DEF World
<1>4. u.nonce = w.nonce /\ u.code = w.code /\ u.doomed = w.doomed \cup {a}
      /\ u.balance = [w.balance EXCEPT ![a] = 0]
  BY DEF World
<1>5. total_balance(u) <= total_balance(w)
  <2>1. w.balance[a] \in Nat /\ 0 \in Nat
    BY LimitAssumption DEF World
  <2> HIDE DEF u
  <2>2. total_balance(u) = total_balance(w) - w.balance[a] + 0
    BY <1>4, <2>1, TotalExcept
  <2> QED BY <2>1, <2>2, TotalNat
<1> QED BY <1>3, <1>4, <1>5

\* Self-destruction moves the balance; only a created account is doomed.
LEMMA SelfDestructKeeps ==
  ASSUME IInv, NEW beneficiary \in Addr, SelfDestruct(beneficiary)
  PROVE  IInv'
<1> DEFINE me == Top.address
           balance == world.balance[me]
           cost == OpCost + IF is_empty(world, beneficiary) /\ balance # 0 THEN NewAccountCost ELSE 0
           doom(w) == [w EXCEPT !.balance[me] = 0, !.doomed = @ \cup {me}]
<1>1. Running /\ cost <= Top.gas
  BY DEF SelfDestruct
<1>2. CASE isStatic
  <2>1. ERR_STATIC_WRITE \in Statuses /\ Fails(ERR_STATIC_WRITE)
    BY <1>2 DEF Statuses, SelfDestruct
  <2> QED BY <1>1, <2>1, FailsKeeps
<1>3. CASE ~isStatic
  <2>1. PICK t \in transfers(world, me, beneficiary, balance) :
          /\ world' = IF t[2] = OK /\ me \in created THEN doom(t[1]) ELSE t[1]
          /\ SetTop([fault([Top EXCEPT !.gas = Top.gas - cost], t[2]) EXCEPT !.halted = t[2] = OK])
    BY <1>3 DEF SelfDestruct
  <2>2. created' = created /\ UNCHANGED stack
    BY <1>3 DEF SelfDestruct
  <2>3. /\ Top \in FrameType /\ me \in Addr /\ world \in World /\ balance \in Nat
        /\ balance <= world.balance[me] /\ Top.gas - cost \in Nat
    <3>1. Top \in FrameType /\ me \in Addr /\ world \in World /\ Top.gas \in Nat
      BY <1>1, RunningFacts
    <3>2. balance \in Nat
      BY <3>1, LimitAssumption DEF World
    <3>3. cost \in Nat
      BY CostAssumption
    <3> HIDE DEF cost
    <3> QED BY <1>1, <3>1, <3>2, <3>3
  <2>4. /\ t[1] \in World /\ t[2] \in {OK, ERR_HOST_ALLOCATION, ERR_BALANCE_OVERFLOW}
        /\ t[1].nonce = world.nonce /\ t[1].code = world.code /\ t[1].doomed = world.doomed
        /\ total_balance(t[1]) <= total_balance(world)
        /\ t[2] = OK => total_balance(t[1]) = total_balance(world)
    <3> HIDE DEF balance, me
    <3> QED BY <2>1, <2>3, TransferFacts
  <2>5. PICK g \in FrameType : g = [Top EXCEPT !.gas = Top.gas - cost]
    <3> HIDE DEF cost
    <3> QED BY <2>3, GasFacts
  <2>6. g.creates = Top.creates /\ g.address = Top.address
    <3> HIDE DEF cost
    <3> QED BY <2>3, <2>5, GasFacts
  <2>7. PICK h \in BOOLEAN : h = (t[2] = OK)
    OBVIOUS
  <2>8. t[2] \in Statuses
    BY <2>4 DEF Statuses
  <2>9. PICK f \in FrameType : f = [fault(g, t[2]) EXCEPT !.halted = h]
    BY <2>8, FaultFacts, HaltFacts
  <2>10. f.creates = Top.creates /\ f.address = Top.address
    BY <2>6, <2>8, <2>9, FaultFacts, HaltFacts
  <2>11. SetTop(f)
    BY <2>1, <2>5, <2>7, <2>9
  <2>12. Successor(world, created)
    BY WorldFacts
  <2>15. /\ total_balance(world) \in Nat /\ total_balance(t[1]) \in Nat
         /\ total_balance(t[1]) <= total_balance(world)
    BY <2>3, <2>4, TotalNat
  <2>16. is_evm_outcome(f.status) => t[2] = OK
    <3>1. f.status = t[2]
      <4>1. g.status = OK
        <5> HIDE DEF cost
        <5> QED BY <1>1, <2>3, <2>5, GasFacts, RunningFacts
      <4> QED BY <2>8, <2>9, <4>1, FaultFacts, HaltFacts
    <3> QED BY <2>4, <3>1 DEF is_evm_outcome, exceptional, OK, ERR_REVERT, ERR_OUT_OF_GAS,
               ERR_STATIC_WRITE, ERR_ADDRESS_COLLISION, ERR_HOST_ALLOCATION, ERR_BALANCE_OVERFLOW
  <2>13. CASE t[2] = OK /\ me \in created
    <3>1. PICK w \in World : w = doom(t[1])
      BY <2>3, <2>4, DoomFacts
    <3>2. /\ w.nonce = t[1].nonce /\ w.code = t[1].code /\ w.doomed = t[1].doomed \cup {me}
          /\ total_balance(w) <= total_balance(t[1])
      BY <2>3, <2>4, <3>1, DoomFacts
    <3>5. total_balance(w) <= total_balance(world)
      BY <2>15, <3>2, TotalNat
    <3>3. Successor(w, created) /\ Conserves(w)
      <4>1. me \in w.doomed
        BY <3>2
      <4> HIDE DEF me
      <4> QED BY <1>3, <2>4, <2>12, <2>13, <3>2, <3>5, <4>1 DEF Successor, Conserves
    <3>4. world' = w
      BY <2>1, <2>13, <3>1
    <3> QED BY <1>1, <2>2, <2>10, <2>11, <3>3, <3>4, OpcodeSteps
  <2>14. CASE ~(t[2] = OK /\ me \in created)
    <3>1. Successor(t[1], created) /\ (is_evm_outcome(f.status) => Conserves(t[1]))
      BY <1>3, <2>4, <2>12, <2>16 DEF Successor, Conserves
    <3>2. world' = t[1]
      BY <2>1, <2>14
    <3> QED BY <1>1, <2>2, <2>10, <2>11, <3>1, <3>2, OpcodeSteps
  <2> QED BY <2>13, <2>14
<1>4. isStatic \in BOOLEAN
  BY DEF IInv, TypeOK
<1> QED BY <1>2, <1>3, <1>4

\* What a caller keeps and forwards of its gas are natural numbers: no call takes
\* more than there is.
LEMMA CallGas ==
  ASSUME NEW gas \in Nat, NEW cost \in Nat, cost <= gas, NEW requested \in Nat
  PROVE  /\ gas - cost \in Nat
         /\ Smaller(requested, cap(gas - cost)) \in 0..gas - cost
<1>1. gas - cost \in Nat
  OBVIOUS
<1>2. ASSUME NEW n \in Nat PROVE n - n \div Fraction \in 0..n
  BY CostAssumption
<1>3. cap(gas - cost) \in 0..gas - cost
  BY <1>1, <1>2 DEF cap
<1> QED BY <1>1, <1>3 DEF Smaller

\* Entering a call keeps the invariant: w is the state with its ether moved.
LEMMA EntersKeeps ==
  ASSUME IInv, Running, NEW op, NEW a \in Addr, NEW caller \in FrameType, NEW gas \in Nat, NEW w,
         caller.status = OK, ~caller.halted,
         caller.creates = Top.creates, caller.address = Top.address,
         Successor(w, created), w.nonce = world.nonce, w.doomed = world.doomed,
         total_balance(w) = total_balance(world),
         op = "STATICCALL" => w = world,
         Enters(op, a, caller, gas, w)
  PROVE  IInv'
<1>1. w \in World /\ world \in World /\ w.code = world.code /\ (isStatic => w = world)
  BY RunningFacts DEF Successor
<1>5. Conserves(w) /\ Conserves(world)
  BY DEF Conserves
<1>2. CASE runs_precompile(w, a)
  <2>1. PICK r \in run_precompile(gas) :
          /\ SetTop(accept_child(caller, r[1], r[2]))
          /\ world' = IF r[1] = OK THEN w ELSE world
    BY <1>2 DEF Enters
  <2>2. created' = created /\ UNCHANGED stack
    BY <1>2 DEF Enters
  <2>3. PICK f \in FrameType : f = accept_child(caller, r[1], r[2])
    BY PrecompileFacts, AcceptFacts
  <2>4. f.creates = Top.creates /\ f.address = Top.address
    BY <2>3, PrecompileFacts, AcceptFacts
  <2>5. SetTop(f) /\ Successor(world, created)
    BY <2>1, <2>3, WorldFacts
  <2>6. world' = w \/ world' = world
    BY <2>1
  <2> QED BY <1>5, <2>2, <2>4, <2>5, <2>6, OpcodeSteps
<1>3. CASE ~runs_precompile(w, a) /\ ~runs_code(w, a)
  <2>1. /\ SetTop(accept_child(caller, OK, gas)) /\ world' = w
        /\ created' = created /\ UNCHANGED stack
    BY <1>3 DEF Enters
  <2>2. OK \in Statuses
    BY DEF Statuses
  <2>3. PICK f \in FrameType : f = accept_child(caller, OK, gas)
    BY <2>2, AcceptFacts
  <2>4. f.creates = Top.creates /\ f.address = Top.address
    BY <2>2, <2>3, AcceptFacts
  <2> QED BY <1>5, <2>1, <2>3, <2>4, OpcodeSteps
<1>4. CASE ~runs_precompile(w, a) /\ runs_code(w, a)
  <2>1. PICK s \in BOOLEAN : s = (op = "STATICCALL")
    OBVIOUS
  <2>2. /\ Start(caller, Frame(gas, context(op, a), FALSE), world, w, s)
        /\ created' = created
    BY <1>4, <2>1 DEF Enters
  <2>3. context(op, a) \in Addr
    BY RunningFacts DEF context
  <2>4. PICK child \in FrameType :
          /\ child = Frame(gas, context(op, a), FALSE)
          /\ child.address = context(op, a) /\ child.creates = FALSE
    <3>1. FALSE \in BOOLEAN
      OBVIOUS
    <3> QED BY <2>3, <3>1, FrameFacts, ZenonT(60)
  <2>5. ~deployable(w, context(op, a))
    <3>1. w.code[a] # NoCode
      BY <1>4, CodeAssumption DEF runs_code, is_delegated
    <3>2. ~deployable(w, Top.address)
      BY <1>1, RunningFacts DEF deployable
    <3> QED BY <3>1, <3>2 DEF context, deployable
  <2>6. Occupied(w, child)
    BY <2>4, <2>5 DEF Occupied
  <2>7. isStatic \/ s => w = world
    BY <1>1, <2>1
  <2>8. Start(caller, child, world, w, s)
    BY <2>2, <2>4
  <2>9. Successor(world, created)
    BY WorldFacts
  <2> QED BY <1>1, <1>5, <2>2, <2>4, <2>6, <2>7, <2>8, <2>9, StartKeeps
<1> QED BY <1>2, <1>3, <1>4

\* CALL, CALLCODE, DELEGATECALL and STATICCALL.
LEMMA CallKeeps ==
  ASSUME IInv, NEW op \in Ops, NEW a \in Addr, NEW v \in Values, NEW requested \in Requests,
         NEW access \in AccessCosts, Call(op, a, v, requested, access)
  PROVE  IInv'
<1>1. Running /\ (op \notin {"CALL", "CALLCODE"} => v = 0)
  BY DEF Call
<1>2. v \in Nat /\ requested \in Nat /\ access \in Nat
  BY CostAssumption
<1>3. CASE op = "CALL" /\ v # 0 /\ isStatic
  <2>1. ERR_STATIC_WRITE \in Statuses /\ Fails(ERR_STATIC_WRITE)
    BY <1>3 DEF Statuses, Call
  <2> QED BY <1>1, <2>1, FailsKeeps
<1>4. CASE ~(op = "CALL" /\ v # 0 /\ isStatic)
  <2>1. PICK cost \in Nat : cost = call_cost(op, a, v, access)
    BY <1>2, CostAssumption DEF call_cost
  <2>2. cost <= Top.gas
    BY <1>4, <2>1 DEF Call
  <2>3. /\ phase = "running" /\ Top \in FrameType /\ Top.status = OK /\ ~Top.halted
        /\ Top.gas \in Nat /\ Top.address \in Addr /\ world \in World
    BY <1>1, RunningFacts
  <2>4. PICK left \in Nat : left = Top.gas - cost
    BY <2>2, <2>3, CallGas, <1>2
  <2>5. PICK forwarded \in 0..left : forwarded = Smaller(requested, cap(left))
    BY <1>2, <2>2, <2>3, <2>4, CallGas
  <2>6. PICK child_gas \in Nat : child_gas = forwarded + IF v # 0 THEN Stipend ELSE 0
    BY CostAssumption
  <2>7. PICK caller \in FrameType : caller = [Top EXCEPT !.gas = left - forwarded]
    <3>1. left - forwarded \in Nat
      OBVIOUS
    <3> QED BY <2>3, <3>1, GasFacts
  <2>8. /\ caller.creates = Top.creates /\ caller.address = Top.address
        /\ caller.status = OK /\ ~caller.halted /\ caller.gas \in Nat
    BY <2>3, <2>7, GasFacts DEF FrameType
  <2>9. IF depth = DepthLimit \/ world.balance[Top.address] < v
        THEN /\ SetTop([caller EXCEPT !.gas = caller.gas + child_gas])
             /\ UNCHANGED <<world, created, stack>>
        ELSE \E t \in moves(world, Top.address, context(op, a), v) :
               IF t[2] = OK THEN Enters(op, a, caller, child_gas, t[1])
               ELSE SetTop(fault(caller, t[2])) /\ UNCHANGED <<world, created, stack>>
    BY <1>4, <2>1, <2>4, <2>5, <2>6, <2>7 DEF Call
  <2>10. CASE depth = DepthLimit \/ world.balance[Top.address] < v
    <3>1. /\ SetTop([caller EXCEPT !.gas = caller.gas + child_gas])
          /\ world' = world /\ created' = created /\ UNCHANGED stack
      BY <2>9, <2>10
    <3>2. caller.gas + child_gas \in Nat
      BY <2>8
    <3> QED BY <1>1, <2>8, <3>1, <3>2, GasFacts, WorldFacts, OpcodeSteps
  <2>11. CASE ~(depth = DepthLimit \/ world.balance[Top.address] < v)
    <3>1. PICK t \in moves(world, Top.address, context(op, a), v) :
            IF t[2] = OK THEN Enters(op, a, caller, child_gas, t[1])
            ELSE SetTop(fault(caller, t[2])) /\ UNCHANGED <<world, created, stack>>
      BY <2>9, <2>11
    <3>2. context(op, a) \in Addr
      BY <2>3 DEF context
    <3>3. v <= world.balance[Top.address]
      BY <1>2, <2>3, <2>11, LimitAssumption DEF World
    <3>4. ~isStatic \/ v = 0 \/ Top.address = context(op, a)
      BY <1>1, <1>4 DEF context
    <3>5. Successor(t[1], created) /\ t[2] \in Statuses
      BY <1>2, <2>3, <3>2, <3>3, <3>4, MoveSuccessor
    <3>6. /\ t[1].nonce = world.nonce /\ t[1].doomed = world.doomed
          /\ v = 0 => t[1] = world
          /\ t[2] = OK => total_balance(t[1]) = total_balance(world)
      BY <1>2, <2>3, <3>2, <3>3, MoveFacts
    <3>7. CASE t[2] = OK
      <4>1. Enters(op, a, caller, child_gas, t[1])
        BY <3>1, <3>7
      <4>2. op = "STATICCALL" => t[1] = world
        BY <1>1, <3>6
      <4> QED BY <1>1, <2>8, <3>5, <3>6, <3>7, <4>1, <4>2, EntersKeeps
    <3>8. CASE t[2] # OK
      <4>1. PICK f \in FrameType : f = fault(caller, t[2])
        BY <3>5, FaultFacts
      <4>2. f.creates = Top.creates /\ f.address = Top.address
        BY <2>8, <3>5, <4>1, FaultFacts
      <4>3. SetTop(f) /\ world' = world /\ created' = created /\ UNCHANGED stack
        BY <3>1, <3>8, <4>1
      <4> QED BY <1>1, <4>2, <4>3, WorldFacts, OpcodeSteps
    <3> QED BY <3>7, <3>8
  <2> QED BY <2>10, <2>11
<1> QED BY <1>3, <1>4

\* CREATE and CREATE2: the sender's new nonce outlives the child, and the new
\* account is none that executes, for those cannot be deployed to.
LEMMA CreateKeeps ==
  ASSUME IInv, NEW a \in Addr \ Precompiles, NEW v \in Values, Create(a, v)
  PROVE  IInv'
<1>1. Running /\ CreateCost <= Top.gas /\ v \in Nat
  BY CostAssumption DEF Create
<1>2. CASE isStatic
  <2>1. ERR_STATIC_WRITE \in Statuses /\ Fails(ERR_STATIC_WRITE)
    BY <1>2 DEF Statuses, Create
  <2> QED BY <1>1, <2>1, FailsKeeps
<1>3. CASE ~isStatic
  <2>1. /\ phase = "running" /\ Top \in FrameType /\ Top.status = OK /\ ~Top.halted
        /\ Top.gas \in Nat /\ Top.address \in Addr /\ world \in World
        /\ ~deployable(world, Top.address)
    BY <1>1, RunningFacts
  <2>2. PICK left \in Nat : left = Top.gas - CreateCost
    BY <1>1, <2>1, CostAssumption
  <2>3. PICK gas \in 0..left : gas = cap(left)
    <3>1. left - left \div Fraction \in 0..left
      BY CostAssumption
    <3> QED BY <3>1 DEF cap
  <2>4. PICK caller \in FrameType : caller = [Top EXCEPT !.gas = left - gas]
    <3>1. left - gas \in Nat
      OBVIOUS
    <3> QED BY <2>1, <3>1, GasFacts
  <2>5. /\ caller.creates = Top.creates /\ caller.address = Top.address
        /\ caller.status = OK /\ ~caller.halted
    BY <2>1, <2>4, GasFacts
  <2> DEFINE me == Top.address
             w == incremented(world, me)
  <2>6. IF world.balance[me] < v \/ world.nonce[me] = MaxNonce \/ depth = DepthLimit
        THEN SetTop([Top EXCEPT !.gas = left]) /\ UNCHANGED <<world, created, stack>>
        ELSE IF ~deployable(world, a)
        THEN SetTop(caller) /\ world' = w /\ UNCHANGED <<created, stack>>
        ELSE \E b \in begin_create(w, me, a, v) :
               \/ /\ b[2] = OK /\ created' = created \cup {a}
                  /\ Start(caller, Frame(gas, a, TRUE), w, b[1], FALSE)
               \/ /\ created' \in {created, created \cup {a}}
                  /\ SetTop(fault(caller, IF b[2] = OK THEN ERR_HOST_ALLOCATION ELSE b[2]))
                  /\ world' = w /\ UNCHANGED stack
    BY <1>3, <2>2, <2>3, <2>4 DEF Create
  <2>7. CASE world.balance[me] < v \/ world.nonce[me] = MaxNonce \/ depth = DepthLimit
    <3>1. /\ SetTop([Top EXCEPT !.gas = left])
          /\ world' = world /\ created' = created /\ UNCHANGED stack
      BY <2>6, <2>7
    <3> QED BY <1>1, <2>1, <3>1, GasFacts, WorldFacts, OpcodeSteps
  <2>8. CASE ~(world.balance[me] < v \/ world.nonce[me] = MaxNonce \/ depth = DepthLimit)
    <3>1. /\ w \in World /\ w.balance = world.balance /\ w.code = world.code
          /\ w.doomed = world.doomed /\ w.nonce[me] # 0
          /\ \A x \in Addr : x # me => w.nonce[x] = world.nonce[x]
      BY <2>1, <2>8, IncrementFacts
    <3>2. v <= w.balance[me]
      BY <1>1, <2>1, <2>8, <3>1, LimitAssumption DEF World
    <3>3. Successor(world, created) /\ created \in SUBSET Addr
      BY WorldFacts
    <3>8. total_balance(w) = total_balance(world)
      <4> HIDE DEF w
      <4> QED BY <3>1, TotalSame
    <3>4. Successor(w, created) /\ Conserves(w)
      <4> HIDE DEF w, me
      <4>1. \A x \in Addr : world.nonce[x] # 0 => w.nonce[x] # 0
        BY <3>1
      <4> QED BY <1>3, <3>1, <3>3, <3>8, <4>1 DEF Successor, Conserves
    <3>5. SetTop(caller) /\ world' = w /\ created' = created /\ UNCHANGED stack => IInv'
      BY <1>1, <2>5, <3>4, OpcodeSteps
    <3>6. CASE ~deployable(world, a)
      BY <2>6, <2>8, <3>5, <3>6
    <3>7. CASE deployable(world, a)
      <4>1. Successor(w, created \cup {a})
        BY <3>3, <3>4, <3>7 DEF Successor
      <4>2. a # me /\ w.nonce[a] = 0 /\ w.code[a] = NoCode
        BY <2>1, <3>1, <3>7 DEF deployable
      <4>3. PICK b \in begin_create(w, me, a, v) :
              \/ /\ b[2] = OK /\ created' = created \cup {a}
                 /\ Start(caller, Frame(gas, a, TRUE), w, b[1], FALSE)
              \/ /\ created' \in {created, created \cup {a}}
                 /\ SetTop(fault(caller, IF b[2] = OK THEN ERR_HOST_ALLOCATION ELSE b[2]))
                 /\ world' = w /\ UNCHANGED stack
        BY <2>6, <2>8, <3>7
      <4>4. /\ b[2] \in {OK, ERR_HOST_ALLOCATION, ERR_BALANCE_OVERFLOW}
            /\ b[2] = OK => /\ b[1] \in World /\ b[1].code = w.code /\ b[1].doomed = w.doomed
                            /\ b[1].nonce[a] # 0
                            /\ \A x \in Addr : x # a => b[1].nonce[x] = w.nonce[x]
                            /\ total_balance(b[1]) = total_balance(w)
        <5> HIDE DEF w
        <5> QED BY <1>1, <2>1, <3>1, <3>2, <4>2, BeginCreateFacts
      <4>5. CASE /\ b[2] = OK /\ created' = created \cup {a}
                 /\ Start(caller, Frame(gas, a, TRUE), w, b[1], FALSE)
        <5>1. PICK child \in FrameType :
                child = Frame(gas, a, TRUE) /\ child.creates = TRUE /\ child.address = a
          <6>1. gas \in Nat /\ TRUE \in BOOLEAN
            OBVIOUS
          <6> QED BY <6>1, FrameFacts
        <5> HIDE DEF w
        <5>2. \A x \in Addr : w.nonce[x] # 0 => b[1].nonce[x] # 0
          BY <4>4, <4>5
        <5>3. Occupied(b[1], child)
          BY <4>2, <4>4, <4>5, <5>1 DEF Occupied, deployable
        <5>4. /\ b[1] \in World /\ b[1].code = w.code /\ b[1].doomed = w.doomed
              /\ total_balance(b[1]) = total_balance(w)
          BY <4>4, <4>5
        <5>5. Start(caller, child, w, b[1], FALSE) /\ created' = created \cup {a}
          BY <4>5, <5>1
        <5> QED BY <1>1, <1>3, <2>5, <3>1, <3>4, <3>7, <4>1, <5>1, <5>2, <5>3, <5>4, <5>5, StartKeeps
      <4>6. CASE /\ created' \in {created, created \cup {a}}
                 /\ SetTop(fault(caller, IF b[2] = OK THEN ERR_HOST_ALLOCATION ELSE b[2]))
                 /\ world' = w /\ UNCHANGED stack
        <5>1. PICK e \in Statuses : e = IF b[2] = OK THEN ERR_HOST_ALLOCATION ELSE b[2]
          BY <4>4 DEF Statuses
        <5>2. PICK f \in FrameType : f = fault(caller, e)
          BY FaultFacts
        <5>3. f.creates = Top.creates /\ f.address = Top.address
          BY <2>5, <5>2, FaultFacts
        <5>4. SetTop(f) /\ world' = w /\ UNCHANGED stack
          BY <4>6, <5>1, <5>2
        <5> HIDE DEF w
        <5> QED BY <1>1, <3>4, <4>1, <4>6, <5>3, <5>4, OpcodeSteps
      <4> QED BY <4>3, <4>5, <4>6
    <3> QED BY <3>6, <3>7
  <2> QED BY <2>7, <2>8
<1>4. isStatic \in BOOLEAN
  BY DEF IInv, TypeOK
<1> QED BY <1>2, <1>3, <1>4

-----------------------------------------------------------------------------
(* Every step keeps the invariant *)

LEMMA InitIInv == Init => IInv
<1> SUFFICES ASSUME Init PROVE IInv
  OBVIOUS
<1>1. /\ world \in World /\ start = world /\ world.doomed = {} /\ created = {}
      /\ isStatic = FALSE /\ checkpoints = <<>> /\ frames = <<>> /\ open = 0
      /\ pool \in Nat /\ phase = "message"
      /\ result = [status |-> OK, gas |-> GasLimit] /\ GasLimit \in Nat
  BY WorldsAssumption, LimitAssumption, CostAssumption DEF Init
<1>2. Kept = 1..1 /\ DOMAIN frames = {} /\ Len(frames) = 0 /\ state(1) = world
  BY <1>1 DEF Kept, state
<1>3. TypeOK
  <2>1. result \in [status : Statuses, gas : Nat]
    BY <1>1 DEF Statuses
  <2>2. frames \in Seq(FrameType) /\ checkpoints \in Seq(CheckpointType)
    BY <1>1
  <2>3. world \in World /\ start \in World /\ created \in SUBSET Addr
    BY <1>1
  <2>4. pool \in Nat /\ open \in Int
    BY <1>1
  <2>5. isStatic \in BOOLEAN
    BY <1>1
  <2>6. phase \in {"message", "running", "done"}
    BY <1>1
  <2> QED BY <2>1, <2>2, <2>3, <2>4, <2>5, <2>6 DEF TypeOK
<1>4. PhasesInv /\ CallersWait /\ CreationsInv /\ StaticInv
  BY <1>1, <1>2 DEF PhasesInv, CallersWait, CreationsInv, StaticInv
<1>5. HeirsInv
  BY <1>1, <1>2 DEF HeirsInv, Heir
<1>6. FailedMessageRestores /\ TracerBalanced
  BY <1>1, <1>2 DEF FailedMessageRestores, TracerBalanced, depth
<1>7. EtherInv
  <2>1. total_balance(world) \in Nat
    BY <1>1, TotalNat
  <2> QED BY <1>1, <2>1 DEF EtherInv, EtherConserved
<1> QED BY <1>3, <1>4, <1>5, <1>6, <1>7 DEF IInv

\* Opcodes only run in a frame that has not failed.
LEMMA OpcodeRuns == Opcode => Running
<1>1. \A status : Fault(status) => Running
  BY DEF Fault
<1>2. Execute \/ Halt => Running
  BY DEF Execute, Halt
<1>3. \A d : Write(d) => Running
  BY DEF Write
<1>4. \A a : SelfDestruct(a) => Running
  BY DEF SelfDestruct
<1>5. \A op, a, v, requested, access : Call(op, a, v, requested, access) => Running
  BY DEF Call
<1>6. \A a, v : Create(a, v) => Running
  BY DEF Create
<1> QED BY <1>1, <1>2, <1>3, <1>4, <1>5, <1>6 DEF Opcode

LEMMA OpcodeKeeps ==
  ASSUME IInv, Opcode
  PROVE  IInv'
<1>1. CASE (\E status \in {ERR_OUT_OF_GAS, ERR_REVERT, ERR_HOST_ALLOCATION} : Fault(status))
           \/ Execute \/ Halt
  BY <1>1, PlainKeeps
<1>2. CASE \E d \in Data : Write(d)
  BY <1>2, WriteKeeps
<1>3. CASE \E a \in Addr : SelfDestruct(a)
  BY <1>3, SelfDestructKeeps
<1>4. CASE \E op \in Ops, a \in Addr, v \in Values, requested \in Requests,
              access \in AccessCosts : Call(op, a, v, requested, access)
  BY <1>4, CallKeeps
<1>5. CASE \E a \in Addr \ Precompiles, v \in Values : Create(a, v)
  BY <1>5, CreateKeeps
<1> QED BY <1>1, <1>2, <1>3, <1>4, <1>5 DEF Opcode

LEMMA NextIInv == IInv /\ [Next]_vars => IInv' /\ (HostFailed => HostFailed')
<1> SUFFICES ASSUME IInv, [Next]_vars PROVE IInv' /\ (HostFailed => HostFailed')
  OBVIOUS
<1>1. phase = "message" => ~HostFailed
  BY DEF IInv, PhasesInv, HostFailed
<1>2. ASSUME NEW sender \in Senders, NEW a \in Addr, NEW v \in Values, CallMessage(sender, a, v)
      PROVE  IInv' /\ (HostFailed => HostFailed')
  <2>1. phase = "message"
    BY <1>2 DEF CallMessage
  <2> QED BY <1>1, <1>2, <2>1, CallMessageKeeps
<1>3. ASSUME NEW sender \in Senders, NEW a \in Addr \ Precompiles, NEW v \in Values,
             CreateMessage(sender, a, v)
      PROVE  IInv' /\ (HostFailed => HostFailed')
  <2>1. phase = "message"
    BY <1>3 DEF CreateMessage
  <2> QED BY <1>1, <1>3, <2>1, CreateMessageKeeps
<1>4. CASE Opcode
  BY <1>4, OpcodeRuns, RunningHasNotFailed, OpcodeKeeps
<1>5. CASE FinishChild
  BY <1>5, ChildEnds
<1>6. CASE FinishRoot
  BY <1>6, RootEnds
<1>7. CASE UNCHANGED vars
  <2>1. /\ UNCHANGED <<world, created, isStatic, checkpoints, frames>>
        /\ UNCHANGED <<pool, open, result, start, phase>>
    BY <1>7 DEF vars
  <2>2. Kept' = Kept /\ (\A k \in Kept : state(k)' = state(k) /\ static(k)' = static(k))
    BY <2>1 DEF Kept, state, static
  <2>3. TypeOK' /\ PhasesInv' /\ CallersWait'
    BY <2>1 DEF IInv, TypeOK, PhasesInv, CallersWait
  <2>4. HeirsInv'
    BY <2>1, <2>2 DEF IInv, HeirsInv, Heir, deployable
  <2>5. CreationsInv'
    BY <2>1 DEF IInv, CreationsInv, Occupied, state
  <2>6. StaticInv'
    BY <2>1 DEF IInv, StaticInv, Kept, state, static
  <2>7. FailedMessageRestores' /\ TracerBalanced' /\ (HostFailed => HostFailed')
    BY <2>1 DEF IInv, FailedMessageRestores, TracerBalanced, HostFailed, depth
  <2>8. EtherInv'
    BY <2>1, <2>7 DEF IInv, EtherInv, EtherConserved
  <2> QED BY <2>3, <2>4, <2>5, <2>6, <2>7, <2>8 DEF IInv
<1> QED BY <1>2, <1>3, <1>4, <1>5, <1>6, <1>7 DEF Next

-----------------------------------------------------------------------------
(* Theorems *)

\* Every behaviour of the call stack (vm.fe, processor.fe) keeps the invariant.
THEOREM Inductive == Spec => []IInv
BY InitIInv, NextIInv, PTL DEF Spec

\* Every reachable state has its type: no balance, nonce or gas ever leaves its range.
THEOREM TypeCorrect == Spec => []TypeOK
<1>1. IInv => TypeOK
  BY DEF IInv
<1> QED BY <1>1, Inductive, PTL

\* A message that fails leaves the state as it found it, whatever its frames did
\* and however deep it failed (processor.fe execute_message, vm.fe run_root).
THEOREM FailureLeavesNothing == Spec => []FailedMessageRestores
<1>1. IInv => FailedMessageRestores
  BY DEF IInv
<1> QED BY <1>1, Inductive, PTL

\* A frame's host failure is never reported to another as a failed call: it stays
\* until the message returns it (vm.fe accept_child).
THEOREM HostFailureReachesMessage == Spec => HostFailureStays
<1>1. IInv /\ [Next]_vars => [HostFailed => HostFailed']_vars
  BY NextIInv
<1> QED BY <1>1, Inductive, PTL DEF Spec, HostFailureStays

\* The tracer's enters and leaves pair up at every depth (vm.fe start_call,
\* start_create, run_children).
THEOREM TraceNests == Spec => []TracerBalanced
<1>1. IInv => TracerBalanced
  BY DEF IInv
<1> QED BY <1>1, Inductive, PTL

\* Nothing a static frame does, itself or through the frames it calls, changes the
\* state (vm.fe, the static checks of CALL, CREATE, SELFDESTRUCT and the writes).
THEOREM StaticIsReadOnly == Spec => []StaticChangesNothing
<1>1. ASSUME IInv PROVE StaticChangesNothing
  <2>1. SUFFICES ASSUME NEW k \in DOMAIN checkpoints, isStatic, ~checkpoints[k].static,
                        \A j \in k + 1..Len(checkpoints) : checkpoints[j].static
                 PROVE  world = checkpoints[k].world
    BY DEF StaticChangesNothing
  <2>2. PICK m \in Nat : m = Len(checkpoints)
    BY <1>1 DEF IInv, TypeOK
  <2>3. checkpoints \in Seq(CheckpointType) /\ DOMAIN checkpoints = 1..m
    BY <1>1, <2>2 DEF IInv, TypeOK
  <2>4. k \in Kept /\ m + 1 \in Kept /\ k < m + 1
    BY <2>2, <2>3 DEF Kept
  <2>5. static(k + 1)
    BY <2>1, <2>2, <2>3 DEF static
  <2>6. state(m + 1) = state(k)
    BY <1>1, <2>4, <2>5, StaticFact
  <2> QED BY <2>2, <2>3, <2>6 DEF state
<1> QED BY <1>1, Inductive, PTL

\* Code is never deployed onto code: no account of an executing creation gets any
\* from another frame (vm.fe start_create, transaction.fe deploy_code).
THEOREM DeploymentAsserts == Spec => []DeploysOntoEmpty
<1>1. ASSUME IInv PROVE DeploysOntoEmpty
  <2>1. SUFFICES ASSUME NEW i \in DOMAIN frames, frames[i].creates
                 PROVE  world.code[frames[i].address] = NoCode
    BY DEF DeploysOntoEmpty
  <2>2. phase = "running" /\ frames \in Seq(FrameType)
    BY <1>1 DEF IInv, TypeOK, PhasesInv
  <2>3. Len(checkpoints) + 1 \in i + 2..Len(checkpoints) + 1
        /\ state(Len(checkpoints) + 1) = world
    BY <1>1, <2>2, StackFacts DEF state
  <2>4. Occupied(world, frames[i])
    BY <1>1, <2>3, OccupiedFact
  <2> QED BY <2>1, <2>4 DEF Occupied
<1> QED BY <1>1, Inductive, PTL

\* Whatever runs, is reverted or fails, no ether is made, and none is lost but what a
\* doomed account held or a failed host left halfway (transaction.fe transfer, vm.fe
\* selfdestruct).
THEOREM EtherIsConserved == Spec => []EtherConserved
<1>1. IInv => EtherConserved
  BY DEF IInv, EtherInv
<1> QED BY <1>1, Inductive, PTL

\* A transaction deletes none but the accounts it created, which had neither code
\* nor nonce when it began (vm.fe selfdestruct, EIP-6780).
THEOREM OldAccountsSurvive == Spec => []OnlyNewAccountsDie
<1>1. ASSUME IInv PROVE OnlyNewAccountsDie
  BY <1>1, WorldFacts DEF IInv, HeirsInv, Heir, OnlyNewAccountsDie
<1> QED BY <1>1, Inductive, PTL
=============================================================================
