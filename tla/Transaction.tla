---------------------------- MODULE Transaction ----------------------------
(***************************************************************************)
(* The journaled transaction of ingots/evm/src/transaction.fe with the     *)
(* undo journal of journal.fe.  Everything a frame may have to take back   *)
(* lives in ledger.world; ledger.journal holds one change per write, in    *)
(* order.  ledger.before is a history variable, not in the code: the world *)
(* as it was before each change, which undoing the change must bring back. *)
(*                                                                         *)
(* Allocation may fail at any append or insertion.  A failed status stops  *)
(* the caller, as vm.fe's faults do: it then only closes its frames.       *)
(***************************************************************************)
EXTENDS Integers, Sequences, FiniteSets, WorldState

CONSTANTS Balances,     \* balances a frame may write
          Precompiles,  \* addresses warm without an entry
          Topics,       \* log contents
          NoSlot,       \* the slot of a change that has none
          Uncaptured,   \* an original storage word not captured yet
          PreStates,    \* worlds a transaction may start from
          MaxNonce, MaxJournal, MaxDepth, MaxLogs, MaxRefund   \* bounds

ASSUME SlotAssumption == NoSlot \notin Slots
ASSUME CaptureAssumption == Uncaptured \notin Words
ASSUME AddressAssumption == Balances \subseteq Nat /\ Precompiles \subseteq Addr
ASSUME SizeAssumption == IsFiniteSet(Addr) /\ IsFiniteSet(Slots)   \* 160 and 256 bits

SetKinds == {"WARM_ACCOUNT", "WARM_STORAGE", "TOUCHED", "DOOMED"}
AccountKinds == {"BALANCE", "NONCE", "STORAGE", "CODE", "DELEGATION"}
Kinds == SetKinds \cup AccountKinds \cup {"TRANSIENT"}

Storage == [Addr -> [Slots -> Words]]
World == [accounts: SUBSET Addr, balance: [Addr -> Nat], nonce: [Addr -> Nat],
          code: [Addr -> Codes], storage: Storage, transient: Storage,
          warmAccounts: SUBSET Addr, warmSlots: SUBSET (Addr \X Slots),
          touched: SUBSET Addr, doomed: SUBSET Addr]
Change == [kind: Kinds, address: Addr, slot: Slots \cup {NoSlot},
           previous: Nat \cup Codes, existed: BOOLEAN]
Ledger == [world: World, journal: Seq(Change), before: Seq(World)]

\* A transaction starts without transient storage, touched or doomed accounts.
FreshWorld(w) ==
  /\ w \in World /\ AbsentIsEmpty(w)
  /\ w.transient = [a \in Addr |-> EmptyStorage]
  /\ w.warmSlots = {} /\ w.touched = {} /\ w.doomed = {}

ASSUME PreStateAssumption == \A w \in PreStates : FreshWorld(w)

VARIABLES
  ledger,     \* the journaled state, its undo journal and its history
  frames,     \* the open checkpoints, innermost last; their callers hold them
  logs,       \* emitted logs
  refund,     \* the EIP-3529 refund counter
  isStatic,   \* whether the innermost frame is static
  originals,  \* storage as the transaction found it, captured before a write
  created,    \* accounts created by this transaction
  status,     \* what the last operation returned
  phase       \* how far the transaction has come

vars == <<ledger, frames, logs, refund, isStatic, originals, created, status, phase>>

world == ledger.world
journal == ledger.journal

\* The world when the journal held k changes.
At(L, k) == IF k < Len(L.journal) THEN L.before[k + 1] ELSE L.world

-----------------------------------------------------------------------------
(* The journal: recording a change, and taking one back. *)

\* Appends a change and applies its write; a failed write pops the change.
Record(L, change, w) ==
  [world |-> w, journal |-> Append(L.journal, change),
   before |-> Append(L.before, L.world)]

change(kind, a, s, previous, existed) ==
  [kind |-> kind, address |-> a, slot |-> s, previous |-> previous, existed |-> existed]

marked(w, kind, a, s) ==
  CASE kind = "WARM_ACCOUNT" -> a \in Precompiles \cup w.warmAccounts
    [] kind = "WARM_STORAGE" -> <<a, s>> \in w.warmSlots
    [] kind = "TOUCHED"      -> a \in w.touched
    [] OTHER                 -> a \in w.doomed

insert(w, kind, a, s) ==
  CASE kind = "WARM_ACCOUNT" -> [w EXCEPT !.warmAccounts = @ \cup {a}]
    [] kind = "WARM_STORAGE" -> [w EXCEPT !.warmSlots = @ \cup {<<a, s>>}]
    [] kind = "TOUCHED"      -> [w EXCEPT !.touched = @ \cup {a}]
    [] OTHER                 -> [w EXCEPT !.doomed = @ \cup {a}]

mark(L, kind, a, s) ==
  IF marked(L.world, kind, a, s) THEN L
  ELSE Record(L, change(kind, a, s, 0, TRUE), insert(L.world, kind, a, s))

previousOf(w, kind, a, s) ==
  CASE kind = "BALANCE" -> w.balance[a]
    [] kind = "NONCE"   -> w.nonce[a]
    [] kind = "STORAGE" -> w.storage[a][s]
    [] OTHER            -> w.transient[a][s]

written(w, kind, a, s, v) ==
  CASE kind = "BALANCE" -> set_balance(w, a, v)
    [] kind = "NONCE"   -> set_nonce(w, a, v)
    [] kind = "STORAGE" -> storage_store(w, a, s, v)
    [] OTHER            -> [w EXCEPT !.transient[a][s] = v]

\* Mutant: takes an account to be new when the word written was zero.
write_guessing_existence(L, kind, a, s, v) ==
  LET previous == previousOf(L.world, kind, a, s) IN
  IF previous = v THEN L
  ELSE Record(L, change(kind, a, s, previous, previous # 0), written(L.world, kind, a, s, v))

\* Writing the word already there records nothing.
write(L, kind, a, s, v) ==
  LET previous == previousOf(L.world, kind, a, s) IN
  IF previous = v THEN L
  ELSE Record(L, change(kind, a, s, previous, exists(L.world, a)),
              written(L.world, kind, a, s, v))

record_code(L, kind, a, c) ==
  Record(L, change(kind, a, NoSlot, L.world.code[a], exists(L.world, a)),
         set_code(L.world, a, c))

\* What a change's kind restores, before an account it created is removed.
restored(c, w) ==
  LET a == c.address IN
  CASE c.kind \in {"BALANCE", "NONCE", "STORAGE", "TRANSIENT"} ->
         written(w, c.kind, a, c.slot, c.previous)
    [] c.kind = "WARM_ACCOUNT" -> [w EXCEPT !.warmAccounts = @ \ {a}]
    [] c.kind = "WARM_STORAGE" -> [w EXCEPT !.warmSlots = @ \ {<<a, c.slot>>}]
    [] c.kind = "CODE"         -> set_code(w, a, NoCode)
    [] c.kind = "DELEGATION"   -> set_code(w, a, c.previous)
    [] c.kind = "TOUCHED"      -> [w EXCEPT !.touched = @ \ {a}]
    [] OTHER                   -> [w EXCEPT !.doomed = @ \ {a}]

createdAccount(c) == ~c.existed /\ c.kind \in AccountKinds

\* Mutant: leaves the accounts a rolled back frame created.
undone_keeping_account(c, w) == restored(c, w)

undone(c, w) ==
  IF createdAccount(c) THEN remove_empty_account(restored(c, w), c.address)
  ELSE restored(c, w)

\* The assertion on the account's removal fails and the process stops.
undo_panics(c, w) ==
  createdAccount(c) /\ ~can_remove_empty(restored(c, w), c.address)

\* Mutants: pops two changes after restoring one, or none.
undo_popping_two(L) ==
  LET n == Len(L.journal) IN
  [world |-> undone(L.journal[n], L.world), journal |-> SubSeq(L.journal, 1, n - 2),
   before |-> SubSeq(L.before, 1, n - 1)]

undo_popping_none(L) == [L EXCEPT !.world = undone(L.journal[Len(L.journal)], L.world)]

undo(L) ==
  LET n == Len(L.journal) IN
  [world |-> undone(L.journal[n], L.world),
   journal |-> SubSeq(L.journal, 1, n - 1), before |-> SubSeq(L.before, 1, n - 1)]
-----------------------------------------------------------------------------
(* Operations.  Each outcome is the ledger and the status it returns. *)

OK == "OK"
ERR_STATIC_WRITE == "ERR_STATIC_WRITE"
ERR_HOST_ALLOCATION == "ERR_HOST_ALLOCATION"

Outcomes(before, after) ==
  {<<after, OK>>} \cup IF after = before THEN {} ELSE {<<before, ERR_HOST_ALLOCATION>>}

MarkOutcomes(L, kind, a, s) == Outcomes(L, mark(L, kind, a, s))

WriteOutcomes(L, kind, a, s, v) ==
  IF isStatic THEN {<<L, ERR_STATIC_WRITE>>} ELSE Outcomes(L, write(L, kind, a, s, v))

\* The operations of a transaction whose caller met no failure.
Operating ==
  /\ phase \in {"setup", "running"} /\ status = OK
  /\ Len(journal) < MaxJournal

Returns(outcome) ==
  /\ ledger' = outcome[1] /\ status' = outcome[2]
  /\ phase' = "running"

rest == <<frames, logs, refund, isStatic, originals, created>>

WarmAccount(a) ==
  /\ Operating
  /\ \E o \in MarkOutcomes(ledger, "WARM_ACCOUNT", a, NoSlot) : Returns(o)
  /\ UNCHANGED rest

WarmSlot(a, s) ==
  /\ Operating
  /\ \E o \in MarkOutcomes(ledger, "WARM_STORAGE", a, s) : Returns(o)
  /\ UNCHANGED rest

Touch(a) ==
  /\ Operating
  /\ \E o \in MarkOutcomes(ledger, "TOUCHED", a, NoSlot) : Returns(o)
  /\ UNCHANGED rest

\* SELFDESTRUCT checks for a static frame, and dooms only an account this
\* transaction created.
Doom(a) ==
  /\ Operating /\ ~isStatic /\ a \in created
  /\ \E o \in MarkOutcomes(ledger, "DOOMED", a, NoSlot) : Returns(o)
  /\ UNCHANGED rest

\* Mutant: the write alone.
TouchThenWrite_untouched(kind, a, v) ==
  \E o \in WriteOutcomes(ledger, kind, a, NoSlot, v) : Returns(o)

\* Balance and nonce writes touch their account even when unchanged; the touch
\* stays when the write then fails.
TouchThenWrite(kind, a, v) ==
  \E t \in MarkOutcomes(ledger, "TOUCHED", a, NoSlot) :
    IF t[2] # OK THEN Returns(t)
    ELSE \E o \in WriteOutcomes(t[1], kind, a, NoSlot, v) : Returns(o)

SetBalance(a, v) ==
  /\ Operating
  /\ TouchThenWrite("BALANCE", a, v)
  /\ UNCHANGED rest

IncrementNonce(a) ==
  /\ Operating /\ world.nonce[a] < MaxNonce
  /\ TouchThenWrite("NONCE", a, world.nonce[a] + 1)
  /\ UNCHANGED rest

\* Touches the account, then journals and sets its code.
TouchThenCode(kind, a, c) ==
  \E t \in MarkOutcomes(ledger, "TOUCHED", a, NoSlot) :
    IF t[2] # OK THEN Returns(t)
    ELSE \E o \in {<<record_code(t[1], kind, a, c), OK>>, <<t[1], ERR_HOST_ALLOCATION>>} :
           Returns(o)

\* A creation deploys at an account begin_create gave a nonce.
DeployCode(a, c) ==
  /\ Operating
  /\ a \in created /\ exists(world, a) /\ world.code[a] = NoCode
  /\ IF isStatic THEN Returns(<<ledger, ERR_STATIC_WRITE>>) ELSE TouchThenCode("CODE", a, c)
  /\ UNCHANGED rest

\* EIP-7702 authorizations point an authority's code at a delegate, or clear it,
\* before any frame opens; they never check for a static frame.
DelegateCode(a, c) ==
  /\ Operating /\ frames = <<>>
  /\ world.code[a] = NoCode \/ is_delegated(world, a)
  /\ TouchThenCode("DELEGATION", a, c)
  /\ UNCHANGED rest

\* Mutant: prices every store against the present word.
original_storage_current(a, s) == world.storage[a][s]

\* The words storage held when the transaction began.
original_storage(a, s) ==
  IF originals[a][s] = Uncaptured THEN world.storage[a][s] ELSE originals[a][s]

\* The refund part of gas.fe's EIP-2200/EIP-3529 charge.
storage_refund(original, current, value) ==
  IF current = value THEN 0
  ELSE IF original = current THEN IF original # 0 /\ value = 0 THEN 4800 ELSE 0
  ELSE (IF original = 0 THEN 0
        ELSE IF current = 0 THEN -4800 ELSE IF value = 0 THEN 4800 ELSE 0)
       + (IF original # value THEN 0 ELSE IF original = 0 THEN 19900 ELSE 2800)

\* The original is captured before the write and stays captured if it fails.
\* The refund is computed first, from the storage as it was.
StorageStore(a, s, v) ==
  /\ Operating
  /\ IF isStatic
     THEN Returns(<<ledger, ERR_STATIC_WRITE>>) /\ UNCHANGED <<originals, refund>>
     ELSE \/ /\ originals[a][s] = Uncaptured
             /\ Returns(<<ledger, ERR_HOST_ALLOCATION>>) /\ UNCHANGED <<originals, refund>>
          \/ /\ originals' = [originals EXCEPT ![a][s] = original_storage(a, s)]
             /\ \E o \in WriteOutcomes(ledger, "STORAGE", a, s, v) :
                  /\ Returns(o)
                  /\ refund' = refund + IF o[2] = OK
                       THEN storage_refund(original_storage(a, s), world.storage[a][s], v)
                       ELSE 0
  /\ UNCHANGED <<frames, logs, isStatic, created>>

TransientStore(a, s, v) ==
  /\ Operating
  /\ \E o \in WriteOutcomes(ledger, "TRANSIENT", a, s, v) : Returns(o)
  /\ UNCHANGED rest

EmitLog(topic) ==
  /\ Operating /\ Len(logs) < MaxLogs
  /\ \/ isStatic /\ Returns(<<ledger, ERR_STATIC_WRITE>>) /\ UNCHANGED logs
     \/ ~isStatic /\ Returns(<<ledger, OK>>) /\ logs' = Append(logs, topic)
     \/ ~isStatic /\ Returns(<<ledger, ERR_HOST_ALLOCATION>>) /\ UNCHANGED logs
  /\ UNCHANGED <<frames, refund, isStatic, originals, created>>

\* An authorization of an account that exists refunds 12500 of its charge.
AddRefund ==
  /\ Operating /\ frames = <<>> /\ refund < MaxRefund
  /\ refund' = refund + 12500
  /\ phase' = "running"
  /\ UNCHANGED <<ledger, frames, logs, isStatic, originals, created, status>>

\* The mark is not journaled: it survives the frame's rollback.
MarkCreated(a) ==
  /\ Operating /\ frames # <<>> /\ ~isStatic /\ deployable(world, a)
  /\ \/ created' = created \cup {a} /\ Returns(<<ledger, OK>>)
     \/ created' = created /\ Returns(<<ledger, ERR_HOST_ALLOCATION>>)
  /\ UNCHANGED <<frames, logs, refund, isStatic, originals>>

-----------------------------------------------------------------------------
(* The access list precedes every other operation and is never undone. *)

Listing == phase = "setup" /\ status = OK

AccessListAccount(a) ==
  /\ Listing
  /\ \/ ledger' = [ledger EXCEPT !.world.warmAccounts = @ \cup {a}] /\ status' = OK
     \/ ledger' = ledger /\ status' = ERR_HOST_ALLOCATION
  /\ UNCHANGED <<rest, phase>>

\* When the slot cannot be listed, an account listed for it is taken out again.
AccessListSlot(a, s) ==
  /\ Listing
  /\ \/ /\ ledger' = [ledger EXCEPT !.world.warmAccounts = @ \cup {a},
                                    !.world.warmSlots = @ \cup {<<a, s>>}]
        /\ status' = OK
     \/ /\ ledger' = IF a \in Precompiles
                     THEN [ledger EXCEPT !.world.warmAccounts = @ \cup {a}] ELSE ledger
        /\ status' = ERR_HOST_ALLOCATION
     \/ ledger' = ledger /\ status' = ERR_HOST_ALLOCATION
  /\ UNCHANGED <<rest, phase>>

-----------------------------------------------------------------------------
(* Checkpoints.  vm.fe closes each once, in reverse opening order, so the    *)
(* depth assertions of commit and revert name the innermost one.             *)

Top == frames[Len(frames)]
Pop(s) == SubSeq(s, 1, Len(s) - 1)

checkpoint(static) ==
  /\ phase \in {"setup", "running"} /\ status = OK /\ Len(frames) < MaxDepth
  /\ frames' = Append(frames, [position |-> Len(journal), was_static |-> isStatic,
                               refund |-> refund, logs |-> Len(logs)])
  /\ isStatic' = (isStatic \/ static)
  /\ phase' = "running"
  /\ UNCHANGED <<ledger, logs, refund, originals, created, status>>

\* Mutant: the caller of a static frame stays static.
commit_staying_static ==
  /\ phase = "running" /\ status = OK /\ frames # <<>>
  /\ frames' = Pop(frames)
  /\ UNCHANGED <<ledger, logs, refund, isStatic, originals, created, status, phase>>

commit ==
  /\ phase = "running" /\ status = OK /\ frames # <<>>
  /\ frames' = Pop(frames) /\ isStatic' = Top.was_static
  /\ UNCHANGED <<ledger, logs, refund, originals, created, status, phase>>

\* Any frame may fail: on its own fault, or because its child's failure is the
\* host's.  undo_to then pops one change per iteration of its loop.
revert ==
  /\ phase = "running" /\ frames # <<>>
  /\ phase' = "reverting"
  /\ UNCHANGED <<ledger, rest, status>>

Target == IF phase = "reverting" THEN Top.position ELSE 0

undo_to ==
  /\ phase \in {"reverting", "aborting"} /\ Len(journal) > Target
  /\ IF undo_panics(journal[Len(journal)], world)
     THEN phase' = "panicked" /\ UNCHANGED ledger
     ELSE ledger' = undo(ledger) /\ UNCHANGED phase
  /\ UNCHANGED <<rest, status>>

\* Mutant: refunds of a failed frame are kept.
reverted_keeping_refund ==
  /\ phase = "reverting" /\ Len(journal) <= Target
  /\ phase' = "running"
  /\ frames' = Pop(frames) /\ isStatic' = Top.was_static
  /\ logs' = SubSeq(logs, 1, Top.logs) /\ refund' = refund
  /\ status' = IF status = ERR_HOST_ALLOCATION THEN status ELSE OK
  /\ UNCHANGED <<ledger, originals, created>>

\* A frame's own failure ends with it; a host failure unwinds every frame.
reverted ==
  /\ phase = "reverting" /\ Len(journal) <= Target
  /\ phase' = "running"
  /\ frames' = Pop(frames) /\ isStatic' = Top.was_static
  /\ logs' = SubSeq(logs, 1, Top.logs) /\ refund' = Top.refund
  /\ status' = IF status = ERR_HOST_ALLOCATION THEN status ELSE OK
  /\ UNCHANGED <<ledger, originals, created>>

-----------------------------------------------------------------------------
(* The end of the transaction, after every frame has closed. *)

take_logs ==
  /\ phase = "running" /\ status = OK /\ frames = <<>>
  /\ phase' = "logged" /\ logs' = <<>>
  /\ UNCHANGED <<ledger, frames, refund, isStatic, originals, created, status>>

\* Self-destructed accounts go, then touched accounts left empty.
settled(w) ==
  LET live == remove_accounts(w, w.doomed)
  IN remove_accounts(live, {a \in w.touched : exists(live, a) /\ is_empty(live, a)})

\* These deletions are not journaled: only a transaction that stays settles.
settle ==
  /\ phase = "logged" /\ frames = <<>>
  /\ ledger' = [ledger EXCEPT !.world = settled(world)]
  /\ phase' = "settled"
  /\ UNCHANGED <<rest, status>>

finish(commits) ==
  /\ frames = <<>>
  /\ IF commits THEN phase = "settled" /\ phase' = "committed"
     ELSE phase \in {"setup", "running", "logged"} /\ phase' = "aborting"
  /\ UNCHANGED <<ledger, rest, status>>

\* Mutant: a transaction given up keeps its logs.
aborted_keeping_logs ==
  /\ phase = "aborting" /\ Len(journal) = 0
  /\ phase' = "aborted"
  /\ UNCHANGED <<ledger, rest, status>>

aborted ==
  /\ phase = "aborting" /\ Len(journal) = 0
  /\ phase' = "aborted" /\ logs' = <<>>
  /\ UNCHANGED <<ledger, frames, refund, isStatic, originals, created, status>>
-----------------------------------------------------------------------------
Init ==
  /\ ledger \in {[world |-> w, journal |-> <<>>, before |-> <<>>] : w \in PreStates}
  /\ frames = <<>> /\ logs = <<>> /\ refund = 0 /\ isStatic = FALSE
  /\ originals = [a \in Addr |-> [s \in Slots |-> Uncaptured]]
  /\ created = {} /\ status = OK /\ phase = "setup"

AccountOperation(a) ==
  \/ WarmAccount(a) \/ Touch(a) \/ Doom(a) \/ IncrementNonce(a) \/ MarkCreated(a)
  \/ \E v \in Balances : SetBalance(a, v)
  \/ \E c \in {NoCode} \cup Contracts : DeployCode(a, c)
  \/ \E c \in {NoCode} \cup Addr : DelegateCode(a, c)
  \/ AccessListAccount(a)

SlotOperation(a, s) ==
  \/ WarmSlot(a, s) \/ AccessListSlot(a, s)
  \/ \E v \in Words : StorageStore(a, s, v) \/ TransientStore(a, s, v)

Next ==
  \/ \E a \in Addr : AccountOperation(a)
  \/ \E a \in Addr, s \in Slots : SlotOperation(a, s)
  \/ \E t \in Topics : EmitLog(t)
  \/ AddRefund
  \/ \E static \in BOOLEAN : checkpoint(static)
  \/ commit \/ revert \/ undo_to \/ reverted
  \/ take_logs \/ settle \/ aborted
  \/ \E commits \in BOOLEAN : finish(commits)

Spec == Init /\ [][Next]_vars

\* The program runs its undo loop to the end once it has started it.
Fairness == WF_vars(undo_to) /\ WF_vars(reverted) /\ WF_vars(aborted)
LiveSpec == Spec /\ Fairness

-----------------------------------------------------------------------------
(* Properties *)

Frame == [position: Nat, was_static: BOOLEAN, refund: Int, logs: Nat]
Phases == {"setup", "running", "reverting", "aborting", "aborted", "panicked",
           "logged", "settled", "committed"}

\* Every variable keeps its type, the journal and its history the same length.
TypeOK ==
  /\ ledger \in Ledger /\ Len(ledger.before) = Len(ledger.journal)
  /\ frames \in Seq(Frame) /\ logs \in Seq(Topics)
  /\ refund \in Int /\ isStatic \in BOOLEAN
  /\ originals \in [Addr -> [Slots -> Words \cup {Uncaptured}]]
  /\ created \in SUBSET Addr
  /\ status \in {OK, ERR_STATIC_WRITE, ERR_HOST_ALLOCATION}
  /\ phase \in Phases

\* No account that is absent holds a balance, nonce, code or
\* storage word, at any point a rollback can return to.
AbsentAccountsAreEmpty == \A k \in 0..Len(journal) : AbsentIsEmpty(At(ledger, k))

\* The open checkpoints lie within the journal and the logs, in opening order.
FramesOrdered ==
  /\ \A i \in 1..Len(frames) : frames[i].position <= Len(journal) /\ frames[i].logs <= Len(logs)
  /\ \A i, j \in 1..Len(frames) : i <= j =>
       frames[i].position <= frames[j].position /\ frames[i].logs <= frames[j].logs

PreState == At(ledger, 0)
Concluded == phase \in {"settled", "committed"}

\* Each journaled change, undone on the world it left behind, brings back the
\* whole world before it: not the written word alone but also whether the
\* account existed (transaction.fe undo_to).  Settlement's deletions, which are not journaled, end it.
JournalRestores ==
  ~Concluded =>
    \A k \in 1..Len(journal) : undone(journal[k], At(ledger, k)) = At(ledger, k - 1)

\* SSTORE gas prices against the word each slot held when the transaction began:
\* capturing originals only at the first write, and keeping them across frame
\* rollbacks, never mistakes a later word for it (original_storage).
OriginalIsPreState ==
  ~Concluded => \A a \in Addr, s \in Slots :
                  original_storage(a, s) = PreState.storage[a][s]

\* The signed refund counter never loses a clearing it owes: it is at least 4800
\* for every slot the transaction has cleared, so it is never negative when it is
\* capped, whatever was rolled back in between (EIP-3529).
RefundCoversCleared ==
  phase \in {"running", "logged"} =>
    refund >= 4800 * Cardinality({k \in Addr \X Slots :
                /\ PreState.storage[k[1]][k[2]] # 0
                /\ world.storage[k[1]][k[2]] = 0})

\* Settlement looks at touched accounts only, so a touch must outlast every rollback
\* that leaves its write: no transaction leaves behind an account it emptied
\* (EIP-161).
NoAccountLeftEmptied ==
  phase = "committed" =>
    \A a \in world.accounts : is_empty(world, a) => is_empty(PreState, a)

\* The assertions of the undo loop hold for every change but one: a delegation
\* cleared for an authority that has no account (see NeverPanics).
OnlyAbsentClearPanics ==
  phase = "panicked" =>
    LET c == journal[Len(journal)]
    IN c.kind = "DELEGATION" /\ ~c.existed /\ ~exists(world, c.address)

\* "The code must be empty or a designator, which the journal can restore."
\* (transaction.fe, delegate_code): undoing never fails an assertion.
NeverPanics == phase # "panicked"

\* A rollback that has begun ends, closing the frame or the transaction.
RollbackEnds == phase \in {"reverting", "aborting"} ~> phase \in {"running", "aborted", "panicked"}

-----------------------------------------------------------------------------
(* The journal implements nested snapshots. *)

stateOf(w) == [accounts |-> w.accounts, balance |-> w.balance, nonce |-> w.nonce,
               code |-> w.code, storage |-> w.storage, transient |-> w.transient,
               doomed |-> w.doomed]
accessOf(w) == [accounts |-> w.warmAccounts, slots |-> w.warmSlots, touched |-> w.touched]

view(w, ls, r, static) ==
  [state |-> stateOf(w), access |-> accessOf(w), logs |-> ls, refund |-> r, static |-> static]

\* What a rollback to frame f brings back.
savedBy(f) ==
  view(At(ledger, f.position), SubSeq(logs, 1, f.logs), f.refund, f.was_static)

Reverting == frames # <<>> /\ phase \in {"reverting", "panicked"}
Aborting == frames = <<>> /\ phase \in {"aborting", "panicked"}

absCurrent ==
  IF Reverting THEN savedBy(Top)
  ELSE IF Aborting THEN view(PreState, <<>>, refund, isStatic)
  ELSE view(world, logs, refund, isStatic)

absSaved ==
  [i \in 1..(IF Reverting THEN Len(frames) - 1 ELSE Len(frames)) |-> savedBy(frames[i])]

absBase == IF Concluded THEN stateOf(world) ELSE stateOf(PreState)

absMode ==
  IF Reverting THEN "restoring"
  ELSE IF Aborting \/ phase = "aborted" \/ Concluded THEN "ended" ELSE "open"

Abstract == INSTANCE NestedSnapshots WITH
  current <- absCurrent, saved <- absSaved, base <- absBase, mode <- absMode

\* A frame that reverts, a transaction that aborts and a simulation bring back
\* exactly what they began from, a committed child is undone with its parent, and
\* a static frame changes nothing but warmth and touches.
NestedSnapshots == Abstract!Spec
=============================================================================
