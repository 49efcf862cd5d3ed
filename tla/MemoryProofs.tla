---------------------------- MODULE MemoryProofs ----------------------------
(***************************************************************************)
(* The memory of the program is the memory the definition promises: the    *)
(* proof that Memory implements EvmMemory, for every set of operands and   *)
(* every gas limit below the price of the extent that is refused.          *)
(***************************************************************************)
EXTENDS Memory, Sums, SequenceTheorems

(***************************************************************************)
(* The inductive invariant.                                                *)
(***************************************************************************)
Buffer == [len : Nat, cells : Seq(Nat)]
FrameRecord == [memory : Buffer, size : Nat, gas : Nat, input : Seq(Nat), out : Nat \X Nat,
                logs : Nat, status : {"ok", "out_of_gas", "host"}]
Entry == [start : Nat, len : Nat]

\* The sizes below the extent that is refused, and the price from which one is.
Sizes == {0, 2, 4, 6, 8, 10, 12, 14, 16, 18}
UNPAYABLE == 12

\* What lies between the size of a memory and the length of its buffer reads zero.
Clean(g) ==
  /\ g.size \in Sizes /\ g.size <= g.memory.len /\ g.memory.len <= Len(g.memory.cells)
  /\ \A k \in 1 .. g.memory.len : k > g.size => g.memory.cells[k] = 0
FramesClean(s) == \A k \in 1 .. Len(s) : s[k].status = "ok" /\ Clean(s[k])
\* What a frame has paid for its memory and what the message has left stay below what is refused.
GasHeld(s) ==
  \A k \in 1 .. Len(s) :
    /\ E!Cost(s[k].size) + s[Len(s)].gas < UNPAYABLE
    /\ k < Len(s) => s[k].gas = 0
\* The room for a callee's output lies within its caller's memory.
OutputsFit(s) == \A k \in 1 .. Len(s) - 1 : s[k + 1].out[1] + s[k + 1].out[2] <= s[k].size
\* A frame began with no more logs than the frames above it, and none of those are gone.
LogsNest(s, count) ==
  \A k \in 1 .. Len(s) : s[k].logs <= count /\ \A j \in 1 .. k : s[j].logs <= s[k].logs
StackInv(s, count) ==
  s \in Seq(FrameRecord) /\ FramesClean(s) /\ GasHeld(s) /\ OutputsFit(s) /\ LogsNest(s, count)
\* A memory in the pool has no length: whoever takes it sees none of its cells.
PoolInv(memories) == memories \in Seq(Buffer) /\ \A k \in 1 .. Len(memories) : memories[k].len = 0
\* The logs lie one behind the other in the data.
LogInv(e, d) ==
  /\ e \in Seq(Entry) /\ d \in Seq(Nat)
  /\ \A k \in 1 .. Len(e) :
       /\ e[k].start + e[k].len <= Len(d)
       /\ \A j \in 1 .. k - 1 : e[j].start + e[j].len <= e[k].start
IInv ==
  StackInv(stack, Len(entries)) /\ PoolInv(pool) /\ LogInv(entries, data) /\ left \in 0 .. Len(GasLimits)

(***************************************************************************)
(* Sizes and prices                                                        *)
(***************************************************************************)
LEMMA PriceTable ==
  /\ E!Cost(0) = 0 /\ E!Cost(2) = 1 /\ E!Cost(4) = 2 /\ E!Cost(6) = 4 /\ E!Cost(8) = 6
  /\ E!Cost(10) = 8 /\ E!Cost(12) = 10 /\ E!Cost(14) = 13 /\ E!Cost(16) = 16 /\ E!Cost(18) = 19
BY DEF E!Cost, E!Words, E!WORD

LEMMA PriceFacts ==
  \A a, b \in Sizes :
    /\ E!Cost(a) \in 0 .. 19 /\ a \in 0 .. 18 /\ a \in Nat
    /\ a <= b => E!Cost(a) <= E!Cost(b)
BY PriceTable DEF Sizes

LEMMA PriceIs ==
  ASSUME NEW a \in Sizes
  PROVE  (a \div WORD) + ((a \div WORD) * (a \div WORD)) \div 8 = E!Cost(a) /\ WORD * (a \div WORD) = a
BY PriceTable DEF Sizes, WORD

LEMMA RoundedFacts ==
  ASSUME NEW n \in Nat
  PROVE  /\ E!Rounded(n) \in Nat /\ n <= E!Rounded(n) /\ E!Rounded(n) <= n + 1
         /\ WORD * words(n) = E!Rounded(n) /\ words(n) = E!Words(n) /\ E!Words(n) \in Nat
         /\ E!Rounded(n) < UNPAYABLE_EXTENT => E!Rounded(n) \in Sizes
         /\ \A s \in Sizes : E!Rounded(n) <= s <=> n <= s
<1>1. PICK w \in Nat : w = (n + 1) \div 2
  OBVIOUS
<1>2. n <= 2 * w /\ 2 * w <= n + 1
  BY <1>1
<1>3. E!Words(n) = w /\ E!Rounded(n) = 2 * w /\ words(n) = w
  BY <1>1 DEF E!Rounded, E!Words, E!WORD, words, WORD
<1>4. E!Rounded(n) < UNPAYABLE_EXTENT => E!Rounded(n) \in Sizes
  BY <1>3 DEF Sizes, UNPAYABLE_EXTENT
<1>5. ASSUME NEW s \in Sizes PROVE 2 * w <= s <=> n <= s
  BY <1>2 DEF Sizes
<1> QED BY <1>2, <1>3, <1>4, <1>5 DEF WORD

\* What is refused costs more than any message has paid and still has.
LEMMA FarIsUnpayable ==
  ASSUME NEW n \in Nat, n >= UNPAYABLE_EXTENT
  PROVE  E!Cost(n) \in Nat /\ E!Cost(n) >= 22
<1>1. PICK w \in Nat : w = (n + 1) \div 2 /\ w >= 10
  BY DEF UNPAYABLE_EXTENT
<1>2. w * w \in Nat /\ w * w >= 100
  <2>1. w * w >= 10 * w
    BY <1>1
  <2> QED BY <1>1, <2>1
<1>3. PICK q \in Nat : q = w * w /\ q >= 100
  BY <1>2
<1>4. q \div 8 \in Nat /\ q \div 8 >= 12
  BY <1>3
<1>5. E!Cost(n) = w + q \div 8
  BY <1>1, <1>3 DEF E!Cost, E!Words, E!WORD
<1> QED BY <1>1, <1>4, <1>5

\* The extent of a range from the size c on, and what it costs.
LEMMA CoveringFacts ==
  ASSUME NEW c \in Nat, NEW offset \in Nat, NEW len \in Nat, NEW t, t = E!Covering(c, <<offset, len>>)
  PROVE  /\ t \in Nat /\ c <= t
         /\ len # 0 => offset + len <= t
         /\ (c \in Sizes /\ t < UNPAYABLE_EXTENT) => t \in Sizes
         /\ len = 0 => t = c
         /\ (offset + len <= c /\ c \in Sizes) => t = c
<1>1. t = IF len = 0 \/ E!Rounded(offset + len) <= c THEN c ELSE E!Rounded(offset + len)
  BY DEF E!Covering
<1>2. offset + len \in Nat
  OBVIOUS
<1>3. PICK n \in Nat : n = offset + len
  BY <1>2
<1>4. PICK r \in Nat : r = E!Rounded(n)
  BY <1>3, RoundedFacts
<1>5. /\ n <= r /\ (r < UNPAYABLE_EXTENT => r \in Sizes)
      /\ c \in Sizes => (r <= c <=> n <= c)
  BY <1>4, RoundedFacts
<1>6. t = IF len = 0 \/ r <= c THEN c ELSE r
  BY <1>1, <1>3, <1>4
<1>7. t \in Nat /\ c <= t
  BY <1>6
<1>8. len # 0 => n <= t
  BY <1>5, <1>6
<1>9. (c \in Sizes /\ t < UNPAYABLE_EXTENT) => t \in Sizes
  BY <1>5, <1>6
<1>10. len = 0 => t = c
  BY <1>6
<1>11. (n <= c /\ c \in Sizes) => t = c
  BY <1>5, <1>6
<1> QED BY <1>3, <1>7, <1>8, <1>9, <1>10, <1>11

LEMMA Covered ==
  ASSUME NEW c \in Nat, NEW offset \in Nat, NEW len \in Nat, NEW t, t = E!Covering(c, <<offset, len>>)
  PROVE  t \in Nat /\ c <= t /\ (len # 0 => offset + len <= t)
<1>1. t \in Nat /\ c <= t
  BY CoveringFacts
<1>2. len # 0 => offset + len <= t
  BY CoveringFacts
<1> QED BY <1>1, <1>2

LEMMA RequiredExtentIs ==
  ASSUME NEW c \in Sizes, NEW offset \in Nat, NEW len \in Nat, NEW t, t = E!Covering(c, <<offset, len>>)
  PROVE  required_extent(c, offset, len) = IF t < UNPAYABLE_EXTENT THEN t ELSE -1
<1>1. t = IF len = 0 \/ E!Rounded(offset + len) <= c THEN c ELSE E!Rounded(offset + len)
  BY DEF E!Covering
<1>2. PICK n \in Nat : n = offset + len
  OBVIOUS
<1>3. PICK r \in Nat : r = E!Rounded(n) /\ n <= r
  BY RoundedFacts
<1>4. c \in Nat /\ c < 20
  BY DEF Sizes
<1>5. CASE len = 0
  BY <1>1, <1>4, <1>5 DEF required_extent, UNPAYABLE_EXTENT
<1>6. CASE len # 0 /\ (offset >= UNPAYABLE_EXTENT \/ len >= UNPAYABLE_EXTENT)
  <2>1. required_extent(c, offset, len) = -1
    BY <1>6 DEF required_extent
  <2>2. r >= 20
    BY <1>2, <1>3, <1>6 DEF UNPAYABLE_EXTENT
  <2> QED BY <1>1, <1>2, <1>3, <1>4, <1>6, <2>1, <2>2 DEF UNPAYABLE_EXTENT
<1>7. CASE len # 0 /\ offset < UNPAYABLE_EXTENT /\ len < UNPAYABLE_EXTENT
  <2>1. (u64(offset) + u64(len)) % U64 = n
    BY <1>2, <1>7 DEF u64, U64, UNPAYABLE_EXTENT
  <2>2. WORD * words((u64(offset) + u64(len)) % U64) = r
    BY <1>3, <2>1, RoundedFacts
  <2>3. required_extent(c, offset, len) = IF r >= UNPAYABLE_EXTENT THEN -1 ELSE IF r > c THEN r ELSE c
    <3>1. ~(offset >= UNPAYABLE_EXTENT) /\ ~(len >= UNPAYABLE_EXTENT)
      BY <1>7 DEF UNPAYABLE_EXTENT
    <3> QED BY <1>7, <2>2, <3>1 DEF required_extent
  <2>4. t = IF r <= c THEN c ELSE r
    BY <1>1, <1>2, <1>3, <1>7
  <2> QED BY <1>3, <1>4, <2>3, <2>4 DEF UNPAYABLE_EXTENT
<1> QED BY <1>5, <1>6, <1>7 DEF UNPAYABLE_EXTENT

LEMMA ExpansionIs ==
  ASSUME NEW c \in Sizes, NEW t \in Nat, c <= t, t < UNPAYABLE_EXTENT => t \in Sizes
  PROVE  expansion(c, IF t < UNPAYABLE_EXTENT THEN t ELSE -1) =
           IF t < UNPAYABLE_EXTENT THEN [size |-> t, gas |-> E!Cost(t) - E!Cost(c)] ELSE None
<1>1. CASE t < UNPAYABLE_EXTENT
  <2>1. PICK a, b : a = E!Cost(c) /\ b = E!Cost(t) /\ a \in 0 .. 19 /\ b \in 0 .. 19
    BY <1>1, PriceFacts
  <2>2. t # -1 /\ ~(b - a >= U64)
    BY <2>1 DEF U64
  <2>3. /\ (c \div WORD) + ((c \div WORD) * (c \div WORD)) \div 8 = a
        /\ (t \div WORD) + ((t \div WORD) * (t \div WORD)) \div 8 = b
    BY <1>1, <2>1, PriceIs
  <2> QED BY <1>1, <2>1, <2>2, <2>3 DEF expansion
<1>2. CASE ~(t < UNPAYABLE_EXTENT)
  BY <1>2 DEF expansion
<1> QED BY <1>1, <1>2

\* A plan names the size to come to and its price, or that there is none.
Plans(plan, c, t) ==
  /\ t \in Nat /\ c <= t /\ (t < UNPAYABLE_EXTENT => t \in Sizes)
  /\ plan = IF t < UNPAYABLE_EXTENT THEN [size |-> t, gas |-> E!Cost(t) - E!Cost(c)] ELSE None

LEMMA MemoryExpansionIs ==
  ASSUME NEW c \in Sizes, NEW offset \in Nat, NEW len \in Nat
  PROVE  Plans(memory_expansion(c, offset, len), c, E!Covering(c, <<offset, len>>))
<1>1. PICK t : t = E!Covering(c, <<offset, len>>)
  OBVIOUS
<1>2. c \in Nat
  BY PriceFacts
<1>3. t \in Nat /\ c <= t /\ (t < UNPAYABLE_EXTENT => t \in Sizes)
  BY <1>1, <1>2, CoveringFacts
<1>4. memory_expansion(c, offset, len) = expansion(c, IF t < UNPAYABLE_EXTENT THEN t ELSE -1)
  BY <1>1, RequiredExtentIs DEF memory_expansion
<1> QED BY <1>1, <1>3, <1>4, ExpansionIs DEF Plans

LEMMA CopyExpansionIs ==
  ASSUME NEW c \in Sizes, NEW dest \in Nat, NEW source \in Nat, NEW len \in Nat
  PROVE  Plans(copy_expansion(c, dest, source, len), c,
               E!Covering(E!Covering(c, <<dest, len>>), <<source, len>>))
<1>1. PICK t : t = E!Covering(c, <<dest, len>>)
  OBVIOUS
<1>2. c \in Nat
  BY PriceFacts
<1>3. t \in Nat /\ c <= t /\ (t < UNPAYABLE_EXTENT => t \in Sizes)
  BY <1>1, <1>2, CoveringFacts
<1>4. PICK u : u = E!Covering(t, <<source, len>>)
  OBVIOUS
<1>5. u \in Nat /\ t <= u /\ (t < UNPAYABLE_EXTENT => (u < UNPAYABLE_EXTENT => u \in Sizes))
  BY <1>3, <1>4, CoveringFacts
<1>6. copy_expansion(c, dest, source, len) = expansion(c, IF u < UNPAYABLE_EXTENT THEN u ELSE -1)
  <2>1. required_extent(c, dest, len) = IF t < UNPAYABLE_EXTENT THEN t ELSE -1
    BY <1>1, RequiredExtentIs
  <2>2. CASE t < UNPAYABLE_EXTENT
    <3>1. required_extent(t, source, len) = IF u < UNPAYABLE_EXTENT THEN u ELSE -1
      BY <1>3, <1>4, <2>2, RequiredExtentIs
    <3>2. t # -1
      BY <1>3
    <3> QED BY <2>1, <2>2, <3>1, <3>2 DEF copy_expansion
  <2>3. CASE ~(t < UNPAYABLE_EXTENT)
    <3>1. ~(u < UNPAYABLE_EXTENT)
      BY <1>3, <1>5, <2>3 DEF UNPAYABLE_EXTENT
    <3> QED BY <2>1, <2>3, <3>1 DEF copy_expansion
  <2> QED BY <2>2, <2>3
<1>7. u < UNPAYABLE_EXTENT => u \in Sizes
  BY <1>3, <1>5 DEF UNPAYABLE_EXTENT
<1>8. c <= u
  BY <1>2, <1>3, <1>5
<1> QED BY <1>1, <1>4, <1>5, <1>6, <1>7, <1>8, ExpansionIs DEF Plans

LEMMA PlanMemoryIs ==
  ASSUME NEW g, g.size \in Sizes, NEW offset \in Nat, NEW len \in Nat
  PROVE  Plans(plan_memory(g, offset, len), g.size, E!Covering(g.size, <<offset, len>>))
<1>1. PICK c : c = g.size
  OBVIOUS
<1>2. c \in Sizes /\ c \in Nat /\ c < UNPAYABLE_EXTENT /\ c < U64
  BY <1>1 DEF Sizes, UNPAYABLE_EXTENT, U64
<1>3. CASE len <= c /\ in_memory(g, offset, u64(len))
  <2>1. u64(len) = len
    BY <1>2, <1>3 DEF u64, U64
  <2>2. offset + len <= c
    BY <1>1, <1>2, <1>3, <2>1 DEF in_memory
  <2>3. E!Covering(c, <<offset, len>>) = c
    BY <1>2, <2>2, CoveringFacts
  <2>4. plan_memory(g, offset, len) = [size |-> c, gas |-> 0]
    BY <1>1, <1>3 DEF plan_memory
  <2>5. E!Cost(c) - E!Cost(c) = 0
    BY <1>2, PriceFacts
  <2> QED BY <1>1, <1>2, <2>3, <2>4, <2>5 DEF Plans
<1>4. CASE ~(len <= c /\ in_memory(g, offset, u64(len)))
  BY <1>1, <1>2, <1>4, MemoryExpansionIs DEF plan_memory
<1> QED BY <1>3, <1>4

(***************************************************************************)
(* Buffers                                                                 *)
(***************************************************************************)
LEMMA CutIs ==
  ASSUME NEW s \in Seq(Nat), NEW a \in Nat, NEW b \in Nat, a + b <= Len(s)
  PROVE  /\ SubSeq(s, a + 1, a + b) \in Seq(Nat) /\ Len(SubSeq(s, a + 1, a + b)) = b
         /\ SubSeq(s, a + 1, a + b) = [k \in 1 .. b |-> s[a + k]]
<1>1. \A i \in a + 1 .. a + b : s[i] \in Nat
  OBVIOUS
<1>2. PICK q : q = SubSeq(s, a + 1, a + b)
  OBVIOUS
<1>3. /\ q \in Seq(Nat) /\ Len(q) = IF a + 1 <= a + b THEN a + b - (a + 1) + 1 ELSE 0
      /\ \A i \in 1 .. a + b - (a + 1) + 1 : q[i] = s[a + 1 + i - 1]
  BY <1>1, <1>2, SubSeqProperties
<1>4. Len(q) = b
  BY <1>3
<1>5. \A i \in 1 .. b : q[i] = s[a + i]
  BY <1>3
<1>6. q = [k \in 1 .. b |-> q[k]]
  BY <1>3, <1>4
<1> QED BY <1>2, <1>3, <1>4, <1>5, <1>6

LEMMA FunctionIsSeq ==
  ASSUME NEW n \in Nat, NEW h, \A k \in 1 .. n : h[k] \in Nat, h = [k \in 1 .. n |-> h[k]]
  PROVE  h \in Seq(Nat) /\ Len(h) = n
OBVIOUS

LEMMA TryResizeIs ==
  ASSUME NEW b \in Buffer, NEW n \in Nat, b.len <= n, b.len <= Len(b.cells), NEW r, r = try_resize(b, n)
  PROVE  /\ r \in Buffer /\ r.len = n /\ n <= Len(r.cells)
         /\ \A k \in 1 .. n : r.cells[k] = IF k <= b.len THEN b.cells[k] ELSE 0
<1>1. PICK c : c = b.cells
  OBVIOUS
<1>2. PICK m \in Nat : m = Len(c) /\ m = Len(b.cells)
  BY <1>1 DEF Buffer
<1>3. c \in Seq(Nat) /\ b.len \in Nat
  BY <1>1 DEF Buffer
<1>4. PICK l \in Nat : l = b.len
  BY <1>3
<1>5. PICK w \in Nat : w = IF n > m THEN n ELSE m
  OBVIOUS
<1> DEFINE h == [k \in 1 .. w |-> IF k <= l \/ (k > n /\ k <= m) THEN c[k] ELSE 0]
<1>6. r = [len |-> n, cells |-> h]
  BY <1>1, <1>2, <1>4, <1>5 DEF try_resize
<1>7. \A k \in 1 .. w : h[k] \in Nat
  <2>1. l <= m
    BY <1>2, <1>4
  <2>2. \A k \in 1 .. m : c[k] \in Nat
    BY <1>2, <1>1, <1>3
  <2> QED BY <2>1, <2>2
<1>8. h \in Seq(Nat) /\ Len(h) = w
  <2>1. h = [k \in 1 .. w |-> h[k]]
    OBVIOUS
  <2> HIDE DEF h
  <2> QED BY <1>7, <2>1, FunctionIsSeq
<1>9. \A k \in 1 .. n : h[k] = IF k <= l THEN c[k] ELSE 0
  BY <1>5
<1> HIDE DEF h
<1> QED BY <1>1, <1>4, <1>5, <1>6, <1>8, <1>9 DEF Buffer

(***************************************************************************)
(* What an operation makes of a frame                                      *)
(***************************************************************************)
Visible(g) == SubSeq(g.memory.cells, 1, g.size)
Fit(g) == g \in FrameRecord /\ g.status = "ok" /\ Clean(g) /\ E!Cost(g.size) + g.gas < UNPAYABLE

\* From the frame g an operation comes to the size t at the price due and leaves it as h, or fails.
Outcome(g, h, t, due) ==
  /\ h \in FrameRecord /\ h.input = g.input /\ h.out = g.out /\ h.logs = g.logs
  /\ \/ /\ h.status = "ok" /\ due <= g.gas /\ h.gas = g.gas - due
        /\ h.size = t /\ Clean(h) /\ Visible(h) = E!Padded(Visible(g), 0, t)
     \/ h.status = "out_of_gas" /\ due > g.gas
     \/ h.status = "host"

LEMMA VisibleIs ==
  ASSUME NEW g \in FrameRecord, Clean(g)
  PROVE  /\ Visible(g) \in Seq(Nat) /\ Len(Visible(g)) = g.size /\ g.size \in Nat
         /\ Visible(g) = [k \in 1 .. g.size |-> g.memory.cells[k]]
<1>1. PICK c \in Seq(Nat) : c = g.memory.cells
  BY DEF FrameRecord, Buffer
<1>2. PICK s \in Nat : s = g.size /\ s <= Len(c)
  <2>1. g.size \in Nat /\ g.memory.len \in Nat /\ Len(c) \in Nat
    BY DEF FrameRecord, Buffer
  <2> QED BY <1>1, <2>1 DEF Clean
<1>3. SubSeq(c, 0 + 1, 0 + s) = Visible(g)
  BY <1>1, <1>2 DEF Visible
<1>4. /\ SubSeq(c, 0 + 1, 0 + s) \in Seq(Nat) /\ Len(SubSeq(c, 0 + 1, 0 + s)) = s
      /\ SubSeq(c, 0 + 1, 0 + s) = [k \in 1 .. s |-> c[0 + k]]
  BY <1>2, CutIs
<1>5. [k \in 1 .. s |-> c[0 + k]] = [k \in 1 .. s |-> c[k]]
  OBVIOUS
<1> QED BY <1>1, <1>2, <1>3, <1>4, <1>5

\* The frame h is g with its memory extended to the size t.
Extended(g, h, t) ==
  /\ h \in FrameRecord /\ h.input = g.input /\ h.out = g.out /\ h.logs = g.logs /\ h.status = g.status
  /\ h.gas = g.gas /\ h.size = t /\ Clean(h) /\ Visible(h) = E!Padded(Visible(g), 0, t)

\* It is when what h keeps reads as g does up to the size of g and zero from there.
LEMMA ExtendedWhen ==
  ASSUME NEW g \in FrameRecord, Clean(g), NEW t \in Sizes, g.size <= t,
         NEW h \in FrameRecord, h.input = g.input, h.out = g.out, h.logs = g.logs, h.status = g.status,
         h.gas = g.gas, h.size = t, t <= h.memory.len, h.memory.len <= Len(h.memory.cells),
         \A k \in 1 .. h.memory.len : h.memory.cells[k] = IF k <= g.size THEN g.memory.cells[k] ELSE 0
  PROVE  Extended(g, h, t)
<1>1. PICK s \in Nat : s = g.size /\ s <= t
  BY DEF FrameRecord
<1>2. t \in Nat
  BY PriceFacts
<1>3. PICK l \in Nat : l = h.memory.len /\ t <= l
  BY DEF FrameRecord, Buffer
<1>4. PICK c, d : c = g.memory.cells /\ d = h.memory.cells
  OBVIOUS
<1>5. \A k \in 1 .. l : d[k] = IF k <= s THEN c[k] ELSE 0
  BY <1>1, <1>3, <1>4
<1>6. Clean(h)
  <2>1. \A k \in 1 .. l : k > t => d[k] = 0
    BY <1>1, <1>2, <1>5
  <2> QED BY <1>3, <1>4, <2>1 DEF Clean
<1>7. Visible(g) = [k \in 1 .. s |-> c[k]] /\ Len(Visible(g)) = s
  BY <1>1, <1>4, VisibleIs
<1>8. Visible(h) = [k \in 1 .. t |-> d[k]]
  BY <1>4, <1>6, VisibleIs
<1>9. PICK v : v = Visible(g) /\ Len(v) = s /\ v = [k \in 1 .. s |-> c[k]]
  BY <1>7
<1>10. E!Padded(v, 0, t) = [k \in 1 .. t |-> IF 0 < s /\ 0 + k <= s THEN v[0 + k] ELSE 0]
  BY <1>9 DEF E!Padded
<1>11. ASSUME NEW k \in 1 .. t
       PROVE  (IF 0 < s /\ 0 + k <= s THEN v[0 + k] ELSE 0) = d[k]
  <2>1. k \in 1 .. l /\ 0 + k = k
    BY <1>2, <1>3
  <2>2. CASE k <= s
    <3>1. k \in 1 .. s /\ 0 < s
      BY <1>1, <1>2, <2>2
    <3>2. v[k] = c[k]
      BY <1>9, <3>1
    <3> QED BY <1>5, <2>1, <2>2, <3>1, <3>2
  <2>3. CASE ~(k <= s)
    BY <1>5, <2>1, <2>3
  <2> QED BY <2>2, <2>3
<1>12. E!Padded(v, 0, t) = Visible(h)
  BY <1>8, <1>10, <1>11, Zenon
<1> QED BY <1>6, <1>9, <1>12 DEF Extended

LEMMA ResizedExtends ==
  ASSUME NEW g \in FrameRecord, Clean(g), NEW t \in Sizes, g.size <= t, NEW n \in Nat, t <= n,
         g.memory.len <= n, NEW h, h = [g EXCEPT !.memory = try_resize(@, n), !.size = t]
  PROVE  Extended(g, h, t)
<1>1. PICK b \in Buffer : b = g.memory
  BY DEF FrameRecord
<1>2. PICK r : r = try_resize(b, n)
  OBVIOUS
<1>3. b.len <= n /\ b.len <= Len(b.cells) /\ g.size <= b.len
  BY <1>1 DEF Clean
<1>4. r \in Buffer /\ r.len = n /\ n <= Len(r.cells) /\ \A k \in 1 .. n : r.cells[k] = IF k <= b.len THEN b.cells[k] ELSE 0
  BY <1>2, <1>3, TryResizeIs
<1>5. h = [g EXCEPT !.memory = r, !.size = t]
  BY <1>1, <1>2
<1>6. t \in Nat /\ g.size \in Nat /\ b.len \in Nat
  BY <1>1, PriceFacts DEF FrameRecord, Buffer
<1>7. /\ h \in FrameRecord /\ h.input = g.input /\ h.out = g.out /\ h.logs = g.logs /\ h.status = g.status
      /\ h.gas = g.gas /\ h.size = t /\ h.memory = r
  BY <1>4, <1>5, <1>6 DEF FrameRecord
<1>8. ASSUME NEW k \in 1 .. n PROVE r.cells[k] = IF k <= g.size THEN b.cells[k] ELSE 0
  <2>1. r.cells[k] = IF k <= b.len THEN b.cells[k] ELSE 0
    BY <1>4
  <2>2. k \in Nat /\ k >= 1
    OBVIOUS
  <2>3. CASE k <= b.len /\ k > g.size
    <3>1. b.cells[k] = 0
      BY <1>1, <1>6, <2>2, <2>3 DEF Clean
    <3> QED BY <1>6, <2>1, <2>2, <2>3, <3>1
  <2>4. CASE ~(k <= b.len /\ k > g.size)
    BY <1>3, <1>6, <2>1, <2>2, <2>4
  <2> QED BY <2>3, <2>4
<1>9. /\ t <= h.memory.len /\ h.memory.len <= Len(h.memory.cells)
      /\ \A k \in 1 .. h.memory.len : h.memory.cells[k] = IF k <= g.size THEN g.memory.cells[k] ELSE 0
  BY <1>1, <1>4, <1>7, <1>8
<1> HIDE DEF Extended
<1> QED BY <1>7, <1>9, ExtendedWhen

LEMMA RestingExtends ==
  ASSUME NEW g \in FrameRecord, Clean(g), NEW t \in Sizes, g.size <= t, t <= g.memory.len,
         NEW h, h = [g EXCEPT !.size = t]
  PROVE  Extended(g, h, t)
<1>1. t \in Nat /\ g.size \in Nat /\ g.memory \in Buffer /\ g.memory.len \in Nat
  BY PriceFacts DEF FrameRecord, Buffer
<1>2. /\ h \in FrameRecord /\ h.input = g.input /\ h.out = g.out /\ h.logs = g.logs /\ h.status = g.status
      /\ h.gas = g.gas /\ h.size = t /\ h.memory = g.memory
  BY <1>1 DEF FrameRecord
<1>3. ASSUME NEW k \in 1 .. h.memory.len
      PROVE  h.memory.cells[k] = IF k <= g.size THEN g.memory.cells[k] ELSE 0
  <2>1. k \in 1 .. g.memory.len /\ k \in Nat
    BY <1>1, <1>2
  <2>2. k > g.size => g.memory.cells[k] = 0
    BY <2>1 DEF Clean
  <2> QED BY <1>1, <1>2, <2>1, <2>2
<1>4. h.memory.len <= Len(h.memory.cells)
  BY <1>2 DEF Clean
<1> QED BY <1>2, <1>3, <1>4, ExtendedWhen

\* Growing the buffer shows the program zeros, however much of it is grown.
LEMMA ExpandOutcome ==
  ASSUME NEW g \in FrameRecord, g.status = "ok", Clean(g), NEW t \in Sizes, g.size <= t,
         NEW h \in expand_memory(g, t)
  PROVE  Extended(g, h, t) \/ h = Fault(g, "host")
<1>1. t \in Nat /\ g.size \in Nat /\ g.memory \in Buffer /\ g.memory.len \in Nat
  BY PriceFacts DEF FrameRecord, Buffer
<1>2. ok(g)
  BY DEF ok
<1>3. PICK n \in Nat : n = g.memory.len
  BY <1>1
<1>4. CASE t <= n
  <2>1. h = [g EXCEPT !.size = t]
    BY <1>2, <1>3, <1>4 DEF expand_memory
  <2> QED BY <1>3, <1>4, <2>1, RestingExtends
<1>5. CASE ~(t <= n)
  <2>1. \/ h = [g EXCEPT !.memory = try_resize(@, t), !.size = t]
        \/ 2 * n > t /\ h = [g EXCEPT !.memory = try_resize(@, 2 * n), !.size = t]
        \/ h = Fault(g, "host")
    BY <1>2, <1>3, <1>5 DEF expand_memory
  <2>2. CASE h = [g EXCEPT !.memory = try_resize(@, t), !.size = t]
    <3>1. t <= t /\ g.memory.len <= t
      BY <1>1, <1>3, <1>5
    <3> QED BY <1>1, <2>2, <3>1, ResizedExtends
  <2>3. CASE 2 * n > t /\ h = [g EXCEPT !.memory = try_resize(@, 2 * n), !.size = t]
    <3>1. 2 * n \in Nat /\ t <= 2 * n /\ g.memory.len <= 2 * n
      BY <1>1, <1>3, <2>3
    <3> QED BY <2>3, <3>1, ResizedExtends
  <2> QED BY <2>1, <2>2, <2>3
<1> QED BY <1>4, <1>5

Failing(g, h, status) ==
  h \in FrameRecord /\ h.input = g.input /\ h.out = g.out /\ h.logs = g.logs /\ h.status = status

LEMMA FaultIs ==
  ASSUME NEW g \in FrameRecord, NEW status \in {"out_of_gas", "host"}
  PROVE  Failing(g, Fault(g, status), status)
BY DEF FrameRecord, Fault, Failing

\* The frame g with the amount taken from its gas.
Charges(g, h, amount) ==
  /\ h \in FrameRecord /\ h.input = g.input /\ h.out = g.out /\ h.logs = g.logs /\ h.status = "ok"
  /\ h.gas = g.gas - amount /\ h.size = g.size /\ h.memory = g.memory

LEMMA ChargeIs ==
  ASSUME NEW g \in FrameRecord, g.status = "ok", NEW amount \in Nat
  PROVE  IF amount > g.gas THEN Failing(g, charge(g, amount), "out_of_gas")
         ELSE Charges(g, charge(g, amount), amount)
<1>1. CASE amount > g.gas
  BY <1>1, FaultIs DEF charge
<1>2. CASE ~(amount > g.gas)
  <2>1. g.gas \in Nat /\ g.gas - amount \in Nat
    BY <1>2 DEF FrameRecord
  <2>2. charge(g, amount) = [g EXCEPT !.gas = g.gas - amount]
    BY <1>2 DEF charge
  <2>3. Charges(g, [g EXCEPT !.gas = g.gas - amount], amount)
    BY <2>1 DEF FrameRecord, Charges
  <2> QED BY <1>2, <2>2, <2>3
<1> QED BY <1>1, <1>2

LEMMA ExtendedOutcome ==
  ASSUME NEW g \in FrameRecord, NEW p, NEW amount \in Nat, amount <= g.gas, Charges(g, p, amount),
         p.status = "ok", NEW t, NEW h, Extended(p, h, t)
  PROVE  Outcome(g, h, t, amount)
<1>1. Visible(p) = Visible(g)
  BY DEF Visible, Charges
<1>2. h.gas = g.gas - amount /\ h.input = g.input /\ h.out = g.out /\ h.logs = g.logs /\ h.status = "ok"
  BY DEF Charges, Extended
<1>3. h \in FrameRecord /\ h.size = t /\ Clean(h) /\ Visible(h) = E!Padded(Visible(g), 0, t)
  BY <1>1 DEF Extended
<1> HIDE DEF Clean
<1> QED BY <1>2, <1>3 DEF Outcome

LEMMA FailingOutcome ==
  ASSUME NEW g, NEW h, NEW t, NEW due,
         Failing(g, h, "host") \/ (Failing(g, h, "out_of_gas") /\ due > g.gas)
  PROVE  Outcome(g, h, t, due)
BY DEF Failing, Outcome

\* Pay first, then grow.
LEMMA PaidExpansion ==
  ASSUME NEW g \in FrameRecord, g.status = "ok", Clean(g), NEW t \in Sizes, g.size <= t, NEW amount \in Nat,
         NEW h \in expand_memory(charge(g, amount), t)
  PROVE  Outcome(g, h, t, amount)
<1>1. PICK p : p = charge(g, amount)
  OBVIOUS
<1>2. g.gas \in Nat
  BY DEF FrameRecord
<1>3. CASE amount > g.gas
  <2>1. Failing(g, p, "out_of_gas")
    BY <1>1, <1>3, ChargeIs
  <2>2. h = p
    BY <1>1, <2>1 DEF expand_memory, ok, Failing
  <2> QED BY <1>3, <2>1, <2>2, FailingOutcome
<1>4. CASE ~(amount > g.gas)
  <2>1. Charges(g, p, amount) /\ amount <= g.gas
    BY <1>1, <1>2, <1>4, ChargeIs
  <2>2. p \in FrameRecord /\ p.status = "ok" /\ Clean(p) /\ p.size <= t
    BY <2>1 DEF Charges, Clean
  <2>3. Extended(p, h, t) \/ h = Fault(p, "host")
    BY <1>1, <2>2, ExpandOutcome
  <2>4. CASE Extended(p, h, t)
    BY <2>1, <2>2, <2>4, ExtendedOutcome
  <2>5. CASE h = Fault(p, "host")
    <3>1. Failing(p, h, "host")
      BY <2>2, <2>5, FaultIs
    <3>2. Failing(g, h, "host")
      BY <2>1, <3>1 DEF Failing, Charges
    <3>3. Failing(g, h, "host") \/ (Failing(g, h, "out_of_gas") /\ amount > g.gas)
      BY <3>2
    <3> QED BY <3>3, FailingOutcome
  <2> QED BY <2>3, <2>4, <2>5
<1> QED BY <1>3, <1>4

\* The price of coming to the size t for an operation with a cost of its own.
Dues(g, t, own, due) ==
  /\ due \in Int
  /\ t < UNPAYABLE_EXTENT => due = E!Cost(t) - E!Cost(g.size) + own
  /\ ~(t < UNPAYABLE_EXTENT) => due > g.gas

LEMMA GrowOutcome ==
  ASSUME NEW g, Fit(g), NEW t, NEW plan, Plans(plan, g.size, t), NEW own \in Nat,
         NEW due, Dues(g, t, own, due), NEW h \in Grow(g, plan, own)
  PROVE  Outcome(g, h, t, due)
<1>1. g \in FrameRecord /\ g.status = "ok" /\ Clean(g) /\ g.size \in Sizes
  BY DEF Fit, Clean
<1>2. CASE t < UNPAYABLE_EXTENT
  <2>1. plan = [size |-> t, gas |-> E!Cost(t) - E!Cost(g.size)] /\ t \in Sizes /\ g.size <= t
    BY <1>2 DEF Plans
  <2>2. PICK x \in Nat : x = E!Cost(t) - E!Cost(g.size)
    BY <1>1, <2>1, PriceFacts
  <2>3. plan.size = t /\ plan.gas = x /\ plan # None
    <3>1. t # -1
      BY DEF Plans
    <3>2. plan.size = t /\ plan.gas = x
      BY <2>1, <2>2
    <3>3. None.size = -1
      BY DEF None
    <3> QED BY <3>1, <3>2, <3>3
  <2>4. x + own \in Nat /\ due = x + own
    BY <1>2, <2>2 DEF Dues
  <2>5. h \in expand_memory(charge(g, due), t)
    BY <2>3, <2>4 DEF Grow
  <2> QED BY <1>1, <2>1, <2>4, <2>5, PaidExpansion
<1>3. CASE ~(t < UNPAYABLE_EXTENT)
  <2>1. h = Fault(g, "out_of_gas")
    BY <1>3 DEF Plans, Grow
  <2>2. Failing(g, h, "out_of_gas") /\ due > g.gas
    BY <1>1, <1>3, <2>1, FaultIs DEF Dues
  <2> QED BY <2>2, FailingOutcome
<1> QED BY <1>2, <1>3

\* A load or a store of one word or one byte, by whichever shortcut.
LEMMA AccessedOutcome ==
  ASSUME NEW g, Fit(g), NEW offset \in Nat, NEW len \in {1, 2},
         NEW t, t = E!Covering(g.size, <<offset, len>>), NEW due, Dues(g, t, 0, due),
         NEW h \in Accessed(g, offset, len)
  PROVE  Outcome(g, h, t, due)
<1>1. g \in FrameRecord /\ g.status = "ok" /\ Clean(g) /\ g.size \in Sizes
  BY DEF Fit, Clean
<1>2. PICK c \in Nat : c = g.size /\ c \in Sizes
  BY <1>1, PriceFacts
<1>3. t \in Nat /\ c <= t /\ (t < UNPAYABLE_EXTENT => t \in Sizes) /\ offset + len <= t
      /\ (offset + len <= c => t = c)
  BY <1>2, CoveringFacts
<1>4. PICK l \in Nat : l = len /\ l \in {1, 2}
  OBVIOUS
<1>5. CASE in_memory(g, offset, len)
  <2>1. h = g
    BY <1>5 DEF Accessed
  <2>2. t = c
    BY <1>2, <1>3, <1>4, <1>5 DEF in_memory
  <2>3. Extended(g, g, c)
    <3>1. g = [g EXCEPT !.size = c]
      BY <1>1, <1>2 DEF FrameRecord
    <3>2. c <= c /\ c <= g.memory.len
      BY <1>1, <1>2 DEF Clean
    <3> QED BY <1>1, <1>2, <3>1, <3>2, RestingExtends
  <2>4. Charges(g, g, 0) /\ 0 <= g.gas
    BY <1>1 DEF FrameRecord, Charges
  <2>5. due = 0
    <3>1. c < UNPAYABLE_EXTENT /\ E!Cost(c) \in Nat
      BY <1>2, PriceFacts DEF UNPAYABLE_EXTENT
    <3>2. due = E!Cost(t) - E!Cost(g.size) + 0
      BY <2>2, <3>1 DEF Dues
    <3> QED BY <1>2, <2>2, <3>1, <3>2
  <2>6. Outcome(g, g, c, 0)
    BY <1>1, <2>3, <2>4, ExtendedOutcome
  <2> QED BY <2>1, <2>2, <2>5, <2>6
<1>6. CASE ~in_memory(g, offset, len) /\ offset < SMALL_EXTENT
  <2>1. PICK n \in Nat : n = offset + l /\ n < 8 /\ c < n
    <3>1. offset + l \in Nat /\ offset + l < 8
      BY <1>4, <1>6 DEF SMALL_EXTENT
    <3>2. ~(c >= l /\ offset <= c - l)
      BY <1>2, <1>4, <1>6 DEF in_memory
    <3> QED BY <1>2, <1>4, <3>1, <3>2
  <2>2. WORD * words(offset + len) = E!Rounded(n) /\ E!Rounded(n) \in Nat /\ n <= E!Rounded(n)
        /\ E!Rounded(n) <= n + 1 /\ (E!Rounded(n) < UNPAYABLE_EXTENT => E!Rounded(n) \in Sizes)
    BY <1>4, <2>1, RoundedFacts
  <2>3. t = E!Rounded(n)
    <3>1. ~(len = 0 \/ E!Rounded(offset + len) <= c)
      BY <1>2, <1>4, <2>1, <2>2
    <3> QED BY <1>2, <1>4, <2>1, <3>1 DEF E!Covering
  <2>4. t < UNPAYABLE_EXTENT /\ t \in Sizes /\ c <= t /\ c # t
    BY <1>2, <2>1, <2>2, <2>3 DEF UNPAYABLE_EXTENT
  <2>5. PICK x \in Nat : x = E!Cost(t) - E!Cost(c)
    BY <1>2, <2>4, PriceFacts
  <2>6. due = x
    BY <1>2, <2>4, <2>5 DEF Dues
  <2>7. small_growth_cost(g.size, t) = x
    <3>1. PICK a, b : a = E!Cost(c) /\ b = E!Cost(t) /\ a \in 0 .. 19 /\ b \in 0 .. 19
      BY <1>2, <2>4, PriceFacts
    <3>2. small_memory_cost(c) = a /\ small_memory_cost(t) = b
      BY <1>2, <2>4, <3>1, PriceIs DEF small_memory_cost
    <3>3. (b - a) % U64 = b - a
      BY <2>5, <3>1 DEF U64
    <3> QED BY <1>2, <2>5, <3>1, <3>2, <3>3 DEF small_growth_cost
  <2>8. CASE h \in expand_memory(charge(g, x), t)
    BY <1>1, <1>2, <2>4, <2>6, <2>8, PaidExpansion
  <2>9. CASE ~(h \in expand_memory(charge(g, x), t))
    <3>1. len = WORD /\ buffered_growth(g, offset, len) # 0
      <4>1. grow_memory(g, offset, len) = expand_memory(charge(g, x), t)
        BY <1>6, <2>2, <2>3, <2>7 DEF grow_memory
      <4> QED BY <1>6, <2>9, <4>1 DEF Accessed
    <3>2. buffered_growth(g, offset, len) = t /\ t <= g.memory.len
      <4>1. buffered_growth(g, offset, len) = IF t > g.memory.len THEN 0 ELSE t
        BY <1>6, <2>2, <2>3, <3>1 DEF buffered_growth, SMALL_EXTENT
      <4>2. g.memory.len \in Nat
        BY <1>1 DEF FrameRecord, Buffer
      <4> QED BY <1>3, <3>1, <4>1, <4>2
    <3>3. PICK p : p = charge(g, x)
      OBVIOUS
    <3>4. h = IF ok(p) THEN [p EXCEPT !.size = t] ELSE p
      BY <1>6, <2>7, <3>1, <3>2, <3>3 DEF Accessed
    <3>5. CASE x > g.gas
      <4>1. Failing(g, p, "out_of_gas")
        BY <1>1, <3>3, <3>5, ChargeIs
      <4>2. h = p
        BY <3>4, <4>1 DEF ok, Failing
      <4> QED BY <2>6, <3>5, <4>1, <4>2, FailingOutcome
    <3>6. CASE ~(x > g.gas)
      <4>1. Charges(g, p, x) /\ x <= g.gas
        BY <1>1, <3>3, <3>6, ChargeIs DEF FrameRecord
      <4>2. p \in FrameRecord /\ p.status = "ok" /\ Clean(p) /\ p.size <= t /\ t <= p.memory.len
        BY <1>1, <1>2, <2>4, <3>2, <4>1 DEF Charges, Clean
      <4>3. h = [p EXCEPT !.size = t]
        BY <3>4, <4>2 DEF ok
      <4>4. Extended(p, h, t)
        BY <2>4, <4>2, <4>3, RestingExtends
      <4> QED BY <1>1, <2>6, <4>1, <4>2, <4>4, ExtendedOutcome
    <3> QED BY <3>5, <3>6
  <2> QED BY <2>8, <2>9
<1>7. CASE ~in_memory(g, offset, len) /\ ~(offset < SMALL_EXTENT)
  <2>1. buffered_growth(g, offset, len) = 0
    BY <1>7 DEF buffered_growth, SMALL_EXTENT
  <2>2. h \in Grow(g, plan_memory(g, offset, len), 0)
    BY <1>7, <2>1 DEF Accessed, grow_memory
  <2>3. Plans(plan_memory(g, offset, len), g.size, t)
    BY <1>1, PlanMemoryIs
  <2> QED BY <2>2, <2>3, GrowOutcome
<1> QED BY <1>5, <1>6, <1>7

(***************************************************************************)
(* What an operation costs in all                                          *)
(***************************************************************************)
Extent(g, t) == t \in Nat /\ g.size <= t /\ (t < UNPAYABLE_EXTENT => t \in Sizes)
Total(g, t, own) == E!Cost(t) - E!Cost(g.size) + own

LEMMA FitFacts ==
  ASSUME NEW g, Fit(g)
  PROVE  /\ g \in FrameRecord /\ g.status = "ok" /\ Clean(g) /\ g.size \in Sizes /\ g.size \in Nat
         /\ g.size < UNPAYABLE_EXTENT /\ g.gas \in Nat /\ g.memory \in Buffer
         /\ E!Cost(g.size) \in 0 .. 11 /\ E!Cost(g.size) + g.gas < 12
<1>1. g \in FrameRecord /\ g.status = "ok" /\ Clean(g) /\ g.size \in Sizes
  BY DEF Fit, Clean
<1>2. g.gas \in Nat /\ g.memory \in Buffer
  BY <1>1 DEF FrameRecord
<1>3. E!Cost(g.size) \in 0 .. 19 /\ g.size \in 0 .. 18
  BY <1>1, PriceFacts
<1>4. E!Cost(g.size) + g.gas < 12
  BY DEF Fit, UNPAYABLE
<1>5. PICK a, b, c : a = E!Cost(g.size) /\ b = g.gas /\ c = g.size /\ a \in 0 .. 19 /\ b \in Nat /\ c \in 0 .. 18 /\ a + b < 12
  BY <1>2, <1>3, <1>4
<1>6. a \in 0 .. 11 /\ c \in Nat /\ c < UNPAYABLE_EXTENT
  BY <1>5 DEF UNPAYABLE_EXTENT
<1> QED BY <1>1, <1>2, <1>4, <1>5, <1>6

LEMMA TotalFacts ==
  ASSUME NEW g, Fit(g), NEW t, Extent(g, t), NEW own \in Nat
  PROVE  /\ Total(g, t, own) \in Nat /\ own <= Total(g, t, own)
         /\ ~(t < UNPAYABLE_EXTENT) => Total(g, t, own) > g.gas + own
         /\ \A u : Extent(g, u) /\ t <= u /\ Total(g, t, own) > g.gas => Total(g, u, own) > g.gas
<1>1. PICK c \in 0 .. 11 : c = E!Cost(g.size)
  BY FitFacts
<1>2. PICK gas \in Nat : gas = g.gas /\ c + gas < 12
  BY <1>1, FitFacts
<1>3. ASSUME NEW u, Extent(g, u)
      PROVE  E!Cost(u) \in Nat /\ c <= E!Cost(u) /\ (~(u < UNPAYABLE_EXTENT) => E!Cost(u) >= 22)
  <2>1. CASE u < UNPAYABLE_EXTENT
    <3>1. u \in Sizes /\ g.size \in Sizes /\ g.size <= u
      BY <1>3, <2>1, FitFacts DEF Extent
    <3> QED BY <1>1, <2>1, <3>1, PriceFacts
  <2>2. CASE ~(u < UNPAYABLE_EXTENT)
    <3>1. u \in Nat /\ u >= UNPAYABLE_EXTENT
      BY <1>3, <2>2 DEF Extent, UNPAYABLE_EXTENT
    <3> QED BY <1>1, <2>2, <3>1, FarIsUnpayable
  <2> QED BY <2>1, <2>2
<1>4. PICK d \in Nat : d = E!Cost(t) /\ c <= d /\ (~(t < UNPAYABLE_EXTENT) => d >= 22)
  BY <1>3
<1>5. Total(g, t, own) = d - c + own
  BY <1>1, <1>4 DEF Total
<1>6. ASSUME NEW u, Extent(g, u), t <= u, Total(g, t, own) > g.gas
      PROVE  Total(g, u, own) > g.gas
  <2>1. PICK e \in Nat : e = E!Cost(u) /\ c <= e /\ (~(u < UNPAYABLE_EXTENT) => e >= 22)
    BY <1>3, <1>6
  <2>2. Total(g, u, own) = e - c + own
    BY <1>1, <2>1 DEF Total
  <2>3. CASE u < UNPAYABLE_EXTENT
    <3>1. t < UNPAYABLE_EXTENT
      BY <1>6, <2>3 DEF Extent, UNPAYABLE_EXTENT
    <3>2. d <= e
      <4>1. t \in Sizes /\ u \in Sizes
        BY <1>6, <2>3, <3>1 DEF Extent
      <4> QED BY <1>4, <1>6, <2>1, <4>1, PriceFacts
    <3> QED BY <1>2, <1>5, <1>6, <2>2, <3>2
  <2>4. CASE ~(u < UNPAYABLE_EXTENT)
    BY <1>2, <2>1, <2>2, <2>4
  <2> QED BY <2>3, <2>4
<1> QED BY <1>2, <1>4, <1>5, <1>6

\* An operation that does not fail leaves a frame that fits.
LEMMA StaysFit ==
  ASSUME NEW g, Fit(g), NEW t, Extent(g, t), NEW own \in Nat, NEW h, Outcome(g, h, t, Total(g, t, own)),
         h.status = "ok"
  PROVE  Fit(h) /\ t < UNPAYABLE_EXTENT /\ t \in Sizes /\ h.size = t
         /\ E!Cost(h.size) + h.gas <= E!Cost(g.size) + g.gas
<1>1. /\ h \in FrameRecord /\ Total(g, t, own) <= g.gas /\ h.gas = g.gas - Total(g, t, own)
      /\ h.size = t /\ Clean(h)
  BY DEF Outcome
<1>2. PICK gas, all : gas = g.gas /\ all = Total(g, t, own) /\ gas \in Nat /\ all \in Nat
  BY FitFacts, TotalFacts
<1>3. t < UNPAYABLE_EXTENT
  BY <1>1, <1>2, TotalFacts
<1>4. t \in Sizes
  BY <1>3 DEF Extent
<1>5. PICK c, d : c = E!Cost(g.size) /\ d = E!Cost(t) /\ c \in 0 .. 19 /\ d \in 0 .. 19
  BY <1>4, FitFacts, PriceFacts
<1>6. c + gas < 12
  BY <1>2, <1>5, FitFacts
<1>7. all = d - c + own
  BY <1>2, <1>5 DEF Total
<1>8. d + (gas - all) < 12 /\ d + (gas - all) <= c + gas
  BY <1>2, <1>5, <1>6, <1>7
<1>9. E!Cost(h.size) + h.gas < 12 /\ E!Cost(h.size) + h.gas <= E!Cost(g.size) + g.gas
  BY <1>1, <1>2, <1>5, <1>8
<1> QED BY <1>1, <1>3, <1>4, <1>9 DEF Fit, UNPAYABLE

\* Paying for the instruction itself and then for what it does is paying for both.
LEMMA PaidFit ==
  ASSUME NEW g, Fit(g), NEW p, Charges(g, p, 1)
  PROVE  Fit(p) /\ p.size = g.size /\ Visible(p) = Visible(g) /\ p.gas = g.gas - 1
<1>1. /\ p \in FrameRecord /\ p.status = "ok" /\ p.gas = g.gas - 1 /\ p.size = g.size /\ p.memory = g.memory
  BY DEF Charges
<1>2. Clean(p) /\ Visible(p) = Visible(g)
  BY <1>1, FitFacts DEF Clean, Visible
<1>3. E!Cost(p.size) + p.gas < 12
  BY <1>1, FitFacts
<1> QED BY <1>1, <1>2, <1>3 DEF Fit, UNPAYABLE

LEMMA OutcomeAfterPaying ==
  ASSUME NEW g, Fit(g), NEW p, Charges(g, p, 1), 1 <= g.gas, NEW t, NEW due \in Int,
         NEW h, Outcome(p, h, t, due)
  PROVE  Outcome(g, h, t, due + 1)
<1>1. Visible(p) = Visible(g) /\ p.gas = g.gas - 1 /\ g.gas \in Nat
  BY PaidFit, FitFacts
<1>2. p.input = g.input /\ p.out = g.out /\ p.logs = g.logs
  BY DEF Charges
<1>3. h \in FrameRecord /\ h.input = g.input /\ h.out = g.out /\ h.logs = g.logs
  BY <1>2 DEF Outcome
<1>4. CASE h.status = "host"
  BY <1>3, <1>4 DEF Outcome
<1>5. CASE h.status = "out_of_gas" /\ due > p.gas
  <2>1. due + 1 > g.gas
    BY <1>1, <1>5
  <2> QED BY <1>3, <1>5, <2>1 DEF Outcome
<1>6. CASE /\ h.status = "ok" /\ due <= p.gas /\ h.gas = p.gas - due
           /\ h.size = t /\ Clean(h) /\ Visible(h) = E!Padded(Visible(p), 0, t)
  <2>1. due + 1 <= g.gas /\ h.gas = g.gas - (due + 1)
    BY <1>1, <1>6
  <2> HIDE DEF Clean
  <2>2. Visible(h) = E!Padded(Visible(g), 0, t)
    BY <1>1, <1>6
  <2> QED BY <1>3, <1>6, <2>1, <2>2 DEF Outcome
<1> QED BY <1>4, <1>5, <1>6 DEF Outcome

LEMMA DuesAre ==
  ASSUME NEW g, Fit(g), NEW t, Extent(g, t), NEW own \in Nat, NEW wanted \in Nat,
         t < UNPAYABLE_EXTENT => own = wanted
  PROVE  Dues(g, t, own, Total(g, t, wanted)) /\ Total(g, t, wanted) \in Int
<1>1. Total(g, t, wanted) \in Nat
      /\ (~(t < UNPAYABLE_EXTENT) => Total(g, t, wanted) > g.gas + wanted)
  BY TotalFacts
<1>2. PICK a, b : a = Total(g, t, wanted) /\ b = g.gas /\ a \in Nat /\ b \in Nat
  BY <1>1, FitFacts
<1>3. ~(t < UNPAYABLE_EXTENT) => a > b
  BY <1>1, <1>2
<1> QED BY <1>1, <1>2, <1>3 DEF Dues, Total

\* An instruction that pays one for itself, then own, then for the extent of its plan.
LEMMA ChargedOutcome ==
  ASSUME NEW g, Fit(g), NEW t, Extent(g, t), NEW wanted \in Nat, NEW p, p = charge(g, 1), NEW growths,
         \A h \in growths : Charges(g, p, 1) => Outcome(p, h, t, Total(p, t, wanted)),
         NEW h \in IF ok(p) THEN growths ELSE {p}
  PROVE  Outcome(g, h, t, Total(g, t, 1 + wanted))
<1>1. g \in FrameRecord /\ g.status = "ok" /\ g.gas \in Nat
  BY FitFacts
<1>2. Total(g, t, 1 + wanted) \in Nat /\ 1 + wanted <= Total(g, t, 1 + wanted)
  BY TotalFacts
<1>3. CASE 1 > g.gas
  <2>1. Failing(g, p, "out_of_gas")
    BY <1>1, <1>3, ChargeIs
  <2>2. h = p
    BY <2>1 DEF ok, Failing
  <2>3. Total(g, t, 1 + wanted) > g.gas
    BY <1>1, <1>2, <1>3
  <2> QED BY <2>1, <2>2, <2>3, FailingOutcome
<1>4. CASE ~(1 > g.gas)
  <2>1. Charges(g, p, 1)
    BY <1>1, <1>4, ChargeIs
  <2>2. h \in growths
    BY <2>1 DEF Charges, ok
  <2>3. Fit(p) /\ p.size = g.size
    BY <2>1, PaidFit
  <2>4. Extent(p, t)
    BY <2>3 DEF Extent
  <2>5. PICK due \in Nat : due = Total(p, t, wanted)
    BY <2>3, <2>4, TotalFacts
  <2>6. Outcome(p, h, t, due)
    BY <2>1, <2>2, <2>5
  <2>7. Outcome(g, h, t, due + 1)
    BY <1>1, <1>4, <2>1, <2>6, OutcomeAfterPaying
  <2>8. Total(g, t, 1 + wanted) = due + 1
    <3>1. E!Cost(t) - E!Cost(g.size) \in Int
      <4>1. Total(g, t, 0) \in Nat /\ Total(g, t, 0) = E!Cost(t) - E!Cost(g.size) + 0
        BY TotalFacts DEF Total
      <4>2. E!Cost(g.size) \in Nat
        BY FitFacts
      <4>3. E!Cost(t) \in Nat
        <5>1. CASE t < UNPAYABLE_EXTENT
          BY <5>1, PriceFacts DEF Extent
        <5>2. CASE ~(t < UNPAYABLE_EXTENT)
          <6>1. t \in Nat /\ t >= UNPAYABLE_EXTENT
            BY <5>2 DEF Extent, UNPAYABLE_EXTENT
          <6> QED BY <6>1, FarIsUnpayable
        <5> QED BY <5>1, <5>2
      <4> QED BY <4>2, <4>3
    <3>2. PICK x \in Int : x = E!Cost(t) - E!Cost(g.size)
      BY <3>1
    <3>3. due = x + wanted /\ Total(g, t, 1 + wanted) = x + (1 + wanted)
      BY <2>3, <2>5, <3>2 DEF Total
    <3> QED BY <3>3
  <2> QED BY <2>7, <2>8
<1> QED BY <1>3, <1>4

LEMMA ChargedGrowth ==
  ASSUME NEW g, Fit(g), NEW t, NEW p, p = charge(g, 1), NEW plan,
         Charges(g, p, 1) => Plans(plan, g.size, t), Extent(g, t),
         NEW own \in Nat, NEW wanted \in Nat, t < UNPAYABLE_EXTENT => own = wanted,
         NEW h \in IF ok(p) THEN Grow(p, plan, own) ELSE {p}
  PROVE  Outcome(g, h, t, Total(g, t, 1 + wanted))
<1>1. ASSUME NEW k \in Grow(p, plan, own), Charges(g, p, 1)
      PROVE  Outcome(p, k, t, Total(p, t, wanted))
  <2>1. Fit(p) /\ p.size = g.size /\ Plans(plan, p.size, t) /\ Extent(p, t)
    BY <1>1, PaidFit DEF Extent
  <2>2. Dues(p, t, own, Total(p, t, wanted))
    BY <2>1, DuesAre
  <2> QED BY <2>1, <2>2, GrowOutcome
<1> DEFINE growths == Grow(p, plan, own)
<1>2. \A k \in growths : Charges(g, p, 1) => Outcome(p, k, t, Total(p, t, wanted))
  BY <1>1
<1>3. h \in IF ok(p) THEN growths ELSE {p}
  OBVIOUS
<1> HIDE DEF growths
<1> QED BY <1>2, <1>3, ChargedOutcome

LEMMA ChargedAccess ==
  ASSUME NEW g, Fit(g), NEW p, p = charge(g, 1), NEW offset \in Nat, NEW len \in {1, 2},
         NEW t, t = E!Covering(g.size, <<offset, len>>),
         NEW h \in IF ok(p) THEN Accessed(p, offset, len) ELSE {p}
  PROVE  Extent(g, t) /\ Outcome(g, h, t, Total(g, t, 1))
<1>1. Extent(g, t)
  BY FitFacts, CoveringFacts DEF Extent
<1>2. ASSUME NEW k \in Accessed(p, offset, len), Charges(g, p, 1)
      PROVE  Outcome(p, k, t, Total(p, t, 0))
  <2>1. Fit(p) /\ p.size = g.size /\ t = E!Covering(p.size, <<offset, len>>) /\ Extent(p, t)
    BY <1>1, <1>2, PaidFit DEF Extent
  <2>2. Dues(p, t, 0, Total(p, t, 0))
    BY <2>1, DuesAre
  <2> QED BY <2>1, <2>2, AccessedOutcome
<1> DEFINE growths == Accessed(p, offset, len)
<1>3. \A k \in growths : Charges(g, p, 1) => Outcome(p, k, t, Total(p, t, 0))
  BY <1>2
<1>4. h \in IF ok(p) THEN growths ELSE {p}
  OBVIOUS
<1> HIDE DEF growths
<1>5. Outcome(g, h, t, Total(g, t, 1 + 0))
  BY <1>1, <1>3, <1>4, ChargedOutcome
<1> QED BY <1>1, <1>5

LEMMA PaddedIs ==
  ASSUME NEW v \in Seq(Nat), NEW t \in Nat
  PROVE  /\ E!Padded(v, 0, t) = [k \in 1 .. t |-> IF k <= Len(v) THEN v[k] ELSE 0]
         /\ E!Padded(v, 0, t) \in Seq(Nat) /\ Len(E!Padded(v, 0, t)) = t
<1>1. PICK n \in Nat : n = Len(v)
  OBVIOUS
<1>2. E!Padded(v, 0, t) = [k \in 1 .. t |-> IF 0 < n /\ 0 + k <= n THEN v[0 + k] ELSE 0]
  BY <1>1 DEF E!Padded
<1>3. ASSUME NEW k \in 1 .. t
      PROVE  (IF 0 < n /\ 0 + k <= n THEN v[0 + k] ELSE 0) = IF k <= n THEN v[k] ELSE 0
  BY <1>1
<1> DEFINE h == [k \in 1 .. t |-> IF k <= n THEN v[k] ELSE 0]
<1>4. E!Padded(v, 0, t) = h
  BY <1>2, <1>3
<1>5. \A k \in 1 .. t : h[k] \in Nat
  <2>1. \A k \in 1 .. n : v[k] \in Nat
    BY <1>1
  <2> QED BY <1>1, <2>1
<1>6. h = [k \in 1 .. t |-> h[k]]
  OBVIOUS
<1>7. h \in Seq(Nat) /\ Len(h) = t
  <2> HIDE DEF h
  <2> QED BY <1>5, <1>6, FunctionIsSeq
<1> QED BY <1>1, <1>4, <1>7

LEMMA PaddedTwice ==
  ASSUME NEW v \in Seq(Nat), NEW t \in Nat, NEW u \in Nat, Len(v) <= t, t <= u
  PROVE  E!Padded(E!Padded(v, 0, t), 0, u) = E!Padded(v, 0, u)
<1>1. PICK w \in Seq(Nat) : /\ w = E!Padded(v, 0, t) /\ Len(w) = t
                            /\ w = [k \in 1 .. t |-> IF k <= Len(v) THEN v[k] ELSE 0]
  BY PaddedIs
<1>2. E!Padded(w, 0, u) = [k \in 1 .. u |-> IF k <= Len(w) THEN w[k] ELSE 0]
  BY PaddedIs
<1>3. E!Padded(v, 0, u) = [k \in 1 .. u |-> IF k <= Len(v) THEN v[k] ELSE 0]
  BY PaddedIs
<1>4. PICK n \in Nat : n = Len(v) /\ n <= t
  OBVIOUS
<1>5. ASSUME NEW k \in 1 .. u
      PROVE  (IF k <= t THEN w[k] ELSE 0) = IF k <= n THEN v[k] ELSE 0
  BY <1>1, <1>4
<1> QED BY <1>1, <1>2, <1>3, <1>4, <1>5

\* A second range is paid for out of what the first left.
LEMMA BothOutcome ==
  ASSUME NEW g, Fit(g), NEW t, Extent(g, t), NEW own \in Nat, NEW h, Outcome(g, h, t, Total(g, t, own)),
         NEW u, Extent(g, u), t <= u, NEW plan, h.status = "ok" => Plans(plan, h.size, u),
         NEW k \in IF ok(h) THEN Grow(h, plan, 0) ELSE {h}
  PROVE  Outcome(g, k, u, Total(g, u, own))
<1>1. h.input = g.input /\ h.out = g.out /\ h.logs = g.logs /\ h \in FrameRecord
  BY DEF Outcome
<1>2. CASE h.status = "ok"
  <2>1. Fit(h) /\ h.size = t /\ t \in Sizes /\ t < UNPAYABLE_EXTENT
    BY <1>2, StaysFit
  <2>2. Total(g, t, own) <= g.gas /\ h.gas = g.gas - Total(g, t, own) /\ Visible(h) = E!Padded(Visible(g), 0, t)
    BY <1>2 DEF Outcome
  <2>3. Extent(h, u)
    BY <2>1 DEF Extent
  <2>4. Dues(h, u, 0, Total(h, u, 0))
    BY <2>1, <2>3, DuesAre
  <2>5. k \in Grow(h, plan, 0) /\ Plans(plan, h.size, u)
    BY <1>2 DEF ok
  <2>6. Outcome(h, k, u, Total(h, u, 0))
    BY <2>1, <2>4, <2>5, GrowOutcome
  <2>7. PICK a, b, gas : /\ a = Total(g, t, own) /\ b = Total(h, u, 0) /\ gas = g.gas
                         /\ a \in Nat /\ b \in Nat /\ gas \in Nat /\ a <= gas /\ h.gas = gas - a
    BY <2>1, <2>2, <2>3, TotalFacts, FitFacts
  <2>8. Total(g, u, own) = a + b
    <3>1. E!Cost(t) \in Nat /\ E!Cost(g.size) \in Nat
      BY <2>1, PriceFacts, FitFacts
    <3>2. E!Cost(u) \in Nat
      <4>1. CASE u < UNPAYABLE_EXTENT
        BY <4>1, PriceFacts DEF Extent
      <4>2. CASE ~(u < UNPAYABLE_EXTENT)
        <5>1. u \in Nat /\ u >= UNPAYABLE_EXTENT
          BY <4>2 DEF Extent, UNPAYABLE_EXTENT
        <5> QED BY <5>1, FarIsUnpayable
      <4> QED BY <4>1, <4>2
    <3>3. PICK c, d, e \in Nat : c = E!Cost(g.size) /\ d = E!Cost(t) /\ e = E!Cost(u) /\ c \in Nat /\ d \in Nat
      BY <3>1, <3>2
    <3>4. a = d - c + own /\ b = e - d + 0 /\ Total(g, u, own) = e - c + own
      BY <2>1, <2>7, <3>3 DEF Total
    <3> QED BY <3>3, <3>4
  <2>9. k \in FrameRecord /\ k.input = g.input /\ k.out = g.out /\ k.logs = g.logs
    BY <1>1, <2>6 DEF Outcome
  <2>10. CASE k.status = "host"
    BY <2>9, <2>10 DEF Outcome
  <2>11. CASE k.status = "out_of_gas" /\ b > h.gas
    <3>1. a + b > gas
      BY <2>7, <2>11
    <3>2. Total(g, u, own) > g.gas
      BY <2>7, <2>8, <3>1
    <3> QED BY <2>9, <2>11, <3>2 DEF Outcome
  <2>12. CASE /\ k.status = "ok" /\ b <= h.gas /\ k.gas = h.gas - b
              /\ k.size = u /\ Clean(k) /\ Visible(k) = E!Padded(Visible(h), 0, u)
    <3>1. a + b <= gas /\ k.gas = gas - (a + b)
      BY <2>7, <2>12
    <3>2. Visible(k) = E!Padded(Visible(g), 0, u)
      <4>1. Visible(g) \in Seq(Nat) /\ Len(Visible(g)) = g.size
        BY FitFacts, VisibleIs
      <4>2. t \in Nat /\ u \in Nat /\ g.size <= t
        BY DEF Extent
      <4> QED BY <2>2, <2>12, <4>1, <4>2, PaddedTwice
    <3>3. Total(g, u, own) <= g.gas /\ k.gas = g.gas - Total(g, u, own)
      BY <2>7, <2>8, <3>1
    <3> HIDE DEF Clean
    <3> QED BY <2>9, <2>12, <3>2, <3>3 DEF Outcome
  <2> QED BY <2>6, <2>7, <2>10, <2>11, <2>12 DEF Outcome
<1>3. CASE h.status # "ok"
  <2>1. k = h
    BY <1>3 DEF ok
  <2>2. CASE h.status = "host"
    BY <1>1, <2>1, <2>2 DEF Outcome
  <2>3. CASE h.status = "out_of_gas" /\ Total(g, t, own) > g.gas
    <3>1. Total(g, u, own) > g.gas
      BY <2>3, TotalFacts
    <3> QED BY <1>1, <2>1, <2>3, <3>1 DEF Outcome
  <2> QED BY <1>3, <2>2, <2>3 DEF Outcome
<1> QED BY <1>2, <1>3

(***************************************************************************)
(* What is read from a frame and written to it                             *)
(***************************************************************************)
Within(g, range) == range \in Nat \X Nat /\ (range[2] = 0 \/ range[1] + range[2] <= g.size)

LEMMA CleanFacts ==
  ASSUME NEW g \in FrameRecord, Clean(g)
  PROVE  \E size \in 0 .. 18, l \in Nat, m \in Nat :
           /\ size = g.size /\ l = g.memory.len /\ m = Len(g.memory.cells) /\ l \in Nat /\ m \in Nat
           /\ size <= l /\ l <= m
<1>1. PICK size \in 0 .. 18 : size = g.size
  BY PriceFacts DEF Clean
<1>2. PICK l \in Nat : l = g.memory.len
  BY DEF FrameRecord, Buffer
<1>3. PICK m \in Nat : m = Len(g.memory.cells)
  BY DEF FrameRecord, Buffer
<1>4. size <= l /\ l <= m
  BY <1>1, <1>2, <1>3 DEF Clean
<1> QED BY <1>1, <1>2, <1>3, <1>4

LEMMA U64Is ==
  ASSUME NEW n \in 0 .. 18
  PROVE  u64(n) = n
BY DEF u64, U64

LEMMA SliceIs ==
  ASSUME NEW g \in FrameRecord, Clean(g), NEW offset \in Nat, NEW len \in Nat, offset + len <= g.size
  PROVE  /\ slice(g, offset, len) = SubSeq(Visible(g), offset + 1, offset + len)
         /\ slice(g, offset, len) \in Seq(Nat) /\ Len(slice(g, offset, len)) = len
<1>1. PICK v \in Seq(Nat) : v = Visible(g) /\ Len(v) = g.size /\ v = [k \in 1 .. g.size |-> g.memory.cells[k]]
  BY VisibleIs
<1>2. PICK c \in Seq(Nat) : c = g.memory.cells
  BY DEF FrameRecord, Buffer
<1>3. PICK s \in 0 .. 18, l \in Nat, m \in Nat : s = g.size /\ s <= l /\ l <= m /\ m = Len(c) /\ m \in Nat
  BY <1>2, CleanFacts
<1>4. u64(offset) = offset /\ u64(len) = len
  <2>1. offset + len <= s
    BY <1>3, Zenon
  <2>2. offset \in 0 .. 18 /\ len \in 0 .. 18
    BY <2>1
  <2> QED BY <2>2, U64Is
<1>5. slice(g, offset, len) = SubSeq(c, offset + 1, offset + len)
  BY <1>2, <1>4 DEF slice
<1>6. offset + len <= Len(c) /\ offset + len <= Len(v)
  BY <1>1, <1>3
<1>7. /\ SubSeq(c, offset + 1, offset + len) = [k \in 1 .. len |-> c[offset + k]]
      /\ SubSeq(v, offset + 1, offset + len) = [k \in 1 .. len |-> v[offset + k]]
      /\ SubSeq(c, offset + 1, offset + len) \in Seq(Nat) /\ Len(SubSeq(c, offset + 1, offset + len)) = len
  BY <1>6, CutIs
<1>8. ASSUME NEW k \in 1 .. len PROVE c[offset + k] = v[offset + k]
  <2>1. offset + k \in 1 .. s
    BY <1>3
  <2> QED BY <1>1, <1>2, <1>3, <2>1
<1> QED BY <1>1, <1>5, <1>7, <1>8

LEMMA RangeBytesIs ==
  ASSUME NEW g \in FrameRecord, Clean(g), NEW range, Within(g, range)
  PROVE  /\ RangeBytes(g, range) = E!Slice(Visible(g), range)
         /\ RangeBytes(g, range) \in Seq(Nat) /\ Len(RangeBytes(g, range)) = range[2]
<1>1. range[1] \in Nat /\ range[2] \in Nat
  BY DEF Within
<1>2. CASE range[2] = 0
  BY <1>2 DEF RangeBytes, E!Slice
<1>3. CASE range[2] # 0
  <2>1. range[1] + range[2] <= g.size
    BY <1>3 DEF Within
  <2> QED BY <1>1, <1>3, <2>1, SliceIs DEF RangeBytes, E!Slice
<1> QED BY <1>2, <1>3

\* The frame h is g with the bytes written from the offset on.
Overwritten(g, h, offset, bytes) ==
  /\ h \in FrameRecord /\ h.input = g.input /\ h.out = g.out /\ h.logs = g.logs /\ h.status = g.status
  /\ h.gas = g.gas /\ h.size = g.size /\ Clean(h) /\ Visible(h) = E!Written(Visible(g), offset, bytes)

LEMMA PutIs ==
  ASSUME NEW g \in FrameRecord, Clean(g), NEW offset \in Nat, NEW bytes \in Seq(Nat),
         Len(bytes) = 0 \/ offset + Len(bytes) <= g.size
  PROVE  Overwritten(g, Put(g, offset, bytes), offset, bytes)
<1>1. PICK c \in Seq(Nat) : c = g.memory.cells
  BY DEF FrameRecord, Buffer
<1>2. PICK s \in 0 .. 18, l \in Nat, m \in Nat :
        s = g.size /\ l = g.memory.len /\ m = Len(c) /\ l \in Nat /\ m \in Nat /\ s <= l /\ l <= m
  BY <1>1, CleanFacts
<1>3. PICK n \in Nat : n = Len(bytes)
  OBVIOUS
<1>4. PICK o \in Nat : o = u64(offset)
  BY DEF u64, U64
<1>5. n = 0 \/ (o = offset /\ o + n <= s)
  <2>1. CASE offset + n <= s
    BY <1>4, <2>1 DEF u64, U64
  <2> QED BY <1>2, <1>3, <2>1
<1> DEFINE d == [k \in 1 .. m |-> IF k > o /\ k <= o + n THEN bytes[k - o] ELSE c[k]]
           h == Put(g, offset, bytes)
<1>6. h = [g EXCEPT !.memory.cells = d]
  BY <1>1, <1>2, <1>3, <1>4 DEF Put
<1>7. d \in Seq(Nat) /\ Len(d) = m
  <2>1. \A k \in 1 .. m : d[k] \in Nat
    <3> TAKE k \in 1 .. m
    <3>1. c[k] \in Nat
      BY <1>2
    <3>2. CASE k > o /\ k <= o + n
      <4>1. k - o \in 1 .. Len(bytes)
        BY <1>3, <1>4, <3>2
      <4>2. bytes[k - o] \in Nat
        BY <4>1
      <4> QED BY <3>2, <4>2
    <3>3. CASE ~(k > o /\ k <= o + n)
      BY <3>1, <3>3
    <3> QED BY <3>2, <3>3
  <2>2. d = [k \in 1 .. m |-> d[k]]
    OBVIOUS
  <2> HIDE DEF d
  <2> QED BY <2>1, <2>2, FunctionIsSeq
<1>8. \A k \in 1 .. m : d[k] = IF k > o /\ k <= o + n THEN bytes[k - o] ELSE c[k]
  OBVIOUS
<1> HIDE DEF d, h
<1>9. /\ h \in FrameRecord /\ h.input = g.input /\ h.out = g.out /\ h.logs = g.logs /\ h.status = g.status
      /\ h.gas = g.gas /\ h.size = g.size /\ h.memory = [len |-> l, cells |-> d]
  BY <1>2, <1>6, <1>7 DEF FrameRecord, Buffer
<1>10. h.memory.len = l /\ h.memory.cells = d
  BY <1>9
<1>11. Clean(h)
  <2>1. \A k \in 1 .. l : k > s => d[k] = 0
    <3> TAKE k \in 1 .. l
    <3>1. k \in 1 .. m /\ k \in 1 .. g.memory.len
      BY <1>2
    <3>2. k > s => c[k] = 0
      BY <1>1, <1>2, <3>1 DEF Clean
    <3>3. k > s => ~(k > o /\ k <= o + n)
      BY <1>2, <1>5
    <3> QED BY <1>8, <3>1, <3>2, <3>3
  <2>2. g.size \in Sizes
    BY DEF Clean
  <2> QED BY <1>2, <1>7, <1>9, <1>10, <2>1, <2>2 DEF Clean
<1>12. PICK v : v = Visible(g) /\ Len(v) = s /\ v = [k \in 1 .. s |-> c[k]]
  BY <1>1, <1>2, VisibleIs
<1>13. Visible(h) = [k \in 1 .. s |-> d[k]]
  BY <1>2, <1>9, <1>10, <1>11, VisibleIs
<1>14. E!Written(v, offset, bytes) = [k \in 1 .. s |-> IF k > offset /\ k <= offset + n THEN bytes[k - offset] ELSE v[k]]
  BY <1>3, <1>12 DEF E!Written
<1>15. ASSUME NEW k \in 1 .. s
       PROVE  (IF k > offset /\ k <= offset + n THEN bytes[k - offset] ELSE v[k]) = d[k]
  <2>1. k \in 1 .. m /\ v[k] = c[k]
    BY <1>2, <1>12
  <2>2. d[k] = IF k > o /\ k <= o + n THEN bytes[k - o] ELSE c[k]
    BY <1>8, <2>1
  <2>3. CASE n = 0
    <3>1. ~(k > offset /\ k <= offset + n) /\ ~(k > o /\ k <= o + n)
      BY <2>3
    <3> QED BY <2>1, <2>2, <3>1
  <2>4. CASE o = offset
    BY <2>1, <2>2, <2>4
  <2> QED BY <1>5, <2>3, <2>4
<1>16. Visible(h) = E!Written(v, offset, bytes)
  BY <1>13, <1>14, <1>15, Zenon
<1> QED BY <1>9, <1>11, <1>12, <1>16 DEF Overwritten, h

(***************************************************************************)
(* The frames of a message                                                 *)
(***************************************************************************)
View(g) == [bytes |-> Visible(g), gas |-> g.gas, input |-> g.input, out |-> g.out, logs |-> g.logs]
Views(s) == [k \in 1 .. Len(s) |-> View(s[k])]

LEMMA TopFits ==
  ASSUME NEW s, NEW count, StackInv(s, count), s # <<>>
  PROVE  Fit(s[Len(s)]) /\ Len(s) \in Nat /\ Len(s) >= 1 /\ Len(s) \in 1 .. Len(s)
<1>1. Len(s) \in Nat /\ Len(s) >= 1 /\ Len(s) \in 1 .. Len(s) /\ s \in Seq(FrameRecord)
  BY DEF StackInv
<1>2. s[Len(s)] \in FrameRecord
  BY <1>1
<1>3. s[Len(s)].status = "ok" /\ Clean(s[Len(s)])
  BY <1>1 DEF StackInv, FramesClean
<1>4. E!Cost(s[Len(s)].size) + s[Len(s)].gas < UNPAYABLE
  BY <1>1 DEF StackInv, GasHeld
<1> QED BY <1>1, <1>2, <1>3, <1>4 DEF Fit

\* Views of changed stacks.
LEMMA ViewsReplaced ==
  ASSUME NEW s \in Seq(FrameRecord), s # <<>>, NEW h, NEW z, z = [s EXCEPT ![Len(s)] = h]
  PROVE  /\ Views(z) = [Views(s) EXCEPT ![Len(Views(s))] = View(h)]
         /\ Len(Views(s)) = Len(s) /\ Len(z) = Len(s)
<1>1. PICK n \in Nat : n = Len(s) /\ n >= 1
  OBVIOUS
<1>2. s = [k \in 1 .. n |-> s[k]]
  BY <1>1
<1>3. z = [k \in 1 .. n |-> IF k = n THEN h ELSE s[k]]
  BY <1>1, <1>2
<1>4. Len(z) = n
  BY <1>1, <1>3
<1>5. Views(s) = [k \in 1 .. n |-> View(s[k])] /\ Len(Views(s)) = n
  <2>1. Views(s) = [k \in 1 .. n |-> View(s[k])]
    BY <1>1 DEF Views
  <2>2. Len([k \in 1 .. n |-> View(s[k])]) = n
    BY <1>1
  <2> QED BY <2>1, <2>2
<1>6. Views(z) = [k \in 1 .. n |-> IF k = n THEN View(h) ELSE View(s[k])]
  <2>1. Views(z) = [k \in 1 .. n |-> View(z[k])]
    BY <1>4 DEF Views
  <2>2. \A k \in 1 .. n : View(z[k]) = IF k = n THEN View(h) ELSE View(s[k])
    BY <1>3
  <2> QED BY <2>1, <2>2
<1>7. [Views(s) EXCEPT ![n] = View(h)] = [k \in 1 .. n |-> IF k = n THEN View(h) ELSE View(s[k])]
  BY <1>5
<1> QED BY <1>1, <1>4, <1>5, <1>6, <1>7

LEMMA AppendIs ==
  ASSUME NEW S, NEW s \in Seq(S), NEW x \in S
  PROVE  /\ Append(s, x) = [k \in 1 .. Len(s) + 1 |-> IF k = Len(s) + 1 THEN x ELSE s[k]]
         /\ Append(s, x) \in Seq(S) /\ Len(Append(s, x)) = Len(s) + 1
<1>1. PICK n \in Nat : n = Len(s)
  OBVIOUS
<1>2. PICK z : z = Append(s, x)
  OBVIOUS
<1>3. z \in Seq(S) /\ Len(z) = n + 1 /\ (\A k \in 1 .. n : z[k] = s[k]) /\ z[n + 1] = x
  BY <1>1, <1>2, AppendProperties
<1>4. z = [k \in 1 .. n + 1 |-> z[k]]
  BY <1>3
<1>5. ASSUME NEW k \in 1 .. n + 1 PROVE z[k] = IF k = n + 1 THEN x ELSE s[k]
  BY <1>3
<1> QED BY <1>1, <1>2, <1>3, <1>4, <1>5

LEMMA ViewsAppended ==
  ASSUME NEW s \in Seq(FrameRecord), NEW c \in FrameRecord
  PROVE  Views(Append(s, c)) = Append(Views(s), View(c))
<1> DEFINE V == {View(g) : g \in FrameRecord}
<1>1. PICK n \in Nat : n = Len(s)
  OBVIOUS
<1>2. PICK v : v = Views(s) /\ v = [k \in 1 .. n |-> View(s[k])]
  BY <1>1 DEF Views
<1>3. PICK z : z = Append(s, c) /\ Len(z) = n + 1 /\ z = [k \in 1 .. n + 1 |-> IF k = n + 1 THEN c ELSE s[k]]
  <2>1. /\ Append(s, c) = [k \in 1 .. Len(s) + 1 |-> IF k = Len(s) + 1 THEN c ELSE s[k]]
        /\ Len(Append(s, c)) = Len(s) + 1
    BY AppendIs
  <2> QED BY <1>1, <2>1
<1>4. Views(z) = [k \in 1 .. n + 1 |-> View(z[k])]
  BY <1>3 DEF Views
<1>5. PICK w \in V : w = View(c)
  OBVIOUS
<1>6. Append(v, w) = [k \in 1 .. n + 1 |-> IF k = n + 1 THEN w ELSE v[k]]
  <2>1. \A k \in 1 .. n : View(s[k]) \in V
    BY <1>1
  <2>2. v \in Seq(V) /\ Len(v) = n
    <3> HIDE DEF V
    <3> QED BY <1>1, <1>2, <2>1
  <2> HIDE DEF V
  <2> QED BY <1>1, <2>2, AppendIs
<1>7. ASSUME NEW k \in 1 .. n + 1 PROVE View(z[k]) = IF k = n + 1 THEN w ELSE v[k]
  <2>1. CASE k = n + 1
    BY <1>3, <1>5, <2>1
  <2>2. CASE k # n + 1
    <3>1. k \in 1 .. n
      BY <1>1, <2>2
    <3>2. z[k] = s[k] /\ v[k] = View(s[k])
      BY <1>2, <1>3, <2>2, <3>1
    <3> QED BY <2>2, <3>2
  <2> QED BY <2>1, <2>2
<1> QED BY <1>2, <1>3, <1>4, <1>5, <1>6, <1>7

\* The stack without its last frame, the one below replaced.
Popped(s, u) == [SubSeq(s, 1, Len(s) - 1) EXCEPT ![Len(s) - 1] = u]

LEMMA PoppedIs ==
  ASSUME NEW S, NEW s \in Seq(S), Len(s) >= 2, NEW u
  PROVE  Popped(s, u) = [k \in 1 .. Len(s) - 1 |-> IF k = Len(s) - 1 THEN u ELSE s[k]]
         /\ Len(Popped(s, u)) = Len(s) - 1
<1>1. PICK n \in Nat : n = Len(s) - 1 /\ Len(s) = n + 1
  OBVIOUS
<1>2. \A i \in 1 .. n : s[i] \in S
  BY <1>1
<1>3. PICK q : q = SubSeq(s, 1, n)
  OBVIOUS
<1>4. q \in Seq(S) /\ Len(q) = (IF 1 <= n THEN n - 1 + 1 ELSE 0) /\ \A i \in 1 .. n - 1 + 1 : q[i] = s[1 + i - 1]
  BY <1>2, <1>3, SubSeqProperties
<1>5. Len(q) = n /\ \A i \in 1 .. n : q[i] = s[i]
  BY <1>1, <1>4
<1>6. q = [k \in 1 .. n |-> s[k]]
  BY <1>4, <1>5
<1>7. [q EXCEPT ![n] = u] = [k \in 1 .. n |-> IF k = n THEN u ELSE s[k]]
  BY <1>6
<1>8. Len([k \in 1 .. n |-> IF k = n THEN u ELSE s[k]]) = n
  BY <1>1
<1>9. Popped(s, u) = [q EXCEPT ![n] = u]
  BY <1>1, <1>3 DEF Popped
<1> QED BY <1>1, <1>7, <1>8, <1>9

LEMMA ViewsPopped ==
  ASSUME NEW s \in Seq(FrameRecord), Len(s) >= 2, NEW u
  PROVE  Views(Popped(s, u)) = Popped(Views(s), View(u)) /\ Len(Views(s)) = Len(s)
<1>1. PICK n \in Nat : n = Len(s) - 1 /\ Len(s) = n + 1
  OBVIOUS
<1>2. PICK z : z = Popped(s, u) /\ z = [k \in 1 .. n |-> IF k = n THEN u ELSE s[k]] /\ Len(z) = n
  BY <1>1, PoppedIs
<1>3. PICK v : v = Views(s) /\ v = [k \in 1 .. n + 1 |-> View(s[k])]
  BY <1>1 DEF Views
<1>4. v \in Seq({View(s[k]) : k \in 1 .. n + 1}) /\ Len(v) = n + 1
  BY <1>1, <1>3
<1>5. PICK w : w = View(u)
  OBVIOUS
<1>6. Popped(v, w) = [k \in 1 .. n |-> IF k = n THEN w ELSE v[k]]
  <2>1. PICK S : S = {View(s[k]) : k \in 1 .. n + 1}
    OBVIOUS
  <2>2. v \in Seq(S) /\ Len(v) >= 2 /\ Len(v) - 1 = n
    BY <1>1, <1>4, <2>1
  <2>3. Popped(v, w) = [k \in 1 .. Len(v) - 1 |-> IF k = Len(v) - 1 THEN w ELSE v[k]]
    BY <2>2, PoppedIs
  <2> QED BY <2>2, <2>3
<1>7. Views(z) = [k \in 1 .. n |-> View(z[k])]
  BY <1>2 DEF Views
<1>8. ASSUME NEW k \in 1 .. n PROVE View(z[k]) = IF k = n THEN w ELSE v[k]
  BY <1>1, <1>2, <1>3, <1>5
<1> QED BY <1>1, <1>2, <1>3, <1>4, <1>5, <1>6, <1>7, <1>8

\* The frame h may go on from g.
GoesFrom(g, h) == Fit(h) /\ g.size <= h.size /\ h.gas <= g.gas /\ h.out = g.out /\ h.logs = g.logs
Replaced(s, h) == [s EXCEPT ![Len(s)] = h]

\* How the frames may change: the last one goes on,
LEMMA StackReplaced ==
  ASSUME NEW s, NEW count, StackInv(s, count), s # <<>>, NEW h, GoesFrom(s[Len(s)], h),
         NEW z, z = Replaced(s, h)
  PROVE  StackInv(z, count) /\ z # <<>> /\ Len(z) = Len(s) /\ z[Len(s)] = h /\ z \in Seq(FrameRecord)
<1> USE DEF GoesFrom
<1>1. s \in Seq(FrameRecord)
  BY DEF StackInv
<1>2. PICK n \in Nat : n = Len(s) /\ n >= 1
  BY <1>1
<1>3. PICK g : g = s[n] /\ Fit(g)
  BY <1>2, TopFits
<1>4. h \in FrameRecord /\ g \in FrameRecord
  BY <1>3 DEF Fit
<1>5. z \in Seq(FrameRecord) /\ Len(z) = n /\ \A k \in 1 .. n : z[k] = IF k = n THEN h ELSE s[k]
  <2>1. z = [s EXCEPT ![Len(s)] = h]
    BY DEF Replaced
  <2> QED BY <1>1, <1>2, <1>4, <2>1
<1>6. FramesClean(z)
  <2>1. h.status = "ok" /\ Clean(h)
    BY DEF Fit
  <2>2. \A k \in 1 .. n : s[k].status = "ok" /\ Clean(s[k])
    BY <1>2 DEF StackInv, FramesClean
  <2> QED BY <1>5, <2>1, <2>2 DEF FramesClean
<1>7. GasHeld(z)
  <2> SUFFICES ASSUME NEW k \in 1 .. n
               PROVE  E!Cost(z[k].size) + h.gas < UNPAYABLE /\ (k < n => z[k].gas = 0)
    BY <1>2, <1>5 DEF GasHeld
  <2>1. CASE k = n
    BY <1>5, <2>1 DEF Fit
  <2>2. CASE k # n
    <3>1. z[k] = s[k] /\ s[k].gas = 0 /\ E!Cost(s[k].size) + g.gas < UNPAYABLE
      BY <1>2, <1>3, <1>5, <2>2 DEF StackInv, GasHeld
    <3>2. s[k].size \in Sizes
      BY <1>2 DEF StackInv, FramesClean, Clean
    <3>3. PICK a, b, c : a = E!Cost(s[k].size) /\ b = g.gas /\ c = h.gas /\ a \in 0 .. 19 /\ b \in Nat /\ c \in Nat
      BY <1>4, <3>2, PriceFacts DEF FrameRecord
    <3>4. c <= b
      BY <1>2, <1>3, <3>3
    <3>5. a + b < 12
      BY <3>1, <3>3 DEF UNPAYABLE
    <3>6. a + c < 12
      BY <3>3, <3>4, <3>5
    <3> QED BY <3>1, <3>3, <3>6 DEF UNPAYABLE
  <2> QED BY <2>1, <2>2
<1>8. OutputsFit(z)
  <2> SUFFICES ASSUME NEW k \in 1 .. n - 1
               PROVE  z[k + 1].out[1] + z[k + 1].out[2] <= z[k].size
    BY <1>2, <1>5 DEF OutputsFit
  <2>1. s[k + 1].out[1] + s[k + 1].out[2] <= s[k].size
    BY <1>2 DEF StackInv, OutputsFit
  <2>2. k \in 1 .. n /\ k # n /\ k + 1 \in 1 .. n
    BY <1>2
  <2>3. z[k] = s[k]
    BY <1>5, <2>2
  <2>4. z[k + 1].out = s[k + 1].out
    BY <1>2, <1>5, <2>2
  <2> QED BY <2>1, <2>3, <2>4
<1>9. LogsNest(z, count)
  <2>1. \A k \in 1 .. n : z[k].logs = s[k].logs
    BY <1>2, <1>5
  <2>2. \A k \in 1 .. n : s[k].logs <= count /\ \A j \in 1 .. k : s[j].logs <= s[k].logs
    BY <1>2 DEF StackInv, LogsNest
  <2>3. ASSUME NEW k \in 1 .. n, NEW j \in 1 .. k PROVE z[j].logs <= z[k].logs
    <3>1. j \in 1 .. n
      BY <1>2
    <3> QED BY <2>1, <2>2, <3>1
  <2> QED BY <1>5, <2>1, <2>2, <2>3 DEF LogsNest
<1> QED BY <1>2, <1>5, <1>6, <1>7, <1>8, <1>9 DEF StackInv

\* The frame c may begin over g.
Begins(g, c, count) ==
  /\ c \in FrameRecord /\ c.status = "ok" /\ Clean(c) /\ c.size = 0 /\ c.gas <= g.gas /\ c.logs = count
  /\ c.out[1] + c.out[2] <= g.size

\* The last frame hands its gas to the one that begins over it.
Pushed(s, c) == Append([s EXCEPT ![Len(s)] = [s[Len(s)] EXCEPT !.gas = 0]], c)

LEMMA Smaller ==
  ASSUME NEW a \in Nat, NEW b \in Nat, NEW d \in Nat, a + b < 12, d <= b
  PROVE  a + d < 12
OBVIOUS

\* another one begins over it,
LEMMA StackPushed ==
  ASSUME NEW s, NEW count \in Nat, StackInv(s, count), s # <<>>, NEW c, Begins(s[Len(s)], c, count),
         NEW z, z = Pushed(s, c)
  PROVE  StackInv(z, count)
<1>1. s \in Seq(FrameRecord) /\ c \in FrameRecord
  BY DEF StackInv, Begins
<1>2. PICK n \in Nat : n = Len(s) /\ n >= 1
  BY <1>1
<1>3. PICK g : g = s[n] /\ Fit(g)
  BY <1>2, TopFits
<1>4. PICK h : h = [g EXCEPT !.gas = 0]
  OBVIOUS
<1>5. /\ h \in FrameRecord /\ h.size = g.size /\ h.memory = g.memory /\ h.status = "ok" /\ h.gas = 0
      /\ h.out = g.out /\ h.logs = g.logs
  <2>1. g \in FrameRecord /\ g.status = "ok"
    BY <1>3, FitFacts
  <2> QED BY <1>4, <2>1 DEF FrameRecord
<1>6. Clean(h)
  BY <1>3, <1>5, FitFacts DEF Clean
<1>7. PICK w \in Seq(FrameRecord) :
        w = [s EXCEPT ![Len(s)] = [s[Len(s)] EXCEPT !.gas = 0]] /\ Len(w) = n /\ \A k \in 1 .. n : w[k] = IF k = n THEN h ELSE s[k]
  <2>1. [s[Len(s)] EXCEPT !.gas = 0] = h
    BY <1>2, <1>3, <1>4
  <2>2. PICK w : w = [s EXCEPT ![n] = h]
    OBVIOUS
  <2>3. w \in Seq(FrameRecord) /\ Len(w) = n /\ \A k \in 1 .. n : w[k] = IF k = n THEN h ELSE s[k]
    BY <1>1, <1>2, <1>5, <2>2
  <2>4. w = [s EXCEPT ![Len(s)] = [s[Len(s)] EXCEPT !.gas = 0]]
    BY <1>2, <2>1, <2>2
  <2> QED BY <2>3, <2>4
<1>8. /\ z \in Seq(FrameRecord) /\ Len(z) = n + 1
      /\ z = [k \in 1 .. n + 1 |-> IF k = n + 1 THEN c ELSE w[k]]
  <2>1. /\ Append(w, c) = [k \in 1 .. Len(w) + 1 |-> IF k = Len(w) + 1 THEN c ELSE w[k]]
        /\ Append(w, c) \in Seq(FrameRecord) /\ Len(Append(w, c)) = Len(w) + 1
    BY <1>1, <1>7, AppendIs
  <2> QED BY <1>7, <2>1 DEF Pushed
<1> DEFINE m == n + 1
<1>17. m \in Nat /\ Len(z) = m /\ z[m] = c /\ m = n + 1 /\ \A k \in 1 .. m : k \in 1 .. n \/ k = m
  BY <1>2, <1>8
<1> HIDE DEF m
<1>9. \A k \in 1 .. n : z[k] = IF k = n THEN h ELSE s[k]
  BY <1>2, <1>7, <1>8
<1>10. z[n + 1] = c
  BY <1>2, <1>8
<1>11. \A k \in 1 .. n : z[k].size = s[k].size /\ z[k].out = s[k].out /\ z[k].logs = s[k].logs
  BY <1>3, <1>5, <1>9
<1>12. \A k \in 1 .. n + 1 : k \in 1 .. n \/ k = n + 1
  BY <1>2
<1>13. FramesClean(z)
  <2>1. \A k \in 1 .. n : s[k].status = "ok" /\ Clean(s[k])
    BY <1>2 DEF StackInv, FramesClean
  <2>2. \A k \in 1 .. n : z[k].status = "ok" /\ Clean(z[k])
    BY <1>5, <1>6, <1>9, <2>1
  <2>3. c.status = "ok" /\ Clean(c)
    BY DEF Begins
  <2> QED BY <1>8, <1>10, <1>12, <2>2, <2>3 DEF FramesClean
<1>14. GasHeld(z)
  <2>1. PICK b, d \in Nat : b = g.gas /\ b \in Nat /\ d = c.gas /\ d <= b
    <3>1. g.gas \in Nat /\ c.gas \in Nat /\ c.gas <= g.gas
      BY <1>1, <1>2, <1>3, FitFacts DEF FrameRecord, Begins
    <3> QED BY <3>1
  <2>2. ASSUME NEW k \in 1 .. n
        PROVE  E!Cost(z[k].size) + d < UNPAYABLE /\ z[k].gas = 0
    <3>1. E!Cost(s[k].size) + b < UNPAYABLE /\ (k < n => s[k].gas = 0)
      BY <1>2, <1>3, <2>1 DEF StackInv, GasHeld
    <3>2. s[k].size \in Sizes
      BY <1>2 DEF StackInv, FramesClean, Clean
    <3>3. PICK a \in 0 .. 19 : a = E!Cost(s[k].size)
      BY <3>2, PriceFacts
    <3>4. a + d < 12
      <4>1. a + b < 12
        BY <3>1, <3>3 DEF UNPAYABLE
      <4>2. d <= b
        BY <2>1
      <4> QED BY <2>1, <4>1, <4>2, Smaller
    <3>5. z[k].gas = 0
      <4>1. CASE k = n
        BY <1>5, <1>9, <4>1
      <4>2. CASE k # n
        <5>1. k < n
          BY <1>2, <4>2
        <5> QED BY <1>9, <3>1, <4>2, <5>1
      <4> QED BY <4>1, <4>2
    <3> QED BY <1>11, <3>3, <3>4, <3>5 DEF UNPAYABLE
  <2>3. E!Cost(c.size) + d < UNPAYABLE
    <3>1. b < 12
      <4>1. E!Cost(g.size) \in 0 .. 11 /\ E!Cost(g.size) + b < 12
        BY <1>3, <2>1, FitFacts
      <4> QED BY <2>1, <4>1
    <3>2. E!Cost(c.size) = 0
      BY PriceTable DEF Begins
    <3>3. 0 + d < 12
      BY <2>1, <3>1
    <3> QED BY <3>2, <3>3 DEF UNPAYABLE
  <2> SUFFICES ASSUME NEW k \in 1 .. m
               PROVE  E!Cost(z[k].size) + z[m].gas < UNPAYABLE /\ (k < m => z[k].gas = 0)
    BY <1>17 DEF GasHeld
  <2>4. CASE k \in 1 .. n
    BY <1>17, <2>1, <2>2, <2>4
  <2>5. CASE k = m
    BY <1>17, <2>1, <2>3, <2>5
  <2> QED BY <1>17, <2>4, <2>5
<1>15. OutputsFit(z)
  <2> SUFFICES ASSUME NEW k \in 1 .. n
               PROVE  z[k + 1].out[1] + z[k + 1].out[2] <= z[k].size
    <3>1. Len(z) - 1 = n
      BY <1>2, <1>17
    <3> QED BY <3>1 DEF OutputsFit
  <2>1. CASE k = n
    BY <1>2, <1>10, <1>11, <2>1 DEF Begins
  <2>2. CASE k # n
    <3>1. k + 1 \in 1 .. n /\ k \in 1 .. Len(s) - 1
      BY <1>2, <2>2
    <3>2. s[k + 1].out[1] + s[k + 1].out[2] <= s[k].size
      BY <3>1 DEF StackInv, OutputsFit
    <3> QED BY <1>11, <3>1, <3>2
  <2> QED BY <2>1, <2>2
<1>16. LogsNest(z, count)
  <2>1. \A k \in 1 .. n : s[k].logs <= count /\ \A j \in 1 .. k : s[j].logs <= s[k].logs
    BY <1>2 DEF StackInv, LogsNest
  <2>2. ASSUME NEW k \in 1 .. n, NEW j \in 1 .. k PROVE z[j].logs <= z[k].logs
    <3>1. j \in 1 .. n
      BY <1>2
    <3> QED BY <1>11, <2>1, <3>1
  <2>3. \A k \in 1 .. n : z[k].logs <= count
    BY <1>11, <2>1
  <2>4. \A j \in 1 .. n + 1 : z[j].logs <= z[n + 1].logs
    <3>1. z[n + 1].logs = count /\ count <= count
      BY <1>10 DEF Begins
    <3> QED BY <1>12, <2>3, <3>1
  <2> SUFFICES ASSUME NEW k \in 1 .. m
               PROVE  z[k].logs <= count /\ \A j \in 1 .. k : z[j].logs <= z[k].logs
    BY <1>17 DEF LogsNest
  <2>5. CASE k \in 1 .. n
    BY <2>2, <2>3, <2>5
  <2>6. CASE k = m
    <3>1. z[m].logs <= count
      BY <1>17 DEF Begins
    <3> QED BY <1>17, <2>4, <2>6, <3>1
  <2> QED BY <1>17, <2>5, <2>6
<1> QED BY <1>8, <1>13, <1>14, <1>15, <1>16 DEF StackInv

\* The frame u may go on below g, which was over v.
Resumes(v, g, u) ==
  /\ u \in FrameRecord /\ u.status = "ok" /\ Clean(u) /\ u.gas <= g.gas
  /\ u.size = v.size /\ u.out = v.out /\ u.logs = v.logs

LEMMA FieldFacts ==
  ASSUME NEW s, NEW count \in Nat, StackInv(s, count), NEW k \in 1 .. Len(s)
  PROVE  /\ s[k] \in FrameRecord /\ s[k].size \in Sizes /\ E!Cost(s[k].size) \in Nat /\ s[k].gas \in Nat
         /\ s[k].logs \in Nat /\ s[k].logs <= count
         /\ \A j \in 1 .. k : s[j].logs <= s[k].logs /\ s[j].logs \in Nat
<1>1. s \in Seq(FrameRecord) /\ Len(s) \in Nat
  BY DEF StackInv
<1>2. s[k] \in FrameRecord
  BY <1>1
<1>3. s[k].size \in Sizes
  BY DEF StackInv, FramesClean, Clean
<1>4. E!Cost(s[k].size) \in Nat
  <2>1. E!Cost(s[k].size) \in 0 .. 19
    BY <1>3, PriceFacts
  <2> QED BY <2>1
<1>5. s[k].gas \in Nat /\ s[k].logs \in Nat
  BY <1>2 DEF FrameRecord
<1>6. s[k].logs <= count /\ \A j \in 1 .. k : s[j].logs <= s[k].logs
  BY DEF StackInv, LogsNest
<1>7. ASSUME NEW j \in 1 .. k PROVE s[j].logs \in Nat
  <2>1. j \in 1 .. Len(s)
    BY <1>1
  <2>2. s[j] \in FrameRecord
    BY <1>1, <2>1
  <2> QED BY <2>2 DEF FrameRecord
<1> QED BY <1>2, <1>3, <1>4, <1>5, <1>6, <1>7

\* the last one ends and the one below it goes on,
LEMMA StackPopped ==
  ASSUME NEW s, NEW count \in Nat, StackInv(s, count), Len(s) >= 2, NEW u,
         Resumes(s[Len(s) - 1], s[Len(s)], u),
         NEW kept \in Nat, s[Len(s)].logs <= kept, NEW z, z = Popped(s, u)
  PROVE  StackInv(z, kept)
<1>1. s \in Seq(FrameRecord) /\ u \in FrameRecord
  BY DEF StackInv, Resumes
<1>2. PICK n \in Nat : Len(s) = n + 1 /\ n >= 1 /\ Len(s) - 1 = n
  BY <1>1
<1>3. Len(z) = n /\ z = [k \in 1 .. n |-> IF k = n THEN u ELSE s[k]]
  BY <1>1, <1>2, PoppedIs
<1>4. z \in Seq(FrameRecord) /\ \A k \in 1 .. n : z[k] = IF k = n THEN u ELSE s[k]
  BY <1>1, <1>2, <1>3
<1>5. PICK v, g : v = s[n] /\ g = s[n + 1] /\ Resumes(v, g, u)
  BY <1>2
<1>6. \A k \in 1 .. n : z[k].size = s[k].size /\ z[k].out = s[k].out /\ z[k].logs = s[k].logs
  BY <1>4, <1>5 DEF Resumes
<1>7. FramesClean(z)
  <2>1. \A k \in 1 .. n + 1 : s[k].status = "ok" /\ Clean(s[k])
    BY <1>2 DEF StackInv, FramesClean
  <2>2. u.status = "ok" /\ Clean(u)
    BY <1>5 DEF Resumes
  <2>3. \A k \in 1 .. n : z[k].status = "ok" /\ Clean(z[k])
    BY <1>2, <1>4, <2>1, <2>2
  <2> QED BY <1>3, <2>3 DEF FramesClean
<1>8. GasHeld(z)
  <2> SUFFICES ASSUME NEW k \in 1 .. n
               PROVE  E!Cost(z[k].size) + z[n].gas < UNPAYABLE /\ (k < n => z[k].gas = 0)
    BY <1>3 DEF GasHeld
  <2>1. k \in 1 .. Len(s) /\ n + 1 \in 1 .. Len(s)
    BY <1>2
  <2>2. PICK a \in Nat : a = E!Cost(s[k].size)
    BY <2>1, FieldFacts
  <2>3. PICK b \in Nat : b = g.gas
    BY <1>5, <2>1, FieldFacts
  <2>4. PICK d \in Nat : d = u.gas
    BY <1>1 DEF FrameRecord
  <2>5. d <= b
    BY <1>5, <2>3, <2>4 DEF Resumes
  <2>6. a + b < 12 /\ (k < n + 1 => s[k].gas = 0)
    BY <1>2, <1>5, <2>1, <2>2, <2>3 DEF StackInv, GasHeld, UNPAYABLE
  <2>7. a + d < 12
    BY <2>5, <2>6, Smaller
  <2>8. n \in 1 .. n
    BY <1>2
  <2>9. z[n].gas = d
    BY <1>4, <2>4, <2>8
  <2>10. k < n => z[k].gas = 0
    <3> SUFFICES ASSUME k < n PROVE z[k].gas = 0
      OBVIOUS
    <3>1. k # n /\ k < n + 1
      BY <1>2
    <3> QED BY <1>4, <2>6, <3>1
  <2> QED BY <1>6, <2>2, <2>7, <2>9, <2>10 DEF UNPAYABLE
<1>9. OutputsFit(z)
  <2> SUFFICES ASSUME NEW k \in 1 .. n - 1
               PROVE  z[k + 1].out[1] + z[k + 1].out[2] <= z[k].size
    BY <1>3 DEF OutputsFit
  <2>1. k \in 1 .. n /\ k + 1 \in 1 .. n /\ k \in 1 .. Len(s) - 1
    BY <1>2
  <2>2. s[k + 1].out[1] + s[k + 1].out[2] <= s[k].size
    BY <2>1 DEF StackInv, OutputsFit
  <2> QED BY <1>6, <2>1, <2>2
<1>10. LogsNest(z, kept)
  <2> SUFFICES ASSUME NEW k \in 1 .. n
               PROVE  z[k].logs <= kept /\ \A j \in 1 .. k : z[j].logs <= z[k].logs
    BY <1>3 DEF LogsNest
  <2>1. k \in 1 .. n + 1 /\ n + 1 \in 1 .. Len(s) /\ k \in 1 .. Len(s)
    BY <1>2
  <2>2. PICK a \in Nat, b \in Nat : a = s[k].logs /\ b = s[n + 1].logs /\ b \in Nat
    BY <2>1, FieldFacts
  <2>3. a <= b
    BY <2>1, <2>2, FieldFacts
  <2>4. b <= kept
    BY <1>2, <2>2
  <2>5. z[k].logs <= kept
    <3>1. a <= kept
      BY <2>3, <2>4
    <3> QED BY <1>6, <2>2, <3>1
  <2>6. ASSUME NEW j \in 1 .. k PROVE z[j].logs <= z[k].logs
    <3>1. j \in 1 .. n
      BY <1>2
    <3>2. s[j].logs <= s[k].logs
      BY <2>1, FieldFacts
    <3> QED BY <1>6, <3>1, <3>2
  <2> QED BY <2>5, <2>6
<1> QED BY <1>4, <1>7, <1>8, <1>9, <1>10 DEF StackInv

\* none is left, or a message begins.
LEMMA StackEmpty ==
  ASSUME NEW count
  PROVE  StackInv(<<>>, count)
BY DEF StackInv, FramesClean, GasHeld, OutputsFit, LogsNest

LEMMA StackRoot ==
  ASSUME NEW c \in FrameRecord, c.status = "ok", Clean(c), c.size = 0, c.logs = 0, c.gas < UNPAYABLE
  PROVE  StackInv(<<c>>, 0)
<1>1. <<c>> \in Seq(FrameRecord) /\ Len(<<c>>) = 1 /\ <<c>>[1] = c
  OBVIOUS
<1>2. E!Cost(c.size) + c.gas < UNPAYABLE
  <2>1. PICK b \in Nat : b = c.gas
    BY DEF FrameRecord
  <2> QED BY <2>1, PriceTable DEF UNPAYABLE
<1>3. \A k \in 1 .. Len(<<c>>) : k = 1 /\ <<c>>[k] = c
  BY <1>1
<1>4. FramesClean(<<c>>)
  BY <1>3 DEF FramesClean
<1>5. GasHeld(<<c>>)
  BY <1>1, <1>2, <1>3 DEF GasHeld
<1>6. OutputsFit(<<c>>)
  BY <1>1 DEF OutputsFit
<1>7. LogsNest(<<c>>, 0)
  BY <1>1 DEF LogsNest
<1> QED BY <1>1, <1>4, <1>5, <1>6, <1>7 DEF StackInv

(***************************************************************************)
(* The logs                                                                *)
(***************************************************************************)
Payload(e, d, k) == SubSeq(d, e[k].start + 1, e[k].start + e[k].len)
Bytewise(e, d, k) == [i \in 1 .. e[k].len |-> d[e[k].start + i]]
Payloads(e, d) == [k \in 1 .. Len(e) |-> Payload(e, d, k)]
EndOf(e, count) == IF count = 0 THEN 0 ELSE e[count].start + e[count].len
Kept(d, end) == SubSeq(d, 1, end)

LEMMA EntryFacts ==
  ASSUME NEW e, NEW d, LogInv(e, d), NEW k \in 1 .. Len(e)
  PROVE  /\ e[k] \in Entry /\ e[k].start \in Nat /\ e[k].len \in Nat /\ e[k].start + e[k].len <= Len(d)
         /\ Payload(e, d, k) \in Seq(Nat) /\ Len(Payload(e, d, k)) = e[k].len
         /\ Payload(e, d, k) = Bytewise(e, d, k)
<1>1. e \in Seq(Entry) /\ d \in Seq(Nat)
  BY DEF LogInv
<1>2. e[k] \in Entry
  BY <1>1
<1>3. PICK a, b : a = e[k].start /\ b = e[k].len /\ a \in Nat /\ b \in Nat
  BY <1>2 DEF Entry
<1>4. a + b <= Len(d)
  BY <1>3 DEF LogInv
<1> QED BY <1>1, <1>2, <1>3, <1>4, CutIs DEF Payload, Bytewise

\* Of the log e of the data d, the log y of the data z with the bytes appended.
Appends(e, d, bytes, y, z) == y = Append(e, [start |-> Len(d), len |-> Len(bytes)]) /\ z = d \o bytes

LEMMA LogAppended ==
  ASSUME NEW e, NEW d, LogInv(e, d), NEW bytes \in Seq(Nat), NEW y, NEW z, Appends(e, d, bytes, y, z)
  PROVE  LogInv(y, z) /\ Payloads(y, z) = Append(Payloads(e, d), bytes)
         /\ Len(y) = Len(e) + 1
<1>1. e \in Seq(Entry) /\ d \in Seq(Nat)
  BY DEF LogInv
<1>2. PICK n \in Nat : n = Len(e)
  BY <1>1
<1>3. PICK l \in Nat, b \in Nat : l = Len(d) /\ b = Len(bytes) /\ b \in Nat
  BY <1>1
<1>4. PICK x \in Entry : x = [start |-> Len(d), len |-> Len(bytes)] /\ x.start = l /\ x.len = b
  <2>1. [start |-> l, len |-> b] \in Entry
    BY <1>3 DEF Entry
  <2> QED BY <1>3, <2>1
<1>5. /\ y = [k \in 1 .. n + 1 |-> IF k = n + 1 THEN x ELSE e[k]] /\ y \in Seq(Entry) /\ Len(y) = n + 1
  <2>1. /\ Append(e, x) = [k \in 1 .. Len(e) + 1 |-> IF k = Len(e) + 1 THEN x ELSE e[k]]
        /\ Append(e, x) \in Seq(Entry) /\ Len(Append(e, x)) = Len(e) + 1
    BY <1>1, AppendIs
  <2> QED BY <1>2, <1>4, <2>1 DEF Appends
<1>6. (\A k \in 1 .. n : y[k] = e[k]) /\ y[n + 1] = x
  BY <1>2, <1>5
<1>7. /\ z \in Seq(Nat) /\ Len(z) = l + b
      /\ \A i \in 1 .. l + b : z[i] = IF i <= l THEN d[i] ELSE bytes[i - l]
  <2>1. /\ d \o bytes \in Seq(Nat) /\ Len(d \o bytes) = Len(d) + Len(bytes)
        /\ \A i \in 1 .. Len(d) + Len(bytes) :
             (d \o bytes)[i] = IF i <= Len(d) THEN d[i] ELSE bytes[i - Len(d)]
    BY <1>1, ConcatProperties
  <2> QED BY <1>3, <2>1 DEF Appends
<1>8. LogInv(y, z)
  <2> SUFFICES ASSUME NEW k \in 1 .. n + 1
               PROVE  /\ y[k].start + y[k].len <= l + b
                      /\ \A j \in 1 .. k - 1 : y[j].start + y[j].len <= y[k].start
    BY <1>5, <1>7 DEF LogInv
  <2>1. ASSUME NEW j \in 1 .. n PROVE y[j].start + y[j].len <= l /\ y[j].start + y[j].len \in Nat
    <3>1. e[j].start \in Nat /\ e[j].len \in Nat /\ e[j].start + e[j].len <= l
      BY <1>2, <1>3, EntryFacts
    <3> QED BY <1>6, <3>1
  <2>2. CASE k = n + 1
    <3>1. y[k].start + y[k].len = l + b
      BY <1>4, <1>6, <2>2
    <3>2. \A j \in 1 .. k - 1 : j \in 1 .. n
      BY <1>2, <2>2
    <3>3. y[k].start = l
      BY <1>4, <1>6, <2>2
    <3>4. l + b <= l + b
      BY <1>3
    <3> QED BY <2>1, <3>1, <3>2, <3>3, <3>4
  <2>3. CASE k # n + 1
    <3>1. k \in 1 .. n
      BY <1>2, <2>3
    <3>2. PICK q \in Nat : q = y[k].start + y[k].len /\ q <= l
      BY <2>1, <3>1
    <3>3. q <= l + b
      BY <1>3, <3>2
    <3>4. \A j \in 1 .. k - 1 : j \in 1 .. n /\ e[j].start + e[j].len <= e[k].start
      <4> TAKE j \in 1 .. k - 1
      <4>1. j \in 1 .. n
        BY <1>2, <3>1
      <4>2. k \in 1 .. Len(e)
        BY <1>2, <3>1
      <4> QED BY <4>1, <4>2 DEF LogInv
    <3> QED BY <1>6, <3>1, <3>2, <3>3, <3>4
  <2> QED BY <2>2, <2>3
<1>9. ASSUME NEW k \in 1 .. n PROVE Payload(y, z, k) = Payload(e, d, k)
  <2>1. k \in 1 .. Len(e) /\ k \in 1 .. Len(y)
    BY <1>2, <1>5
  <2>2. PICK a, c : a = e[k].start /\ c = e[k].len /\ a \in Nat /\ c \in Nat /\ a + c <= l
    BY <1>3, <2>1, EntryFacts
  <2>3. y[k] = e[k]
    BY <1>6
  <2>4. Payload(e, d, k) = [i \in 1 .. c |-> d[a + i]]
    <3>1. Payload(e, d, k) = Bytewise(e, d, k)
      BY <2>1, EntryFacts
    <3> QED BY <2>2, <3>1 DEF Bytewise
  <2>5. Payload(y, z, k) = [i \in 1 .. c |-> z[a + i]]
    <3>1. Payload(y, z, k) = Bytewise(y, z, k)
      BY <1>8, <2>1, EntryFacts
    <3> QED BY <2>2, <2>3, <3>1 DEF Bytewise
  <2>6. ASSUME NEW i \in 1 .. c PROVE z[a + i] = d[a + i]
    <3>1. a + i \in 1 .. l + b /\ a + i <= l
      <4>1. a \in Nat /\ c \in Nat /\ a + c <= l
        BY <2>2
      <4> HIDE <2>2
      <4> QED BY <4>1
    <3> QED BY <1>7, <3>1
  <2> QED BY <2>4, <2>5, <2>6
<1>10. Payload(y, z, n + 1) = bytes
  <2>1. n + 1 \in 1 .. Len(y) /\ y[n + 1].start = l /\ y[n + 1].len = b
    BY <1>2, <1>4, <1>5, <1>6
  <2>2. Payload(y, z, n + 1) = [i \in 1 .. b |-> z[l + i]]
    <3>1. PICK m : m = n + 1
      OBVIOUS
    <3>2. m \in 1 .. Len(y) /\ y[m].start = l /\ y[m].len = b
      BY <2>1, <3>1
    <3>3. Payload(y, z, m) = Bytewise(y, z, m)
      BY <1>8, <3>2, EntryFacts
    <3> QED BY <3>1, <3>2, <3>3 DEF Bytewise
  <2>3. ASSUME NEW i \in 1 .. b PROVE z[l + i] = bytes[i]
    <3>1. l + i \in 1 .. l + b /\ ~(l + i <= l) /\ l + i - l = i
      BY <1>3
    <3> QED BY <1>7, <3>1
  <2>4. bytes = [i \in 1 .. b |-> bytes[i]]
    BY <1>3
  <2> QED BY <2>2, <2>3, <2>4
<1>11. PICK p : p = Payloads(e, d) /\ p = [k \in 1 .. n |-> Payload(e, d, k)]
  BY <1>2 DEF Payloads
<1>12. p \in Seq(Seq(Nat)) /\ Len(p) = n
  <2>1. \A k \in 1 .. n : Payload(e, d, k) \in Seq(Nat)
    BY <1>2, EntryFacts
  <2>2. PICK S : S = Seq(Nat)
    OBVIOUS
  <2>3. p \in Seq(S) /\ Len(p) = n
    BY <1>2, <1>11, <2>1, <2>2
  <2> QED BY <2>2, <2>3
<1>13. Append(p, bytes) = [k \in 1 .. n + 1 |-> IF k = n + 1 THEN bytes ELSE p[k]]
  <2>1. PICK S : S = Seq(Nat)
    OBVIOUS
  <2>2. p \in Seq(S) /\ bytes \in S
    BY <1>12, <2>1
  <2>3. Append(p, bytes) = [k \in 1 .. Len(p) + 1 |-> IF k = Len(p) + 1 THEN bytes ELSE p[k]]
    BY <2>2, AppendIs
  <2> QED BY <1>12, <2>3
<1>14. Payloads(y, z) = [k \in 1 .. n + 1 |-> Payload(y, z, k)]
  BY <1>5 DEF Payloads
<1>15. ASSUME NEW k \in 1 .. n + 1 PROVE Payload(y, z, k) = IF k = n + 1 THEN bytes ELSE p[k]
  <2>1. CASE k = n + 1
    BY <1>10, <2>1
  <2>2. CASE k # n + 1
    <3>1. k \in 1 .. n
      BY <1>2, <2>2
    <3> QED BY <1>9, <1>11, <2>2, <3>1
  <2> QED BY <2>1, <2>2
<1>16. Payloads(y, z) = Append(p, bytes)
  BY <1>13, <1>14, <1>15, Zenon
<1> QED BY <1>2, <1>5, <1>8, <1>11, <1>16

\* Of the log e of the data d, the log y of the data z with the first logs alone.
Truncates(e, d, count, y, z) == y = SubSeq(e, 1, count) /\ z = Kept(d, EndOf(e, count))

LEMMA LogTruncated ==
  ASSUME NEW e, NEW d, LogInv(e, d), NEW count \in 0 .. Len(e),
         NEW y, NEW z, Truncates(e, d, count, y, z)
  PROVE  LogInv(y, z) /\ Len(y) = count /\ Payloads(y, z) = SubSeq(Payloads(e, d), 1, count)
<1>0. y = SubSeq(e, 1, count) /\ z = Kept(d, EndOf(e, count))
  BY DEF Truncates
<1>1. e \in Seq(Entry) /\ d \in Seq(Nat) /\ count \in Nat
  BY DEF LogInv
<1>2. PICK n \in Nat : n = Len(e) /\ count <= n
  BY <1>1
<1>3. PICK l \in Nat : l = Len(d)
  BY <1>1
<1>4. PICK end \in Nat : end = EndOf(e, count) /\ end <= l /\ (count # 0 => end = e[count].start + e[count].len)
  <2>1. CASE count = 0
    BY <1>3, <2>1 DEF EndOf
  <2>2. CASE count # 0
    <3>1. count \in 1 .. Len(e)
      BY <1>1, <1>2, <2>2
    <3>2. e[count].start \in Nat /\ e[count].len \in Nat /\ e[count].start + e[count].len <= Len(d)
      BY <3>1, EntryFacts
    <3> QED BY <1>3, <2>2, <3>2 DEF EndOf
  <2> QED BY <2>1, <2>2
<1>5. y \in Seq(Entry) /\ Len(y) = count /\ \A k \in 1 .. count : y[k] = e[k]
  <2>1. \A i \in 1 .. count : e[i] \in Entry
    BY <1>1, <1>2
  <2>2. /\ y \in Seq(Entry) /\ Len(y) = IF 1 <= count THEN count - 1 + 1 ELSE 0
        /\ \A i \in 1 .. count - 1 + 1 : y[i] = e[1 + i - 1]
    BY <1>0, <1>1, <2>1, SubSeqProperties
  <2> QED BY <1>1, <2>2
<1>6. z \in Seq(Nat) /\ Len(z) = end /\ \A i \in 1 .. end : z[i] = d[i]
  <2>1. 0 + end <= Len(d)
    BY <1>3, <1>4
  <2>2. /\ SubSeq(d, 0 + 1, 0 + end) \in Seq(Nat) /\ Len(SubSeq(d, 0 + 1, 0 + end)) = end
        /\ SubSeq(d, 0 + 1, 0 + end) = [k \in 1 .. end |-> d[0 + k]]
    BY <1>1, <2>1, CutIs
  <2>3. z = SubSeq(d, 0 + 1, 0 + end)
    BY <1>0, <1>4 DEF Kept
  <2>4. \A i \in 1 .. end : [k \in 1 .. end |-> d[0 + k]][i] = d[i]
    OBVIOUS
  <2> QED BY <2>2, <2>3, <2>4
<1>7. ASSUME NEW k \in 1 .. count
      PROVE  \E a \in Nat, b \in Nat : a = e[k].start /\ b = e[k].len /\ b \in Nat /\ a + b <= end
  <2>1. k \in 1 .. Len(e) /\ count \in 1 .. Len(e) /\ count # 0
    BY <1>1, <1>2
  <2>2. PICK a \in Nat, b \in Nat : a = e[k].start /\ b = e[k].len /\ b \in Nat
    BY <2>1, EntryFacts
  <2>3. PICK p \in Nat, q \in Nat : p = e[count].start /\ q = e[count].len /\ q \in Nat /\ end = p + q
    BY <1>4, <2>1, EntryFacts
  <2>4. CASE k = count
    BY <2>2, <2>3, <2>4
  <2>5. CASE k # count
    <3>1. k \in 1 .. count - 1
      BY <1>1, <2>5
    <3>2. a + b <= p
      BY <2>1, <2>2, <2>3, <3>1 DEF LogInv
    <3>3. a + b <= end
      BY <2>3, <3>2
    <3> QED BY <2>2, <3>3
  <2> QED BY <2>4, <2>5
<1>8. LogInv(y, z)
  <2> SUFFICES ASSUME NEW k \in 1 .. count
               PROVE  /\ y[k].start + y[k].len <= end
                      /\ \A j \in 1 .. k - 1 : y[j].start + y[j].len <= y[k].start
    BY <1>5, <1>6 DEF LogInv
  <2>1. y[k].start + y[k].len <= end
    BY <1>5, <1>7
  <2>2. ASSUME NEW j \in 1 .. k - 1 PROVE y[j].start + y[j].len <= y[k].start
    <3>1. j \in 1 .. count /\ k \in 1 .. Len(e)
      BY <1>1, <1>2
    <3>2. e[j].start + e[j].len <= e[k].start
      BY <3>1 DEF LogInv
    <3> QED BY <1>5, <3>1, <3>2
  <2> QED BY <2>1, <2>2
<1>9. ASSUME NEW k \in 1 .. count PROVE Payload(y, z, k) = Payload(e, d, k)
  <2>1. k \in 1 .. Len(e) /\ k \in 1 .. Len(y)
    BY <1>1, <1>2, <1>5
  <2>2. PICK a \in Nat, b \in Nat : a = e[k].start /\ b = e[k].len /\ b \in Nat /\ a + b <= end
    BY <1>7
  <2>3. y[k] = e[k]
    BY <1>5
  <2>4. Payload(e, d, k) = [i \in 1 .. b |-> d[a + i]]
    <3>1. Payload(e, d, k) = Bytewise(e, d, k)
      BY <2>1, EntryFacts
    <3> QED BY <2>2, <3>1 DEF Bytewise
  <2>5. Payload(y, z, k) = [i \in 1 .. b |-> z[a + i]]
    <3>1. Payload(y, z, k) = Bytewise(y, z, k)
      BY <1>8, <2>1, EntryFacts
    <3> QED BY <2>2, <2>3, <3>1 DEF Bytewise
  <2>6. ASSUME NEW i \in 1 .. b PROVE z[a + i] = d[a + i]
    <3>1. a + i \in 1 .. end
      <4>1. b \in Nat /\ a + b <= end
        BY <2>2
      <4> HIDE <2>2
      <4> QED BY <4>1
    <3> QED BY <1>6, <3>1
  <2> QED BY <2>4, <2>5, <2>6
<1>10. PICK p : p = Payloads(e, d) /\ p = [k \in 1 .. n |-> Payload(e, d, k)]
  BY <1>2 DEF Payloads
<1>11. \A k \in 1 .. n : p[k] = Payload(e, d, k) /\ p[k] \in Seq(Nat)
  BY <1>2, <1>10, EntryFacts
<1>12. SubSeq(p, 1, count) = [k \in 1 .. count |-> p[k]]
  <2>1. PICK S : S = Seq(Nat)
    OBVIOUS
  <2>2. \A k \in 1 .. count : p[k] \in S
    BY <1>1, <1>2, <1>11, <2>1
  <2>3. PICK q : q = SubSeq(p, 1, count)
    OBVIOUS
  <2>4. q \in Seq(S) /\ Len(q) = (IF 1 <= count THEN count - 1 + 1 ELSE 0) /\ \A i \in 1 .. count - 1 + 1 : q[i] = p[1 + i - 1]
    BY <1>1, <2>2, <2>3, SubSeqProperties
  <2>5. Len(q) = count /\ \A i \in 1 .. count : q[i] = p[i]
    BY <1>1, <2>4
  <2> QED BY <2>3, <2>4, <2>5
<1>13. Payloads(y, z) = [k \in 1 .. count |-> Payload(y, z, k)]
  BY <1>5 DEF Payloads
<1>14. \A k \in 1 .. count : Payload(y, z, k) = p[k]
  BY <1>2, <1>9, <1>11
<1>15. Payloads(y, z) = SubSeq(p, 1, count)
  BY <1>12, <1>13, <1>14, Zenon
<1> QED BY <1>5, <1>8, <1>10, <1>15

(***************************************************************************)
(* The pool                                                                *)
(***************************************************************************)
LEMMA ResultTaken ==
  ASSUME NEW memories, PoolInv(memories), NEW g \in FrameRecord, NEW fits
  PROVE  PoolInv(take_result(memories, g, fits))
<1>1. memories \in Seq(Buffer) /\ g.memory \in Buffer
  BY DEF PoolInv, FrameRecord
<1>2. PICK b : b = clear(g.memory) /\ b \in Buffer /\ b.len = 0
  <2>1. PICK m \in Buffer : m = g.memory
    BY <1>1
  <2>2. m = [len |-> m.len, cells |-> m.cells] /\ m.cells \in Seq(Nat)
    BY DEF Buffer
  <2>3. clear(m) = [len |-> 0, cells |-> m.cells]
    BY <2>2 DEF clear, Buffer
  <2>4. [len |-> 0, cells |-> m.cells] \in Buffer
    BY <2>2 DEF Buffer
  <2> QED BY <2>1, <2>3, <2>4
<1>3. CASE g.memory.cells = <<>> \/ ~fits
  BY <1>3 DEF take_result
<1>4. CASE ~(g.memory.cells = <<>> \/ ~fits)
  <2>1. PICK z : z = Append(memories, b)
    OBVIOUS
  <2>2. take_result(memories, g, fits) = z
    BY <1>2, <1>4, <2>1 DEF take_result
  <2>3. PICK n \in Nat : n = Len(memories)
    BY <1>1
  <2>4. z \in Seq(Buffer) /\ Len(z) = n + 1 /\ (\A k \in 1 .. n : z[k] = memories[k]) /\ z[n + 1] = b
    BY <1>1, <1>2, <2>1, <2>3, AppendProperties
  <2>5. \A k \in 1 .. n + 1 : z[k].len = 0
    <3> TAKE k \in 1 .. n + 1
    <3>1. CASE k = n + 1
      BY <1>2, <2>4, <3>1
    <3>2. CASE k # n + 1
      <4>1. k \in 1 .. n
        BY <2>3, <3>2
      <4>2. memories[k].len = 0
        BY <2>3, <4>1 DEF PoolInv
      <4> QED BY <2>4, <4>1, <4>2
    <3> QED BY <3>1, <3>2
  <2> QED BY <2>2, <2>4, <2>5 DEF PoolInv
<1> QED BY <1>3, <1>4

\* The memories after each frame of s has given its own back, the last one first.
Given(s, memories, n, given) ==
  given = [k \in 0 .. n |-> IF k = 0 THEN memories ELSE take_result(given[k - 1], s[Len(s) + 1 - k], TRUE)]

LEMMA GivenExists ==
  ASSUME NEW s, NEW memories, NEW n \in Nat
  PROVE  \E given : Given(s, memories, n, given)
<1> DEFINE T == {m \in Nat : ~\E given : Given(s, memories, m, given)}
<1> SUFFICES ASSUME T # {} PROVE FALSE
  OBVIOUS
<1>1. PICK m \in T : \A l \in T : m <= l
  <2>1. T \in SUBSET Nat
    OBVIOUS
  <2> HIDE DEF T
  <2> QED BY <2>1, LeastNat
<1>2. CASE m = 0
  <2> DEFINE h == [k \in 0 .. 0 |-> memories]
  <2>1. Given(s, memories, 0, h)
    BY DEF Given
  <2> QED BY <1>1, <1>2, <2>1
<1>3. CASE m # 0
  <2>1. m \in Nat /\ m - 1 \in Nat /\ m - 1 \notin T
    BY <1>1, <1>3
  <2>2. PICK g : Given(s, memories, m - 1, g)
    BY <2>1
  <2> DEFINE step(k, x) == take_result(x, s[Len(s) + 1 - k], TRUE)
             h == [k \in 0 .. m |-> IF k = m THEN step(m, g[m - 1]) ELSE g[k]]
  <2>3. \A k \in 0 .. m - 1 : g[k] = IF k = 0 THEN memories ELSE step(k, g[k - 1])
    BY <2>2 DEF Given
  <2>4. \A k \in 0 .. m - 1 : h[k] = g[k]
    BY <2>1
  <2>5. ASSUME NEW k \in 0 .. m
        PROVE  h[k] = IF k = 0 THEN memories ELSE step(k, h[k - 1])
    <3>1. CASE k = m
      <4>1. h[k] = step(m, g[m - 1]) /\ m - 1 \in 0 .. m - 1
        BY <2>1, <3>1
      <4>2. h[k - 1] = g[m - 1]
        BY <2>4, <3>1, <4>1
      <4> HIDE DEF h, step
      <4> QED BY <1>3, <3>1, <4>1, <4>2
    <3>2. CASE k # m
      <4>1. k \in 0 .. m - 1 /\ (k # 0 => k - 1 \in 0 .. m - 1)
        BY <2>1, <3>2
      <4> HIDE DEF h, step
      <4> QED BY <2>3, <2>4, <4>1
    <3> QED BY <3>1, <3>2
  <2>6. h = [k \in 0 .. m |-> h[k]]
    OBVIOUS
  <2>7. Given(s, memories, m, h)
    <3>1. \A k \in 0 .. m : h[k] = IF k = 0 THEN memories ELSE take_result(h[k - 1], s[Len(s) + 1 - k], TRUE)
      BY <2>5 DEF step
    <3> HIDE DEF h
    <3> QED BY <2>6, <3>1 DEF Given
  <2> QED BY <1>1, <2>7
<1> QED BY <1>2, <1>3

LEMMA GivenHolds ==
  ASSUME NEW s \in Seq(FrameRecord), NEW memories, PoolInv(memories),
         NEW given, Given(s, memories, Len(s), given)
  PROVE  PoolInv(given[Len(s)])
<1>1. PICK n \in Nat : n = Len(s)
  OBVIOUS
<1>2. \A k \in 0 .. n : given[k] = IF k = 0 THEN memories ELSE take_result(given[k - 1], s[n + 1 - k], TRUE)
  BY <1>1 DEF Given
<1> DEFINE T == {k \in Nat : k <= n /\ ~PoolInv(given[k])}
<1> SUFFICES ASSUME T # {} PROVE FALSE
  BY <1>1
<1>3. PICK m \in T : \A l \in T : m <= l
  <2>1. T \in SUBSET Nat
    OBVIOUS
  <2> HIDE DEF T
  <2> QED BY <2>1, LeastNat
<1>4. m \in 0 .. n /\ ~PoolInv(given[m])
  BY <1>1
<1>5. m # 0
  BY <1>2, <1>4
<1>6. m - 1 \in Nat /\ m - 1 <= n /\ m - 1 \notin T
  BY <1>1, <1>3, <1>5
<1>7. PoolInv(given[m - 1])
  BY <1>6
<1>8. s[n + 1 - m] \in FrameRecord
  <2>1. n + 1 - m \in 1 .. n
    BY <1>1, <1>4, <1>5
  <2> QED BY <1>1, <2>1
<1>9. PoolInv(take_result(given[m - 1], s[n + 1 - m], TRUE))
  BY <1>7, <1>8, ResultTaken
<1> QED BY <1>2, <1>4, <1>5, <1>9

\* The memory taken last leaves the others.
LEMMA PoolTaken ==
  ASSUME NEW memories, PoolInv(memories), memories # <<>>
  PROVE  /\ memories[Len(memories)] \in Buffer /\ memories[Len(memories)].len = 0
         /\ PoolInv(SubSeq(memories, 1, Len(memories) - 1))
<1>1. memories \in Seq(Buffer)
  BY DEF PoolInv
<1>2. PICK n \in Nat : n = Len(memories) - 1 /\ Len(memories) = n + 1
  BY <1>1
<1>3. \A i \in 1 .. n + 1 : memories[i] \in Buffer /\ memories[i].len = 0
  BY <1>1, <1>2 DEF PoolInv
<1>4. PICK q : q = SubSeq(memories, 1, n)
  OBVIOUS
<1>5. q \in Seq(Buffer) /\ Len(q) = (IF 1 <= n THEN n - 1 + 1 ELSE 0) /\ \A i \in 1 .. n - 1 + 1 : q[i] = memories[1 + i - 1]
  BY <1>2, <1>3, <1>4, SubSeqProperties
<1>6. Len(q) = n /\ \A i \in 1 .. n : q[i] = memories[i]
  BY <1>2, <1>5
<1>7. PoolInv(q)
  BY <1>2, <1>3, <1>5, <1>6 DEF PoolInv
<1>8. n + 1 \in 1 .. n + 1
  BY <1>2
<1> QED BY <1>2, <1>3, <1>4, <1>7, <1>8

(***************************************************************************)
(* What the definition sees                                                *)
(***************************************************************************)
LEMMA ShownIs ==
  /\ Shown = Views(stack) /\ Len(Shown) = Len(stack)
  /\ Len(stack) \in Nat => (Shown = <<>> <=> Len(stack) = 0)
<1>1. Shown = Views(stack)
  BY DEF Shown, Views, View, Visible
<1> QED BY <1>1 DEF Views

LEMMA TopIs ==
  ASSUME IInv, stack # <<>>
  PROVE  /\ Shown # <<>> /\ Len(Shown) \in Nat /\ Len(Shown) >= 1 /\ E!top = View(f) /\ Fit(f)
         /\ E!top.gas = f.gas /\ E!top.input = f.input /\ E!top.out = f.out /\ E!top.logs = f.logs
         /\ E!top.bytes = Visible(f) /\ Len(E!top.bytes) = f.size /\ Visible(f) \in Seq(Nat)
<1>1. /\ stack \in Seq(FrameRecord) /\ Fit(f) /\ Len(stack) \in Nat /\ Len(stack) >= 1
      /\ Len(stack) \in 1 .. Len(stack)
  BY TopFits DEF IInv, StackInv, f
<1>2. E!top = View(f)
  BY <1>1, ShownIs DEF E!top, Views, f
<1>3. Visible(f) \in Seq(Nat) /\ Len(Visible(f)) = f.size
  BY <1>1, FitFacts, VisibleIs
<1>4. Shown # <<>>
  BY <1>1, ShownIs
<1> QED BY <1>1, <1>2, <1>3, <1>4, ShownIs DEF View

\* The extent of one range, and of two.
LEMMA ExtentOne ==
  ASSUME NEW r
  PROVE  E!Extent(<<r>>) = E!Covering(Len(E!top.bytes), r)
<1> DEFINE Is(c) == c = [k \in 0 .. 1 |-> IF k = 0 THEN Len(E!top.bytes) ELSE E!Covering(c[k - 1], <<r>>[k])]
           w == [k \in 0 .. 1 |-> IF k = 0 THEN Len(E!top.bytes) ELSE E!Covering(Len(E!top.bytes), r)]
<1>1. Is(w)
  OBVIOUS
<1>2. PICK c : c = CHOOSE d : Is(d)
  OBVIOUS
<1>3. Is(c)
  BY <1>1, <1>2
<1>4. E!Extent(<<r>>) = c[1]
  BY <1>2 DEF E!Extent
<1> QED BY <1>3, <1>4

LEMMA ExtentTwo ==
  ASSUME NEW r, NEW q
  PROVE  E!Extent(<<r, q>>) = E!Covering(E!Covering(Len(E!top.bytes), r), q)
<1> DEFINE Is(c) == c = [k \in 0 .. 2 |-> IF k = 0 THEN Len(E!top.bytes) ELSE E!Covering(c[k - 1], <<r, q>>[k])]
           once == E!Covering(Len(E!top.bytes), r)
           w == [k \in 0 .. 2 |-> IF k = 0 THEN Len(E!top.bytes) ELSE IF k = 1 THEN once ELSE E!Covering(once, q)]
<1>1. Is(w)
  OBVIOUS
<1>2. PICK c : c = CHOOSE d : Is(d)
  OBVIOUS
<1>3. Is(c)
  BY <1>1, <1>2
<1>4. E!Extent(<<r, q>>) = c[2]
  BY <1>2 DEF E!Extent
<1>5. c[1] = once
  BY <1>3
<1>6. c[2] = E!Covering(c[1], q)
  BY <1>3
<1> QED BY <1>4, <1>5, <1>6

\* An operation that succeeds affords what it touches and leaves the frame the definition names.
LEMMA TouchedIs ==
  ASSUME IInv, stack # <<>>, NEW ranges, NEW t, t = E!Extent(ranges), Extent(f, t), NEW own \in Nat,
         NEW h, Outcome(f, h, t, Total(f, t, own))
  PROVE  /\ h.status = "ok" => E!Affords(ranges, own) /\ View(h) = E!Touched(ranges, own)
         /\ h.status = "out_of_gas" => ~E!Affords(ranges, own)
         /\ h.status \in {"ok", "out_of_gas", "host"}
<1>1. Fit(f) /\ Shown # <<>>
  BY TopIs
<1>2. PICK due \in Nat : due = Total(f, t, own)
  BY <1>1, TotalFacts
<1>3. PICK gas \in Nat : gas = f.gas /\ E!top.gas = gas
  BY <1>1, FitFacts, TopIs
<1>4. E!Charge(ranges, own) = due
  BY <1>2, TopIs DEF E!Charge, Total
<1>5. Outcome(f, h, t, due)
  BY <1>2
<1>6. CASE h.status = "ok"
  <2>1. due <= gas /\ h.gas = gas - due /\ Visible(h) = E!Padded(Visible(f), 0, t)
        /\ h.input = f.input /\ h.out = f.out /\ h.logs = f.logs
    BY <1>3, <1>5, <1>6 DEF Outcome
  <2>2. E!Affords(ranges, own)
    BY <1>1, <1>3, <1>4, <2>1 DEF E!Affords
  <2>3. E!Touched(ranges, own) = [View(f) EXCEPT !.bytes = E!Padded(@, 0, t), !.gas = @ - due]
    BY <1>4, TopIs DEF E!Touched
  <2>4. View(h) = [View(f) EXCEPT !.bytes = E!Padded(@, 0, t), !.gas = @ - due]
    <3>1. PICK v, in, out, logs :
            v = Visible(f) /\ in = f.input /\ out = f.out /\ logs = f.logs
      OBVIOUS
    <3>2. PICK p : p = E!Padded(v, 0, t)
      OBVIOUS
    <3>3. View(f) = [bytes |-> v, gas |-> gas, input |-> in, out |-> out, logs |-> logs]
      BY <1>3, <3>1 DEF View
    <3>4. View(h) = [bytes |-> p, gas |-> gas - due, input |-> in, out |-> out, logs |-> logs]
      BY <2>1, <3>1, <3>2 DEF View
    <3>5. PICK w : w = View(f)
      OBVIOUS
    <3>6. w = [bytes |-> v, gas |-> gas, input |-> in, out |-> out, logs |-> logs] /\ w.bytes = v /\ w.gas = gas
      BY <3>3, <3>5
    <3>7. PICK q \in Nat : q = gas - due /\ q = w.gas - due
      BY <2>1, <3>6
    <3>8. [w EXCEPT !.bytes = p, !.gas = q] =
            [bytes |-> p, gas |-> q, input |-> in, out |-> out, logs |-> logs]
      <4>1. PICK x : x = [w EXCEPT !.bytes = p]
        OBVIOUS
      <4>2. x = [bytes |-> p, gas |-> gas, input |-> in, out |-> out, logs |-> logs]
        BY <3>6, <4>1
      <4>3. [x EXCEPT !.gas = q] = [bytes |-> p, gas |-> q, input |-> in, out |-> out, logs |-> logs]
        BY <4>2
      <4>4. [w EXCEPT !.bytes = p, !.gas = q] = [x EXCEPT !.gas = q]
        BY <3>6, <4>1
      <4> QED BY <4>3, <4>4
    <3>9. [w EXCEPT !.bytes = E!Padded(@, 0, t), !.gas = @ - due] = [w EXCEPT !.bytes = p, !.gas = q]
      BY <3>2, <3>6, <3>7
    <3> QED BY <3>4, <3>5, <3>7, <3>8, <3>9
  <2> QED BY <1>6, <2>2, <2>3, <2>4
<1>7. CASE h.status = "out_of_gas"
  <2>1. due > gas
    BY <1>3, <1>5, <1>7 DEF Outcome
  <2> QED BY <1>3, <1>4, <1>7, <2>1 DEF E!Affords
<1>8. CASE h.status = "host"
  BY <1>8
<1>9. h.status \in {"ok", "out_of_gas", "host"}
  BY <1>5 DEF Outcome
<1> QED BY <1>6, <1>7, <1>8, <1>9

Logs == [k \in 1 .. Len(entries) |-> payload(k)]

LEMMA LogsShown ==
  Logs = Payloads(entries, data) /\ Logs' = Payloads(entries', data')
BY DEF Logs, payload, Payloads, Payload

\* The logs of a frame that ends are kept or dropped.
LEMMA LogsEnd ==
  ASSUME IInv, stack # <<>>, NEW kept \in BOOLEAN,
         IF kept THEN UNCHANGED <<entries, data>> ELSE truncate(f.logs)
  PROVE  /\ LogInv(entries', data') /\ f.logs \in Nat /\ f.logs <= Len(entries') /\ Len(entries') \in Nat
         /\ Logs' = IF kept THEN Logs ELSE SubSeq(Logs, 1, f.logs)
<1>1. LogInv(entries, data) /\ StackInv(stack, Len(entries)) /\ Len(entries) \in Nat
  BY DEF IInv, LogInv
<1>2. Len(stack) \in 1 .. Len(stack)
  BY <1>1, TopFits
<1>3. PICK n \in Nat : n = Len(entries)
  BY <1>1
<1>4. PICK l \in Nat : l = f.logs /\ l <= n
  <2>1. f.logs \in Nat /\ f.logs <= Len(entries)
    BY <1>1, <1>2, FieldFacts DEF f
  <2> QED BY <1>3, <2>1
<1>5. CASE kept
  <2>1. entries' = entries /\ data' = data
    BY <1>5
  <2>2. Logs' = Logs
    BY <2>1, LogsShown
  <2> QED BY <1>1, <1>3, <1>4, <1>5, <2>1, <2>2
<1>6. CASE ~kept
  <2>1. entries' = SubSeq(entries, 1, l) /\ data' = Kept(data, EndOf(entries, l))
    BY <1>4, <1>6 DEF truncate, Kept, EndOf
  <2>2. l \in 0 .. Len(entries)
    BY <1>3, <1>4
  <2>3. LogInv(entries', data') /\ Len(entries') = l /\ Payloads(entries', data') = SubSeq(Payloads(entries, data), 1, l)
    <3>1. PICK e, d, y, z : e = entries /\ d = data /\ y = entries' /\ z = data'
      OBVIOUS
    <3>2. LogInv(e, d) /\ l \in 0 .. Len(e) /\ Truncates(e, d, l, y, z)
      BY <1>1, <2>1, <2>2, <3>1 DEF Truncates
    <3>3. LogInv(y, z) /\ Len(y) = l /\ Payloads(y, z) = SubSeq(Payloads(e, d), 1, l)
      BY <3>2, LogTruncated
    <3> QED BY <3>1, <3>3
  <2>4. Logs' = SubSeq(Logs, 1, l)
    BY <2>3, LogsShown
  <2> QED BY <1>4, <1>6, <2>3, <2>4
<1> QED BY <1>5, <1>6

\* A message the host fails takes every log with it.
LEMMA AllLogsGo ==
  ASSUME IInv, truncate(0)
  PROVE  LogInv(entries', data') /\ Len(entries') = 0 /\ Logs' = <<>>
<1>1. PICK e, d, y, z : e = entries /\ d = data /\ y = entries' /\ z = data'
  OBVIOUS
<1>2. LogInv(e, d) /\ Truncates(e, d, 0, y, z) /\ 0 \in 0 .. Len(e)
  BY <1>1 DEF IInv, LogInv, truncate, Truncates, Kept, EndOf
<1>3. LogInv(y, z) /\ Len(y) = 0
  BY <1>2, LogTruncated
<1>4. Payloads(y, z) = <<>>
  BY <1>3 DEF Payloads
<1> QED BY <1>1, <1>3, <1>4, LogsShown

\* A frame the host fails takes the message with it.
LEMMA HostStep ==
  ASSUME IInv, stack # <<>>, NEW g \in FrameRecord, HostFailure(g)
  PROVE  IInv' /\ E!HostFails
<1>1. StackInv(stack, Len(entries)) /\ PoolInv(pool) /\ stack \in Seq(FrameRecord)
  BY DEF IInv, StackInv
<1>2. PICK n \in Nat : n = Len(stack)
  BY <1>1
<1>3. Under(g) \in Seq(FrameRecord) /\ Len(Under(g)) = n
  BY <1>1, <1>2 DEF Under
<1>4. PICK given : Given(Under(g), pool, n, given) /\ pool' = given[n]
  <2> DEFINE Is(c) == c = [k \in 0 .. Len(stack) |-> IF k = 0 THEN pool
                             ELSE take_result(c[k - 1], Under(g)[Len(stack) + 1 - k], TRUE)]
  <2>1. PICK h : h = CHOOSE c : Is(c)
    OBVIOUS
  <2>2. PICK c : Given(Under(g), pool, n, c)
    BY <1>2, GivenExists
  <2>3. Is(c)
    BY <1>2, <1>3, <2>2 DEF Given
  <2>4. Is(h)
    BY <2>1, <2>3
  <2>5. Given(Under(g), pool, n, h)
    BY <1>2, <1>3, <2>4 DEF Given
  <2>6. pool' = h[n]
    BY <1>2, <2>1 DEF HostFailure
  <2> QED BY <2>5, <2>6
<1>5. PoolInv(pool')
  BY <1>1, <1>3, <1>4, GivenHolds
<1>6. stack' = <<>> /\ seen' = <<>> /\ left' = left /\ truncate(0)
  BY DEF HostFailure
<1>7. LogInv(entries', data') /\ Len(entries') = 0 /\ Logs' = <<>>
  BY <1>6, AllLogsGo
<1>8. StackInv(stack', Len(entries'))
  BY <1>6, StackEmpty
<1>9. Shown' = <<>>
  BY <1>6 DEF Shown
<1>10. IInv'
  BY <1>5, <1>6, <1>7, <1>8 DEF IInv
<1>11. E!HostFails
  BY <1>6, <1>7, <1>9, TopIs DEF E!HostFails, Logs
<1> QED BY <1>10, <1>11

\* The definition's view of a frame with its bytes and gas changed.
LEMMA ChangedIs ==
  ASSUME NEW h, NEW p, NEW q
  PROVE  /\ [View(h) EXCEPT !.bytes = p, !.gas = q] =
              [bytes |-> p, gas |-> q, input |-> h.input, out |-> h.out, logs |-> h.logs]
         /\ [View(h) EXCEPT !.gas = q, !.bytes = p] =
              [bytes |-> p, gas |-> q, input |-> h.input, out |-> h.out, logs |-> h.logs]
<1>1. PICK v, gas, in, out, logs : v = Visible(h) /\ gas = h.gas /\ in = h.input /\ out = h.out /\ logs = h.logs
  OBVIOUS
<1>2. PICK w : w = View(h)
  OBVIOUS
<1>3. w = [bytes |-> v, gas |-> gas, input |-> in, out |-> out, logs |-> logs]
  BY <1>1, <1>2 DEF View
<1>4. PICK x : x = [w EXCEPT !.bytes = p]
  OBVIOUS
<1>5. PICK y : y = [w EXCEPT !.gas = q]
  OBVIOUS
<1>6. x = [bytes |-> p, gas |-> gas, input |-> in, out |-> out, logs |-> logs]
  BY <1>3, <1>4
<1>7. y = [bytes |-> v, gas |-> q, input |-> in, out |-> out, logs |-> logs]
  BY <1>3, <1>5
<1>8. [x EXCEPT !.gas = q] = [bytes |-> p, gas |-> q, input |-> in, out |-> out, logs |-> logs]
  BY <1>6
<1>9. [y EXCEPT !.bytes = p] = [bytes |-> p, gas |-> q, input |-> in, out |-> out, logs |-> logs]
  BY <1>7
<1>10. [w EXCEPT !.bytes = p, !.gas = q] = [x EXCEPT !.gas = q]
  BY <1>3, <1>4
<1>11. [w EXCEPT !.gas = q, !.bytes = p] = [y EXCEPT !.bytes = p]
  BY <1>3, <1>5
<1> QED BY <1>1, <1>2, <1>8, <1>9, <1>10, <1>11, Zenon

\* What the caller takes of the output it has room for.
LEMMA TakenIs ==
  ASSUME NEW output \in Seq(Nat), NEW room \in Nat, NEW taken, taken = SubSeq(output, 1, Least(room, Len(output)))
  PROVE  taken \in Seq(Nat) /\ Len(taken) <= room
<1>1. PICK n \in Nat : n = Least(room, Len(output)) /\ n <= room /\ n <= Len(output)
  BY DEF Least
<1>2. 0 + n <= Len(output)
  BY <1>1
<1>3. SubSeq(output, 0 + 1, 0 + n) \in Seq(Nat) /\ Len(SubSeq(output, 0 + 1, 0 + n)) = n
  BY <1>2, CutIs
<1> QED BY <1>1, <1>3

\* The caller v of the last frame takes what g, as that frame ended, gives: u goes on.
Accepts(v, g, gas, output, taken, u) ==
  /\ v = stack[Len(stack) - 1] /\ g.out = f.out
  /\ taken = SubSeq(output, 1, Least(f.out[2], Len(output))) /\ u = accept_child(v, g, gas, output)

LEMMA AcceptedIs ==
  ASSUME IInv, Len(stack) >= 2, NEW v, NEW g, NEW gas \in Nat, NEW output \in Seq(Nat), NEW taken, NEW u,
         Accepts(v, g, gas, output, taken, u)
  PROVE  /\ v \in FrameRecord /\ v.gas = 0 /\ u \in FrameRecord /\ u.status = "ok" /\ Clean(u)
         /\ u.gas = gas /\ u.size = v.size /\ u.out = v.out /\ u.logs = v.logs /\ u.input = v.input
         /\ Visible(u) = E!Written(Visible(v), f.out[1], taken)
<1>0. /\ v = stack[Len(stack) - 1] /\ g.out = f.out
      /\ taken = SubSeq(output, 1, Least(f.out[2], Len(output))) /\ u = accept_child(v, g, gas, output)
  BY DEF Accepts
<1>1. PICK n \in Nat : n = Len(stack) /\ n >= 2 /\ n - 1 \in 1 .. n /\ n \in 1 .. n /\ n - 1 \in 1 .. n - 1 /\ n - 1 < n
  BY DEF IInv, StackInv
<1>2. /\ stack \in Seq(FrameRecord) /\ FramesClean(stack) /\ GasHeld(stack) /\ OutputsFit(stack)
  BY DEF IInv, StackInv
<1>3. v \in FrameRecord /\ f \in FrameRecord /\ f = stack[n]
  BY <1>0, <1>1, <1>2 DEF f
<1>4. v.status = "ok" /\ Clean(v)
  BY <1>0, <1>1, <1>2 DEF FramesClean
<1>5. v.gas = 0
  BY <1>0, <1>1, <1>2 DEF GasHeld
<1>6. PICK at \in Nat, room \in Nat : at = f.out[1] /\ room = f.out[2]
  BY <1>3 DEF FrameRecord
<1>7. PICK size \in Nat : size = v.size /\ at + room <= size
  <2>1. v.size \in Nat
    BY <1>3 DEF FrameRecord
  <2>2. n - 1 + 1 = n
    BY <1>1
  <2>3. stack[n - 1 + 1].out[1] + stack[n - 1 + 1].out[2] <= stack[n - 1].size
    BY <1>1, <1>2 DEF OutputsFit
  <2>4. at + room <= v.size
    BY <1>0, <1>1, <1>3, <1>6, <2>2, <2>3
  <2> QED BY <2>1, <2>4
<1>8. PICK w : w = [v EXCEPT !.gas = @ + gas]
  OBVIOUS
<1>16. w = [v EXCEPT !.gas = gas]
  BY <1>5, <1>8
<1>9. /\ w \in FrameRecord /\ w.memory = v.memory /\ w.size = v.size /\ w.gas = gas /\ w.input = v.input
      /\ w.out = v.out /\ w.logs = v.logs /\ w.status = "ok"
  BY <1>3, <1>4, <1>16 DEF FrameRecord
<1>10. Clean(w) /\ Visible(w) = Visible(v)
  BY <1>4, <1>9 DEF Clean, Visible
<1>11. taken \in Seq(Nat) /\ Len(taken) <= room
  BY <1>0, <1>6, TakenIs
<1>12. PICK l \in Nat : l = Len(taken) /\ l <= room
  BY <1>11
<1>13. at + Len(taken) <= w.size
  BY <1>7, <1>9, <1>12
<1>14. Overwritten(w, Put(w, at, taken), at, taken)
  BY <1>9, <1>10, <1>11, <1>13, PutIs
<1>15. u = Put(w, at, taken)
  BY <1>0, <1>6, <1>8 DEF accept_child
<1> QED BY <1>3, <1>5, <1>6, <1>9, <1>10, <1>14, <1>15 DEF Overwritten

\* A frame that ends hands the caller its gas and output, as the definition has it.
LEMMA FinishStep ==
  ASSUME IInv, stack # <<>>, NEW g \in FrameRecord, g.out = f.out, g.logs = f.logs,
         NEW kept \in BOOLEAN, NEW gas \in Nat, gas <= f.gas, NEW output \in Seq(Nat), NEW fits,
         Finish(g, kept, gas, output, fits), NEW v, v.out = f.out, v.logs = f.logs
  PROVE  IInv' /\ E!Ends(v, kept, gas, output)
<1>1. StackInv(stack, Len(entries)) /\ PoolInv(pool) /\ stack \in Seq(FrameRecord) /\ left \in 0 .. Len(GasLimits)
  BY DEF IInv, StackInv
<1>2. IF kept THEN UNCHANGED <<entries, data>> ELSE truncate(f.logs)
  BY DEF Finish
<1>3. /\ LogInv(entries', data') /\ f.logs \in Nat /\ f.logs <= Len(entries') /\ Len(entries') \in Nat
      /\ Logs' = IF kept THEN Logs ELSE SubSeq(Logs, 1, f.logs)
  BY <1>2, LogsEnd
<1>4. PoolInv(pool')
  BY <1>1, ResultTaken DEF Finish
<1>5. seen' = output /\ left' = left
  BY DEF Finish
<1>6. PICK n \in Nat : n = Len(stack) /\ n >= 1 /\ n \in 1 .. n
  BY <1>1, TopFits
<1>7. Shown = Views(stack) /\ Len(Shown) = n
  BY <1>6, ShownIs
<1>12. PICK taken : taken = SubSeq(output, 1, Least(v.out[2], Len(output))) /\ taken = SubSeq(output, 1, Least(f.out[2], Len(output)))
  OBVIOUS
<1> DEFINE into == [Shown[Len(Shown) - 1] EXCEPT !.gas = @ + gas, !.bytes = E!Written(@, v.out[1], taken)]
           after == IF Len(Shown) = 1 THEN <<>> ELSE Popped(Shown, into)
<1> HIDE DEF into, after
<1>8. ASSUME n = 1 PROVE IInv' /\ Shown' = after
  <2>1. stack' = <<>> /\ Shown' = <<>>
    BY <1>6, <1>8 DEF Finish, Shown
  <2>2. StackInv(stack', Len(entries'))
    BY <2>1, StackEmpty
  <2>3. after = <<>>
    BY <1>7, <1>8 DEF after
  <2> QED BY <1>1, <1>3, <1>4, <1>5, <2>1, <2>2, <2>3 DEF IInv
<1>9. ASSUME n # 1 PROVE IInv' /\ Shown' = after
  <2>1. n >= 2 /\ n - 1 \in 1 .. n - 1 /\ n - 1 \in 1 .. n
    BY <1>6, <1>9
  <2>2. PICK w : w = stack[n - 1]
    OBVIOUS
  <2>3. PICK u : u = accept_child(w, g, gas, output)
    OBVIOUS
  <2>4. stack' = Popped(stack, u)
    <3>1. SubSeq(stack, 1, n - 1)[n - 1] = w
      BY <1>1, <1>6, <2>1, <2>2
    <3> QED BY <1>6, <1>9, <2>3, <3>1 DEF Finish, Popped
  <2>5. /\ w \in FrameRecord /\ w.gas = 0 /\ u \in FrameRecord /\ u.status = "ok" /\ Clean(u)
        /\ u.gas = gas /\ u.size = w.size /\ u.out = w.out /\ u.logs = w.logs /\ u.input = w.input
        /\ Visible(u) = E!Written(Visible(w), v.out[1], taken)
    <3>1. /\ w \in FrameRecord /\ w.gas = 0 /\ u \in FrameRecord /\ u.status = "ok" /\ Clean(u)
          /\ u.gas = gas /\ u.size = w.size /\ u.out = w.out /\ u.logs = w.logs /\ u.input = w.input
          /\ Visible(u) = E!Written(Visible(w), f.out[1], taken)
      <4>1. Accepts(w, g, gas, output, taken, u)
        BY <1>6, <1>12, <2>2, <2>3 DEF Accepts
      <4>2. Len(stack) >= 2
        BY <1>6, <2>1
      <4> QED BY <4>1, <4>2, AcceptedIs
    <3> QED BY <3>1
  <2>6. StackInv(stack', Len(entries'))
    <3>1. Resumes(stack[Len(stack) - 1], stack[Len(stack)], u)
      BY <1>6, <2>2, <2>5 DEF Resumes, f
    <3>2. PICK k \in Nat : k = Len(entries') /\ stack[Len(stack)].logs <= k
      BY <1>3 DEF f
    <3>3. PICK s, z, c : s = stack /\ z = stack' /\ c = Len(entries) /\ c \in Nat
      BY DEF IInv, LogInv
    <3>4. StackInv(s, c) /\ Len(s) >= 2 /\ Resumes(s[Len(s) - 1], s[Len(s)], u) /\ s[Len(s)].logs <= k /\ z = Popped(s, u)
      BY <1>1, <1>6, <2>1, <2>4, <3>1, <3>2, <3>3
    <3>5. StackInv(z, k)
      BY <3>3, <3>4, StackPopped
    <3> QED BY <3>2, <3>3, <3>5
  <2>7. View(u) = into
    <3>1. Shown[Len(Shown) - 1] = View(w)
      BY <1>6, <1>7, <2>1, <2>2 DEF Views
    <3>2. PICK p : p = E!Written(Visible(w), v.out[1], taken)
      OBVIOUS
    <3>3. View(w).bytes = Visible(w) /\ View(w).gas + gas = gas
      BY <2>5 DEF View
    <3>4. into = [View(w) EXCEPT !.gas = gas, !.bytes = p]
      <4>1. PICK x : x = View(w) /\ x = Shown[Len(Shown) - 1]
        BY <3>1
      <4>2. [x EXCEPT !.gas = @ + gas, !.bytes = E!Written(@, v.out[1], taken)] = [x EXCEPT !.gas = gas, !.bytes = p]
        BY <3>2, <3>3, <4>1
      <4> QED BY <4>1, <4>2 DEF into
    <3>5. View(u) = [bytes |-> p, gas |-> gas, input |-> w.input, out |-> w.out, logs |-> w.logs]
      BY <2>5, <3>2 DEF View
    <3>6. [View(w) EXCEPT !.gas = gas, !.bytes = p] =
            [bytes |-> p, gas |-> gas, input |-> w.input, out |-> w.out, logs |-> w.logs]
      <4>1. /\ [View(w) EXCEPT !.bytes = p, !.gas = gas] =
                 [bytes |-> p, gas |-> gas, input |-> w.input, out |-> w.out, logs |-> w.logs]
            /\ [View(w) EXCEPT !.gas = gas, !.bytes = p] =
                 [bytes |-> p, gas |-> gas, input |-> w.input, out |-> w.out, logs |-> w.logs]
        BY ONLY ChangedIs
      <4> QED BY <4>1
    <3> QED BY <3>4, <3>5, <3>6
  <2>8. Shown' = Popped(Shown, View(u))
    <3>1. Shown' = Views(stack')
      BY DEF Shown, Views, View, Visible
    <3>2. Views(Popped(stack, u)) = Popped(Views(stack), View(u))
      BY <1>1, <1>6, <2>1, ViewsPopped
    <3> QED BY <1>7, <2>4, <3>1, <3>2
  <2>9. Shown' = after
    BY <1>7, <1>9, <2>7, <2>8 DEF after
  <2> QED BY <1>1, <1>3, <1>4, <1>5, <2>6, <2>9 DEF IInv
<1>10. IInv' /\ Shown' = after
  BY <1>8, <1>9
<1>11. E!Ends(v, kept, gas, output)
  <2>1. Shown' = IF Len(Shown) = 1 THEN <<>>
                 ELSE [SubSeq(Shown, 1, Len(Shown) - 1) EXCEPT ![Len(Shown) - 1] =
                         [Shown[Len(Shown) - 1] EXCEPT !.gas = @ + gas, !.bytes = E!Written(@, v.out[1], taken)]]
    BY <1>10, Zenon DEF after, into, Popped
  <2>2. [k \in 1 .. Len(entries) |-> payload(k)]' =
          IF kept THEN [k \in 1 .. Len(entries) |-> payload(k)]
          ELSE SubSeq([k \in 1 .. Len(entries) |-> payload(k)], 1, v.logs)
    BY <1>3, Zenon DEF Logs
  <2> QED BY <1>5, <1>12, <2>1, <2>2, Zenon DEF E!Ends, E!Least, Least
<1> QED BY <1>10, <1>11

\* A frame that fails takes the message with it or ends as out of gas, which it is.
LEMMA FailedStep ==
  ASSUME IInv, stack # <<>>, NEW g \in FrameRecord, g.out = f.out, g.logs = f.logs, Failed(g),
         NEW ranges, NEW own, g.status = "out_of_gas" => ~E!Affords(ranges, own)
  PROVE  IInv' /\ (E!HostFails \/ E!OutOfGas(ranges, own))
<1>1. CASE g.status = "host" /\ HostFailure(g)
  BY <1>1, HostStep
<1>2. CASE g.status = "out_of_gas" /\ \E fits \in BOOLEAN : Finish(g, FALSE, 0, <<>>, fits)
  <2>1. PICK fits : Finish(g, FALSE, 0, <<>>, fits)
    BY <1>2
  <2>2. E!top.out = f.out /\ E!top.logs = f.logs /\ f.gas \in Nat /\ Shown # <<>>
    BY TopIs, FitFacts
  <2>3. PICK v : v = E!top
    OBVIOUS
  <2>4. PICK kept \in BOOLEAN : kept = FALSE
    BY Zenon
  <2>5. PICK gas \in Nat : gas = 0
    OBVIOUS
  <2>6. PICK output \in Seq(Nat) : output = <<>>
    <3>1. <<>> \in Seq(Nat)
      OBVIOUS
    <3> QED BY <3>1, Zenon
  <2>7. Finish(g, kept, gas, output, fits)
    BY <2>1, <2>4, <2>5, <2>6, Zenon
  <2>8. gas <= f.gas /\ v.out = f.out /\ v.logs = f.logs
    BY <2>2, <2>3, <2>5
  <2>9. IInv' /\ E!Ends(v, kept, gas, output)
    BY <2>7, <2>8, FinishStep
  <2>10. IInv' /\ E!Ends(E!top, FALSE, 0, <<>>)
    BY <2>3, <2>4, <2>5, <2>6, <2>9, Zenon
  <2> QED BY <1>2, <2>2, <2>10, Zenon DEF E!OutOfGas
<1> QED BY <1>1, <1>2 DEF Failed

\* An operation that touches its ranges at its own cost, whatever becomes of it.
LEMMA OperatedIs ==
  ASSUME IInv, stack # <<>>, NEW ranges, NEW t, t = E!Extent(ranges), Extent(f, t), NEW own \in Nat,
         NEW g, Outcome(f, g, t, Total(f, t, own))
  PROVE  /\ g \in FrameRecord /\ g.input = f.input /\ g.out = f.out /\ g.logs = f.logs
         /\ ok(g) => /\ E!Affords(ranges, own) /\ View(g) = E!Touched(ranges, own) /\ Fit(g)
                     /\ g.size = t /\ f.size <= g.size /\ g.gas <= f.gas
         /\ Failed(g) => IInv' /\ (E!HostFails \/ E!OutOfGas(ranges, own))
         /\ HostFailure(g) => IInv' /\ E!HostFails
<1>1. g \in FrameRecord /\ g.input = f.input /\ g.out = f.out /\ g.logs = f.logs
  BY DEF Outcome
<1>2. Fit(f)
  BY TopIs
<1>3. ASSUME ok(g)
      PROVE  /\ E!Affords(ranges, own) /\ View(g) = E!Touched(ranges, own) /\ Fit(g)
             /\ g.size = t /\ f.size <= g.size /\ g.gas <= f.gas
  <2>1. g.status = "ok"
    BY <1>3 DEF ok
  <2>2. E!Affords(ranges, own) /\ View(g) = E!Touched(ranges, own)
    BY <2>1, TouchedIs
  <2>3. Fit(g) /\ g.size = t
    BY <1>2, <2>1, StaysFit
  <2>4. PICK due \in Nat : due = Total(f, t, own)
    BY <1>2, TotalFacts
  <2>5. Outcome(f, g, t, due) /\ f.gas \in Nat
    BY <1>2, <2>4, FitFacts
  <2>6. g.gas = f.gas - due
    BY <2>1, <2>5 DEF Outcome
  <2>7. g.gas <= f.gas
    BY <2>5, <2>6
  <2> QED BY <2>2, <2>3, <2>7 DEF Extent
<1>4. g.status = "out_of_gas" => ~E!Affords(ranges, own)
  BY TouchedIs
<1> QED BY <1>1, <1>3, <1>4, FailedStep, HostStep

\* What an operation leaves is what the running frame goes on from.
LEMMA GoesOn ==
  ASSUME IInv, stack # <<>>, NEW h, Fit(h), f.size <= h.size, h.gas <= f.gas, h.out = f.out, h.logs = f.logs
  PROVE  /\ StackInv(Under(h), Len(entries)) /\ Under(h) # <<>> /\ Len(Under(h)) = Len(stack)
         /\ Under(h)[Len(stack)] = h /\ Under(h) \in Seq(FrameRecord)
         /\ Views(Under(h)) = E!Under(View(h))
<1>1. StackInv(stack, Len(entries)) /\ stack \in Seq(FrameRecord)
  BY DEF IInv, StackInv
<1>2. PICK s, z : s = stack /\ z = Under(h)
  OBVIOUS
<1>3. z = [s EXCEPT ![Len(s)] = h] /\ z = Replaced(s, h) /\ GoesFrom(s[Len(s)], h)
  BY <1>2 DEF Under, f, Replaced, GoesFrom
<1>4. StackInv(z, Len(entries)) /\ z # <<>> /\ Len(z) = Len(s) /\ z[Len(s)] = h /\ z \in Seq(FrameRecord)
  BY <1>1, <1>2, <1>3, StackReplaced
<1>5. Views(z) = [Views(s) EXCEPT ![Len(Views(s))] = View(h)]
  BY <1>1, <1>2, <1>3, ViewsReplaced
<1>6. E!Under(View(h)) = [Shown EXCEPT ![Len(Shown)] = View(h)]
  BY DEF E!Under
<1>7. Views(z) = E!Under(View(h))
  BY <1>2, <1>5, <1>6, ShownIs
<1> QED BY <1>2, <1>4, <1>7

LEMMA GoesStep ==
  ASSUME IInv, stack # <<>>, NEW h, Fit(h), f.size <= h.size, h.gas <= f.gas, h.out = f.out, h.logs = f.logs,
         Goes(h)
  PROVE  IInv' /\ Shown' = E!Under(View(h)) /\ UNCHANGED <<Logs, left>>
<1>1. stack' = Under(h) /\ entries' = entries /\ data' = data /\ pool' = pool /\ left' = left
  BY DEF Goes
<1>2. StackInv(Under(h), Len(entries)) /\ Views(Under(h)) = E!Under(View(h))
  BY GoesOn
<1>3. Shown' = E!Under(View(h))
  <2>1. Shown' = Views(stack')
    BY DEF Shown, Views, View, Visible
  <2> QED BY <1>1, <1>2, <2>1
<1>4. IInv'
  BY <1>1, <1>2 DEF IInv
<1>5. Logs' = Logs
  BY <1>1, LogsShown
<1> QED BY <1>1, <1>3, <1>4, <1>5

(***************************************************************************)
(* Every instruction is one the definition has                             *)
(***************************************************************************)
LEMMA Operands ==
  /\ Offsets \subseteq Nat /\ Bytes \subseteq Nat
  /\ \A c \in Copies : c[1] \in Nat /\ c[2] \in Nat /\ c[3] \in Nat
  /\ \A r \in Ranges : r \in Nat \X Nat /\ r[1] \in Nat /\ r[2] \in Nat /\ r = <<r[1], r[2]>>
  /\ \A c \in Calls : \A r \in {c[1], c[2]} :
       r \in Nat \X Nat /\ r[1] \in Nat /\ r[2] \in Nat /\ r = <<r[1], r[2]>>
BY MemoryAssumption DEF MemoryAssumption

\* A load or a store, up to what it does with the frame it leaves.
LEMMA AccessIs ==
  ASSUME IInv, stack # <<>>, NEW offset \in Nat, NEW len \in {1, 2}, NEW ranges, ranges = <<<<offset, len>>>>,
         NEW g \in Charged(Accessed(Paid, offset, len))
  PROVE  \E t : t = E!Extent(ranges) /\ Extent(f, t) /\ Outcome(f, g, t, Total(f, t, 1)) /\ offset + len <= t
<1>1. Fit(f) /\ f.size \in Sizes /\ f.size \in Nat /\ Len(E!top.bytes) = f.size
  BY TopIs, FitFacts
<1>2. PICK t : t = E!Covering(f.size, <<offset, len>>)
  OBVIOUS
<1>3. t = E!Extent(ranges)
  BY <1>1, <1>2, ExtentOne
<1>4. PICK h, p : h = f /\ p = charge(f, 1)
  OBVIOUS
<1>5. g \in IF ok(p) THEN Accessed(p, offset, len) ELSE {p}
  BY <1>4, Zenon DEF Charged, Paid
<1>6. Extent(h, t) /\ Outcome(h, g, t, Total(h, t, 1))
  BY <1>1, <1>2, <1>4, <1>5, ChargedAccess
<1>7. offset + len <= t
  BY <1>1, <1>2, CoveringFacts
<1> QED BY <1>3, <1>4, <1>6, <1>7

LEMMA LoadStep ==
  ASSUME IInv, NEW offset \in Offsets, mload(offset)
  PROVE  IInv' /\ (E!Load(offset) \/ E!HostFails)
<1>1. stack # <<>> /\ offset \in Nat
  BY Operands DEF mload, Runs
<1>2. PICK g \in Charged(Accessed(Paid, offset, WORD)) :
         (ok(g) /\ Goes(g) /\ seen' = slice(g, offset, WORD)) \/ Failed(g)
  BY DEF mload
<1>3. PICK r : r = <<offset, WORD>>
  OBVIOUS
<1>4. PICK ranges : ranges = <<r>> /\ ranges = <<<<offset, E!WORD>>>>
  BY <1>3 DEF WORD, E!WORD
<1>5. PICK t : t = E!Extent(ranges) /\ Extent(f, t) /\ Outcome(f, g, t, Total(f, t, 1)) /\ offset + 2 <= t
  <2>1. PICK len \in {1, 2} : len = 2 /\ len = WORD
    BY DEF WORD
  <2>2. g \in Charged(Accessed(Paid, offset, len)) /\ ranges = <<<<offset, len>>>>
    BY <1>2, <1>3, <1>4, <2>1
  <2>3. \E t : t = E!Extent(ranges) /\ Extent(f, t) /\ Outcome(f, g, t, Total(f, t, 1)) /\ offset + len <= t
    BY <1>1, <2>2, AccessIs
  <2> QED BY <2>1, <2>3
<1>6. /\ g \in FrameRecord /\ g.out = f.out /\ g.logs = f.logs
      /\ ok(g) => /\ E!Affords(ranges, 1) /\ View(g) = E!Touched(ranges, 1) /\ Fit(g)
                  /\ g.size = t /\ f.size <= g.size /\ g.gas <= f.gas
      /\ Failed(g) => IInv' /\ (E!HostFails \/ E!OutOfGas(ranges, 1))
  BY <1>1, <1>5, OperatedIs
<1>7. CASE ok(g) /\ Goes(g) /\ seen' = slice(g, offset, WORD)
  <2>1. IInv' /\ Shown' = E!Under(View(g)) /\ UNCHANGED <<Logs, left>>
    BY <1>1, <1>6, <1>7, GoesStep
  <2>2. seen' = SubSeq(Visible(g), offset + 1, offset + 2)
    <3>1. Clean(g) /\ offset + 2 <= g.size
      BY <1>5, <1>6, <1>7, FitFacts
    <3> QED BY <1>1, <1>6, <1>7, <3>1, SliceIs DEF WORD
  <2>3. E!Slice(E!Touched(ranges, 1).bytes, ranges[1]) = SubSeq(Visible(g), offset + 1, offset + 2)
    <3>1. E!Touched(ranges, 1).bytes = Visible(g)
      BY <1>6, <1>7 DEF View
    <3>2. ranges[1] = r /\ r[1] = offset /\ r[2] = 2
      BY <1>3, <1>4 DEF WORD
    <3>3. PICK b : b = Visible(g) /\ b = E!Touched(ranges, 1).bytes
      BY <3>1
    <3>4. E!Slice(b, r) = SubSeq(b, offset + 1, offset + 2)
      BY <3>2 DEF E!Slice
    <3> QED BY <3>2, <3>3, <3>4
  <2>4. Shown' = E!Under(E!Touched(ranges, 1)) /\ seen' = E!Slice(E!Touched(ranges, 1).bytes, ranges[1])
    BY <1>6, <1>7, <2>1, <2>2, <2>3
  <2>5. E!Load(offset)
    BY <1>4, <1>6, <1>7, <2>1, <2>4, Zenon DEF E!Load, Logs
  <2> QED BY <2>1, <2>5
<1>8. CASE Failed(g)
  <2>1. IInv' /\ (E!HostFails \/ E!OutOfGas(ranges, 1))
    BY <1>6, <1>8
  <2> QED BY <1>4, <2>1, Zenon DEF E!Load
<1> QED BY <1>2, <1>7, <1>8

\* What is written to a frame is what the definition sees written.
LEMMA WrittenStep ==
  ASSUME IInv, stack # <<>>, NEW g \in FrameRecord, Fit(g), f.size <= g.size, g.gas <= f.gas,
         g.out = f.out, g.logs = f.logs, NEW offset \in Nat, NEW bytes \in Seq(Nat),
         Len(bytes) = 0 \/ offset + Len(bytes) <= g.size, Goes(Put(g, offset, bytes))
  PROVE  /\ IInv' /\ UNCHANGED <<Logs, left>>
         /\ Shown' = E!Under([View(g) EXCEPT !.bytes = E!Written(@, offset, bytes)])
<1>1. PICK h : h = Put(g, offset, bytes)
  OBVIOUS
<1>2. Overwritten(g, h, offset, bytes)
  BY <1>1, FitFacts, PutIs
<1>3. /\ h \in FrameRecord /\ h.input = g.input /\ h.out = g.out /\ h.logs = g.logs /\ h.status = g.status
      /\ h.gas = g.gas /\ h.size = g.size /\ Clean(h) /\ Visible(h) = E!Written(Visible(g), offset, bytes)
  BY <1>2 DEF Overwritten
<1>4. Fit(h)
  BY <1>3 DEF Fit
<1>5. Goes(h) /\ f.size <= h.size /\ h.gas <= f.gas /\ h.out = f.out /\ h.logs = f.logs
  BY <1>1, <1>3
<1>6. IInv' /\ Shown' = E!Under(View(h)) /\ UNCHANGED <<Logs, left>>
  BY <1>4, <1>5, GoesStep
<1>7. View(h) = [View(g) EXCEPT !.bytes = E!Written(@, offset, bytes)]
  <2>1. PICK p : p = E!Written(Visible(g), offset, bytes)
    OBVIOUS
  <2>2. PICK w : w = View(g)
    OBVIOUS
  <2>3. w.bytes = Visible(g)
    BY <2>2 DEF View
  <2>4. [w EXCEPT !.bytes = E!Written(@, offset, bytes)] = [w EXCEPT !.bytes = p]
    BY <2>1, <2>3
  <2>5. w = [bytes |-> Visible(g), gas |-> g.gas, input |-> g.input, out |-> g.out, logs |-> g.logs]
    BY <2>2 DEF View
  <2>6. [w EXCEPT !.bytes = p] = [bytes |-> p, gas |-> g.gas, input |-> g.input, out |-> g.out, logs |-> g.logs]
    BY <2>5
  <2>7. View(h) = [bytes |-> p, gas |-> g.gas, input |-> g.input, out |-> g.out, logs |-> g.logs]
    BY <1>3, <2>1 DEF View
  <2> QED BY <2>2, <2>4, <2>6, <2>7
<1> QED BY <1>6, <1>7

LEMMA StoreStep ==
  ASSUME IInv, NEW offset \in Offsets, NEW bytes \in Seq(Nat), Len(bytes) \in {1, 2}, Stores(offset, bytes)
  PROVE  IInv' /\ (E!Store(offset, bytes) \/ E!HostFails)
<1>1. stack # <<>> /\ offset \in Nat
  BY Operands DEF Stores, Runs
<1>2. PICK g \in Charged(Accessed(Paid, offset, Len(bytes))) :
         (ok(g) /\ Goes(Put(g, offset, bytes)) /\ UNCHANGED seen) \/ Failed(g)
  BY DEF Stores
<1>3. PICK len \in {1, 2} : len = Len(bytes)
  OBVIOUS
<1>4. PICK ranges : ranges = <<<<offset, len>>>> /\ ranges = <<<<offset, Len(bytes)>>>>
  BY <1>3
<1>5. PICK t : t = E!Extent(ranges) /\ Extent(f, t) /\ Outcome(f, g, t, Total(f, t, 1)) /\ offset + len <= t
  <2>1. g \in Charged(Accessed(Paid, offset, len))
    BY <1>2, <1>3
  <2> QED BY <1>1, <1>4, <2>1, AccessIs
<1>6. /\ g \in FrameRecord /\ g.out = f.out /\ g.logs = f.logs
      /\ ok(g) => /\ E!Affords(ranges, 1) /\ View(g) = E!Touched(ranges, 1) /\ Fit(g)
                  /\ g.size = t /\ f.size <= g.size /\ g.gas <= f.gas
      /\ Failed(g) => IInv' /\ (E!HostFails \/ E!OutOfGas(ranges, 1))
  BY <1>1, <1>5, OperatedIs
<1>7. CASE ok(g) /\ Goes(Put(g, offset, bytes)) /\ UNCHANGED seen
  <2>1. offset + Len(bytes) <= g.size
    BY <1>3, <1>5, <1>6, <1>7
  <2>2. /\ IInv' /\ UNCHANGED <<Logs, left>>
        /\ Shown' = E!Under([View(g) EXCEPT !.bytes = E!Written(@, offset, bytes)])
    BY <1>1, <1>6, <1>7, <2>1, WrittenStep
  <2>3. Shown' = E!Under([E!Touched(ranges, 1) EXCEPT !.bytes = E!Written(@, offset, bytes)])
    BY <1>6, <1>7, <2>2, Zenon
  <2>4. E!Store(offset, bytes)
    BY <1>4, <1>6, <1>7, <2>2, <2>3, Zenon DEF E!Store, Logs
  <2> QED BY <2>2, <2>4
<1>8. CASE Failed(g)
  <2>1. IInv' /\ (E!HostFails \/ E!OutOfGas(ranges, 1))
    BY <1>6, <1>8
  <2> QED BY <1>4, <2>1, Zenon DEF E!Store
<1> QED BY <1>2, <1>7, <1>8

\* What is charged for one range, up to what is done with the frame it leaves.
LEMMA GrowthIs ==
  ASSUME IInv, stack # <<>>, NEW ranges, NEW t, t = E!Extent(ranges), Extent(f, t),
         NEW plan, Plans(plan, f.size, t), NEW own \in Nat, NEW wanted \in Nat,
         t < UNPAYABLE_EXTENT => own = wanted, NEW g \in Charged(Grow(Paid, plan, own))
  PROVE  Outcome(f, g, t, Total(f, t, 1 + wanted))
<1>1. PICK h, p : h = f /\ p = charge(f, 1)
  OBVIOUS
<1>2. g \in IF ok(p) THEN Grow(p, plan, own) ELSE {p}
  BY <1>1, Zenon DEF Charged, Paid
<1>3. Fit(h) /\ Extent(h, t) /\ Plans(plan, h.size, t) /\ p = charge(h, 1)
  BY <1>1, TopIs
<1>4. Outcome(h, g, t, Total(h, t, 1 + wanted))
  BY <1>2, <1>3, ChargedGrowth
<1> QED BY <1>1, <1>4

\* The extent of one range from the memory of the running frame on.
LEMMA RangeExtent ==
  ASSUME IInv, stack # <<>>, NEW offset \in Nat, NEW len \in Nat, NEW ranges, ranges = <<<<offset, len>>>>
  PROVE  /\ E!Extent(ranges) = E!Covering(f.size, <<offset, len>>) /\ Extent(f, E!Extent(ranges))
         /\ len # 0 => offset + len <= E!Extent(ranges)
         /\ Plans(memory_expansion(f.size, offset, len), f.size, E!Extent(ranges))
         /\ Plans(plan_memory(Paid, offset, len), f.size, E!Extent(ranges))
<1>1. Fit(f) /\ f.size \in Sizes /\ f.size \in Nat /\ Len(E!top.bytes) = f.size
  BY TopIs, FitFacts
<1>2. PICK c \in Sizes : c = f.size /\ c \in Nat
  BY <1>1
<1>3. PICK t : t = E!Covering(c, <<offset, len>>)
  OBVIOUS
<1>4. t = E!Extent(ranges)
  BY <1>1, <1>2, <1>3, ExtentOne
<1>5. t \in Nat /\ c <= t /\ (len # 0 => offset + len <= t) /\ (t < UNPAYABLE_EXTENT => t \in Sizes)
  <2>1. c \in Nat
    BY <1>2
  <2> HIDE <1>2
  <2>2. t \in Nat /\ c <= t /\ (len # 0 => offset + len <= t)
    BY <1>3, <2>1, Covered
  <2>4. t < UNPAYABLE_EXTENT => t \in Sizes
    BY <1>3, <2>1, CoveringFacts
  <2> QED BY <2>2, <2>4
<1>6. Plans(memory_expansion(c, offset, len), c, t)
  BY <1>3, MemoryExpansionIs
<1>7. Plans(plan_memory(Paid, offset, len), c, t)
  <2>1. PICK g, p : g = f /\ p = Paid /\ p = charge(g, 1)
    BY DEF Paid
  <2>2. g \in FrameRecord
    BY <1>1, <2>1, FitFacts
  <2>3. p.size = g.size
    BY <2>1, <2>2 DEF charge, Fault, FrameRecord
  <2>4. p.size = c /\ p.size \in Sizes
    BY <1>2, <2>1, <2>3
  <2>5. Plans(plan_memory(p, offset, len), p.size, E!Covering(p.size, <<offset, len>>))
    BY <2>4, PlanMemoryIs
  <2> QED BY <1>3, <2>1, <2>4, <2>5
<1> QED BY <1>2, <1>3, <1>4, <1>5, <1>6, <1>7 DEF Extent

\* What there is of the input from an offset on, then zeros.
FromInput(input, source, len) ==
  LET available == IF source < Len(input) THEN Len(input) - source ELSE 0
      copied == Least(len, available)
      zeros == [k \in 1 .. len - copied |-> 0]
  IN SubSeq(input, source + 1, source + copied) \o zeros

LEMMA InputIs ==
  ASSUME NEW input \in Seq(Nat), NEW source \in Nat, NEW len \in Nat, NEW bytes,
         bytes = FromInput(input, source, len)
  PROVE  bytes \in Seq(Nat) /\ Len(bytes) = len /\ bytes = E!Padded(input, source, len)
<1>1. PICK n \in Nat : n = Len(input)
  OBVIOUS
<1> DEFINE available == IF source < Len(input) THEN Len(input) - source ELSE 0
           copied == Least(len, available)
<1>2. PICK c \in Nat : c = copied /\ c <= len /\ (source < n => c <= n - source) /\ (source >= n => c = 0)
                       /\ (c < len => source + c >= n)
  <2>1. PICK m \in Nat : m = available /\ (source < n => m = n - source) /\ (source >= n => m = 0)
    <3>1. CASE source < n
      <4>1. available = n - source
        BY <1>1, <3>1
      <4>2. n - source \in Nat /\ ~(source >= n)
        BY <3>1
      <4> HIDE DEF available
      <4> QED BY <4>1, <4>2
    <3>2. CASE ~(source < n)
      BY <1>1, <3>2
    <3> QED BY <3>1, <3>2
  <2> HIDE DEF available
  <2>2. PICK c \in Nat : c = Least(len, m) /\ c <= len /\ c <= m /\ (c < len => c = m)
    <3>1. CASE len < m
      BY <3>1 DEF Least
    <3>2. CASE ~(len < m)
      BY <3>2 DEF Least
    <3> QED BY <3>1, <3>2
  <2> QED BY <1>1, <2>1, <2>2
<1>15. bytes = SubSeq(input, source + 1, source + copied) \o [k \in 1 .. len - copied |-> 0]
  BY Zenon DEF FromInput, available, copied
<1> HIDE DEF available, copied
<1>3. PICK a : a = SubSeq(input, source + 1, source + c)
  OBVIOUS
<1>4. a \in Seq(Nat) /\ Len(a) = c /\ \A k \in 1 .. c : a[k] = input[source + k]
  <2>1. CASE source < n
    <3>1. source + c <= Len(input)
      BY <1>1, <1>2, <2>1
    <3>2. a \in Seq(Nat) /\ Len(a) = c /\ a = [k \in 1 .. c |-> input[source + k]]
      BY <1>3, <3>1, CutIs
    <3> QED BY <3>2
  <2>2. CASE ~(source < n)
    <3>1. c = 0
      BY <1>1, <1>2, <2>2
    <3>2. a = <<>>
      BY <1>3, <3>1, SubSeqEmpty
    <3> QED BY <3>1, <3>2
  <2> QED BY <2>1, <2>2
<1>5. PICK d \in Nat : d = len - c
  BY <1>2
<1>6. PICK z : z = [k \in 1 .. d |-> 0]
  OBVIOUS
<1>7. z \in Seq(Nat) /\ Len(z) = d /\ \A k \in 1 .. d : z[k] = 0
  BY <1>6
<1>8. bytes = a \o z
  BY <1>2, <1>3, <1>5, <1>6, <1>15
<1>9. /\ bytes \in Seq(Nat) /\ Len(bytes) = Len(a) + Len(z)
      /\ \A i \in 1 .. Len(a) + Len(z) : bytes[i] = IF i <= Len(a) THEN a[i] ELSE z[i - Len(a)]
  <2>1. /\ a \o z \in Seq(Nat) /\ Len(a \o z) = Len(a) + Len(z)
        /\ \A i \in 1 .. Len(a) + Len(z) : (a \o z)[i] = IF i <= Len(a) THEN a[i] ELSE z[i - Len(a)]
    BY <1>4, <1>7, ConcatProperties
  <2> QED BY <1>8, <2>1
<1>10. Len(bytes) = len
  BY <1>2, <1>4, <1>5, <1>7, <1>9
<1>11. ASSUME NEW k \in 1 .. len
       PROVE  bytes[k] = IF source < n /\ source + k <= n THEN input[source + k] ELSE 0
  <2>1. k \in 1 .. c + d /\ bytes[k] = IF k <= c THEN a[k] ELSE z[k - c]
    BY <1>2, <1>4, <1>5, <1>7, <1>9
  <2>2. CASE k <= c
    <3>1. source < n /\ source + k <= n /\ k \in 1 .. c
      BY <1>1, <1>2, <2>2
    <3> QED BY <1>4, <2>1, <2>2, <3>1
  <2>3. CASE ~(k <= c)
    <3>1. ~(source < n /\ source + k <= n) /\ k - c \in 1 .. d
      BY <1>1, <1>2, <1>5, <2>3
    <3> QED BY <1>7, <2>1, <2>3, <3>1
  <2> QED BY <2>2, <2>3
<1>12. bytes = [k \in 1 .. len |-> bytes[k]]
  BY <1>9, <1>10
<1>13. E!Padded(input, source, len) =
         [k \in 1 .. len |-> IF source < n /\ source + k <= n THEN input[source + k] ELSE 0]
  BY <1>1 DEF E!Padded
<1>14. bytes = E!Padded(input, source, len)
  <2>1. PICK p : p = E!Padded(input, source, len)
    OBVIOUS
  <2>2. p = [k \in 1 .. len |-> IF source < n /\ source + k <= n THEN input[source + k] ELSE 0]
    BY <1>13, <2>1
  <2> QED BY <1>11, <1>12, <2>1, <2>2
<1> QED BY <1>9, <1>10, <1>14

\* Nothing written changes nothing.
LEMMA NothingWritten ==
  ASSUME NEW g \in FrameRecord, Clean(g), NEW offset \in Nat, NEW bytes, bytes = <<>>
  PROVE  [View(g) EXCEPT !.bytes = E!Written(@, offset, bytes)] = View(g)
<1>1. PICK v \in Seq(Nat) : v = Visible(g)
  BY VisibleIs
<1>2. PICK n \in Nat : n = Len(v)
  OBVIOUS
<1>3. E!Written(v, offset, bytes) = [k \in 1 .. n |-> v[k]]
  <2>1. \A k \in 1 .. n : ~(k > offset /\ k <= offset + Len(bytes))
    OBVIOUS
  <2> QED BY <1>2, <2>1 DEF E!Written
<1>4. E!Written(v, offset, bytes) = v
  BY <1>2, <1>3
<1>5. PICK w : w = View(g)
  OBVIOUS
<1>6. w = [bytes |-> v, gas |-> g.gas, input |-> g.input, out |-> g.out, logs |-> g.logs]
  BY <1>1, <1>5 DEF View
<1>7. [w EXCEPT !.bytes = v] = [bytes |-> v, gas |-> g.gas, input |-> g.input, out |-> g.out, logs |-> g.logs]
  BY <1>6
<1>8. [w EXCEPT !.bytes = E!Written(@, offset, bytes)] = [w EXCEPT !.bytes = v]
  <2>1. w.bytes = v
    BY <1>6
  <2> QED BY <1>4, <2>1
<1> QED BY <1>5, <1>6, <1>7, <1>8

\* A copy from outside memory.
LEMMA CopyInputStep ==
  ASSUME IInv, NEW dest \in Nat, NEW source \in Nat, NEW len \in Nat, calldatacopy(dest, source, len)
  PROVE  IInv' /\ (E!CopyInput(dest, source, len) \/ E!HostFails)
<1>1. stack # <<>>
  BY DEF calldatacopy, Runs
<1>2. PICK plan, cost, bytes :
        /\ plan = plan_memory(Paid, dest, len) /\ cost = copy_gas(len)
        /\ bytes = E!Padded(f.input, source, len)
  OBVIOUS
<1>3. PICK input \in Seq(Nat) : input = f.input /\ input = E!top.input
  <2>1. f.input \in Seq(Nat)
    BY <1>1, TopIs, FitFacts DEF FrameRecord
  <2> QED BY <1>1, <2>1, TopIs
<1>4. bytes \in Seq(Nat) /\ Len(bytes) = len /\ bytes = FromInput(input, source, len)
  BY <1>2, <1>3, InputIs
<1>5. PICK g \in Charged(Grow(Paid, plan, cost)) :
        (ok(g) /\ UNCHANGED seen /\ Goes(IF len = 0 THEN g ELSE Put(g, dest, FromInput(f.input, source, len))))
        \/ Failed(g)
  BY <1>2, Zenon DEF calldatacopy, FromInput
<1>6. PICK own \in Nat : own = 1 + E!Words(len) /\ cost = E!Words(len) /\ cost \in Nat
  <2>1. words(len) = E!Words(len) /\ E!Words(len) \in Nat
    BY RoundedFacts
  <2> QED BY <1>2, <2>1 DEF copy_gas
<1>7. PICK ranges : ranges = <<<<dest, len>>>>
  OBVIOUS
<1>8. PICK t : t = E!Extent(ranges)
  OBVIOUS
<1>9. Extent(f, t) /\ (len # 0 => dest + len <= t) /\ Plans(plan, f.size, t)
  BY <1>1, <1>2, <1>7, <1>8, RangeExtent
<1>10. Outcome(f, g, t, Total(f, t, own))
  <2>1. Outcome(f, g, t, Total(f, t, 1 + cost))
    BY <1>1, <1>5, <1>6, <1>8, <1>9, GrowthIs
  <2> QED BY <1>6, <2>1
<1>11. /\ g \in FrameRecord /\ g.out = f.out /\ g.logs = f.logs /\ g.input = f.input
       /\ ok(g) => /\ E!Affords(ranges, own) /\ View(g) = E!Touched(ranges, own) /\ Fit(g)
                   /\ g.size = t /\ f.size <= g.size /\ g.gas <= f.gas
       /\ Failed(g) => IInv' /\ (E!HostFails \/ E!OutOfGas(ranges, own))
  BY <1>1, <1>8, <1>9, <1>10, OperatedIs
<1>12. CASE ok(g) /\ UNCHANGED seen /\ Goes(IF len = 0 THEN g ELSE Put(g, dest, FromInput(f.input, source, len)))
  <2>1. /\ IInv' /\ UNCHANGED <<Logs, left>>
        /\ Shown' = E!Under([View(g) EXCEPT !.bytes = E!Written(@, dest, bytes)])
    <3>1. CASE len = 0
      <4>1. IInv' /\ Shown' = E!Under(View(g)) /\ UNCHANGED <<Logs, left>>
        BY <1>1, <1>11, <1>12, <3>1, GoesStep
      <4>2. [View(g) EXCEPT !.bytes = E!Written(@, dest, bytes)] = View(g)
        <5>1. bytes = <<>> /\ Clean(g)
          BY <1>4, <1>11, <1>12, <3>1, FitFacts
        <5> QED BY <1>11, <5>1, NothingWritten
      <4> QED BY <4>1, <4>2, Zenon
    <3>2. CASE len # 0
      <4>1. Goes(Put(g, dest, bytes))
        BY <1>3, <1>4, <1>11, <1>12, <3>2
      <4>2. dest + Len(bytes) <= g.size
        BY <1>4, <1>9, <1>11, <1>12, <3>2
      <4> QED BY <1>1, <1>4, <1>11, <1>12, <4>1, <4>2, WrittenStep
    <3> QED BY <3>1, <3>2
  <2>2. Shown' = E!Under([E!Touched(ranges, own) EXCEPT !.bytes = E!Written(@, dest, bytes)])
    BY <1>11, <1>12, <2>1, Zenon
  <2>3. Shown' = E!Under([E!Touched(ranges, own) EXCEPT !.bytes = E!Written(@, dest, E!Padded(E!top.input, source, len))])
    BY <1>2, <1>3, <2>2, Zenon
  <2>4. E!CopyInput(dest, source, len)
    BY <1>6, <1>7, <1>11, <1>12, <2>1, <2>3, Zenon DEF E!CopyInput, Logs
  <2> QED BY <2>1, <2>4
<1>13. CASE Failed(g)
  <2>1. IInv' /\ (E!HostFails \/ E!OutOfGas(ranges, own))
    BY <1>11, <1>13
  <2> QED BY <1>6, <1>7, <2>1, Zenon DEF E!CopyInput
<1> QED BY <1>5, <1>12, <1>13

\* A copy within memory, of what the memory was before it.
LEMMA CopyMemoryStep ==
  ASSUME IInv, NEW dest \in Nat, NEW source \in Nat, NEW len \in Nat, mcopy(dest, source, len)
  PROVE  IInv' /\ (E!CopyMemory(dest, source, len) \/ E!HostFails)
<1>1. stack # <<>>
  BY DEF mcopy, Runs
<1>2. PICK plan, cost : plan = copy_expansion(f.size, dest, source, len) /\ cost = copy_gas(len)
  OBVIOUS
<1>3. PICK to, from : to = <<dest, len>> /\ from = <<source, len>>
  OBVIOUS
<1>4. from \in Nat \X Nat /\ from[1] = source /\ from[2] = len
  BY <1>3
<1>5. PICK g \in Charged(Grow(Paid, plan, cost)) :
        (ok(g) /\ Goes(Put(g, dest, RangeBytes(g, from))) /\ UNCHANGED seen) \/ Failed(g)
  BY <1>2, <1>3, Zenon DEF mcopy
<1>6. PICK own \in Nat : own = 1 + E!Words(len) /\ cost = E!Words(len) /\ cost \in Nat
  <2>1. words(len) = E!Words(len) /\ E!Words(len) \in Nat
    BY RoundedFacts
  <2> QED BY <1>2, <2>1 DEF copy_gas
<1>7. PICK ranges : ranges = <<to, from>>
  OBVIOUS
<1>8. PICK c \in Sizes : c = f.size /\ c \in Nat /\ Len(E!top.bytes) = c
  BY <1>1, TopIs, FitFacts
<1>9. PICK m : m = E!Covering(c, to)
  OBVIOUS
<1>10. PICK t : t = E!Covering(m, from)
  OBVIOUS
<1>11. t = E!Extent(ranges)
  BY <1>7, <1>8, <1>9, <1>10, ExtentTwo
<1>12. m \in Nat /\ c <= m /\ (len # 0 => dest + len <= m)
  <2>1. m = E!Covering(c, <<dest, len>>)
    BY <1>3, <1>9
  <2>2. c \in Nat
    BY <1>8
  <2> HIDE <1>8
  <2> QED BY <2>1, <2>2, Covered
<1>13. t \in Nat /\ m <= t /\ (len # 0 => source + len <= t)
  <2>1. t = E!Covering(m, <<source, len>>)
    BY <1>3, <1>10
  <2>2. m \in Nat
    BY <1>12
  <2> HIDE <1>8, <1>12
  <2> QED BY <2>1, <2>2, Covered
<1>14. Plans(plan, f.size, t) /\ Extent(f, t)
  <2>1. Plans(copy_expansion(c, dest, source, len), c, E!Covering(E!Covering(c, <<dest, len>>), <<source, len>>))
    BY CopyExpansionIs
  <2>2. Plans(plan, c, t)
    BY <1>2, <1>3, <1>8, <1>9, <1>10, <2>1
  <2>3. t \in Nat /\ c <= t /\ (t < UNPAYABLE_EXTENT => t \in Sizes)
    BY <2>2 DEF Plans
  <2> QED BY <1>8, <2>2, <2>3 DEF Extent
<1>15. Outcome(f, g, t, Total(f, t, own))
  <2>1. Outcome(f, g, t, Total(f, t, 1 + cost))
    BY <1>1, <1>5, <1>6, <1>11, <1>14, GrowthIs
  <2> QED BY <1>6, <2>1
<1>16. /\ g \in FrameRecord /\ g.out = f.out /\ g.logs = f.logs
       /\ ok(g) => /\ E!Affords(ranges, own) /\ View(g) = E!Touched(ranges, own) /\ Fit(g)
                   /\ g.size = t /\ f.size <= g.size /\ g.gas <= f.gas
       /\ Failed(g) => IInv' /\ (E!HostFails \/ E!OutOfGas(ranges, own))
  BY <1>1, <1>11, <1>14, <1>15, OperatedIs
<1>17. CASE ok(g) /\ Goes(Put(g, dest, RangeBytes(g, from))) /\ UNCHANGED seen
  <2>1. PICK bytes : bytes = RangeBytes(g, from)
    OBVIOUS
  <2>2. bytes \in Seq(Nat) /\ Len(bytes) = len /\ bytes = E!Slice(Visible(g), from)
    <3>1. Within(g, from)
      BY <1>4, <1>13, <1>16, <1>17 DEF Within
    <3>2. Clean(g)
      BY <1>16, <1>17, FitFacts
    <3> QED BY <1>4, <1>16, <2>1, <3>1, <3>2, RangeBytesIs
  <2>3. Len(bytes) = 0 \/ dest + Len(bytes) <= g.size
    BY <1>12, <1>13, <1>16, <1>17, <2>2
  <2>4. /\ IInv' /\ UNCHANGED <<Logs, left>>
        /\ Shown' = E!Under([View(g) EXCEPT !.bytes = E!Written(@, dest, bytes)])
    <3>1. Goes(Put(g, dest, bytes))
      BY <1>17, <2>1
    <3> QED BY <1>1, <1>16, <1>17, <2>2, <2>3, <3>1, WrittenStep
  <2>5. PICK w : w = View(g) /\ w = E!Touched(ranges, own)
    BY <1>16, <1>17
  <2>6. w.bytes = Visible(g) /\ ranges[2] = from
    BY <1>7, <2>5 DEF View
  <2>7. [w EXCEPT !.bytes = E!Written(@, dest, bytes)] = [w EXCEPT !.bytes = E!Written(@, dest, E!Slice(@, ranges[2]))]
    BY <2>2, <2>6
  <2>8. Shown' = E!Under([E!Touched(ranges, own) EXCEPT !.bytes = E!Written(@, dest, E!Slice(@, ranges[2]))])
    BY <2>4, <2>5, <2>7, Zenon
  <2>9. E!CopyMemory(dest, source, len)
    BY <1>3, <1>6, <1>7, <1>16, <1>17, <2>4, <2>8, Zenon DEF E!CopyMemory, Logs
  <2> QED BY <2>4, <2>9
<1>18. CASE Failed(g)
  <2>1. IInv' /\ (E!HostFails \/ E!OutOfGas(ranges, own))
    BY <1>16, <1>18
  <2> QED BY <1>3, <1>6, <1>7, <2>1, Zenon DEF E!CopyMemory
<1> QED BY <1>5, <1>17, <1>18

LEMMA MoreLogs ==
  ASSUME NEW s, NEW count \in Nat, StackInv(s, count), NEW more \in Nat, count <= more
  PROVE  StackInv(s, more)
<1>1. \A k \in 1 .. Len(s) : s[k].logs <= more /\ \A j \in 1 .. k : s[j].logs <= s[k].logs
  <2> TAKE k \in 1 .. Len(s)
  <2>1. PICK l : l = s[k].logs /\ l \in Nat /\ l <= count
    BY FieldFacts
  <2>2. s[k].logs <= more
    BY <2>1
  <2> QED BY <2>2 DEF StackInv, LogsNest
<1> QED BY <1>1 DEF StackInv, LogsNest

\* The data of a log is what the definition sees, and both buffers keep it or the message ends.
LEMMA LogStep ==
  ASSUME IInv, NEW range \in Ranges, log(range)
  PROVE  IInv' /\ (E!Log(range) \/ E!HostFails)
<1>1. stack # <<>> /\ Len(entries) < MaxLogs
  BY DEF log, Runs
<1>2. PICK offset \in Nat, len \in Nat : offset = range[1] /\ len = range[2] /\ range = <<offset, len>> /\ range \in Nat \X Nat
  BY Operands
<1>3. PICK plan, cost : plan = memory_expansion(f.size, offset, len) /\ cost = u64(len)
  OBVIOUS
<1>4. PICK g \in Charged(Grow(Paid, plan, cost)) :
        \/ ok(g) /\ stack' = Under(g) /\ append(RangeBytes(g, range)) /\ UNCHANGED <<pool, seen, left>>
        \/ ok(g) /\ HostFailure(g)
        \/ Failed(g)
  BY <1>2, <1>3, Zenon DEF log
<1>5. PICK ranges : ranges = <<range>> /\ ranges = <<<<offset, len>>>>
  BY <1>2
<1>6. PICK t : t = E!Extent(ranges)
  OBVIOUS
<1>7. Extent(f, t) /\ (len # 0 => offset + len <= t) /\ Plans(plan, f.size, t)
  BY <1>1, <1>3, <1>5, <1>6, RangeExtent
<1>8. cost \in Nat /\ (t < UNPAYABLE_EXTENT => cost = len)
  <2>1. cost \in Nat
    BY <1>3 DEF u64, U64
  <2>2. ASSUME t < UNPAYABLE_EXTENT PROVE cost = len
    <3>1. t \in 0 .. 18
      BY <1>7, <2>2, PriceFacts DEF Extent
    <3>2. len \in 0 .. 18
      BY <1>7, <3>1
    <3> QED BY <1>3, <3>2, U64Is
  <2> QED BY <2>1, <2>2
<1>9. PICK own \in Nat : own = 1 + range[2] /\ own = 1 + len
  BY <1>2
<1>10. Outcome(f, g, t, Total(f, t, own))
  <2>1. Outcome(f, g, t, Total(f, t, 1 + len))
    BY <1>1, <1>4, <1>6, <1>7, <1>8, GrowthIs
  <2> QED BY <1>9, <2>1
<1>11. /\ g \in FrameRecord /\ g.out = f.out /\ g.logs = f.logs
       /\ ok(g) => /\ E!Affords(ranges, own) /\ View(g) = E!Touched(ranges, own) /\ Fit(g)
                   /\ g.size = t /\ f.size <= g.size /\ g.gas <= f.gas
       /\ Failed(g) => IInv' /\ (E!HostFails \/ E!OutOfGas(ranges, own))
       /\ HostFailure(g) => IInv' /\ E!HostFails
  BY <1>1, <1>6, <1>7, <1>10, OperatedIs
<1>12. CASE ok(g) /\ stack' = Under(g) /\ append(RangeBytes(g, range)) /\ UNCHANGED <<pool, seen, left>>
  <2>1. PICK bytes : bytes = RangeBytes(g, range)
    OBVIOUS
  <2>2. bytes \in Seq(Nat) /\ bytes = E!Slice(Visible(g), range)
    <3>1. Within(g, range)
      BY <1>2, <1>7, <1>11, <1>12 DEF Within
    <3>2. Clean(g)
      BY <1>11, <1>12, FitFacts
    <3> QED BY <1>11, <2>1, <3>1, <3>2, RangeBytesIs
  <2>3. PICK e, d, y, z : e = entries /\ d = data /\ y = entries' /\ z = data'
    OBVIOUS
  <2>4. Appends(e, d, bytes, y, z)
    BY <1>12, <2>1, <2>3 DEF append, Appends
  <2>5. LogInv(y, z) /\ Payloads(y, z) = Append(Payloads(e, d), bytes) /\ Len(y) = Len(e) + 1
    <3>1. LogInv(e, d)
      BY <2>3 DEF IInv
    <3> QED BY <2>2, <2>4, <3>1, LogAppended
  <2>6. StackInv(Under(g), Len(entries)) /\ Views(Under(g)) = E!Under(View(g))
    BY <1>1, <1>11, <1>12, GoesOn
  <2>7. PICK n \in Nat : n = Len(entries) /\ n + 1 = Len(entries') /\ n + 1 \in Nat
    BY <2>3, <2>5 DEF IInv, LogInv
  <2>8. StackInv(stack', Len(entries'))
    <3>1. PICK s : s = stack' /\ s = Under(g)
      BY <1>12
    <3>2. PICK m \in Nat : m = n + 1 /\ n <= m
      BY <2>7
    <3>3. StackInv(s, n)
      BY <2>6, <2>7, <3>1
    <3>4. StackInv(s, m)
      BY <3>2, <3>3, MoreLogs
    <3> QED BY <2>7, <3>1, <3>2, <3>4
  <2>9. IInv'
    BY <1>12, <2>3, <2>5, <2>8 DEF IInv
  <2>10. Shown' = E!Under(View(g))
    <3>1. Shown' = Views(stack')
      BY DEF Shown, Views, View, Visible
    <3> QED BY <1>12, <2>6, <3>1
  <2>11. Logs' = Append(Logs, bytes)
    BY <2>3, <2>5, LogsShown
  <2>12. E!Slice(E!Touched(ranges, own).bytes, range) = bytes
    <3>1. PICK b : b = Visible(g) /\ b = E!Touched(ranges, own).bytes
      BY <1>11, <1>12 DEF View
    <3> QED BY <2>2, <3>1
  <2>13. Len(Logs) < MaxLogs
    BY <1>1, <2>7 DEF Logs
  <2>14. Shown' = E!Under(E!Touched(ranges, own)) /\ Logs' = Append(Logs, E!Slice(E!Touched(ranges, own).bytes, range))
    BY <1>11, <1>12, <2>10, <2>11, <2>12
  <2>15. E!Log(range)
    BY <1>5, <1>9, <1>11, <1>12, <2>13, <2>14, Zenon DEF E!Log, Logs
  <2> QED BY <2>9, <2>15
<1>13. CASE ok(g) /\ HostFailure(g)
  BY <1>11, <1>13
<1>14. CASE Failed(g)
  <2>1. IInv' /\ (E!HostFails \/ E!OutOfGas(ranges, own))
    BY <1>11, <1>14
  <2> QED BY <1>5, <1>9, <2>1, Zenon DEF E!Log
<1> QED BY <1>4, <1>12, <1>13, <1>14

LEMMA ReturnStep ==
  ASSUME IInv, NEW range \in Ranges, NEW kept \in BOOLEAN, finish_from_memory(range, kept)
  PROVE  IInv' /\ (E!Return(range, kept) \/ E!HostFails)
<1>1. stack # <<>>
  BY DEF finish_from_memory, Runs
<1>2. PICK offset \in Nat, len \in Nat : offset = range[1] /\ len = range[2] /\ range = <<offset, len>> /\ range \in Nat \X Nat
  BY Operands
<1>3. PICK plan : plan = plan_memory(Paid, offset, len)
  OBVIOUS
<1>4. PICK g \in Charged(Grow(Paid, plan, 0)) :
        \/ ok(g) /\ \E fits \in BOOLEAN : Finish(g, kept, g.gas, RangeBytes(g, range), fits)
        \/ ok(g) /\ range[2] # 0 /\ HostFailure(g)
        \/ Failed(g)
  BY <1>2, <1>3, Zenon DEF finish_from_memory
<1>5. PICK ranges : ranges = <<range>> /\ ranges = <<<<offset, len>>>>
  BY <1>2
<1>6. PICK t : t = E!Extent(ranges)
  OBVIOUS
<1>7. Extent(f, t) /\ (len # 0 => offset + len <= t) /\ Plans(plan, f.size, t)
  BY <1>1, <1>3, <1>5, <1>6, RangeExtent
<1>8. Outcome(f, g, t, Total(f, t, 1))
  <2>1. PICK none \in Nat : none = 0
    OBVIOUS
  <2>2. Outcome(f, g, t, Total(f, t, 1 + none))
    BY <1>1, <1>4, <1>6, <1>7, <2>1, GrowthIs
  <2>3. 1 + none = 1
    BY <2>1
  <2> QED BY <2>2, <2>3
<1>9. /\ g \in FrameRecord /\ g.out = f.out /\ g.logs = f.logs
      /\ ok(g) => /\ E!Affords(ranges, 1) /\ View(g) = E!Touched(ranges, 1) /\ Fit(g)
                  /\ g.size = t /\ f.size <= g.size /\ g.gas <= f.gas
      /\ Failed(g) => IInv' /\ (E!HostFails \/ E!OutOfGas(ranges, 1))
      /\ HostFailure(g) => IInv' /\ E!HostFails
  BY <1>1, <1>6, <1>7, <1>8, OperatedIs
<1>10. CASE ok(g) /\ \E fits \in BOOLEAN : Finish(g, kept, g.gas, RangeBytes(g, range), fits)
  <2>1. PICK output, gas, fits : output = RangeBytes(g, range) /\ gas = g.gas /\ Finish(g, kept, gas, output, fits)
    BY <1>10, Zenon
  <2>2. output \in Seq(Nat) /\ output = E!Slice(Visible(g), range)
    <3>1. Within(g, range)
      BY <1>2, <1>7, <1>9, <1>10 DEF Within
    <3>2. Clean(g)
      BY <1>9, <1>10, FitFacts
    <3> QED BY <1>9, <2>1, <3>1, <3>2, RangeBytesIs
  <2>3. gas \in Nat /\ gas <= f.gas
    BY <1>9, <1>10, <2>1, FitFacts
  <2>4. PICK v : v = View(g) /\ v = E!Touched(ranges, 1)
    BY <1>9, <1>10
  <2>5. v.out = f.out /\ v.logs = f.logs /\ v.gas = gas /\ v.bytes = Visible(g)
    BY <1>9, <2>1, <2>4 DEF View
  <2>6. IInv' /\ E!Ends(v, kept, gas, output)
    BY <1>1, <1>9, <2>1, <2>2, <2>3, <2>5, FinishStep
  <2>7. gas = v.gas /\ output = E!Slice(v.bytes, range)
    BY <2>2, <2>5
  <2>8. E!Ends(v, kept, v.gas, E!Slice(v.bytes, range))
    BY <2>6, <2>7, Zenon
  <2>9. E!Return(range, kept)
    BY <1>5, <1>9, <1>10, <2>4, <2>8, Zenon DEF E!Return
  <2> QED BY <2>6, <2>9
<1>11. CASE ok(g) /\ range[2] # 0 /\ HostFailure(g)
  BY <1>9, <1>11
<1>12. CASE Failed(g)
  <2>1. IInv' /\ (E!HostFails \/ E!OutOfGas(ranges, 1))
    BY <1>9, <1>12
  <2> QED BY <1>5, <2>1, Zenon DEF E!Return
<1> QED BY <1>4, <1>10, <1>11, <1>12

\* A frame that begins: whatever its memory was, it has no length.
Fresh(r, gas, input, out, logs) ==
  /\ r \in FrameRecord /\ r.memory.len = 0 /\ r.size = 0 /\ r.status = "ok"
  /\ r.gas = gas /\ r.input = input /\ r.out = out /\ r.logs = logs

LEMMA RunningFresh ==
  ASSUME NEW gas \in Nat, NEW input \in Seq(Nat), NEW out \in Nat \X Nat, Len(entries) \in Nat
  PROVE  Fresh(Running(gas, input, out), gas, input, out, Len(entries))
<1>1. NoBuffer \in Buffer /\ NoBuffer.len = 0
  <2>1. <<>> \in Seq(Nat)
    OBVIOUS
  <2> QED BY <2>1 DEF NoBuffer, Buffer
<1>2. PICK b \in Buffer : b = NoBuffer /\ b.len = 0
  BY <1>1
<1>3. PICK n \in Nat : n = Len(entries)
  OBVIOUS
<1>4. PICK r : r = Running(gas, input, out)
  OBVIOUS
<1>5. r = [memory |-> b, size |-> 0, gas |-> gas, input |-> input, out |-> out, logs |-> n, status |-> "ok"]
  BY <1>2, <1>3, <1>4 DEF Running
<1>6. r \in FrameRecord
  BY <1>5 DEF FrameRecord
<1>7. r.memory = b /\ r.size = 0 /\ r.status = "ok" /\ r.gas = gas /\ r.input = input /\ r.out = out /\ r.logs = n
  BY <1>5
<1> QED BY <1>2, <1>3, <1>4, <1>6, <1>7 DEF Fresh

LEMMA ResetFresh ==
  ASSUME NEW r, NEW gas, NEW input, NEW out, NEW logs, Fresh(r, gas, input, out, logs)
  PROVE  Fresh(reset(r), gas, input, out, logs)
<1>1. /\ r \in FrameRecord /\ r.memory.len = 0 /\ r.size = 0 /\ r.status = "ok"
      /\ r.gas = gas /\ r.input = input /\ r.out = out /\ r.logs = logs
  BY DEF Fresh
<1>2. PICK m \in Buffer : m = r.memory
  BY <1>1 DEF FrameRecord
<1>3. PICK b : b = clear(m)
  OBVIOUS
<1>4. b = [len |-> 0, cells |-> m.cells] /\ m.cells \in Seq(Nat)
  <2>1. m = [len |-> m.len, cells |-> m.cells] /\ m.cells \in Seq(Nat)
    BY DEF Buffer
  <2> QED BY <1>3, <2>1 DEF clear, Buffer
<1>5. b \in Buffer /\ b.len = 0
  BY <1>4 DEF Buffer
<1>6. PICK q : q = [r EXCEPT !.memory = b]
  OBVIOUS
<1>7. /\ q \in FrameRecord /\ q.memory = b /\ q.size = 0 /\ q.status = "ok"
      /\ q.gas = gas /\ q.input = input /\ q.out = out /\ q.logs = logs
  BY <1>1, <1>5, <1>6 DEF FrameRecord
<1>8. PICK p : p = [q EXCEPT !.size = 0]
  OBVIOUS
<1>9. /\ p \in FrameRecord /\ p.memory = b /\ p.size = 0 /\ p.status = "ok"
      /\ p.gas = gas /\ p.input = input /\ p.out = out /\ p.logs = logs
  BY <1>7, <1>8 DEF FrameRecord
<1>10. reset(r) = p
  BY <1>1, <1>2, <1>3, <1>6, <1>8 DEF reset, FrameRecord
<1> QED BY <1>5, <1>9, <1>10 DEF Fresh

LEMMA AdoptFresh ==
  ASSUME PoolInv(pool), NEW r, NEW gas, NEW input, NEW out, NEW logs, Fresh(r, gas, input, out, logs)
  PROVE  Fresh(adopt(r), gas, input, out, logs)
<1>1. /\ r \in FrameRecord /\ r.memory.len = 0 /\ r.size = 0 /\ r.status = "ok"
      /\ r.gas = gas /\ r.input = input /\ r.out = out /\ r.logs = logs
  BY DEF Fresh
<1>2. CASE pool = <<>> \/ r.memory.cells # <<>>
  BY <1>2 DEF adopt
<1>3. CASE ~(pool = <<>> \/ r.memory.cells # <<>>)
  <2>1. PICK b \in Buffer : b = pool[Len(pool)] /\ b.len = 0
    BY <1>3, PoolTaken
  <2>2. PICK q : q = [r EXCEPT !.memory = b]
    OBVIOUS
  <2>3. /\ q \in FrameRecord /\ q.memory = b /\ q.size = 0 /\ q.status = "ok"
        /\ q.gas = gas /\ q.input = input /\ q.out = out /\ q.logs = logs
    BY <1>1, <2>1, <2>2 DEF FrameRecord
  <2>4. adopt(r) = q
    BY <1>3, <2>1, <2>2 DEF adopt
  <2> QED BY <2>1, <2>3, <2>4 DEF Fresh
<1> QED BY <1>2, <1>3

LEMMA AdoptedPool ==
  ASSUME PoolInv(pool)
  PROVE  PoolInv(Adopted)
<1>1. CASE pool = <<>>
  BY <1>1 DEF Adopted
<1>2. CASE pool # <<>>
  BY <1>2, PoolTaken DEF Adopted
<1> QED BY <1>1, <1>2

\* It reads nothing.
LEMMA FreshIs ==
  ASSUME NEW r, NEW gas, NEW input, NEW out, NEW logs, Fresh(r, gas, input, out, logs)
  PROVE  /\ Clean(r) /\ r \in FrameRecord
         /\ View(r) = [bytes |-> <<>>, gas |-> gas, input |-> input, out |-> out, logs |-> logs]
<1>1. /\ r \in FrameRecord /\ r.memory.len = 0 /\ r.size = 0 /\ r.status = "ok"
      /\ r.gas = gas /\ r.input = input /\ r.out = out /\ r.logs = logs
  BY DEF Fresh
<1>2. PICK c \in Seq(Nat) : c = r.memory.cells
  BY <1>1 DEF FrameRecord, Buffer
<1>3. PICK n \in Nat : n = Len(c) /\ 0 <= n
  OBVIOUS
<1>4. Clean(r)
  <2>1. 0 \in Sizes
    BY DEF Sizes
  <2> QED BY <1>1, <1>2, <1>3, <2>1 DEF Clean
<1>5. Visible(r) = <<>>
  <2>1. SubSeq(c, 1, 0) = <<>>
    BY SubSeqEmpty
  <2> QED BY <1>1, <1>2, <2>1 DEF Visible
<1> QED BY <1>1, <1>4, <1>5 DEF View

\* A frame h charged for the range of a call's input, and g for that of its output after it.
GrownFor(h, a, m) == h \in Charged(Grow(Paid, plan_memory(Paid, a, m), 0))
GrownFrom(h, g, b, n) == g \in IF ok(h) THEN Grow(h, plan_memory(h, b, n), 0) ELSE {h}

LEMMA CallGrowthIs ==
  ASSUME IInv, stack # <<>>, NEW a \in Nat, NEW m \in Nat, NEW b \in Nat, NEW n \in Nat,
         NEW ranges, ranges = <<<<a, m>>, <<b, n>>>>,
         NEW h, GrownFor(h, a, m), NEW g, GrownFrom(h, g, b, n)
  PROVE  \E t : /\ t = E!Extent(ranges) /\ Extent(f, t) /\ Outcome(f, g, t, Total(f, t, 1)) /\ t \in Nat
                /\ (m # 0 => a + m <= t) /\ (n # 0 => b + n <= t)
<1>1. Fit(f) /\ f.size \in Sizes /\ f.size \in Nat /\ Len(E!top.bytes) = f.size
  BY TopIs, FitFacts
<1>2. PICK x, y, r : x = <<a, m>> /\ y = <<b, n>> /\ r = <<x>> /\ ranges = <<x, y>>
  OBVIOUS
<1>3. PICK c \in Sizes : c = f.size /\ c \in Nat
  BY <1>1
<1>4. PICK u : u = E!Covering(c, x)
  OBVIOUS
<1>5. PICK t : t = E!Covering(u, y)
  OBVIOUS
<1>6. u = E!Extent(r) /\ t = E!Extent(ranges)
  BY <1>1, <1>2, <1>3, <1>4, <1>5, ExtentOne, ExtentTwo
<1>7. u \in Nat /\ c <= u /\ (m # 0 => a + m <= u) /\ (u < UNPAYABLE_EXTENT => u \in Sizes)
  <2>1. u = E!Covering(c, <<a, m>>) /\ c \in Nat
    BY <1>2, <1>3, <1>4
  <2>2. u \in Nat /\ c <= u /\ (m # 0 => a + m <= u)
    BY <2>1, Covered
  <2>4. u < UNPAYABLE_EXTENT => u \in Sizes
    BY <2>1, CoveringFacts
  <2> QED BY <2>2, <2>4
<1>8. t \in Nat /\ u <= t /\ (n # 0 => b + n <= t)
  <2>1. t = E!Covering(u, <<b, n>>)
    BY <1>2, <1>5
  <2>2. u \in Nat
    BY <1>7
  <2> HIDE <1>7
  <2> QED BY <2>1, <2>2, Covered
<1>9. t < UNPAYABLE_EXTENT => t \in Sizes
  <2> SUFFICES ASSUME t < UNPAYABLE_EXTENT PROVE t \in Sizes
    OBVIOUS
  <2>1. u < UNPAYABLE_EXTENT
    BY <1>7, <1>8 DEF UNPAYABLE_EXTENT
  <2>2. u \in Sizes /\ t = E!Covering(u, <<b, n>>)
    BY <1>2, <1>5, <1>7, <2>1
  <2> QED BY <1>7, <2>2, CoveringFacts
<1>10. Extent(f, u) /\ Extent(f, t)
  BY <1>3, <1>7, <1>8, <1>9 DEF Extent
<1>11. Outcome(f, h, u, Total(f, u, 1))
  <2>1. PICK plan, none : plan = plan_memory(Paid, a, m) /\ none = 0 /\ none \in Nat
    OBVIOUS
  <2>2. r = <<<<a, m>>>>
    BY <1>2
  <2>3. Plans(plan, f.size, u)
    BY <1>6, <2>1, <2>2, RangeExtent
  <2>4. h \in Charged(Grow(Paid, plan, none))
    BY <2>1 DEF GrownFor
  <2>5. Outcome(f, h, u, Total(f, u, 1 + none))
    BY <1>6, <1>10, <2>1, <2>3, <2>4, GrowthIs
  <2>6. 1 + none = 1
    BY <2>1
  <2> QED BY <2>5, <2>6
<1>12. PICK v, own : v = f /\ own = 1 /\ own \in Nat
  OBVIOUS
<1>13. PICK plan : plan = plan_memory(h, b, n)
  OBVIOUS
<1>14. ASSUME h.status = "ok" PROVE Plans(plan, h.size, t)
  <2>1. h.size = u /\ u \in Sizes
    BY <1>1, <1>10, <1>11, <1>12, <1>14, StaysFit
  <2>2. Plans(plan_memory(h, b, n), h.size, E!Covering(h.size, <<b, n>>))
    BY <2>1, PlanMemoryIs
  <2> QED BY <1>2, <1>5, <1>13, <2>1, <2>2
<1>15. Outcome(f, g, t, Total(f, t, 1))
  <2>1. Fit(v) /\ Extent(v, u) /\ Extent(v, t) /\ Outcome(v, h, u, Total(v, u, own))
    BY <1>1, <1>10, <1>11, <1>12
  <2>2. g \in IF ok(h) THEN Grow(h, plan, 0) ELSE {h}
    BY <1>13 DEF GrownFrom
  <2>3. Outcome(v, g, t, Total(v, t, own))
    BY <1>8, <1>12, <1>14, <2>1, <2>2, BothOutcome
  <2> QED BY <1>12, <2>3
<1>16. m # 0 => a + m <= t
  BY <1>7, <1>8
<1> QED BY <1>6, <1>8, <1>10, <1>15, <1>16

\* The callee begins with the caller's gas, no memory and the input it was given.
LEMMA CallStep ==
  ASSUME IInv, NEW c \in Calls, start_call(c[1], c[2])
  PROVE  IInv' /\ (E!Call(c[1], c[2]) \/ E!HostFails)
<1>1. stack # <<>> /\ Len(stack) < MaxDepth
  BY DEF start_call, Runs
<1>2. PICK input, out : input = c[1] /\ out = c[2] /\ input \in Nat \X Nat /\ out \in Nat \X Nat
  BY Operands
<1>3. PICK a \in Nat, m \in Nat : a = input[1] /\ m = input[2] /\ input = <<a, m>>
  BY <1>2
<1>4. PICK b \in Nat, n \in Nat : b = out[1] /\ n = out[2] /\ out = <<b, n>>
  BY <1>2
<1>5. PICK room : room = IF n = 0 THEN <<0, 0>> ELSE out
  OBVIOUS
<1>6. room \in Nat \X Nat /\ (n = 0 => room[1] = 0 /\ room[2] = 0) /\ (n # 0 => room = out)
  BY <1>2, <1>5
<1> DEFINE first == Charged(Grow(Paid, plan_memory(Paid, a, m), 0))
           second(h) == IF ok(h) THEN Grow(h, plan_memory(h, b, n), 0) ELSE {h}
           child(g) == adopt(reset(Running(g.gas, RangeBytes(g, input), room)))
           Begun(g) == /\ stack' = Append(Under([g EXCEPT !.gas = 0]), child(g))
                       /\ pool' = Adopted /\ UNCHANGED <<entries, data, seen, left>>
<1>7. \E g \in UNION {second(h) : h \in first} : (ok(g) /\ Begun(g)) \/ (ok(g) /\ HostFailure(g)) \/ Failed(g)
  BY <1>2, <1>3, <1>4, <1>5, Zenon DEF start_call
<1>8. PICK h, g : h \in first /\ g \in second(h) /\ ((ok(g) /\ Begun(g)) \/ (ok(g) /\ HostFailure(g)) \/ Failed(g))
  <2> HIDE DEF first, second, Begun
  <2> QED BY <1>7
<1>9. PICK ranges : ranges = <<input, out>> /\ ranges = <<<<a, m>>, <<b, n>>>>
  BY <1>3, <1>4
<1>10. PICK t \in Nat : /\ t = E!Extent(ranges) /\ Extent(f, t) /\ Outcome(f, g, t, Total(f, t, 1))
                        /\ (m # 0 => a + m <= t) /\ (n # 0 => b + n <= t)
  <2>1. GrownFor(h, a, m)
    BY <1>8 DEF GrownFor
  <2>2. GrownFrom(h, g, b, n)
    BY <1>8 DEF GrownFrom
  <2> HIDE <1>8
  <2>3. \E u : /\ u = E!Extent(ranges) /\ Extent(f, u) /\ Outcome(f, g, u, Total(f, u, 1)) /\ u \in Nat
               /\ (m # 0 => a + m <= u) /\ (n # 0 => b + n <= u)
    BY <1>1, <1>9, <2>1, <2>2, CallGrowthIs
  <2> QED BY <2>3
<1>11. /\ g \in FrameRecord /\ g.out = f.out /\ g.logs = f.logs
       /\ ok(g) => /\ E!Affords(ranges, 1) /\ View(g) = E!Touched(ranges, 1) /\ Fit(g)
                   /\ g.size = t /\ f.size <= g.size /\ g.gas <= f.gas
       /\ Failed(g) => IInv' /\ (E!HostFails \/ E!OutOfGas(ranges, 1))
       /\ HostFailure(g) => IInv' /\ E!HostFails
  BY <1>1, <1>10, OperatedIs
<1>12. CASE ok(g) /\ Begun(g)
  <2>1. Fit(g) /\ Clean(g) /\ g.gas \in Nat /\ g.size = t /\ g.size \in Nat
    BY <1>11, <1>12, FitFacts
  <2>2. PICK bytes : bytes = RangeBytes(g, input)
    OBVIOUS
  <2>3. bytes \in Seq(Nat) /\ bytes = E!Slice(Visible(g), input)
    <3>1. Within(g, input)
      BY <1>2, <1>3, <1>10, <2>1 DEF Within
    <3> QED BY <1>11, <2>1, <2>2, <3>1, RangeBytesIs
  <2>4. PICK gas \in Nat : gas = g.gas
    BY <2>1
  <2>5. PICK k : k = child(g) /\ k = adopt(reset(Running(gas, bytes, room)))
    BY <2>2, <2>4
  <2>6. PICK count \in Nat : count = Len(entries)
    BY DEF IInv, LogInv
  <2>7. Fresh(k, gas, bytes, room, count)
    <3>1. PICK p, q : p = Running(gas, bytes, room) /\ q = reset(p)
      OBVIOUS
    <3>2. Fresh(p, gas, bytes, room, count)
      BY <1>6, <2>3, <2>6, <3>1, RunningFresh
    <3>3. Fresh(q, gas, bytes, room, count)
      BY <3>1, <3>2, ResetFresh
    <3>4. Fresh(adopt(q), gas, bytes, room, count)
      BY <3>3, AdoptFresh DEF IInv
    <3> QED BY <2>5, <3>1, <3>4
  <2>8. /\ Clean(k) /\ k \in FrameRecord
        /\ View(k) = [bytes |-> <<>>, gas |-> gas, input |-> bytes, out |-> room, logs |-> count]
    BY <2>7, FreshIs
  <2>9. PICK s : s = Under(g)
    OBVIOUS
  <2>10. /\ StackInv(s, count) /\ s # <<>> /\ Len(s) = Len(stack) /\ s[Len(s)] = g /\ s \in Seq(FrameRecord)
    BY <1>1, <1>11, <1>12, <2>6, <2>9, GoesOn
  <2>11. PICK d : d = [g EXCEPT !.gas = 0]
    OBVIOUS
  <2>12. PICK z : z = stack'
    OBVIOUS
  <2>13. stack \in Seq(FrameRecord) /\ Len(stack) \in Nat /\ Len(stack) >= 1
    BY <1>1, TopFits DEF IInv, StackInv
  <2>14. Under(d) = [s EXCEPT ![Len(s)] = d] /\ d = [s[Len(s)] EXCEPT !.gas = 0]
    <3>1. [stack EXCEPT ![Len(stack)] = d] = [[stack EXCEPT ![Len(stack)] = g] EXCEPT ![Len(stack)] = d]
      BY <2>13
    <3>2. Under(d) = [s EXCEPT ![Len(s)] = d]
      BY <2>9, <2>10, <3>1 DEF Under
    <3> QED BY <2>10, <2>11, <3>2
  <2>15. z = Append(Under(d), k)
    BY <1>12, <2>5, <2>11, <2>12
  <2>16. z = Pushed(s, k)
    BY <2>14, <2>15, Zenon DEF Pushed
  <2>17. Begins(s[Len(s)], k, count)
    <3>1. k.status = "ok" /\ k.size = 0 /\ k.gas = gas /\ k.logs = count /\ k.out = room
      BY <2>7 DEF Fresh
    <3>2. room[1] + room[2] <= g.size
      BY <1>4, <1>6, <1>10, <2>1
    <3>3. k.gas <= g.gas
      BY <2>4, <3>1
    <3> QED BY <2>8, <2>10, <3>1, <3>2, <3>3 DEF Begins
  <2>18. StackInv(z, count)
    BY <2>10, <2>16, <2>17, StackPushed
  <2>19. IInv'
    <3>1. pool' = Adopted /\ entries' = entries /\ data' = data /\ left' = left
      BY <1>12
    <3> QED BY <2>6, <2>12, <2>18, <3>1, AdoptedPool DEF IInv
  <2>20. d \in FrameRecord /\ View(d) = [View(g) EXCEPT !.gas = 0]
    <3>1. /\ d \in FrameRecord /\ d.memory = g.memory /\ d.size = g.size /\ d.gas = 0
          /\ d.input = g.input /\ d.out = g.out /\ d.logs = g.logs
      BY <1>11, <2>11 DEF FrameRecord
    <3>2. Visible(d) = Visible(g)
      BY <3>1 DEF Visible
    <3>3. PICK w, v : w = View(g) /\ v = Visible(g)
      OBVIOUS
    <3>4. w = [bytes |-> v, gas |-> g.gas, input |-> g.input, out |-> g.out, logs |-> g.logs]
      BY <3>3 DEF View
    <3>5. [w EXCEPT !.gas = 0] = [bytes |-> v, gas |-> 0, input |-> g.input, out |-> g.out, logs |-> g.logs]
      BY <3>4
    <3>6. View(d) = [bytes |-> v, gas |-> 0, input |-> g.input, out |-> g.out, logs |-> g.logs]
      BY <3>1, <3>2, <3>3 DEF View
    <3> QED BY <3>1, <3>3, <3>5, <3>6
  <2>21. PICK y : y = Under(d)
    OBVIOUS
  <2>22. y \in Seq(FrameRecord) /\ Views(y) = E!Under(View(d))
    <3>1. y \in Seq(FrameRecord)
      BY <2>13, <2>20, <2>21 DEF Under
    <3>2. y = [stack EXCEPT ![Len(stack)] = d]
      BY <2>21 DEF Under
    <3>3. Views(y) = [Views(stack) EXCEPT ![Len(Views(stack))] = View(d)]
      BY <1>1, <2>13, <3>2, ViewsReplaced
    <3> QED BY <3>1, <3>3, ShownIs DEF E!Under
  <2>23. Shown' = Append(E!Under([View(g) EXCEPT !.gas = 0]), View(k))
    <3>1. Shown' = Views(stack')
      BY DEF Shown, Views, View, Visible
    <3>2. Views(Append(y, k)) = Append(Views(y), View(k))
      BY <2>8, <2>22, ViewsAppended
    <3> QED BY <2>12, <2>15, <2>20, <2>21, <2>22, <3>1, <3>2
  <2>24. PICK w : w = View(g) /\ w = E!Touched(ranges, 1)
    BY <1>11, <1>12
  <2>25. View(k) = E!Frame(w.gas, E!Slice(w.bytes, input), IF out[2] = 0 THEN <<0, 0>> ELSE out)
    <3>1. w.gas = gas /\ E!Slice(w.bytes, input) = bytes
      BY <2>3, <2>4, <2>24 DEF View
    <3>2. Len(Logs) = count
      BY <2>6 DEF Logs
    <3>3. E!Frame(gas, bytes, room) = [bytes |-> <<>>, gas |-> gas, input |-> bytes, out |-> room, logs |-> count]
      BY <3>2 DEF E!Frame, Logs
    <3>4. room = IF out[2] = 0 THEN <<0, 0>> ELSE out
      BY <1>4, <1>5
    <3> QED BY <2>8, <3>1, <3>3, <3>4
  <2>26. Shown' = Append(E!Under([w EXCEPT !.gas = 0]),
                         E!Frame(w.gas, E!Slice(w.bytes, input), IF out[2] = 0 THEN <<0, 0>> ELSE out))
    BY <2>23, <2>24, <2>25, Zenon
  <2>27. Logs' = Logs /\ seen' = seen /\ left' = left /\ Len(Shown) < MaxDepth
    BY <1>1, <1>12, LogsShown, ShownIs
  <2>28. E!Call(input, out)
    BY <1>9, <1>11, <1>12, <2>24, <2>26, <2>27, Zenon DEF E!Call, Logs
  <2> QED BY <1>2, <2>19, <2>28
<1>13. CASE ok(g) /\ HostFailure(g)
  BY <1>11, <1>13
<1>14. CASE Failed(g)
  <2>1. IInv' /\ (E!HostFails \/ E!OutOfGas(ranges, 1))
    BY <1>11, <1>14
  <2> QED BY <1>2, <1>9, <2>1, Zenon DEF E!Call
<1> QED BY <1>8, <1>12, <1>13, <1>14

\* A message of its own, whose gas does not pay for what is refused.
LEMMA LimitIs ==
  ASSUME NEW k \in 1 .. Len(GasLimits)
  PROVE  GasLimits[k] \in Nat /\ GasLimits[k] < UNPAYABLE
<1>1. GasLimits[k] \in Nat
  BY MemoryAssumption
<1>2. PICK gas \in Nat : gas = GasLimits[k]
  BY <1>1
<1>3. ((UNPAYABLE_EXTENT \div WORD) * (UNPAYABLE_EXTENT \div WORD)) \div 8 > gas
  BY <1>2, MemoryAssumption
<1>4. ((UNPAYABLE_EXTENT \div WORD) * (UNPAYABLE_EXTENT \div WORD)) \div 8 = 12
  BY DEF UNPAYABLE_EXTENT, WORD
<1> QED BY <1>2, <1>3, <1>4 DEF UNPAYABLE

LEMMA RootStep ==
  ASSUME IInv, run_root
  PROVE  IInv' /\ E!Message
<1>1. PICK n : n = left /\ n \in 1 .. Len(GasLimits) /\ n \in Nat
  BY MemoryAssumption DEF IInv, run_root
<1>2. PICK gas \in Nat : gas = GasLimits[n] /\ gas < UNPAYABLE
  BY <1>1, LimitIs
<1>3. PICK none, room : none = <<>> /\ none \in Seq(Nat) /\ room = <<0, 0>> /\ room \in Nat \X Nat
  <2>1. <<>> \in Seq(Nat)
    OBVIOUS
  <2>2. <<0, 0>> \in Nat \X Nat
    OBVIOUS
  <2> QED BY <2>1, <2>2, Zenon
<1>4. PICK count \in Nat : count = Len(entries)
  BY DEF IInv, LogInv
<1>5. PICK p, q, r : p = Running(gas, none, room) /\ q = adopt(p) /\ r = reset(q)
  OBVIOUS
<1>6. Fresh(r, gas, none, room, count)
  <2>1. Fresh(p, gas, none, room, count)
    BY <1>3, <1>4, <1>5, RunningFresh
  <2>2. Fresh(q, gas, none, room, count)
    BY <1>5, <2>1, AdoptFresh DEF IInv
  <2> QED BY <1>5, <2>2, ResetFresh
<1>7. PICK c : c = [r EXCEPT !.logs = 0]
  OBVIOUS
<1>8. Fresh(c, gas, none, room, 0)
  <2>1. /\ r \in FrameRecord /\ r.memory.len = 0 /\ r.size = 0 /\ r.status = "ok"
        /\ r.gas = gas /\ r.input = none /\ r.out = room
    BY <1>6 DEF Fresh
  <2>2. /\ c \in FrameRecord /\ c.memory = r.memory /\ c.size = 0 /\ c.status = "ok"
        /\ c.gas = gas /\ c.input = none /\ c.out = room /\ c.logs = 0
    BY <1>7, <2>1 DEF FrameRecord
  <2> QED BY <2>1, <2>2 DEF Fresh
<1>9. /\ Clean(c) /\ c \in FrameRecord
      /\ View(c) = [bytes |-> <<>>, gas |-> gas, input |-> none, out |-> room, logs |-> 0]
  BY <1>8, FreshIs
<1>10. StackInv(<<c>>, 0)
  BY <1>2, <1>8, <1>9, StackRoot DEF Fresh
<1>11. /\ stack = <<>> /\ left > 0 /\ left' = n - 1 /\ entries' = <<>> /\ data' = <<>> /\ seen' = <<>> /\ pool' = Adopted
       /\ stack' = <<c>>
  BY <1>1, <1>2, <1>3, <1>5, <1>7, Zenon DEF run_root
<1>12. LogInv(entries', data') /\ Len(entries') = 0
  BY <1>11 DEF LogInv
<1>13. IInv'
  <2>1. left' \in 0 .. Len(GasLimits)
    BY <1>1, <1>11, MemoryAssumption
  <2>2. StackInv(stack', Len(entries'))
    BY <1>10, <1>11, <1>12
  <2> QED BY <1>11, <1>12, <2>1, <2>2, AdoptedPool DEF IInv
<1>14. Shown' = <<View(c)>>
  <2>1. Shown' = Views(stack')
    BY DEF Shown, Views, View, Visible
  <2>2. Views(<<c>>) = <<View(c)>>
    <3>1. Views(<<c>>) = [k \in 1 .. 1 |-> View(c)]
      BY DEF Views
    <3> QED BY <3>1
  <2> QED BY <1>11, <2>1, <2>2
<1>15. Logs' = <<>>
  BY <1>12, LogsShown DEF Payloads
<1>16. Shown = <<>>
  BY <1>11 DEF Shown
<1>17. Shown' = <<[bytes |-> <<>>, gas |-> GasLimits[left], input |-> <<>>, out |-> <<0, 0>>, logs |-> 0]>>
  BY <1>1, <1>2, <1>3, <1>9, <1>14, Zenon
<1>18. left' = left - 1
  BY <1>1, <1>11
<1>19. E!Message
  BY <1>11, <1>15, <1>16, <1>17, <1>18, Zenon DEF E!Message, Logs
<1> QED BY <1>13, <1>19

LEMMA EveryStep ==
  ASSUME IInv, Next
  PROVE  IInv' /\ E!Next
<1>1. CASE run_root
  BY <1>1, RootStep, Zenon DEF E!Next
<1>2. CASE \E offset \in Offsets : mload(offset) \/ \E b \in Bytes : mstore8(offset, b) \/ mstore(offset, b)
  <2>1. PICK offset \in Offsets : mload(offset) \/ \E b \in Bytes : mstore8(offset, b) \/ mstore(offset, b)
    BY <1>2
  <2>2. CASE mload(offset)
    <3>1. IInv' /\ (E!Load(offset) \/ E!HostFails)
      BY <2>2, LoadStep
    <3> QED BY <3>1, Zenon DEF E!Next
  <2>3. ASSUME NEW b \in Bytes, mstore8(offset, b) \/ mstore(offset, b) PROVE IInv' /\ E!Next
    <3>1. b \in Nat
      BY Operands
    <3>2. CASE mstore8(offset, b)
      <4>1. PICK bytes : bytes = <<b>> /\ bytes \in Seq(Nat) /\ Len(bytes) \in {1, 2}
        <5>1. <<b>> \in Seq(Nat)
          BY <3>1
        <5>2. Len(<<b>>) \in {1, 2}
          OBVIOUS
        <5> QED BY <5>1, <5>2, Zenon
      <4>2. Stores(offset, bytes)
        BY <3>2, <4>1 DEF mstore8
      <4>3. IInv' /\ (E!Store(offset, bytes) \/ E!HostFails)
        BY <4>1, <4>2, StoreStep
      <4>4. IInv' /\ (E!Store(offset, <<b>>) \/ E!HostFails)
        BY <4>1, <4>3, Zenon
      <4> QED BY <4>4, Zenon DEF E!Next
    <3>3. CASE mstore(offset, b)
      <4>1. PICK bytes : bytes = <<0, b>> /\ bytes \in Seq(Nat) /\ Len(bytes) \in {1, 2}
        <5>1. <<0, b>> \in Seq(Nat)
          BY <3>1
        <5>2. Len(<<0, b>>) \in {1, 2}
          OBVIOUS
        <5> QED BY <5>1, <5>2, Zenon
      <4>2. Stores(offset, bytes)
        BY <3>3, <4>1 DEF mstore
      <4>3. IInv' /\ (E!Store(offset, bytes) \/ E!HostFails)
        BY <4>1, <4>2, StoreStep
      <4>4. IInv' /\ (E!Store(offset, <<0, b>>) \/ E!HostFails)
        BY <4>1, <4>3, Zenon
      <4> QED BY <4>4, Zenon DEF E!Next
    <3> QED BY <2>3, <3>2, <3>3
  <2> QED BY <2>1, <2>2, <2>3
<1>3. CASE \E c \in Copies : calldatacopy(c[1], c[2], c[3]) \/ mcopy(c[1], c[2], c[3])
  <2>1. PICK c \in Copies : calldatacopy(c[1], c[2], c[3]) \/ mcopy(c[1], c[2], c[3])
    BY <1>3
  <2>2. PICK x \in Nat, y \in Nat, z \in Nat : x = c[1] /\ y = c[2] /\ z = c[3]
    BY Operands
  <2>3. CASE calldatacopy(c[1], c[2], c[3])
    <3>1. IInv' /\ (E!CopyInput(x, y, z) \/ E!HostFails)
      BY <2>2, <2>3, CopyInputStep
    <3> QED BY <2>2, <3>1, Zenon DEF E!Next
  <2>4. CASE mcopy(c[1], c[2], c[3])
    <3>1. IInv' /\ (E!CopyMemory(x, y, z) \/ E!HostFails)
      BY <2>2, <2>4, CopyMemoryStep
    <3> QED BY <2>2, <3>1, Zenon DEF E!Next
  <2> QED BY <2>1, <2>3, <2>4
<1>4. CASE \E range \in Ranges : log(range) \/ \E kept \in BOOLEAN : finish_from_memory(range, kept)
  <2>1. PICK range \in Ranges : log(range) \/ \E kept \in BOOLEAN : finish_from_memory(range, kept)
    BY <1>4
  <2>2. CASE log(range)
    <3>1. IInv' /\ (E!Log(range) \/ E!HostFails)
      BY <2>2, LogStep
    <3> QED BY <3>1, Zenon DEF E!Next
  <2>3. ASSUME NEW kept \in BOOLEAN, finish_from_memory(range, kept) PROVE IInv' /\ E!Next
    <3>1. IInv' /\ (E!Return(range, kept) \/ E!HostFails)
      BY <2>3, ReturnStep
    <3> QED BY <3>1, Zenon DEF E!Next
  <2> QED BY <2>1, <2>2, <2>3
<1>5. CASE \E c \in Calls : start_call(c[1], c[2])
  <2>1. PICK c \in Calls : start_call(c[1], c[2])
    BY <1>5
  <2>2. IInv' /\ (E!Call(c[1], c[2]) \/ E!HostFails)
    BY <2>1, CallStep
  <2> QED BY <2>2, Zenon DEF E!Next
<1> QED BY <1>1, <1>2, <1>3, <1>4, <1>5 DEF Next

LEMMA BeginsWell ==
  ASSUME Init
  PROVE  IInv /\ E!Init
<1>1. stack = <<>> /\ pool = <<>> /\ entries = <<>> /\ data = <<>> /\ seen = <<>> /\ left = Len(GasLimits)
  BY DEF Init
<1>2. StackInv(stack, Len(entries))
  BY <1>1, StackEmpty
<1>3. PoolInv(pool) /\ LogInv(entries, data)
  BY <1>1 DEF PoolInv, LogInv
<1>4. left \in 0 .. Len(GasLimits)
  BY <1>1, MemoryAssumption
<1>5. Shown = <<>> /\ Logs = <<>>
  BY <1>1 DEF Shown, Logs
<1>6. E!Init
  BY <1>1, <1>5, Zenon DEF E!Init, Logs
<1> QED BY <1>2, <1>3, <1>4, <1>6 DEF IInv

LEMMA Stutters ==
  ASSUME UNCHANGED vars
  PROVE  (IInv => IInv') /\ UNCHANGED E!abstract
<1>1. stack' = stack /\ pool' = pool /\ entries' = entries /\ data' = data /\ seen' = seen /\ left' = left
  BY DEF vars
<1>2. Shown' = Shown /\ Logs' = Logs
  BY <1>1, LogsShown DEF Shown
<1>3. IInv => IInv'
  BY <1>1 DEF IInv
<1> QED BY <1>1, <1>2, <1>3, Zenon DEF E!abstract, Logs

(***************************************************************************)
(* The theorems                                                            *)
(***************************************************************************)
\* Whatever a program does, a frame's memory reads zero where it was never written, up to the length of
\* its buffer; what the frames have paid and still have lies below the price of the extent that is refused,
\* so no range wraps around; a callee's output has room in its caller's memory; the pool lends nothing to
\* be seen; and every log kept lies whole in the data.
THEOREM MemoryInvariant == Spec => []IInv
<1>1. Init => IInv
  BY BeginsWell
<1>2. IInv /\ [Next]_vars => IInv'
  BY EveryStep, Stutters
<1> QED BY <1>1, <1>2, PTL DEF Spec

\* What a program sees of its memory, its gas and its logs is what the definition promises, for every set
\* of operands, every number of messages and every depth of calls.
THEOREM MemoryRefines == Spec => ProgramMemory
<1>1. Init => E!Init
  BY BeginsWell
<1>2. IInv /\ [Next]_vars => [E!Next]_E!abstract
  BY EveryStep, Stutters
<1> QED BY <1>1, <1>2, MemoryInvariant, PTL DEF Spec, ProgramMemory, E!Spec
=============================================================================
