--------------------------- MODULE CodeArenaProofs ---------------------------
(***************************************************************************)
(* The code arena stays packed and every account keeps its code, for any   *)
(* accounts, any codes and an arena of any size; and a rollback needs no   *)
(* memory.  Nothing here depends on what mark_jumpdests computes.          *)
(***************************************************************************)
EXTENDS CodeArena, Sums, SequenceTheorems

\* What the buffer's cells hold.
MapBytes == {mark_jumpdests(c)[i] : c \in Codes, i \in Nat}
Cell == Addr \cup Int \cup MapBytes

\* The accounts with code, when held is what each holds.
Own(held) == {a \in Addr : held[a] # <<>>}

\* The record of a with code c behind the first k cells.
Holds(cells, k, a, c) ==
  /\ k + needed(c) <= Len(cells)
  /\ \A i \in 1..needed(c) : cells[k + i] = record(a, c, <<>>)[i]

\* The records tile the buffer: off is where each begins.
Layout(cells, off, held) ==
  /\ cells \in Seq(Cell) /\ off \in [Addr -> Nat] /\ held \in [Addr -> Codes]
  /\ \A a \in Own(held) : Holds(cells, off[a], a, held[a])
  /\ \A k \in 1..Len(cells) : \E a \in Own(held) : off[a] < k /\ k <= off[a] + needed(held[a])
  /\ \A a, b \in Own(held) :
       a # b => off[a] + needed(held[a]) <= off[b] \/ off[b] + needed(held[b]) <= off[a]

-----------------------------------------------------------------------------
(* Records *)

LEMMA CodeFacts ==
  ASSUME NEW c \in Codes
  PROVE  /\ c \in Seq(Int) /\ Len(c) \in Nat /\ (c # <<>> => Len(c) >= 1)
         /\ jumpdest_map_len(Len(c)) \in Nat
         /\ record_len(Len(c)) = 2 + Len(c) + jumpdest_map_len(Len(c))
         /\ needed(c) \in Nat /\ (c # <<>> => needed(c) >= 3)
         /\ needed(c) = IF c = <<>> THEN 0 ELSE record_len(Len(c))
<1>1. c \in Seq(0..255)
  BY CellAssumption
<1>2. c \in Seq(Int) /\ Len(c) \in Nat /\ (c # <<>> => Len(c) >= 1)
  <2>1. \A i \in 1..Len(c) : c[i] \in Int
    <3>1. \A x \in 0..255 : x \in Int
      OBVIOUS
    <3>2. PICK Byte : Byte = 0..255
      OBVIOUS
    <3>3. c \in Seq(Byte)
      BY <1>1, <3>2
    <3>4. \A i \in 1..Len(c) : c[i] \in Byte
      BY <3>3
    <3> QED BY <3>1, <3>2, <3>4, Zenon
  <2>2. c = [i \in 1..Len(c) |-> c[i]] /\ Len(c) \in Nat
    BY <1>1
  <2>3. c \in Seq(Int)
    BY <2>1, <2>2
  <2>4. Len(c) = 0 => c = <<>>
    BY <1>1, EmptySeq
  <2> QED BY <2>2, <2>3, <2>4
<1>3. PICK n \in Nat : n = Len(c)
  BY <1>2
<1>4. jumpdest_map_len(n) \in Nat /\ record_len(n) = 2 + n + jumpdest_map_len(n)
      /\ record_len(n) \in Nat
  BY DEF jumpdest_map_len, record_len
<1> QED BY <1>2, <1>3, <1>4 DEF needed

LEMMA Joined ==
  ASSUME NEW S, NEW s \in Seq(S), NEW t \in Seq(S), NEW n \in Nat, NEW m \in Nat,
         Len(s) = n, Len(t) = m, NEW joined, joined = s \o t
  PROVE  /\ joined \in Seq(S) /\ Len(joined) = n + m
         /\ \A i \in 1..n : joined[i] = s[i]
         /\ \A i \in n + 1..n + m : joined[i] = t[i - n]
OBVIOUS

LEMMA RecordIs ==
  ASSUME NEW a \in Addr, NEW c \in Codes, c # <<>>, NEW old
  PROVE  /\ record(a, c, old) \in Seq(Cell) /\ Len(record(a, c, old)) = needed(c)
         /\ record(a, c, old)[1] = a /\ record(a, c, old)[2] = Len(c)
         /\ \A i \in 1..Len(c) : record(a, c, old)[2 + i] = c[i]
         /\ \A i \in 1..jumpdest_map_len(Len(c)) :
              record(a, c, old)[2 + Len(c) + i] = mark_jumpdests(c)[i]
<1>1. PICK n \in Nat, m \in Nat : n = Len(c) /\ m = jumpdest_map_len(Len(c))
                                  /\ needed(c) = 2 + n + m
  BY CodeFacts
<1>2. PICK map : map = mark_jumpdests(c)
  OBVIOUS
<1>3. map \in Seq(Cell) /\ Len(map) = m
  <2>1. DOMAIN map = 1..m /\ map = [i \in 1..m |-> map[i]]
    BY <1>1, <1>2 DEF mark_jumpdests
  <2>2. \A i \in 1..m : map[i] \in Cell
    BY <1>2 DEF Cell, MapBytes
  <2> QED BY <2>1, <2>2
<1>4. c \in Seq(Cell)
  <2>1. c \in Seq(Int) /\ Int \subseteq Cell
    BY CodeFacts DEF Cell
  <2> QED BY <2>1
<1>5. PICK header \in Seq(Cell) : header = <<a, n>> /\ Len(header) = 2
                                  /\ header[1] = a /\ header[2] = n
  <2>1. <<a, n>> \in Seq(Cell)
    BY DEF Cell
  <2> QED BY <2>1
<1>6. PICK front : front = header \o c
  OBVIOUS
<1>7. /\ front \in Seq(Cell) /\ Len(front) = 2 + n
      /\ \A i \in 1..2 : front[i] = header[i]
      /\ \A i \in 3..2 + n : front[i] = c[i - 2]
  BY <1>1, <1>4, <1>5, <1>6
<1>8. PICK rec : rec = front \o map
  OBVIOUS
<1>9. /\ rec \in Seq(Cell) /\ Len(rec) = 2 + n + m
      /\ \A i \in 1..2 + n : rec[i] = front[i]
      /\ \A i \in 2 + n + 1..2 + n + m : rec[i] = map[i - (2 + n)]
  <2>1. PICK q \in Nat : q = 2 + n
    OBVIOUS
  <2>2. Len(front) = q
    BY <1>7, <2>1
  <2>3. /\ rec \in Seq(Cell) /\ Len(rec) = q + m
        /\ \A i \in 1..q : rec[i] = front[i]
        /\ \A i \in q + 1..q + m : rec[i] = map[i - q]
    <3>1. q \in Nat /\ m \in Nat /\ front \in Seq(Cell) /\ map \in Seq(Cell) /\ Len(map) = m
      BY <1>3, <1>7
    <3>2. rec \in Seq(Cell)
      BY <1>8, <3>1
    <3>3. Len(rec) = Len(front) + Len(map)
      BY <1>8, <3>1, ConcatProperties, Zenon
    <3>6. Len(rec) = q + m
      BY <2>2, <3>1, <3>3, Zenon
    <3>4. \A i \in 1..q : rec[i] = front[i]
      BY <1>8, <2>2, <3>1
    <3>5. \A i \in q + 1..q + m : rec[i] = map[i - q]
      BY <1>8, <2>2, <3>1
    <3> QED BY <3>2, <3>4, <3>5, <3>6
  <2> QED BY <2>1, <2>3
<1>10. record(a, c, old) = rec
  BY <1>1, <1>2, <1>5, <1>6, <1>8 DEF record
<1>11. rec[1] = a /\ rec[2] = n
  BY <1>5, <1>7, <1>9
<1>12. \A i \in 1..n : rec[2 + i] = c[i]
  <2> TAKE i \in 1..n
  <2>1. 2 + i \in 1..2 + n /\ 2 + i \in 3..2 + n /\ 2 + i - 2 = i
    OBVIOUS
  <2> QED BY <1>7, <1>9, <2>1
<1>13. \A i \in 1..m : rec[2 + n + i] = map[i]
  <2> TAKE i \in 1..m
  <2>1. 2 + n + i \in 2 + n + 1..2 + n + m /\ 2 + n + i - (2 + n) = i
    OBVIOUS
  <2> QED BY <1>9, <2>1
<1> QED BY <1>1, <1>2, <1>9, <1>10, <1>11, <1>12, <1>13

\* A sequence with a stretch taken out.
Cut(s, p, m) == SubSeq(s, 1, p) \o SubSeq(s, p + m + 1, Len(s))

CutOf(s, p, m, cut) ==
  /\ Len(cut) = Len(s) - m
  /\ \A i \in 1..p : cut[i] = s[i]
  /\ \A i \in p + 1..Len(s) - m : cut[i] = s[i + m]

LEMMA CutIs ==
  ASSUME NEW S, NEW s \in Seq(S), NEW p \in Nat, NEW m \in Nat, p + m <= Len(s)
  PROVE  Cut(s, p, m) \in Seq(S) /\ CutOf(s, p, m, Cut(s, p, m))
<1>1. PICK n \in Nat : n = Len(s)
  OBVIOUS
<1>2. PICK x : x = SubSeq(s, 1, p)
  OBVIOUS
<1>3. PICK y : y = SubSeq(s, p + m + 1, n)
  OBVIOUS
<1>4. x \in Seq(S) /\ Len(x) = p /\ \A i \in 1..p : x[i] = s[i]
  BY <1>1, <1>2
<1>5. y \in Seq(S) /\ Len(y) = n - p - m /\ \A i \in 1..n - p - m : y[i] = s[p + m + i]
  <2>1. y \in Seq(S) /\ Len(y) = IF p + m + 1 <= n THEN n - (p + m + 1) + 1 ELSE 0
    BY <1>1, <1>3
  <2>2. \A i \in 1..n - p - m : y[i] = s[p + m + 1 + i - 1]
    BY <1>1, <1>3
  <2> QED BY <1>1, <2>1, <2>2
<1>6. PICK z : z = x \o y
  OBVIOUS
<1>7. /\ z \in Seq(S) /\ Len(z) = n - m /\ (\A i \in 1..p : z[i] = x[i])
      /\ \A i \in p + 1..n - m : z[i] = y[i - p]
  BY <1>1, <1>4, <1>5, <1>6
<1>8. \A i \in p + 1..n - m : y[i - p] = s[i + m]
  <2> TAKE i \in p + 1..n - m
  <2>1. i - p \in 1..n - p - m /\ p + m + (i - p) = i + m
    BY <1>1
  <2> QED BY <1>5, <2>1
<1>9. Cut(s, p, m) = z
  BY <1>1, <1>2, <1>3, <1>6 DEF Cut
<1>10. CutOf(s, p, m, z)
  BY <1>1, <1>4, <1>7, <1>8 DEF CutOf
<1> QED BY <1>7, <1>9, <1>10

\* The code and the map of a record behind the first k cells.
Body(cells, k, c) ==
  /\ \A i \in 1..Len(c) : cells[k + 2 + i] = c[i]
  /\ \A i \in 1..jumpdest_map_len(Len(c)) : cells[k + 2 + Len(c) + i] = mark_jumpdests(c)[i]

LEMMA HeldRecord ==
  ASSUME NEW S, NEW cells \in Seq(S), NEW k \in Nat, NEW a \in Addr, NEW c \in Codes, c # <<>>,
         Holds(cells, k, a, c)
  PROVE  /\ cells[k + 1] = a /\ cells[k + 2] = Len(c) /\ Body(cells, k, c)
         /\ k + needed(c) <= Len(cells) /\ behind(cells, k) = k + needed(c)
<1>1. PICK n \in Nat, m \in Nat : n = Len(c) /\ m = jumpdest_map_len(Len(c))
                                  /\ needed(c) = 2 + n + m /\ record_len(n) = 2 + n + m
  BY CodeFacts
<1>2. PICK rec : rec = record(a, c, <<>>)
  OBVIOUS
<1>3. /\ rec[1] = a /\ rec[2] = n /\ \A i \in 1..n : rec[2 + i] = c[i]
      /\ \A i \in 1..m : rec[2 + n + i] = mark_jumpdests(c)[i]
  BY <1>1, <1>2, RecordIs
<1>4. \A i \in 1..2 + n + m : cells[k + i] = rec[i]
  BY <1>1, <1>2 DEF Holds
<1>5. k + needed(c) <= Len(cells) /\ k + (2 + n + m) <= Len(cells)
  BY <1>1 DEF Holds
<1>6. cells[k + 1] = a /\ cells[k + 2] = n
  <2>1. 1 \in 1..2 + n + m /\ 2 \in 1..2 + n + m
    OBVIOUS
  <2> QED BY <1>3, <1>4, <2>1
<1>7. ASSUME NEW i \in 1..n PROVE cells[k + 2 + i] = c[i]
  <2>1. 2 + i \in 1..2 + n + m /\ k + (2 + i) = k + 2 + i
    OBVIOUS
  <2> QED BY <1>3, <1>4, <2>1
<1>8. ASSUME NEW i \in 1..m PROVE cells[k + 2 + n + i] = mark_jumpdests(c)[i]
  <2>1. 2 + n + i \in 1..2 + n + m /\ k + (2 + n + i) = k + 2 + n + i
    OBVIOUS
  <2>2. cells[k + (2 + n + i)] = rec[2 + n + i]
    BY <1>4, <2>1
  <2> QED BY <1>3, <2>1, <2>2
<1>9. behind(cells, k) = k + needed(c)
  <2>1. PICK l \in Nat : l = Len(cells)
    OBVIOUS
  <2>2. k < l
    BY <1>5, <2>1
  <2> QED BY <1>1, <1>6, <2>1, <2>2 DEF behind
<1> QED BY <1>1, <1>5, <1>6, <1>7, <1>8, <1>9 DEF Body

LEMMA LayoutFacts ==
  ASSUME NEW cells, NEW off, NEW held, Layout(cells, off, held)
  PROVE  /\ cells \in Seq(Cell) /\ Len(cells) \in Nat
         /\ \A a \in Own(held) :
              /\ a \in Addr /\ held[a] \in Codes /\ held[a] # <<>> /\ off[a] \in Nat
              /\ needed(held[a]) \in Nat /\ needed(held[a]) >= 3
              /\ off[a] + needed(held[a]) <= Len(cells)
              /\ cells[off[a] + 1] = a /\ behind(cells, off[a]) = off[a] + needed(held[a])
<1>1. cells \in Seq(Cell) /\ Len(cells) \in Nat
  BY DEF Layout
<1>2. ASSUME NEW a \in Own(held)
      PROVE  a \in Addr /\ held[a] \in Codes /\ held[a] # <<>> /\ off[a] \in Nat
             /\ Holds(cells, off[a], a, held[a])
  BY DEF Layout, Own
<1>3. ASSUME NEW a \in Own(held)
      PROVE  needed(held[a]) \in Nat /\ needed(held[a]) >= 3
  BY <1>2, CodeFacts
<1>4. ASSUME NEW a \in Own(held)
      PROVE  /\ off[a] + needed(held[a]) <= Len(cells) /\ cells[off[a] + 1] = a
             /\ behind(cells, off[a]) = off[a] + needed(held[a])
  <2>1. PICK k \in Nat, c \in Codes : k = off[a] /\ c = held[a] /\ c # <<>> /\ Holds(cells, k, a, c)
    BY <1>2
  <2> QED BY <1>1, <1>2, <2>1, HeldRecord
<1> QED BY <1>1, <1>2, <1>3, <1>4

\* The layout, with what is known of each record's place.
Apart(off, held, k) ==
  \A a \in Own(held) : off[a] + needed(held[a]) <= k \/ k <= off[a]

LEMMA Boundary ==
  ASSUME NEW cells, NEW off, NEW held, Layout(cells, off, held),
         NEW k \in Nat, k < Len(cells), Apart(off, held, k)
  PROVE  \E a \in Own(held) : off[a] = k
<1>1. k + 1 \in 1..Len(cells)
  BY LayoutFacts
<1>2. PICK a \in Own(held) : off[a] < k + 1 /\ k + 1 <= off[a] + needed(held[a])
  BY <1>1 DEF Layout
<1>3. off[a] \in Nat /\ needed(held[a]) \in Nat
  BY LayoutFacts
<1>4. off[a] = k
  BY <1>2, <1>3 DEF Apart
<1> QED BY <1>4

LEMMA BehindIsApart ==
  ASSUME NEW cells, NEW off, NEW held, Layout(cells, off, held), NEW a \in Own(held)
  PROVE  /\ Apart(off, held, off[a] + needed(held[a]))
         /\ \A b \in Own(held) :
              off[b] < off[a] + needed(held[a]) => b = a \/ off[b] < off[a]
<1>1. \A b \in Own(held) : off[b] \in Nat /\ needed(held[b]) \in Nat /\ needed(held[b]) >= 3
  BY LayoutFacts
<1>2. \A b \in Own(held) : a # b => \/ off[a] + needed(held[a]) <= off[b]
                                    \/ off[b] + needed(held[b]) <= off[a]
  BY DEF Layout
<1>3. ASSUME NEW b \in Own(held)
      PROVE  /\ \/ off[b] + needed(held[b]) <= off[a] + needed(held[a])
                \/ off[a] + needed(held[a]) <= off[b]
             /\ off[b] < off[a] + needed(held[a]) => b = a \/ off[b] < off[a]
  BY <1>1, <1>2
<1> QED BY <1>3 DEF Apart

-----------------------------------------------------------------------------
(* The walk over the moved records *)

Walked(cells, start, n, f) ==
  f = [i \in 0..n |-> IF i = 0 THEN start ELSE behind(cells, f[i - 1])]

LEMMA WalkExists ==
  ASSUME NEW cells, NEW start, NEW n \in Nat
  PROVE  \E f : Walked(cells, start, n, f)
<1> DEFINE T == {m \in Nat : ~\E f : Walked(cells, start, m, f)}
<1> SUFFICES ASSUME T # {} PROVE FALSE
  OBVIOUS
<1>1. PICK m \in T : \A l \in T : m <= l
  <2>1. T \in SUBSET Nat
    OBVIOUS
  <2> HIDE DEF T
  <2> QED BY <2>1, LeastNat
<1>2. CASE m = 0
  <2> DEFINE f == [i \in 0..0 |-> start]
  <2>1. Walked(cells, start, 0, f)
    BY DEF Walked
  <2> QED BY <1>1, <1>2, <2>1
<1>3. CASE m # 0
  <2>1. m \in Nat /\ m - 1 \in Nat /\ m - 1 \notin T
    BY <1>1, <1>3
  <2>2. PICK g : Walked(cells, start, m - 1, g)
    BY <2>1
  <2> DEFINE f == [i \in 0..m |-> IF i = m THEN behind(cells, g[m - 1]) ELSE g[i]]
  <2>3. \A i \in 0..m - 1 : g[i] = IF i = 0 THEN start ELSE behind(cells, g[i - 1])
    BY <2>2 DEF Walked
  <2>4. \A i \in 0..m - 1 : f[i] = g[i]
    BY <2>1
  <2>5. ASSUME NEW i \in 0..m
        PROVE  f[i] = IF i = 0 THEN start ELSE behind(cells, f[i - 1])
    <3>1. CASE i = m
      <4>1. f[i] = behind(cells, g[m - 1]) /\ m - 1 \in 0..m - 1
        BY <2>1, <3>1
      <4>2. f[i - 1] = g[m - 1]
        BY <2>4, <3>1, <4>1
      <4> HIDE DEF f
      <4> QED BY <1>3, <3>1, <4>1, <4>2
    <3>2. CASE i # m
      <4>1. i \in 0..m - 1 /\ (i # 0 => i - 1 \in 0..m - 1)
        BY <2>1, <3>2
      <4> HIDE DEF f
      <4> QED BY <2>3, <2>4, <4>1
    <3> QED BY <3>1, <3>2
  <2>6. f = [i \in 0..m |-> f[i]]
    OBVIOUS
  <2>7. Walked(cells, start, m, f)
    <3> HIDE DEF f
    <3> QED BY <2>5, <2>6 DEF Walked
  <2> QED BY <1>1, <2>7
<1> QED BY <1>2, <1>3

LEMMA WalkIs ==
  ASSUME NEW cells, NEW start, Len(cells) \in Nat
  PROVE  Walked(cells, start, Len(cells), walk(cells, start))
<1>1. \E f : Walked(cells, start, Len(cells), f)
  BY WalkExists
<1> DEFINE f == CHOOSE g : Walked(cells, start, Len(cells), g)
<1>2. Walked(cells, start, Len(cells), f)
  BY <1>1
<1>3. walk(cells, start) = f
  BY DEF walk, Walked
<1> QED BY <1>2, <1>3

\* The walk from a boundary stops at every record behind it, and nowhere else.
LEMMA MovedIs ==
  ASSUME NEW cells, NEW off, NEW held, Layout(cells, off, held),
         NEW start \in Nat, start <= Len(cells), Apart(off, held, start)
  PROVE  moved(cells, start) = {off[b] : b \in {a \in Own(held) : start <= off[a]}}
<1>1. PICK N \in Nat : N = Len(cells)
  BY LayoutFacts
<1>2. PICK cursor : cursor = walk(cells, start)
  OBVIOUS
<1>3. \A i \in 0..N : cursor[i] = IF i = 0 THEN start ELSE behind(cells, cursor[i - 1])
  BY <1>1, <1>2, WalkIs DEF Walked
<1>4. \A b \in Own(held) : /\ off[b] \in Nat /\ needed(held[b]) \in Nat /\ needed(held[b]) >= 3
                           /\ off[b] + needed(held[b]) <= N
                           /\ behind(cells, off[b]) = off[b] + needed(held[b])
  BY <1>1, LayoutFacts
<1> DEFINE Good(i) ==
      /\ cursor[i] \in Nat /\ start <= cursor[i] /\ cursor[i] <= N
      /\ cursor[i] >= start + i \/ cursor[i] = N
      /\ Apart(off, held, cursor[i])
      /\ \A b \in Own(held) : start <= off[b] /\ off[b] < cursor[i]
                                => \E j \in 0..i : cursor[j] = off[b]
<1>5. Good(0)
  <2>1. 0 \in 0..N
    OBVIOUS
  <2>2. cursor[0] = start
    BY <1>3, <2>1
  <2> QED BY <1>1, <1>4, <2>2
<1>6. ASSUME NEW i \in Nat, i + 1 <= N, Good(i)
      PROVE  Good(i + 1)
  <2>1. cursor[i + 1] = behind(cells, cursor[i])
    <3>1. i + 1 \in 0..N /\ i + 1 # 0 /\ i + 1 - 1 = i
      BY <1>6
    <3> QED BY <1>3, <3>1
  <2>2. CASE cursor[i] = N
    <3>1. cursor[i + 1] = N
      BY <1>1, <2>1, <2>2 DEF behind
    <3> QED BY <1>6, <2>2, <3>1
  <2>3. CASE cursor[i] # N
    <3>1. cursor[i] \in Nat /\ cursor[i] < Len(cells) /\ Apart(off, held, cursor[i])
      BY <1>1, <1>6, <2>3
    <3>2. PICK a \in Own(held) : off[a] = cursor[i]
      BY <3>1, Boundary
    <3>3. cursor[i + 1] = off[a] + needed(held[a])
      BY <1>4, <2>1, <3>2
    <3>4. Apart(off, held, cursor[i + 1])
      BY <3>3, BehindIsApart
    <3>5. ASSUME NEW b \in Own(held), start <= off[b], off[b] < cursor[i + 1]
          PROVE  \E j \in 0..i + 1 : cursor[j] = off[b]
      <4>1. b = a \/ off[b] < off[a]
        BY <3>3, <3>5, BehindIsApart
      <4>2. CASE b = a
        <5>1. i \in 0..i + 1
          OBVIOUS
        <5> QED BY <3>2, <4>2, <5>1
      <4>3. CASE off[b] < off[a]
        <5>1. PICK j \in 0..i : cursor[j] = off[b]
          BY <1>6, <3>2, <3>5, <4>3
        <5>2. j \in 0..i + 1
          OBVIOUS
        <5> QED BY <5>1, <5>2
      <4> QED BY <4>1, <4>2, <4>3
    <3>6. /\ cursor[i + 1] \in Nat /\ start <= cursor[i + 1] /\ cursor[i + 1] <= N
          /\ cursor[i + 1] >= start + (i + 1)
      BY <1>4, <1>6, <2>3, <3>2, <3>3
    <3> QED BY <3>4, <3>5, <3>6
  <2> QED BY <2>2, <2>3
<1>7. \A i \in 0..N : Good(i)
  <2> DEFINE T == {i \in 0..N : ~Good(i)}
  <2> SUFFICES ASSUME T # {} PROVE FALSE
    OBVIOUS
  <2> HIDE DEF Good
  <2>1. PICK m \in T : \A l \in T : m <= l
    <3>1. T \in SUBSET Nat
      OBVIOUS
    <3> HIDE DEF T
    <3> QED BY <3>1, LeastNat
  <2>2. m # 0
    BY <1>5, <2>1
  <2>3. m - 1 \in Nat /\ m - 1 + 1 = m /\ m - 1 \in 0..N /\ m <= N
    BY <2>1, <2>2
  <2>4. Good(m - 1)
    BY <2>1, <2>3
  <2>5. Good(m - 1 + 1)
    BY <1>6, <2>3, <2>4
  <2> QED BY <2>1, <2>3, <2>5
<1>8. cursor[N] = N
  <2>1. Good(N)
    BY <1>7
  <2> QED BY <2>1
<1>9. ASSUME NEW b \in Own(held), start <= off[b]
      PROVE  off[b] \in moved(cells, start)
  <2>1. off[b] < N
    BY <1>4
  <2>2. Good(N)
    BY <1>7
  <2>3. PICK j \in 0..N : cursor[j] = off[b]
    BY <1>8, <1>9, <2>1, <2>2
  <2> HIDE DEF Good
  <2> QED BY <1>1, <1>2, <2>1, <2>3 DEF moved
<1>10. ASSUME NEW k \in moved(cells, start)
       PROVE  \E b \in Own(held) : start <= off[b] /\ off[b] = k
  <2>1. PICK j \in 0..N : k = cursor[j] /\ cursor[j] < N
    BY <1>1, <1>2 DEF moved
  <2>2. Good(j)
    BY <1>7
  <2>3. PICK b \in Own(held) : off[b] = cursor[j]
    BY <1>1, <2>1, <2>2, Boundary
  <2> QED BY <2>1, <2>2, <2>3
<1> HIDE DEF Good
<1> QED BY <1>9, <1>10

-----------------------------------------------------------------------------
(* Taking a record out, and putting one at the end *)

LEMMA LayoutAgrees ==
  ASSUME NEW cells, NEW off, NEW held, Layout(cells, off, held),
         NEW places \in [Addr -> Nat], \A a \in Own(held) : places[a] = off[a]
  PROVE  Layout(cells, places, held)
<1>1. \A a \in Own(held) : Holds(cells, places[a], a, held[a])
  BY DEF Layout
<1>2. \A k \in 1..Len(cells) :
        \E a \in Own(held) : places[a] < k /\ k <= places[a] + needed(held[a])
  BY DEF Layout
<1>3. \A a, b \in Own(held) :
        a # b => \/ places[a] + needed(held[a]) <= places[b]
                 \/ places[b] + needed(held[b]) <= places[a]
  BY DEF Layout
<1> QED BY <1>1, <1>2, <1>3 DEF Layout

\* Where the records are once one is taken out.
Shifted(off, p, m) == [b \in Addr |-> IF off[b] >= p + m THEN off[b] - m ELSE off[b]]
Without(held, a) == [held EXCEPT ![a] = <<>>]

LEMMA OwnWithout ==
  ASSUME NEW held \in [Addr -> Codes], NEW a \in Addr
  PROVE  /\ Without(held, a) \in [Addr -> Codes]
         /\ Own(Without(held, a)) = Own(held) \ {a}
         /\ \A b \in Addr : b # a => Without(held, a)[b] = held[b]
         /\ Without(held, a)[a] = <<>>
<1>1. PICK empty : empty = <<>> /\ empty \in Codes
  BY CellAssumption
<1> QED BY <1>1 DEF Without, Own

LEMMA CutLayout ==
  ASSUME NEW cells, NEW off, NEW held, Layout(cells, off, held), NEW a \in Own(held),
         NEW p, NEW m, p = off[a], m = needed(held[a])
  PROVE  /\ Layout(Cut(cells, p, m), Shifted(off, p, m), Without(held, a))
         /\ Apart(Shifted(off, p, m), Without(held, a), p)
         /\ p \in Nat /\ m \in Nat /\ p + m <= Len(cells)
         /\ Len(Cut(cells, p, m)) = Len(cells) - m
         /\ \A b \in Own(Without(held, a)) : Shifted(off, p, m)[b] < p => Shifted(off, p, m)[b] = off[b]
<1>1. /\ cells \in Seq(Cell) /\ Len(cells) \in Nat
      /\ \A b \in Own(held) :
           /\ off[b] \in Nat /\ needed(held[b]) \in Nat /\ needed(held[b]) >= 3
           /\ off[b] + needed(held[b]) <= Len(cells)
  BY LayoutFacts
<1>2. p \in Nat /\ m \in Nat /\ m >= 3 /\ p + m <= Len(cells)
  BY <1>1
<1>3. PICK cut : cut = Cut(cells, p, m) /\ cut \in Seq(Cell) /\ CutOf(cells, p, m, cut)
  BY <1>1, <1>2, CutIs
<1>4. /\ cut = Cut(cells, p, m) /\ cut \in Seq(Cell) /\ Len(cut) = Len(cells) - m
      /\ \A i \in 1..p : cut[i] = cells[i]
      /\ \A i \in p + 1..Len(cells) - m : cut[i] = cells[i + m]
  BY <1>3 DEF CutOf
<1>5. PICK rest : rest = Without(held, a)
  OBVIOUS
<1>6. /\ rest \in [Addr -> Codes] /\ Own(rest) = Own(held) \ {a}
      /\ \A b \in Own(rest) : rest[b] = held[b] /\ b \in Own(held) /\ b \in Addr /\ b # a
  <2>1. held \in [Addr -> Codes] /\ a \in Addr /\ Own(held) \subseteq Addr
    BY DEF Layout, Own
  <2> QED BY <1>5, <2>1, OwnWithout
<1>7. PICK places : places = Shifted(off, p, m)
  OBVIOUS
<1>8. \A b \in Addr : places[b] = IF off[b] >= p + m THEN off[b] - m ELSE off[b]
  BY <1>7 DEF Shifted
<1>9. ASSUME NEW b \in Own(rest)
      PROVE  \/ off[b] + needed(held[b]) <= p /\ places[b] = off[b]
             \/ p + m <= off[b] /\ places[b] = off[b] - m
  <2>1. off[b] + needed(held[b]) <= p \/ p + m <= off[b]
    BY <1>6 DEF Layout
  <2> QED BY <1>1, <1>2, <1>6, <1>8, <2>1
<1>10. places \in [Addr -> Nat]
  <2>1. PICK some \in [Addr -> Nat] : some = off
    BY DEF Layout
  <2>2. ASSUME NEW b \in Addr PROVE places[b] \in Nat
    BY <1>2, <1>8, <2>1
  <2> QED BY <1>7, <2>2 DEF Shifted
<1>11. ASSUME NEW b \in Own(rest)
       PROVE  Holds(cut, places[b], b, rest[b])
  <2>1. PICK c \in Codes, o \in Nat, k \in Nat, n \in Nat :
          c = held[b] /\ o = off[b] /\ k = places[b] /\ n = needed(c)
    <3>1. held[b] \in Codes
      BY <1>6
    <3> QED BY <1>1, <1>6, <1>10, <3>1
  <2>2. PICK rec : rec = record(b, c, <<>>)
    OBVIOUS
  <2>3. o + n <= Len(cells) /\ \A i \in 1..n : cells[o + i] = rec[i]
    BY <1>6, <2>1, <2>2 DEF Layout, Holds
  <2>4. \/ o + n <= p /\ k = o
        \/ p + m <= o /\ k = o - m
    BY <1>9, <2>1
  <2>5. k + n <= Len(cut)
    BY <1>1, <1>2, <1>4, <2>3, <2>4
  <2>6. ASSUME NEW i \in 1..n
        PROVE  cut[k + i] = rec[i]
    <3>1. CASE o + n <= p /\ k = o
      <4>1. k + i \in 1..p
        BY <1>2, <3>1
      <4> QED BY <1>4, <2>3, <3>1, <4>1
    <3>2. CASE p + m <= o /\ k = o - m
      <4>0. PICK l \in Nat : l = Len(cells)
        BY <1>1
      <4>1. k + i \in p + 1..Len(cells) - m /\ k + i + m = o + i
        <5>1. o + n <= l /\ p + m <= o /\ k = o - m /\ p \in Nat /\ m \in Nat
          BY <1>2, <2>3, <3>2, <4>0
        <5>2. k + i \in p + 1..l - m /\ k + i + m = o + i
          BY <5>1
        <5> QED BY <4>0, <5>2
      <4> QED BY <1>4, <2>3, <4>1
    <3> QED BY <2>4, <3>1, <3>2
  <2>7. Holds(cut, k, b, c)
    BY <2>1, <2>2, <2>5, <2>6 DEF Holds
  <2> QED BY <1>6, <2>1, <2>7
<1>12. ASSUME NEW k \in 1..Len(cut)
       PROVE  \E b \in Own(rest) : places[b] < k /\ k <= places[b] + needed(rest[b])
  <2>1. k \in Nat /\ 1 <= k /\ k <= Len(cells) - m
    BY <1>1, <1>2, <1>4
  <2>2. PICK o \in Nat : o = IF k <= p THEN k ELSE k + m
    BY <1>2, <2>1
  <2>3. o \in 1..Len(cells)
    BY <1>1, <1>2, <2>1, <2>2
  <2>4. PICK b \in Own(held) : off[b] < o /\ o <= off[b] + needed(held[b])
    BY <2>3 DEF Layout
  <2>5. b # a
    BY <1>2, <2>1, <2>2, <2>4
  <2>6. b \in Own(rest) /\ rest[b] = held[b]
    BY <1>6, <2>5
  <2>7. off[b] \in Nat /\ needed(held[b]) \in Nat
    BY <1>1
  <2>8. places[b] < k /\ k <= places[b] + needed(held[b])
    <3>1. PICK x \in Nat, y \in Nat : x = off[b] /\ y = needed(held[b])
      BY <2>7
    <3>2. x < o /\ o <= x + y
      BY <2>4, <3>1
    <3>3. \/ x + y <= p /\ places[b] = x
          \/ p + m <= x /\ places[b] = x - m
      BY <1>9, <2>6, <3>1
    <3>4. CASE x + y <= p /\ places[b] = x
      <4>1. o = k
        BY <1>2, <2>1, <2>2, <3>2, <3>4
      <4> QED BY <3>1, <3>2, <3>4, <4>1
    <3>5. CASE p + m <= x /\ places[b] = x - m
      <4>1. o = k + m
        BY <1>2, <2>1, <2>2, <3>2, <3>5
      <4>2. x - m < k /\ k <= x - m + y
        BY <1>2, <2>1, <3>2, <4>1
      <4> QED BY <3>1, <3>5, <4>2
    <3> QED BY <3>3, <3>4, <3>5
  <2> QED BY <2>6, <2>8
<1>13. ASSUME NEW b \in Own(rest), NEW d \in Own(rest), b # d
       PROVE  \/ places[b] + needed(rest[b]) <= places[d]
              \/ places[d] + needed(rest[d]) <= places[b]
  <2>1. \/ off[b] + needed(held[b]) <= off[d]
        \/ off[d] + needed(held[d]) <= off[b]
    BY <1>6, <1>13 DEF Layout
  <2>2. /\ off[b] \in Nat /\ off[d] \in Nat /\ needed(held[b]) \in Nat /\ needed(held[d]) \in Nat
        /\ needed(held[b]) >= 3 /\ needed(held[d]) >= 3
        /\ rest[b] = held[b] /\ rest[d] = held[d]
    BY <1>1, <1>6
  <2>3. /\ \/ off[b] + needed(held[b]) <= p /\ places[b] = off[b]
           \/ p + m <= off[b] /\ places[b] = off[b] - m
        /\ \/ off[d] + needed(held[d]) <= p /\ places[d] = off[d]
           \/ p + m <= off[d] /\ places[d] = off[d] - m
    BY <1>9
  <2>4. PICK x \in Nat, y \in Nat, u \in Nat, v \in Nat :
          x = off[b] /\ u = needed(held[b]) /\ y = off[d] /\ v = needed(held[d])
    BY <2>2
  <2>5. /\ x + u <= y \/ y + v <= x
        /\ u >= 3 /\ v >= 3
        /\ (x + u <= p /\ places[b] = x) \/ (p + m <= x /\ places[b] = x - m)
        /\ (y + v <= p /\ places[d] = y) \/ (p + m <= y /\ places[d] = y - m)
    BY <2>1, <2>2, <2>3, <2>4
  <2>6. places[b] + u <= places[d] \/ places[d] + v <= places[b]
    <3>1. CASE x + u <= p /\ places[b] = x /\ y + v <= p /\ places[d] = y
      BY <2>5, <3>1
    <3>2. CASE x + u <= p /\ places[b] = x /\ p + m <= y /\ places[d] = y - m
      BY <1>2, <3>2
    <3>3. CASE p + m <= x /\ places[b] = x - m /\ y + v <= p /\ places[d] = y
      BY <1>2, <3>3
    <3>4. CASE p + m <= x /\ places[b] = x - m /\ p + m <= y /\ places[d] = y - m
      BY <1>2, <2>5, <3>4
    <3> QED BY <2>5, <3>1, <3>2, <3>3, <3>4
  <2> QED BY <2>2, <2>4, <2>6
<1>14. Layout(cut, places, rest)
  BY <1>4, <1>6, <1>10, <1>11, <1>12, <1>13 DEF Layout
<1>15. Apart(places, rest, p)
  <2>1. ASSUME NEW b \in Own(rest)
        PROVE  places[b] + needed(rest[b]) <= p \/ p <= places[b]
    <3>1. off[b] \in Nat /\ needed(held[b]) \in Nat /\ rest[b] = held[b]
      BY <1>1, <1>6
    <3> QED BY <1>2, <1>9, <3>1
  <2> QED BY <2>1 DEF Apart
<1>16. \A b \in Own(rest) : places[b] < p => places[b] = off[b]
  BY <1>1, <1>2, <1>6, <1>9
<1> QED BY <1>2, <1>4, <1>5, <1>7, <1>14, <1>15, <1>16

\* A record is put at the end of the buffer.
Puts(cells, off, held, a, c, put, places, now) ==
  /\ Layout(cells, off, held) /\ a \in Addr /\ a \notin Own(held) /\ c \in Codes /\ c # <<>>
  /\ put = cells \o record(a, c, <<>>)
  /\ places \in [Addr -> Nat] /\ places[a] = Len(cells)
  /\ \A b \in Own(held) : places[b] = off[b]
  /\ now \in [Addr -> Codes] /\ now[a] = c /\ \A b \in Addr : b # a => now[b] = held[b]

LEMMA PutLayout ==
  ASSUME NEW cells, NEW off, NEW held, NEW a, NEW c, NEW put, NEW places, NEW now,
         Puts(cells, off, held, a, c, put, places, now)
  PROVE  /\ Layout(put, places, now)
         /\ Len(put) = Len(cells) + needed(c)
<1>0. /\ Layout(cells, off, held) /\ a \in Addr /\ a \notin Own(held) /\ c \in Codes /\ c # <<>>
      /\ places \in [Addr -> Nat] /\ places[a] = Len(cells)
      /\ \A b \in Own(held) : places[b] = off[b]
      /\ now \in [Addr -> Codes] /\ now[a] = c /\ \A b \in Addr : b # a => now[b] = held[b]
  BY DEF Puts
<1>3. PICK rec : rec = record(a, c, <<>>) /\ put = cells \o rec
  BY DEF Puts
<1>1. /\ cells \in Seq(Cell)
      /\ \A b \in Own(held) :
           /\ b \in Addr /\ off[b] \in Nat /\ needed(held[b]) \in Nat /\ needed(held[b]) >= 3
           /\ off[b] + needed(held[b]) <= Len(cells)
  BY <1>0, LayoutFacts
<1>2. PICK l \in Nat, n \in Nat :
        l = Len(cells) /\ n = needed(c) /\ Len(rec) = n /\ n >= 3 /\ rec \in Seq(Cell)
  BY <1>0, <1>1, <1>3, CodeFacts, RecordIs
<1>4. /\ put \in Seq(Cell) /\ Len(put) = l + n
      /\ \A i \in 1..l : put[i] = cells[i]
      /\ \A i \in l + 1..l + n : put[i] = rec[i - l]
  <2>2. put \in Seq(Cell) /\ Len(put) = Len(cells) + Len(rec)
    <3>1. /\ cells \o rec \in Seq(Cell)
          /\ Len(cells \o rec) = Len(cells) + Len(rec)
      BY <1>1, <1>2, ConcatProperties
    <3> QED BY <1>3, <3>1
  <2>3. \A i \in 1..l : put[i] = cells[i]
    BY <1>1, <1>2, <1>3
  <2>4. \A i \in l + 1..l + n : put[i] = rec[i - l]
    BY <1>1, <1>2, <1>3
  <2> QED BY <1>2, <2>2, <2>3, <2>4
<1>7. /\ places \in [Addr -> Nat] /\ now \in [Addr -> Codes]
      /\ places[a] = l /\ now[a] = c /\ Own(now) = Own(held) \cup {a}
      /\ \A b \in Own(held) : places[b] = off[b] /\ now[b] = held[b]
  BY <1>0, <1>1, <1>2 DEF Own
<1>8. ASSUME NEW b \in Own(now)
      PROVE  Holds(put, places[b], b, now[b])
  <2>1. CASE b = a
    <3>1. ASSUME NEW i \in 1..n PROVE put[l + i] = rec[i]
      <4>1. l + i \in l + 1..l + n /\ l + i - l = i
        OBVIOUS
      <4> QED BY <1>4, <4>1
    <3>2. Holds(put, l, a, c)
      BY <1>2, <1>3, <1>4, <3>1 DEF Holds
    <3> QED BY <1>7, <2>1, <3>2
  <2>2. CASE b # a
    <3>1. b \in Own(held) /\ places[b] = off[b] /\ now[b] = held[b]
      BY <1>7, <2>2
    <3>2. PICK k \in Nat, m \in Nat : k = off[b] /\ m = needed(held[b]) /\ k + m <= l
      BY <1>1, <1>2, <3>1
    <3>3. \A i \in 1..m : cells[k + i] = record(b, held[b], <<>>)[i]
      BY <1>0, <3>1, <3>2 DEF Layout, Holds
    <3>4. \A i \in 1..m : put[k + i] = cells[k + i]
      <4> TAKE i \in 1..m
      <4>1. k + i \in 1..l
        BY <3>2
      <4> QED BY <1>4, <4>1
    <3>5. k + m <= Len(put)
      BY <1>4, <3>2
    <3> QED BY <3>1, <3>2, <3>3, <3>4, <3>5 DEF Holds
  <2> QED BY <2>1, <2>2
<1>9. ASSUME NEW k \in 1..Len(put)
      PROVE  \E b \in Own(now) : places[b] < k /\ k <= places[b] + needed(now[b])
  <2>1. CASE k <= l
    <3>1. k \in 1..Len(cells)
      BY <1>2, <2>1
    <3>2. PICK b \in Own(held) : off[b] < k /\ k <= off[b] + needed(held[b])
      BY <1>0, <3>1 DEF Layout
    <3> QED BY <1>7, <3>2
  <2>2. CASE l < k
    <3>1. a \in Own(now) /\ places[a] < k /\ k <= places[a] + needed(now[a])
      BY <1>2, <1>4, <1>7, <2>2
    <3> QED BY <3>1
  <2> QED BY <2>1, <2>2
<1>10. ASSUME NEW b \in Own(now), NEW d \in Own(now), b # d
       PROVE  \/ places[b] + needed(now[b]) <= places[d]
              \/ places[d] + needed(now[d]) <= places[b]
  <2>1. CASE b # a /\ d # a
    <3>1. b \in Own(held) /\ d \in Own(held)
      BY <1>7, <2>1
    <3>2. \/ off[b] + needed(held[b]) <= off[d]
          \/ off[d] + needed(held[d]) <= off[b]
      BY <1>0, <1>10, <3>1 DEF Layout
    <3> QED BY <1>7, <3>1, <3>2
  <2>2. CASE b = a
    BY <1>1, <1>2, <1>7, <1>10, <2>2
  <2>3. CASE d = a
    BY <1>1, <1>2, <1>7, <1>10, <2>3
  <2> QED BY <2>1, <2>2, <2>3
<1>11. Layout(put, places, now)
  BY <1>4, <1>7, <1>8, <1>9, <1>10 DEF Layout
<1> QED BY <1>2, <1>4, <1>11

-----------------------------------------------------------------------------
(* The accounts and the buffer *)

Acct == [found : BOOLEAN, offset : Nat, len : Nat]
Offsets(acc) == [a \in Addr |-> acc[a].offset]
Sizes(held) == [a \in Addr |-> needed(held[a])]

\* The accounts and the buffer when held is what each account holds.
Keeps(acc, cells, held) ==
  /\ acc \in [Addr -> Acct] /\ Layout(cells, Offsets(acc), held)
  /\ \A a \in Addr : acc[a].len = Len(held[a]) /\ (held[a] # <<>> => acc[a].found)

LEMMA KeepsFacts ==
  ASSUME NEW held, Keeps(accounts, arena, held), NEW a \in Addr
  PROVE  /\ accounts[a] \in Acct /\ accounts[a].found \in BOOLEAN
         /\ accounts[a].offset \in Nat /\ accounts[a].len \in Nat
         /\ held \in [Addr -> Codes] /\ held[a] \in Codes /\ accounts[a].len = Len(held[a])
         /\ (held[a] # <<>> => accounts[a].found)
         /\ (accounts[a].len = 0 <=> held[a] = <<>>) /\ (a \in Own(held) <=> held[a] # <<>>)
         /\ removed(a) = needed(held[a]) /\ removed(a) \in Nat /\ (removed(a) = 0 <=> held[a] = <<>>)
         /\ Offsets(accounts)[a] = accounts[a].offset
<1>1. /\ accounts[a] \in Acct /\ accounts[a].len = Len(held[a])
      /\ (held[a] # <<>> => accounts[a].found)
      /\ held \in [Addr -> Codes] /\ held[a] \in Codes
  BY DEF Keeps, Layout
<1>2. accounts[a].found \in BOOLEAN /\ accounts[a].offset \in Nat /\ accounts[a].len \in Nat
  BY <1>1 DEF Acct
<1>3. accounts[a].len = 0 <=> held[a] = <<>>
  <2>1. held[a] # <<>> => Len(held[a]) >= 1
    BY <1>1, CodeFacts
  <2>2. Len(<<>>) = 0
    OBVIOUS
  <2> QED BY <1>1, <1>2, <2>1, <2>2
<1>4. removed(a) = needed(held[a])
  BY <1>1, <1>3 DEF removed, needed
<1>5. needed(held[a]) \in Nat /\ (needed(held[a]) = 0 <=> held[a] = <<>>)
  <2>1. /\ needed(held[a]) \in Nat /\ (held[a] # <<>> => needed(held[a]) >= 3)
        /\ needed(held[a]) = IF held[a] = <<>> THEN 0 ELSE record_len(Len(held[a]))
    BY <1>1, CodeFacts
  <2> QED BY <2>1
<1>6. a \in Own(held) <=> held[a] # <<>>
  BY DEF Own
<1> QED BY <1>1, <1>2, <1>3, <1>4, <1>5, <1>6 DEF Offsets

\* An account runs what it holds, with that code's jump destinations.
LEMMA RunsWhatItHolds ==
  ASSUME NEW held, Keeps(accounts, arena, held), NEW a \in Addr
  PROVE  /\ code(a) = held[a] /\ program_jumpdests(a) = mark_jumpdests(held[a])
         /\ held[a] # <<>> => slice(accounts[a].offset, 2) = <<a, accounts[a].len>>
<1>1. PICK n \in Nat, m \in Nat, k \in Nat, c \in Codes :
        /\ n = accounts[a].len /\ n = Len(c) /\ m = jumpdest_map_len(n)
        /\ k = accounts[a].offset /\ c = held[a] /\ (n = 0 <=> c = <<>>)
  <2>1. held[a] \in Codes /\ accounts[a].len \in Nat /\ accounts[a].offset \in Nat
        /\ accounts[a].len = Len(held[a]) /\ (accounts[a].len = 0 <=> held[a] = <<>>)
    BY KeepsFacts
  <2>2. jumpdest_map_len(accounts[a].len) \in Nat
    BY <2>1, CodeFacts
  <2> QED BY <2>1, <2>2
<1>2. c \in Seq(Int) /\ c = [i \in 1..n |-> c[i]] /\ needed(c) \in Nat
      /\ (n # 0 => needed(c) = 2 + n + m)
  <2>1. /\ c \in Seq(Int)
        /\ needed(c) = IF c = <<>> THEN 0 ELSE record_len(Len(c))
        /\ record_len(Len(c)) = 2 + Len(c) + jumpdest_map_len(Len(c))
        /\ needed(c) \in Nat
    BY CodeFacts
  <2> QED BY <1>1, <2>1
<1>3. mark_jumpdests(c) = [i \in 1..m |-> mark_jumpdests(c)[i]]
  BY <1>1 DEF mark_jumpdests
<1>4. arena \in Seq(Cell) /\ Len(arena) \in Nat
  BY LayoutFacts DEF Keeps
<1>5. CASE n = 0
  <2>1. m = 0
    <3>1. (0 + 7) \div 8 = 0
      OBVIOUS
    <3> QED BY <1>1, <1>5, <3>1 DEF jumpdest_map_len
  <2>2. code(a) = [i \in 1..n |-> IF 0 + i <= Len(arena) THEN arena[0 + i] ELSE -1]
    BY <1>1, <1>5 DEF code, slice
  <2>3. code(a) = c
    BY <1>2, <1>5, <2>2
  <2>4. program_jumpdests(a) = [i \in 1..m |-> IF 0 + n + i <= Len(arena) THEN arena[0 + n + i] ELSE -1]
    BY <1>1, <1>5 DEF program_jumpdests, slice
  <2>5. program_jumpdests(a) = mark_jumpdests(c)
    BY <1>3, <2>1, <2>4
  <2> QED BY <1>1, <1>5, <2>3, <2>5
<1>6. CASE n # 0
  <2>1. Holds(arena, k, a, c) /\ c # <<>>
    <3>1. a \in Own(held) /\ Offsets(accounts)[a] = k
      BY <1>1, <1>6, KeepsFacts
    <3> QED BY <1>1, <1>6, <3>1 DEF Keeps, Layout
  <2>2. /\ arena[k + 1] = a /\ arena[k + 2] = n
        /\ \A i \in 1..n : arena[k + 2 + i] = c[i]
        /\ \A i \in 1..m : arena[k + 2 + n + i] = mark_jumpdests(c)[i]
        /\ k + (2 + n + m) <= Len(arena)
    <3>1. /\ arena[k + 1] = a /\ arena[k + 2] = Len(c)
          /\ Body(arena, k, c) /\ k + needed(c) <= Len(arena)
      BY <1>4, <2>1, HeldRecord
    <3> QED BY <1>1, <1>2, <1>6, <3>1 DEF Body
  <2>3. PICK l \in Nat : l = Len(arena)
    BY <1>4
  <2>4. code(a) = [i \in 1..n |-> IF k + 2 + i <= l THEN arena[k + 2 + i] ELSE -1]
    BY <1>1, <1>6, <2>3 DEF code, slice
  <2>5. \A i \in 1..n : k + 2 + i <= l
    BY <2>2, <2>3
  <2>6. code(a) = [i \in 1..n |-> c[i]]
    BY <2>2, <2>4, <2>5
  <2>7. program_jumpdests(a) =
          [i \in 1..m |-> IF k + 2 + n + i <= l THEN arena[k + 2 + n + i] ELSE -1]
    BY <1>1, <1>6, <2>3 DEF program_jumpdests, slice
  <2>8. \A i \in 1..m : k + 2 + n + i <= l
    BY <2>2, <2>3
  <2>9. program_jumpdests(a) = [i \in 1..m |-> mark_jumpdests(c)[i]]
    BY <2>2, <2>7, <2>8
  <2>10. slice(accounts[a].offset, 2) = <<a, accounts[a].len>>
    <3>1. slice(k, 2) = [i \in 1..2 |-> IF k + i <= l THEN arena[k + i] ELSE -1]
      BY <2>3 DEF slice
    <3>2. k + 1 <= l /\ k + 2 <= l
      BY <2>2, <2>3
    <3>3. PICK x : x = [i \in 1..2 |-> IF k + i <= l THEN arena[k + i] ELSE -1]
      OBVIOUS
    <3>4. x[1] = a /\ x[2] = n /\ x = [i \in 1..2 |-> x[i]]
      BY <2>2, <3>2, <3>3
    <3>5. x = <<a, n>>
      BY <3>4
    <3> QED BY <1>1, <3>1, <3>3, <3>5
  <2> QED BY <1>1, <1>2, <1>3, <2>6, <2>9, <2>10
<1> QED BY <1>5, <1>6

\* The accounts and the buffer with a's record taken out.
BaseOf(a) == IF removed(a) = 0 THEN accounts ELSE relocated(a)
CellsOf(a) == IF removed(a) = 0 THEN arena ELSE compacted(a)
At(cells, start, b) == {k \in moved(cells, start) : cells[k + 1] = b}

LEMMA TakenOut ==
  ASSUME NEW held, Keeps(accounts, arena, held), NEW a \in Addr
  PROVE  /\ BaseOf(a) \in [Addr -> Acct]
         /\ \A b \in Addr : /\ BaseOf(a)[b].found = accounts[b].found
                            /\ BaseOf(a)[b].len = accounts[b].len
         /\ Layout(CellsOf(a), Offsets(BaseOf(a)), Without(held, a))
         /\ Len(CellsOf(a)) = retained(a) /\ retained(a) \in Nat
         /\ Len(arena) = retained(a) + needed(held[a])
<1>1. Layout(arena, Offsets(accounts), held) /\ accounts \in [Addr -> Acct]
      /\ held \in [Addr -> Codes]
  BY DEF Keeps, Layout
<1>2. removed(a) = needed(held[a]) /\ removed(a) \in Nat /\ (removed(a) = 0 <=> held[a] = <<>>)
  BY KeepsFacts
<1>3. arena \in Seq(Cell) /\ Len(arena) \in Nat
  BY <1>1, LayoutFacts
<1>4. CASE removed(a) = 0
  <2>1. BaseOf(a) = accounts /\ CellsOf(a) = arena
    BY <1>4 DEF BaseOf, CellsOf
  <2>2. Without(held, a) = held
    BY <1>1, <1>2, <1>4 DEF Without
  <2>3. retained(a) = Len(arena)
    BY <1>3, <1>4 DEF retained
  <2> QED BY <1>1, <1>2, <1>3, <1>4, <2>1, <2>2, <2>3
<1>5. CASE removed(a) # 0
  <2>1. PICK p, m, off : p = off[a] /\ m = needed(held[a]) /\ off = Offsets(accounts)
    OBVIOUS
  <2>2. a \in Own(held) /\ p = accounts[a].offset
    BY <1>2, <1>5, <2>1, KeepsFacts DEF Own
  <2>3. PICK cells : cells = Cut(arena, p, m)
    OBVIOUS
  <2>4. PICK places : places = Shifted(off, p, m)
    OBVIOUS
  <2>5. PICK rest : rest = Without(held, a)
    OBVIOUS
  <2>6. /\ Layout(cells, places, rest) /\ Apart(places, rest, p)
        /\ p \in Nat /\ m \in Nat /\ p + m <= Len(arena) /\ Len(cells) = Len(arena) - m
        /\ \A b \in Own(rest) : places[b] < p => places[b] = off[b]
    <3>1. Layout(arena, off, held)
      BY <1>1, <2>1
    <3> QED BY <2>1, <2>2, <2>3, <2>4, <2>5, <3>1, CutLayout
  <2>7. compacted(a) = cells
    BY <1>2, <2>1, <2>2, <2>3 DEF compacted, Cut
  <2>8. moved(cells, p) = {places[b] : b \in {d \in Own(rest) : p <= places[d]}}
    <3>1. p <= Len(cells)
      BY <1>3, <2>6
    <3> QED BY <2>6, <3>1, MovedIs
  <2>9. \A b \in Own(rest) : b \in Addr /\ places[b] \in Nat /\ cells[places[b] + 1] = b
    BY <2>6, LayoutFacts
  <2>10. PICK base : base = relocated(a)
    OBVIOUS
  <2>11. \A b \in Addr :
           base[b] = IF At(cells, p, b) = {} THEN accounts[b]
                     ELSE [accounts[b] EXCEPT !.offset = CHOOSE k \in At(cells, p, b) : TRUE]
    BY <2>2, <2>7, <2>10 DEF relocated, At
  <2>12. ASSUME NEW b \in Addr
         PROVE  /\ At(cells, p, b) \subseteq Nat
                /\ b \in Own(rest) /\ p <= places[b] => At(cells, p, b) = {places[b]}
                /\ b \in Own(rest) /\ places[b] < p => At(cells, p, b) = {}
    <3>1. \A k \in At(cells, p, b) :
            \E d \in Own(rest) : k = places[d] /\ p <= places[d] /\ cells[k + 1] = b
      BY <2>8 DEF At
    <3>2. \A k \in At(cells, p, b) : k \in Nat /\ b \in Own(rest) /\ k = places[b] /\ p <= places[b]
      BY <2>9, <3>1
    <3>3. b \in Own(rest) /\ p <= places[b] => places[b] \in At(cells, p, b)
      BY <2>8, <2>9 DEF At
    <3>4. b \in Own(rest) /\ places[b] < p => ~(p <= places[b])
      BY <2>6, <2>9
    <3> QED BY <3>2, <3>3, <3>4
  <2>13. ASSUME NEW b \in Addr
         PROVE  /\ base[b] \in Acct /\ base[b].found = accounts[b].found
                /\ base[b].len = accounts[b].len
                /\ b \in Own(rest) => base[b].offset = places[b]
    <3>1. accounts[b] \in Acct /\ off[b] = accounts[b].offset
      BY <1>1, <2>1 DEF Offsets
    <3>2. CASE At(cells, p, b) = {}
      <4>1. base[b] = accounts[b]
        BY <2>11, <3>2
      <4>2. b \in Own(rest) => places[b] < p
        <5> SUFFICES ASSUME b \in Own(rest), ~(places[b] < p) PROVE FALSE
          OBVIOUS
        <5>1. p <= places[b]
          BY <2>6, <2>9
        <5>2. At(cells, p, b) = {places[b]}
          BY <2>12, <5>1
        <5> QED BY <3>2, <5>2
      <4>3. b \in Own(rest) => places[b] = off[b]
        BY <2>6, <4>2
      <4> QED BY <3>1, <4>1, <4>3
    <3>3. CASE At(cells, p, b) # {}
      <4>1. PICK k \in Nat : k = (CHOOSE q \in At(cells, p, b) : TRUE) /\ k \in At(cells, p, b)
        BY <2>12, <3>3
      <4>2. base[b] = [accounts[b] EXCEPT !.offset = k]
        BY <2>11, <3>3, <4>1
      <4>3. b \in Own(rest) => k = places[b]
        BY <2>6, <2>9, <2>12, <3>3, <4>1
      <4>4. /\ [accounts[b] EXCEPT !.offset = k] \in Acct
            /\ [accounts[b] EXCEPT !.offset = k].offset = k
            /\ [accounts[b] EXCEPT !.offset = k].found = accounts[b].found
            /\ [accounts[b] EXCEPT !.offset = k].len = accounts[b].len
        BY <3>1 DEF Acct
      <4> QED BY <4>2, <4>3, <4>4
    <3> QED BY <3>2, <3>3
  <2>14. base \in [Addr -> Acct]
    <3>1. base = [b \in Addr |-> base[b]]
      BY <2>10 DEF relocated
    <3> QED BY <2>13, <3>1
  <2>15. Layout(cells, Offsets(base), rest)
    <3>1. Offsets(base) \in [Addr -> Nat]
      BY <2>13 DEF Offsets, Acct
    <3>2. \A b \in Own(rest) : Offsets(base)[b] = places[b]
      BY <2>9, <2>13 DEF Offsets
    <3> QED BY <2>6, <3>1, <3>2, LayoutAgrees
  <2>16. BaseOf(a) = base /\ CellsOf(a) = cells
    BY <1>5, <2>7, <2>10 DEF BaseOf, CellsOf
  <2>17. retained(a) = Len(cells) /\ retained(a) \in Nat /\ Len(arena) = retained(a) + m
    BY <1>2, <1>3, <2>1, <2>6 DEF retained
  <2> QED BY <2>1, <2>5, <2>13, <2>14, <2>15, <2>16, <2>17
<1> QED BY <1>4, <1>5

-----------------------------------------------------------------------------
(* Writing a code *)

Live(held) == Sum(Sizes(held), Addr)
Holding(held, a, c) == [held EXCEPT ![a] = c]

LEMMA LiveFacts ==
  ASSUME NEW held \in [Addr -> Codes], NEW a \in Addr, NEW c \in Codes
  PROVE  /\ Holding(held, a, c) \in [Addr -> Codes] /\ Holding(held, a, c)[a] = c
         /\ \A b \in Addr : b # a => Holding(held, a, c)[b] = held[b]
         /\ Live(held) \in Nat /\ Live(Holding(held, a, c)) \in Nat
         /\ Live(Holding(held, a, c)) = Live(held) - needed(held[a]) + needed(c)
         /\ needed(c) \in Nat /\ needed(held[a]) \in Nat /\ needed(held[a]) <= Live(held)
<1>1. PICK now : now = Holding(held, a, c)
  OBVIOUS
<1>2. /\ now \in [Addr -> Codes] /\ now[a] = c
      /\ \A b \in Addr : b # a => now[b] = held[b]
  BY <1>1 DEF Holding
<1>3. \A d \in Codes : needed(d) \in Nat
  BY CodeFacts
<1>4. Sizes(held) \in [Addr -> Nat] /\ Sizes(now) \in [Addr -> Nat]
      /\ Sizes(held)[a] = needed(held[a]) /\ needed(held[a]) \in Nat /\ needed(c) \in Nat
  BY <1>2, <1>3 DEF Sizes
<1>5. Sizes(now)[a] = needed(c) /\ \A b \in Addr : b # a => Sizes(now)[b] = Sizes(held)[b]
  BY <1>2 DEF Sizes
<1>6. IsFiniteSet(Addr)
  BY SizeAssumption
<1>7. Live(held) \in Nat /\ Live(now) \in Nat /\ needed(held[a]) <= Live(held)
  BY <1>4, <1>6, SumNat, SumTerm DEF Live
<1>8. PICK f \in [Addr -> Nat], g \in [Addr -> Nat] : f = Sizes(held) /\ g = Sizes(now)
  BY <1>4
<1>9. Live(now) = Live(held) - needed(held[a]) + needed(c)
  <2>1. \A b \in Addr : b # a => g[b] = f[b]
    BY <1>5, <1>8
  <2>2. Sum(g, Addr) = Sum(f, Addr) - f[a] + g[a]
    BY <1>6, <2>1, SumChanged
  <2> QED BY <1>4, <1>5, <1>8, <2>2 DEF Live
<1> QED BY <1>1, <1>2, <1>4, <1>7, <1>9

\* What a write leaves.
Written(acc, cells, held, a, c) ==
  /\ Keeps(acc, cells, Holding(held, a, c)) /\ acc[a].found
  /\ Len(cells) = Live(Holding(held, a, c))
  /\ \A b \in Addr : b # a => acc[b].found = accounts[b].found

LEMMA WritesKeeps ==
  ASSUME NEW held, Keeps(accounts, arena, held), Len(arena) = Live(held),
         NEW a \in Addr, NEW c \in Codes, Writes(a, c)
  PROVE  /\ Written(accounts', arena', held, a, c) /\ status' = OK
         /\ retained(a) + needed(c) = Live(Holding(held, a, c))
<1>1. PICK base, cells, r, rest, now :
        /\ base = BaseOf(a) /\ cells = CellsOf(a) /\ r = retained(a)
        /\ rest = Without(held, a) /\ now = Holding(held, a, c)
  OBVIOUS
<1>2. /\ base \in [Addr -> Acct]
      /\ \A b \in Addr : base[b].found = accounts[b].found /\ base[b].len = accounts[b].len
      /\ Layout(cells, Offsets(base), rest)
      /\ Len(cells) = r /\ Len(arena) = r + needed(held[a]) /\ r \in Nat
  BY <1>1, TakenOut
<1>3. /\ held \in [Addr -> Codes]
      /\ \A b \in Addr : accounts[b].len = Len(held[b]) /\ (held[b] # <<>> => accounts[b].found)
  BY DEF Keeps, Layout
<1>4. /\ now \in [Addr -> Codes] /\ now[a] = c
      /\ \A b \in Addr : b # a => now[b] = held[b]
      /\ Live(held) \in Nat /\ Live(now) \in Nat
      /\ Live(now) = Live(held) - needed(held[a]) + needed(c)
      /\ needed(c) \in Nat /\ needed(held[a]) \in Nat
  BY <1>1, <1>3, LiveFacts
<1>5. r + needed(c) = Live(now)
  <2>1. PICK x \in Nat, y \in Nat, z \in Nat :
          x = Live(held) /\ y = needed(held[a]) /\ z = needed(c)
    BY <1>4
  <2>2. x = r + y /\ Live(now) = x - y + z /\ r \in Nat
    BY <1>2, <1>4, <2>1
  <2> QED BY <2>1, <2>2
<1>6. PICK own : own = [found |-> TRUE, offset |-> r, len |-> Len(c)]
  OBVIOUS
<1>7. own \in Acct /\ own.found /\ own.offset = r /\ own.len = Len(c)
  BY <1>2, <1>6, CodeFacts DEF Acct
<1>8. accounts' = [base EXCEPT ![a] = own] /\ status' = OK
      /\ arena' = IF c = <<>> THEN cells ELSE cells \o record(a, c, arena)
  BY <1>1, <1>6 DEF Writes, BaseOf, CellsOf
<1>9. PICK acc : acc = accounts' /\ acc = [base EXCEPT ![a] = own]
  BY <1>8
<1>10. acc \in [Addr -> Acct] /\ acc[a] = own /\ \A b \in Addr : b # a => acc[b] = base[b]
  BY <1>2, <1>7, <1>9
<1>11. \A b \in Addr : acc[b].len = Len(now[b]) /\ (now[b] # <<>> => acc[b].found)
  BY <1>2, <1>3, <1>4, <1>7, <1>10
<1>12. rest \in [Addr -> Codes] /\ Own(rest) = Own(held) \ {a} /\ Own(held) \subseteq Addr
  BY <1>1, <1>3, OwnWithout DEF Own
<1>13. Offsets(acc) \in [Addr -> Nat]
  BY <1>10 DEF Offsets, Acct
<1>14. Layout(arena', Offsets(acc), now) /\ Len(arena') = Live(now)
  <2>1. CASE c = <<>>
    <3>1. rest = now
      BY <1>1, <2>1 DEF Without, Holding
    <3>2. \A b \in Own(rest) : Offsets(acc)[b] = Offsets(base)[b]
      BY <1>10, <1>12 DEF Offsets
    <3>3. Layout(cells, Offsets(acc), rest)
      BY <1>2, <1>13, <3>2, LayoutAgrees
    <3>4. needed(c) = 0
      BY <2>1 DEF needed
    <3> QED BY <1>2, <1>5, <1>8, <2>1, <3>1, <3>3, <3>4
  <2>2. CASE c # <<>>
    <3>1. PICK put : put = cells \o record(a, c, arena)
      OBVIOUS
    <3>2. PICK off : off = Offsets(base)
      OBVIOUS
    <3>3. PICK places : places = Offsets(acc)
      OBVIOUS
    <3>4. /\ places \in [Addr -> Nat] /\ places[a] = Len(cells)
          /\ \A b \in Own(rest) : places[b] = off[b]
      BY <1>2, <1>7, <1>10, <1>12, <1>13, <3>2, <3>3 DEF Offsets
    <3>5. \A b \in Addr : b # a => now[b] = rest[b]
      BY <1>1, <1>3, <1>4, OwnWithout
    <3>6. Layout(put, places, now) /\ Len(put) = Len(cells) + needed(c)
      <4>1. a \notin Own(rest) /\ Layout(cells, off, rest)
        BY <1>2, <1>12, <3>2
      <4>2. put = cells \o record(a, c, <<>>)
        BY <3>1 DEF record
      <4>3. Puts(cells, off, rest, a, c, put, places, now)
        BY <1>4, <2>2, <3>4, <3>5, <4>1, <4>2 DEF Puts
      <4> QED BY <4>3, PutLayout
    <3>7. arena' = put
      BY <1>8, <2>2, <3>1
    <3> QED BY <1>2, <1>5, <3>3, <3>6, <3>7
  <2> QED BY <2>1, <2>2
<1>15. Keeps(acc, arena', now)
  BY <1>10, <1>11, <1>14 DEF Keeps
<1>16. Written(acc, arena', held, a, c)
  BY <1>1, <1>2, <1>7, <1>10, <1>14, <1>15 DEF Written
<1> QED BY <1>1, <1>5, <1>8, <1>9, <1>16

-----------------------------------------------------------------------------
(* What set_code does *)

\* Nothing, because it failed or there is nothing to remove.
Nothing(a, c) ==
  /\ UNCHANGED <<accounts, arena, capacity>>
  /\ status' # OK \/ (~accounts[a].found /\ c = <<>>)

\* Replaces a's code, in a buffer large enough for what is now live.
Replaces(held, a, c) ==
  /\ Written(accounts', arena', held, a, c) /\ status' = OK
  /\ c = <<>> => accounts[a].found
  /\ capacity' \in Nat /\ capacity <= capacity' /\ Live(Holding(held, a, c)) <= capacity'
  /\ c # <<>> => Live(Holding(held, a, c)) <= MaxArena

LEMMA SetCodeIs ==
  ASSUME NEW held, Keeps(accounts, arena, held), Len(arena) = Live(held), capacity \in Nat,
         NEW a \in Addr, NEW c \in Codes, set_code(a, c)
  PROVE  Nothing(a, c) \/ Replaces(held, a, c)
<1>1. CASE ~accounts[a].found /\ c = <<>>
  BY <1>1 DEF set_code, Nothing
<1>2. CASE ~(~accounts[a].found /\ c = <<>>)
  <2>1. CASE Fails
    BY <2>1 DEF Fails, Nothing, OK, ERR_HOST_ALLOCATION
  <2>2. CASE /\ c # <<>> => retained(a) + needed(c) <= MaxArena
             /\ Writes(a, c) /\ capacity' = grown(retained(a) + needed(c))
    <3>1. /\ Written(accounts', arena', held, a, c) /\ status' = OK
          /\ retained(a) + needed(c) = Live(Holding(held, a, c))
      BY <2>2, WritesKeeps
    <3>2. PICK live \in Nat : live = Live(Holding(held, a, c))
      <4>1. held \in [Addr -> Codes]
        BY DEF Keeps, Layout
      <4> QED BY <4>1, LiveFacts
    <3>3. capacity' = IF live > capacity THEN live ELSE capacity
      BY <2>2, <3>1, <3>2 DEF grown
    <3>4. capacity' \in Nat /\ capacity <= capacity' /\ live <= capacity'
      BY <3>3
    <3>5. c = <<>> => accounts[a].found
      BY <1>2
    <3> QED BY <2>2, <3>1, <3>2, <3>4, <3>5 DEF Replaces
  <2>3. \/ Fails
        \/ /\ c # <<>> => retained(a) + needed(c) <= MaxArena
           /\ Writes(a, c) /\ capacity' = grown(retained(a) + needed(c))
    BY <1>2 DEF set_code
  <2> QED BY <2>1, <2>2, <2>3
<1> QED BY <1>1, <1>2

\* Restoring what once fitted does not fail.
LEMMA RestoreIs ==
  ASSUME NEW held, Keeps(accounts, arena, held), Len(arena) = Live(held), capacity \in Nat,
         NEW a \in Addr, NEW c \in Codes, set_code(a, c), accounts[a].found,
         Live(Holding(held, a, c)) <= capacity, Live(Holding(held, a, c)) <= MaxArena
  PROVE  Replaces(held, a, c)
<1>1. retained(a) + needed(c) = Live(Holding(held, a, c)) /\ Live(Holding(held, a, c)) \in Nat
  <2>1. held \in [Addr -> Codes]
    BY DEF Keeps, Layout
  <2>2. PICK x \in Nat, y \in Nat, z \in Nat, now \in Nat, r \in Nat :
          /\ x = Live(held) /\ y = needed(held[a]) /\ z = needed(c)
          /\ now = Live(Holding(held, a, c)) /\ now = x - y + z
          /\ r = retained(a) /\ Len(arena) = r + y
    BY <2>1, LiveFacts, TakenOut
  <2> QED BY <2>2
<1>2. /\ ~(retained(a) + needed(c) > MaxArena) /\ ~(retained(a) + needed(c) > capacity)
  <2>1. MaxArena \in Nat
    BY SizeAssumption
  <2> QED BY <1>1, <2>1
<1>3. Writes(a, c)
  BY <1>2 DEF set_code
<1>4. status' = OK
  BY <1>3, WritesKeeps
<1>5. ~Nothing(a, c)
  BY <1>4 DEF Nothing
<1> QED BY <1>5, SetCodeIs

-----------------------------------------------------------------------------
(* The inductive invariant *)

Changes == Seq(Addr \X Codes \X BOOLEAN)

\* An account is there as long as a change has found it; one that was not had no code,
\* nor had an earlier change found it.
Found(acc, changes) ==
  /\ \A i \in 1..Len(changes) : IF changes[i][3] THEN acc[changes[i][1]].found
                                ELSE changes[i][2] = <<>>
  /\ \A j \in 1..Len(changes) : ~changes[j][3] =>
       \A i \in 1..Len(changes) : i < j /\ changes[i][1] = changes[j][1] => ~changes[i][3]

\* h[i] is what the accounts held when the first i changes of the transaction had
\* been made: every one of them fitted the buffer, and undoing leads back to it.
Past(acc, cells, cap, changes, h) ==
  /\ h \in [0..Len(changes) -> [Addr -> Codes]]
  /\ Keeps(acc, cells, h[Len(changes)]) /\ Len(cells) = Live(h[Len(changes)])
  /\ \A i \in 1..Len(changes) : h[i - 1] = Holding(h[i], changes[i][1], changes[i][2])
  /\ \A i \in 0..Len(changes) : Live(h[i]) <= cap /\ Live(h[i]) <= MaxArena
  /\ Found(acc, changes)

IInv ==
  /\ undo \in Changes /\ capacity \in Nat
  /\ \E h : Past(accounts, arena, capacity, undo, h)

LEMMA PastFacts ==
  ASSUME undo \in Changes, capacity \in Nat,
         NEW h, Past(accounts, arena, capacity, undo, h),
         NEW n, n = Len(undo), NEW held, held = h[n]
  PROVE  /\ n \in Nat /\ held \in [Addr -> Codes] /\ Live(held) \in Nat
         /\ Keeps(accounts, arena, held) /\ Len(arena) = Live(held)
         /\ Live(held) <= capacity /\ Live(held) <= MaxArena
<1>1. n \in Nat /\ n \in 0..n
  BY DEF Changes
<1>2. /\ held \in [Addr -> Codes] /\ Keeps(accounts, arena, held) /\ Len(arena) = Live(held)
      /\ Live(held) <= capacity /\ Live(held) <= MaxArena
  BY <1>1 DEF Past
<1>3. Len(arena) \in Nat
  BY <1>2, LayoutFacts DEF Keeps
<1> QED BY <1>1, <1>2, <1>3

\* Outside a transaction there is nothing to remember.
LEMMA Fresh ==
  ASSUME NEW acc, NEW cells, NEW cap, NEW held \in [Addr -> Codes],
         Keeps(acc, cells, held), Len(cells) = Live(held),
         Live(held) <= cap, Live(held) <= MaxArena
  PROVE  \E h : Past(acc, cells, cap, <<>>, h)
<1> DEFINE h == [i \in 0..0 |-> held]
<1>1. Len(<<>>) = 0
  OBVIOUS
<1>2. h \in [0..0 -> [Addr -> Codes]] /\ h[0] = held
  OBVIOUS
<1> HIDE DEF h
<1>3. \A i \in 0..0 : h[i] = held
  BY <1>2
<1>4. Found(acc, <<>>)
  BY <1>1 DEF Found
<1>5. Past(acc, cells, cap, <<>>, h)
  BY <1>1, <1>2, <1>3, <1>4 DEF Past
<1> QED BY <1>5

LEMMA InitInv == Init => IInv
<1> SUFFICES ASSUME Init PROVE IInv
  OBVIOUS
<1>1. PICK held : held = [a \in Addr |-> <<>>]
  OBVIOUS
<1>2. held \in [Addr -> Codes] /\ (\A a \in Addr : held[a] = <<>>) /\ Own(held) = {}
  BY <1>1, CellAssumption DEF Own
<1>3. Absent \in Acct /\ Absent.len = 0 /\ Absent.offset = 0 /\ Len(<<>>) = 0
  BY DEF Absent, Acct
<1>4. accounts \in [Addr -> Acct] /\ \A a \in Addr : accounts[a] = Absent
  BY <1>3 DEF Init
<1>5. Offsets(accounts) \in [Addr -> Nat]
  BY <1>3, <1>4 DEF Offsets
<1>6. arena = <<>> /\ arena \in Seq(Cell) /\ Len(arena) = 0 /\ 1..Len(arena) = {}
  BY DEF Init
<1>7. Layout(arena, Offsets(accounts), held)
  BY <1>2, <1>5, <1>6 DEF Layout
<1>8. Keeps(accounts, arena, held)
  BY <1>2, <1>3, <1>4, <1>7 DEF Keeps
<1>9. Live(held) = 0
  <2>1. \A a \in Addr : Sizes(held)[a] = 0
    BY <1>2 DEF Sizes, needed
  <2> QED BY <2>1, SizeAssumption, SumZero DEF Live
<1>10. capacity = 0 /\ undo = <<>> /\ undo \in Changes /\ MaxArena \in Nat
  BY SizeAssumption DEF Init, Changes
<1>11. Len(arena) = Live(held) /\ Live(held) <= capacity /\ Live(held) <= MaxArena
  BY <1>6, <1>9, <1>10
<1>12. \E h : Past(accounts, arena, capacity, <<>>, h)
  BY <1>2, <1>8, <1>11, Fresh
<1> QED BY <1>10, <1>12 DEF IInv

-----------------------------------------------------------------------------
(* Every step keeps the invariant and is one of the abstract store's *)

Moves(held, now) ==
  \/ now = held /\ \A b \in Addr : accounts'[b].found = accounts[b].found
  \/ \E a \in Addr :
       /\ \A b \in Addr : b # a => accounts'[b].found = accounts[b].found
       /\ \/ now = held /\ accounts'[a].found
          \/ now = Without(held, a) /\ ~accounts'[a].found
          \/ \E c \in Codes : /\ now = Holding(held, a, c) /\ accounts'[a].found
                              /\ c = <<>> => accounts[a].found

Good ==
  /\ IInv'
  /\ \E held, now : Keeps(accounts, arena, held) /\ Keeps(accounts', arena', now) /\ Moves(held, now)

LEMMA SameGood ==
  ASSUME IInv, UNCHANGED <<accounts, arena, capacity, undo>>
  PROVE  Good
<1>1. accounts' = accounts /\ arena' = arena /\ capacity' = capacity /\ undo' = undo
  OBVIOUS
<1>2. PICK h : Past(accounts, arena, capacity, undo, h)
  BY DEF IInv
<1>3. Past(accounts', arena', capacity', undo', h)
  BY <1>1, <1>2
<1>4. undo' \in Changes /\ capacity' \in Nat
  BY <1>1 DEF IInv
<1>5. IInv'
  BY <1>3, <1>4 DEF IInv
<1>6. PICK held : held = h[Len(undo)]
  OBVIOUS
<1>7. Keeps(accounts, arena, held)
  BY <1>2, <1>6 DEF Past
<1>8. Keeps(accounts', arena', held)
  BY <1>1, <1>7
<1>9. Moves(held, held)
  BY <1>1 DEF Moves
<1> QED BY <1>5, <1>7, <1>8, <1>9 DEF Good

LEMMA ReplacesMoves ==
  ASSUME NEW held, NEW a \in Addr, NEW c \in Codes, Replaces(held, a, c),
         NEW now, now = Holding(held, a, c)
  PROVE  /\ Keeps(accounts', arena', now) /\ Len(arena') = Live(now) /\ Moves(held, now)
         /\ accounts'[a].found /\ \A b \in Addr : accounts[b].found => accounts'[b].found
         /\ status' = OK /\ capacity' \in Nat /\ capacity <= capacity' /\ Live(now) <= capacity'
         /\ c # <<>> => Live(now) <= MaxArena
<1>1. /\ Keeps(accounts', arena', now) /\ Len(arena') = Live(now) /\ accounts'[a].found
      /\ \A b \in Addr : b # a => accounts'[b].found = accounts[b].found
      /\ c = <<>> => accounts[a].found
  BY DEF Replaces, Written
<1>2. Moves(held, now)
  BY <1>1, Zenon DEF Moves
<1>3. \A b \in Addr : accounts[b].found => accounts'[b].found
  BY <1>1, Zenon
<1> QED BY <1>1, <1>2, <1>3 DEF Replaces

\* What is live shrinks when a code is taken out.
LEMMA LiveShrinks ==
  ASSUME NEW held \in [Addr -> Codes], NEW a \in Addr, NEW c \in Codes, c = <<>>
  PROVE  Live(Holding(held, a, c)) <= Live(held)
<1>1. PICK x \in Nat, y \in Nat, z \in Nat :
        x = Live(held) /\ y = needed(held[a]) /\ z = needed(c)
        /\ Live(Holding(held, a, c)) = x - y + z
  BY LiveFacts
<1>2. z = 0
  BY <1>1 DEF needed
<1> QED BY <1>1, <1>2

LEMMA HostSetCodeGood ==
  ASSUME IInv, NEW a \in Addr, NEW c \in Codes, HostSetCode(a, c)
  PROVE  Good
<1>1. undo = <<>> /\ undo' = undo /\ set_code(a, c)
  BY DEF HostSetCode
<1>2. PICK h : Past(accounts, arena, capacity, undo, h)
  BY DEF IInv
<1>3. PICK n, held : n = Len(undo) /\ held = h[n]
  OBVIOUS
<1>4. undo \in Changes /\ capacity \in Nat
  BY DEF IInv
<1>5. /\ held \in [Addr -> Codes] /\ Live(held) \in Nat
      /\ Keeps(accounts, arena, held) /\ Len(arena) = Live(held)
      /\ Live(held) <= capacity /\ Live(held) <= MaxArena
  BY <1>2, <1>3, <1>4, PastFacts
<1>6. CASE Nothing(a, c)
  <2>1. UNCHANGED <<accounts, arena, capacity, undo>>
    BY <1>1, <1>6 DEF Nothing
  <2> QED BY <2>1, SameGood
<1>7. CASE Replaces(held, a, c)
  <2>1. PICK now : now = Holding(held, a, c)
    OBVIOUS
  <2>2. now \in [Addr -> Codes] /\ Live(now) \in Nat
    BY <1>5, <2>1, LiveFacts
  <2>3. /\ Keeps(accounts', arena', now) /\ Len(arena') = Live(now) /\ Moves(held, now)
        /\ capacity' \in Nat /\ Live(now) <= capacity'
        /\ c # <<>> => Live(now) <= MaxArena
    BY <1>7, <2>1, ReplacesMoves
  <2>4. Live(now) <= MaxArena
    <3>1. CASE c = <<>>
      <4>1. Live(now) <= Live(held) /\ MaxArena \in Nat
        BY <1>5, <2>1, <3>1, LiveShrinks, SizeAssumption
      <4> QED BY <1>5, <2>2, <4>1
    <3> QED BY <2>3, <3>1
  <2>5. \E g : Past(accounts', arena', capacity', <<>>, g)
    BY <2>2, <2>3, <2>4, Fresh
  <2>6. IInv'
    BY <1>1, <1>4, <2>3, <2>5 DEF IInv
  <2> QED BY <1>5, <2>3, <2>6 DEF Good
<1> QED BY <1>1, <1>4, <1>5, <1>6, <1>7, SetCodeIs

-----------------------------------------------------------------------------
(* One change more, one change less *)

\* What a change leaves there stays there, and what it finds its predecessors found.
LEMMA FoundGrows ==
  ASSUME undo \in Changes, NEW n \in Nat, n = Len(undo), Found(accounts, undo),
         NEW a \in Addr, NEW old \in Codes, NEW was \in BOOLEAN,
         was <=> accounts[a].found, ~was => old = <<>>,
         NEW acc, \A b \in Addr : accounts[b].found => acc[b].found,
         NEW u \in Changes, Len(u) = n + 1, u[n + 1] = <<a, old, was>>,
         \A i \in 1..n : u[i] = undo[i]
  PROVE  Found(acc, u)
<1>1. ASSUME NEW i \in 1..n + 1
      PROVE  IF u[i][3] THEN acc[u[i][1]].found ELSE u[i][2] = <<>>
  <2>1. CASE i = n + 1
    <3>1. u[i][1] = a /\ u[i][2] = old /\ u[i][3] = was
      BY <2>1
    <3> QED BY <3>1
  <2>2. CASE i # n + 1
    <3>1. i \in 1..n /\ u[i] = undo[i] /\ undo[i][1] \in Addr
      BY <2>2 DEF Changes
    <3>2. IF undo[i][3] THEN accounts[undo[i][1]].found ELSE undo[i][2] = <<>>
      BY <3>1 DEF Found
    <3> QED BY <3>1, <3>2
  <2> QED BY <2>1, <2>2
<1>2. ASSUME NEW i \in 1..n + 1, NEW j \in 1..n + 1, ~u[j][3], i < j, u[i][1] = u[j][1]
      PROVE  ~u[i][3]
  <2>1. i \in 1..n /\ u[i] = undo[i] /\ undo[i][1] \in Addr
    BY <1>2 DEF Changes
  <2>2. CASE j = n + 1
    <3>1. u[j][1] = a /\ u[j][3] = was
      BY <2>2
    <3>2. undo[i][1] = a /\ ~accounts[a].found
      BY <1>2, <2>1, <3>1
    <3>3. IF undo[i][3] THEN accounts[undo[i][1]].found ELSE undo[i][2] = <<>>
      BY <2>1 DEF Found
    <3> QED BY <2>1, <3>2, <3>3
  <2>3. CASE j # n + 1
    <3>1. j \in 1..n /\ u[j] = undo[j]
      BY <2>3
    <3>2. ~undo[j][3] /\ undo[i][1] = undo[j][1]
      BY <1>2, <2>1, <3>1
    <3> QED BY <1>2, <2>1, <3>1, <3>2 DEF Found
  <2> QED BY <2>2, <2>3
<1> QED BY <1>1, <1>2 DEF Found

\* A change made is one more that leads back.
LEMMA PastGrows ==
  ASSUME IInv, NEW h, Past(accounts, arena, capacity, undo, h), NEW held, held = h[Len(undo)],
         NEW a \in Addr, NEW c \in Codes, NEW now, now = Holding(held, a, c),
         Keeps(accounts', arena', now), Len(arena') = Live(now),
         \A b \in Addr : accounts[b].found => accounts'[b].found,
         capacity' \in Nat, capacity <= capacity', Live(now) <= capacity', Live(now) <= MaxArena,
         undo' = Append(undo, change(a))
  PROVE  IInv'
<1>1. PICK n : n = Len(undo) /\ held = h[n]
  OBVIOUS
<1>2. undo \in Changes /\ capacity \in Nat /\ n \in Nat
  BY <1>1 DEF IInv, Changes
<1>3. held \in [Addr -> Codes] /\ Keeps(accounts, arena, held)
  BY <1>1, <1>2, PastFacts
<1>4. now \in [Addr -> Codes] /\ Live(now) \in Nat
  BY <1>3, LiveFacts
<1>5. PICK old \in Codes : old = held[a]
  BY <1>3
<1>6. PICK was \in BOOLEAN : was <=> accounts[a].found
  OBVIOUS
<1>7. accounts \in [Addr -> Acct] /\ accounts[a].found \in BOOLEAN /\ (~was => old = <<>>)
  BY <1>3, <1>5, <1>6 DEF Keeps, Acct
<1>8. was = accounts[a].found
  BY <1>6, <1>7
<1>9. undo' = Append(undo, <<a, old, was>>)
  BY <1>3, <1>5, <1>8, RunsWhatItHolds DEF change
<1>10. PICK u : u = Append(undo, <<a, old, was>>)
  OBVIOUS
<1>11. /\ u \in Changes /\ Len(u) = n + 1 /\ u[n + 1] = <<a, old, was>>
       /\ \A i \in 1..n : u[i] = undo[i]
  BY <1>1, <1>2, <1>10 DEF Changes
<1>12. held = Holding(now, a, old)
  BY <1>3, <1>5 DEF Holding
<1> DEFINE g == [i \in 0..n + 1 |-> IF i = n + 1 THEN now ELSE h[i]]
<1>13. g[n + 1] = now /\ \A i \in 0..n : g[i] = h[i]
  BY <1>2
<1>14. h \in [0..n -> [Addr -> Codes]]
  BY <1>1 DEF Past
<1>15. g \in [0..n + 1 -> [Addr -> Codes]]
  <2>1. \A i \in 0..n + 1 : i # n + 1 => i \in 0..n
    BY <1>2
  <2> QED BY <1>4, <1>14, <2>1
<1> HIDE DEF g
<1>16. ASSUME NEW i \in 1..n + 1
       PROVE  g[i - 1] = Holding(g[i], u[i][1], u[i][2])
  <2>1. CASE i = n + 1
    <3>1. u[i][1] = a /\ u[i][2] = old /\ i - 1 = n /\ n \in 0..n
      BY <1>2, <1>11, <2>1
    <3>2. g[i - 1] = held /\ g[i] = now
      BY <1>1, <1>13, <2>1, <3>1
    <3> QED BY <1>12, <3>1, <3>2
  <2>2. CASE i # n + 1
    <3>1. i \in 1..n /\ i \in 0..n /\ i - 1 \in 0..n /\ i \in 1..Len(undo)
      BY <1>1, <1>2, <2>2
    <3>2. h[i - 1] = Holding(h[i], undo[i][1], undo[i][2])
      BY <3>1 DEF Past
    <3>3. u[i] = undo[i] /\ g[i] = h[i] /\ g[i - 1] = h[i - 1]
      BY <1>11, <1>13, <3>1
    <3> QED BY <3>2, <3>3
  <2> QED BY <2>1, <2>2
<1>17. ASSUME NEW i \in 0..n + 1
       PROVE  Live(g[i]) <= capacity' /\ Live(g[i]) <= MaxArena
  <2>1. CASE i = n + 1
    BY <1>13, <2>1
  <2>2. CASE i # n + 1
    <3>1. i \in 0..n
      BY <1>2, <2>2
    <3>2. Live(h[i]) <= capacity /\ Live(h[i]) <= MaxArena
      BY <1>1, <3>1 DEF Past
    <3>3. Live(h[i]) \in Nat
      <4>1. h[i] \in [Addr -> Codes]
        BY <1>14, <3>1
      <4> QED BY <4>1, LiveFacts
    <3> QED BY <1>2, <1>13, <3>1, <3>2, <3>3
  <2> QED BY <2>1, <2>2
<1>18. Found(accounts', u)
  <2>1. Found(accounts, undo)
    BY DEF Past
  <2>2. PICK acc : acc = accounts' /\ \A b \in Addr : accounts[b].found => acc[b].found
    OBVIOUS
  <2>3. Found(acc, u)
    BY <1>1, <1>2, <1>6, <1>7, <1>11, <2>1, <2>2, FoundGrows
  <2> QED BY <2>2, <2>3
<1>19. Past(accounts', arena', capacity', u, g)
  BY <1>11, <1>13, <1>15, <1>16, <1>17, <1>18 DEF Past
<1> QED BY <1>9, <1>10, <1>11, <1>19 DEF IInv

\* A change taken back leaves the others to lead back.
LEMMA PastShrinks ==
  ASSUME IInv, NEW h, Past(accounts, arena, capacity, undo, h),
         NEW n, n = Len(undo), n # 0, NEW now, now = h[n - 1],
         Keeps(accounts', arena', now), Len(arena') = Live(now),
         capacity' \in Nat, capacity <= capacity',
         \A b \in Addr : accounts[b].found =>
           accounts'[b].found \/ (b = undo[n][1] /\ ~undo[n][3]),
         undo' = SubSeq(undo, 1, n - 1)
  PROVE  IInv'
<1>1. undo \in Changes /\ capacity \in Nat /\ n \in Nat /\ n - 1 \in Nat
  BY DEF IInv, Changes
<1>2. PICK u : u = SubSeq(undo, 1, n - 1)
  OBVIOUS
<1>3. n \in 1..Len(undo) /\ \A i \in 1..n - 1 : i \in 1..Len(undo) /\ i < n
  BY <1>1
<1>4. PICK a \in Addr, c \in Codes : a = undo[n][1] /\ c = undo[n][2]
  BY <1>1, <1>3 DEF Changes
<1>5. u \in Changes /\ Len(u) = n - 1 /\ \A i \in 1..n - 1 : u[i] = undo[i]
  BY <1>1, <1>2 DEF Changes
<1> DEFINE g == [i \in 0..n - 1 |-> h[i]]
<1>6. h \in [0..n -> [Addr -> Codes]] /\ \A i \in 0..n - 1 : i \in 0..n
  BY <1>1 DEF Past
<1>7. g \in [0..n - 1 -> [Addr -> Codes]] /\ \A i \in 0..n - 1 : g[i] = h[i]
  BY <1>6
<1> HIDE DEF g
<1>8. g[n - 1] = now
  BY <1>1, <1>7
<1>9. ASSUME NEW i \in 1..n - 1
      PROVE  g[i - 1] = Holding(g[i], u[i][1], u[i][2])
  <2>1. i \in 0..n - 1 /\ i - 1 \in 0..n - 1 /\ i \in 1..Len(undo)
    BY <1>1
  <2>2. h[i - 1] = Holding(h[i], undo[i][1], undo[i][2])
    BY <2>1 DEF Past
  <2>3. u[i] = undo[i] /\ g[i] = h[i] /\ g[i - 1] = h[i - 1]
    BY <1>5, <1>7, <2>1
  <2> QED BY <2>2, <2>3
<1>10. ASSUME NEW i \in 0..n - 1
      PROVE  Live(g[i]) <= capacity' /\ Live(g[i]) <= MaxArena
  <2>1. Live(h[i]) <= capacity /\ Live(h[i]) <= MaxArena
    BY <1>6 DEF Past
  <2>2. Live(h[i]) \in Nat
    <3>1. h[i] \in [Addr -> Codes]
      BY <1>6
    <3> QED BY <3>1, LiveFacts
  <2> QED BY <1>1, <1>7, <2>1, <2>2
<1>11. Found(accounts', u)
  <2>1. Found(accounts, undo)
    BY DEF Past
  <2>2. PICK acc : /\ acc = accounts'
                   /\ \A b \in Addr : accounts[b].found =>
                        acc[b].found \/ (b = undo[n][1] /\ ~undo[n][3])
    OBVIOUS
  <2>3. ASSUME NEW i \in 1..n - 1
        PROVE  IF u[i][3] THEN acc[u[i][1]].found ELSE u[i][2] = <<>>
    <3>1. /\ i \in 1..Len(undo) /\ n \in 1..Len(undo) /\ i < n
          /\ u[i] = undo[i]
      BY <1>5, <1>3
    <3>2. undo[i][1] \in Addr
      BY <1>1, <3>1 DEF Changes
    <3>3. IF undo[i][3] THEN accounts[undo[i][1]].found ELSE undo[i][2] = <<>>
      BY <2>1, <3>1 DEF Found
    <3>4. undo[i][1] = undo[n][1] /\ ~undo[n][3] => ~undo[i][3]
      BY <2>1, <3>1 DEF Found
    <3> QED BY <2>2, <3>1, <3>3, <3>4, <3>2
  <2>4. ASSUME NEW i \in 1..n - 1, NEW j \in 1..n - 1, ~u[j][3], i < j, u[i][1] = u[j][1]
        PROVE  ~u[i][3]
    <3>1. i \in 1..Len(undo) /\ j \in 1..Len(undo) /\ u[i] = undo[i] /\ u[j] = undo[j]
      BY <1>1, <1>5
    <3> QED BY <2>1, <2>4, <3>1 DEF Found
  <2>5. Found(acc, u)
    BY <1>5, <2>3, <2>4 DEF Found
  <2> QED BY <2>2, <2>5
<1>12. Past(accounts', arena', capacity', u, g)
  BY <1>5, <1>7, <1>8, <1>9, <1>10, <1>11 DEF Past
<1> QED BY <1>2, <1>5, <1>12 DEF IInv

LEMMA TransactionSetCodeGood ==
  ASSUME IInv, NEW a \in Addr, NEW c \in Codes, TransactionSetCode(a, c)
  PROVE  Good
<1>1. /\ set_code(a, c)
      /\ undo' = IF status' = OK THEN Append(undo, change(a)) ELSE undo
  BY DEF TransactionSetCode
<1>2. PICK h : Past(accounts, arena, capacity, undo, h)
  BY DEF IInv
<1>3. PICK n, held : n = Len(undo) /\ held = h[n]
  OBVIOUS
<1>4. undo \in Changes /\ capacity \in Nat
  BY DEF IInv
<1>5. /\ held \in [Addr -> Codes] /\ Live(held) \in Nat
      /\ Keeps(accounts, arena, held) /\ Len(arena) = Live(held)
      /\ Live(held) <= capacity /\ Live(held) <= MaxArena
  BY <1>2, <1>3, <1>4, PastFacts
<1>6. CASE Nothing(a, c) /\ status' # OK
  <2>1. UNCHANGED <<accounts, arena, capacity, undo>>
    BY <1>1, <1>6 DEF Nothing
  <2> QED BY <2>1, SameGood
<1>7. CASE Nothing(a, c) /\ status' = OK
  <2>1. /\ accounts' = accounts /\ arena' = arena /\ capacity' = capacity
        /\ ~accounts[a].found /\ c = <<>>
    BY <1>7 DEF Nothing
  <2>2. held[a] = c
    BY <1>5, <2>1 DEF Keeps
  <2>3. held = Holding(held, a, c)
    BY <1>5, <2>2 DEF Holding
  <2>4. Keeps(accounts', arena', held) /\ Len(arena') = Live(held) /\ Moves(held, held)
    BY <1>5, <2>1 DEF Moves
  <2>5. /\ capacity' \in Nat /\ capacity <= capacity' /\ Live(held) <= capacity'
        /\ \A b \in Addr : accounts[b].found => accounts'[b].found
    BY <1>4, <1>5, <2>1
  <2>6. undo' = Append(undo, change(a))
    BY <1>1, <1>7
  <2>7. IInv'
    BY <1>2, <1>3, <1>5, <2>3, <2>4, <2>5, <2>6, PastGrows
  <2> QED BY <1>5, <2>4, <2>7 DEF Good
<1>8. CASE Replaces(held, a, c)
  <2>1. PICK now : now = Holding(held, a, c)
    OBVIOUS
  <2>2. now \in [Addr -> Codes] /\ Live(now) \in Nat
    BY <1>5, <2>1, LiveFacts
  <2>3. /\ Keeps(accounts', arena', now) /\ Len(arena') = Live(now) /\ Moves(held, now)
        /\ \A b \in Addr : accounts[b].found => accounts'[b].found
        /\ status' = OK /\ capacity' \in Nat /\ capacity <= capacity' /\ Live(now) <= capacity'
        /\ c # <<>> => Live(now) <= MaxArena
    BY <1>8, <2>1, ReplacesMoves
  <2>4. Live(now) <= MaxArena
    <3>1. CASE c = <<>>
      <4>1. Live(now) <= Live(held) /\ MaxArena \in Nat
        BY <1>5, <2>1, <3>1, LiveShrinks, SizeAssumption
      <4> QED BY <1>5, <2>2, <4>1
    <3> QED BY <2>3, <3>1
  <2>5. undo' = Append(undo, change(a))
    BY <1>1, <2>3
  <2>6. IInv'
    BY <1>2, <1>3, <2>1, <2>3, <2>4, <2>5, PastGrows
  <2> QED BY <1>5, <2>3, <2>6 DEF Good
<1> QED BY <1>1, <1>4, <1>5, <1>6, <1>7, <1>8, SetCodeIs

\* A deleted account's code is taken out, and the account with it.
LEMMA DeletesIs ==
  ASSUME NEW held \in [Addr -> Codes], Keeps(accounts, arena, held), Len(arena) = Live(held),
         Live(held) \in Nat, Live(held) <= capacity, Live(held) <= MaxArena, capacity \in Nat,
         NEW a \in Addr, Deletes(a), NEW rest, rest = Without(held, a)
  PROVE  /\ Keeps(accounts', arena', rest) /\ Len(arena') = Live(rest) /\ Moves(held, rest)
         /\ capacity' = capacity /\ status' = OK /\ rest \in [Addr -> Codes]
         /\ Live(rest) <= capacity /\ Live(rest) <= MaxArena
         /\ \A b \in Addr : b # a => accounts'[b].found = accounts[b].found
<1>1. PICK base, cells : base = BaseOf(a) /\ cells = CellsOf(a)
  OBVIOUS
<1>2. /\ base \in [Addr -> Acct]
      /\ \A b \in Addr : base[b].found = accounts[b].found /\ base[b].len = accounts[b].len
      /\ Layout(cells, Offsets(base), rest)
      /\ Len(arena) = Len(cells) + needed(held[a])
  BY <1>1, TakenOut
<1>3. /\ accounts' = [base EXCEPT ![a] = Absent] /\ arena' = cells
      /\ capacity' = capacity /\ status' = OK
  BY <1>1 DEF Deletes, BaseOf, CellsOf
<1>4. Absent \in Acct /\ Absent.len = 0 /\ ~Absent.found /\ Len(<<>>) = 0
  BY DEF Absent, Acct
<1>5. PICK acc : acc = accounts'
  OBVIOUS
<1>6. acc \in [Addr -> Acct] /\ acc[a] = Absent /\ \A b \in Addr : b # a => acc[b] = base[b]
  BY <1>2, <1>3, <1>4, <1>5
<1>7. /\ rest \in [Addr -> Codes] /\ Own(rest) = Own(held) \ {a} /\ Own(held) \subseteq Addr
      /\ rest[a] = <<>> /\ \A b \in Addr : b # a => rest[b] = held[b]
  BY OwnWithout DEF Own
<1>8. \A b \in Addr : acc[b].len = Len(rest[b]) /\ (rest[b] # <<>> => acc[b].found)
  <2>1. \A b \in Addr : accounts[b].len = Len(held[b]) /\ (held[b] # <<>> => accounts[b].found)
    BY DEF Keeps
  <2> QED BY <1>2, <1>4, <1>6, <1>7, <2>1
<1>9. Layout(cells, Offsets(acc), rest)
  <2>1. Offsets(acc) \in [Addr -> Nat]
    BY <1>6 DEF Offsets, Acct
  <2>2. \A b \in Own(rest) : Offsets(acc)[b] = Offsets(base)[b]
    BY <1>6, <1>7 DEF Offsets
  <2> QED BY <1>2, <2>1, <2>2, LayoutAgrees
<1>10. Keeps(acc, cells, rest)
  BY <1>6, <1>8, <1>9 DEF Keeps
<1>11. Len(cells) = Live(rest) /\ Live(rest) <= capacity /\ Live(rest) <= MaxArena
  <2>1. PICK empty \in Codes : empty = <<>>
    BY CellAssumption
  <2>2. rest = Holding(held, a, empty) /\ needed(empty) = 0
    BY <2>1 DEF Without, Holding, needed
  <2>3. PICK x \in Nat, y \in Nat, z \in Nat :
          x = Live(held) /\ y = needed(held[a]) /\ z = needed(empty) /\ Live(rest) = x - y + z
    BY <2>2, LiveFacts
  <2>4. Len(cells) \in Nat /\ MaxArena \in Nat
    BY <1>2, LayoutFacts, SizeAssumption
  <2>5. PICK k \in Nat, cap \in Nat, most \in Nat :
          k = Len(cells) /\ cap = capacity /\ most = MaxArena
    BY <2>4
  <2>6. x = k + y /\ z = 0 /\ x <= cap /\ x <= most
    BY <1>2, <2>2, <2>3, <2>5
  <2>7. x - y + z = k /\ k <= cap /\ k <= most
    BY <2>6
  <2>8. Live(rest) = k
    BY <2>3, <2>7
  <2> QED BY <2>5, <2>7, <2>8
<1>12. \A b \in Addr : b # a => accounts'[b].found = accounts[b].found
  BY <1>2, <1>5, <1>6
<1>13. Moves(held, rest)
  <2>1. ~accounts'[a].found
    BY <1>4, <1>5, <1>6
  <2> QED BY <1>12, <2>1 DEF Moves
<1>14. Keeps(accounts', arena', rest) /\ Len(arena') = Live(rest)
  BY <1>3, <1>5, <1>10, <1>11
<1> QED BY <1>3, <1>7, <1>11, <1>12, <1>13, <1>14

\* Rollback's set_code succeeds, and an account that was not there is removed.
LEMMA UndoGood ==
  ASSUME IInv, Undo
  PROVE  Good /\ status' = OK
<1>1. PICK h : Past(accounts, arena, capacity, undo, h)
  BY DEF IInv
<1>2. PICK n, held : n = Len(undo) /\ held = h[n]
  OBVIOUS
<1>3. undo \in Changes /\ capacity \in Nat /\ n \in Nat /\ n # 0
  BY <1>2, EmptySeq DEF IInv, Undo, Changes
<1>4. n \in 1..Len(undo) /\ n - 1 \in 0..Len(undo)
  BY <1>2, <1>3
<1>5. PICK a \in Addr, c \in Codes : a = undo[n][1] /\ c = undo[n][2]
  BY <1>3, <1>4 DEF Changes
<1>6. /\ IF undo[n][3] THEN set_code(a, c) ELSE accounts[a].found /\ Deletes(a)
      /\ undo' = SubSeq(undo, 1, n - 1)
  BY <1>2, <1>5 DEF Undo
<1>7. /\ held \in [Addr -> Codes] /\ Live(held) \in Nat
      /\ Keeps(accounts, arena, held) /\ Len(arena) = Live(held)
      /\ Live(held) <= capacity /\ Live(held) <= MaxArena
  BY <1>1, <1>2, <1>3, PastFacts
<1>8. PICK now : now = Holding(held, a, c)
  OBVIOUS
<1>9. h[n - 1] = now
  BY <1>1, <1>2, <1>4, <1>5, <1>8 DEF Past
<1>10. IF undo[n][3] THEN accounts[a].found ELSE c = <<>>
  BY <1>1, <1>2, <1>4, <1>5 DEF Past, Found
<1>11. CASE undo[n][3]
  <2>1. Live(now) <= capacity /\ Live(now) <= MaxArena
    BY <1>1, <1>4, <1>9 DEF Past
  <2>2. set_code(a, c) /\ accounts[a].found
    BY <1>6, <1>10, <1>11
  <2>3. Replaces(held, a, c)
    BY <1>3, <1>7, <1>8, <2>1, <2>2, RestoreIs
  <2>4. /\ Keeps(accounts', arena', now) /\ Len(arena') = Live(now) /\ Moves(held, now)
        /\ \A b \in Addr : accounts[b].found => accounts'[b].found
        /\ status' = OK /\ capacity' \in Nat /\ capacity <= capacity'
    BY <1>8, <2>3, ReplacesMoves
  <2>5. \A b \in Addr : accounts[b].found =>
          accounts'[b].found \/ (b = undo[n][1] /\ ~undo[n][3])
    BY <2>4
  <2>6. undo' = SubSeq(undo, 1, n - 1) /\ now = h[n - 1]
    BY <1>6, <1>9
  <2>7. IInv'
    BY <1>1, <1>2, <1>3, <2>4, <2>5, <2>6, PastShrinks
  <2> QED BY <1>7, <2>4, <2>7 DEF Good
<1>12. CASE ~undo[n][3]
  <2>1. Deletes(a) /\ c = <<>>
    BY <1>6, <1>10, <1>12
  <2>2. PICK rest : rest = Without(held, a)
    OBVIOUS
  <2>3. now = rest
    BY <1>8, <2>1, <2>2 DEF Holding, Without
  <2>4. /\ Keeps(accounts', arena', rest) /\ Len(arena') = Live(rest) /\ Moves(held, rest)
        /\ capacity' = capacity /\ status' = OK
        /\ \A b \in Addr : b # a => accounts'[b].found = accounts[b].found
    BY <1>3, <1>7, <2>1, <2>2, DeletesIs
  <2>5. \A b \in Addr : accounts[b].found =>
          accounts'[b].found \/ (b = undo[n][1] /\ ~undo[n][3])
    BY <1>5, <1>12, <2>4
  <2>6. /\ undo' = SubSeq(undo, 1, n - 1) /\ rest = h[n - 1]
        /\ capacity' \in Nat /\ capacity <= capacity'
    BY <1>3, <1>6, <1>9, <2>3, <2>4
  <2>7. IInv'
    BY <1>1, <1>2, <1>3, <2>4, <2>5, <2>6, PastShrinks
  <2> QED BY <1>7, <2>4, <2>7 DEF Good
<1> QED BY <1>11, <1>12

LEMMA EndTransactionGood ==
  ASSUME IInv, EndTransaction
  PROVE  Good
<1>1. PICK h : Past(accounts, arena, capacity, undo, h)
  BY DEF IInv
<1>2. PICK n, held : n = Len(undo) /\ held = h[n]
  OBVIOUS
<1>3. undo \in Changes /\ capacity \in Nat
  BY DEF IInv
<1>4. /\ held \in [Addr -> Codes] /\ Keeps(accounts, arena, held) /\ Len(arena) = Live(held)
      /\ Live(held) <= capacity /\ Live(held) <= MaxArena
  BY <1>1, <1>2, <1>3, PastFacts
<1>5. undo' = <<>> /\ accounts' = accounts /\ arena' = arena /\ capacity' = capacity
  BY DEF EndTransaction
<1>6. \E g : Past(accounts, arena, capacity, <<>>, g)
  BY <1>4, Fresh
<1>7. IInv'
  BY <1>3, <1>5, <1>6, EmptySeq DEF IInv, Changes
<1>8. Keeps(accounts', arena', held) /\ Moves(held, held)
  BY <1>4, <1>5 DEF Moves
<1> QED BY <1>4, <1>7, <1>8 DEF Good

LEMMA TryCloneGood ==
  ASSUME IInv, try_clone
  PROVE  Good
<1>1. PICK h : Past(accounts, arena, capacity, undo, h)
  BY DEF IInv
<1>2. PICK n, held : n = Len(undo) /\ held = h[n]
  OBVIOUS
<1>3. undo \in Changes /\ capacity \in Nat
  BY DEF IInv
<1>4. /\ held \in [Addr -> Codes] /\ Keeps(accounts, arena, held) /\ Len(arena) = Live(held)
      /\ Live(held) \in Nat /\ Live(held) <= MaxArena
  BY <1>1, <1>2, <1>3, PastFacts
<1>5. undo' = undo /\ undo = <<>> /\ accounts' = accounts /\ arena' = arena /\ capacity' = Len(arena)
  BY DEF try_clone
<1>6. Live(held) <= capacity' /\ capacity' \in Nat
  BY <1>4, <1>5
<1>7. \E g : Past(accounts', arena', capacity', <<>>, g)
  BY <1>4, <1>5, <1>6, Fresh
<1>8. IInv'
  BY <1>3, <1>5, <1>6, <1>7 DEF IInv
<1>9. Keeps(accounts', arena', held) /\ Moves(held, held)
  BY <1>4, <1>5 DEF Moves
<1> QED BY <1>4, <1>8, <1>9 DEF Good

\* A record of its own moves nothing.
LEMMA CreatesIs ==
  ASSUME NEW held, Keeps(accounts, arena, held), NEW a \in Addr, Creates(a)
  PROVE  /\ Keeps(accounts', arena', held) /\ Moves(held, held)
         /\ arena' = arena /\ capacity' = capacity
         /\ \A b \in Addr : accounts[b].found => accounts'[b].found
<1>1. accounts' = [accounts EXCEPT ![a].found = TRUE] /\ arena' = arena /\ capacity' = capacity
  BY DEF Creates
<1>2. accounts \in [Addr -> Acct]
  BY DEF Keeps
<1>3. PICK own : own = [accounts[a] EXCEPT !.found = TRUE]
  OBVIOUS
<1>4. own \in Acct /\ own.found /\ own.offset = accounts[a].offset /\ own.len = accounts[a].len
  BY <1>2, <1>3 DEF Acct
<1>5. PICK acc : acc = accounts'
  OBVIOUS
<1>6. acc \in [Addr -> Acct] /\ acc[a] = own /\ \A b \in Addr : b # a => acc[b] = accounts[b]
  BY <1>1, <1>2, <1>3, <1>4, <1>5
<1>7. \A b \in Addr : /\ acc[b].offset = accounts[b].offset /\ acc[b].len = accounts[b].len
                      /\ accounts[b].found => acc[b].found
  BY <1>4, <1>6
<1>8. Offsets(acc) = Offsets(accounts)
  BY <1>7 DEF Offsets
<1>9. Keeps(acc, arena, held)
  BY <1>6, <1>7, <1>8 DEF Keeps
<1>10. Moves(held, held)
  <2>1. \A b \in Addr : b # a => accounts'[b].found = accounts[b].found
    BY <1>5, <1>6
  <2>2. accounts'[a].found
    BY <1>4, <1>5, <1>6
  <2> QED BY <2>1, <2>2 DEF Moves
<1> QED BY <1>1, <1>5, <1>7, <1>9, <1>10

LEMMA EnsureAccountGood ==
  ASSUME IInv, NEW a \in Addr, ensure_account(a)
  PROVE  Good
<1>1. PICK h : Past(accounts, arena, capacity, undo, h)
  BY DEF IInv
<1>2. PICK n, held : n = Len(undo) /\ held = h[n]
  OBVIOUS
<1>3. undo \in Changes /\ capacity \in Nat
  BY DEF IInv
<1>4. /\ held \in [Addr -> Codes] /\ Keeps(accounts, arena, held) /\ Len(arena) = Live(held)
      /\ Live(held) <= capacity /\ Live(held) <= MaxArena
  BY <1>1, <1>2, <1>3, PastFacts
<1>5. Creates(a) /\ undo' = undo /\ undo = <<>>
  BY DEF ensure_account
<1>6. /\ Keeps(accounts', arena', held) /\ Moves(held, held)
      /\ arena' = arena /\ capacity' = capacity
  BY <1>4, <1>5, CreatesIs
<1>7. Len(arena') = Live(held) /\ Live(held) <= capacity'
  BY <1>4, <1>6
<1>8. \E g : Past(accounts', arena', capacity', <<>>, g)
  BY <1>4, <1>6, <1>7, Fresh
<1>9. IInv'
  BY <1>3, <1>5, <1>6, <1>8 DEF IInv
<1> QED BY <1>4, <1>6, <1>9 DEF Good

LEMMA TransactionCreatesGood ==
  ASSUME IInv, NEW a \in Addr, TransactionCreates(a)
  PROVE  Good
<1>1. PICK h : Past(accounts, arena, capacity, undo, h)
  BY DEF IInv
<1>2. PICK n, held : n = Len(undo) /\ held = h[n]
  OBVIOUS
<1>3. undo \in Changes /\ capacity \in Nat
  BY DEF IInv
<1>4. /\ held \in [Addr -> Codes] /\ Keeps(accounts, arena, held) /\ Len(arena) = Live(held)
      /\ Live(held) <= capacity /\ Live(held) <= MaxArena /\ Live(held) \in Nat
  BY <1>1, <1>2, <1>3, PastFacts
<1>5. Creates(a) /\ undo' = Append(undo, change(a))
  BY DEF TransactionCreates
<1>6. /\ Keeps(accounts', arena', held) /\ Moves(held, held)
      /\ arena' = arena /\ capacity' = capacity
      /\ \A b \in Addr : accounts[b].found => accounts'[b].found
  BY <1>4, <1>5, CreatesIs
<1>7. PICK c \in Codes : c = held[a]
  BY <1>4
<1>8. held = Holding(held, a, c)
  BY <1>4, <1>7 DEF Holding
<1>9. /\ Len(arena') = Live(held) /\ capacity' \in Nat /\ capacity <= capacity'
      /\ Live(held) <= capacity'
  BY <1>3, <1>4, <1>6
<1>10. IInv'
  BY <1>1, <1>2, <1>4, <1>5, <1>6, <1>8, <1>9, PastGrows
<1> QED BY <1>4, <1>6, <1>10 DEF Good

LEMMA RemoveAccountGood ==
  ASSUME IInv, NEW a \in Addr, remove_account(a)
  PROVE  Good
<1>1. PICK h : Past(accounts, arena, capacity, undo, h)
  BY DEF IInv
<1>2. PICK n, held : n = Len(undo) /\ held = h[n]
  OBVIOUS
<1>3. undo \in Changes /\ capacity \in Nat
  BY DEF IInv
<1>4. /\ held \in [Addr -> Codes] /\ Keeps(accounts, arena, held) /\ Len(arena) = Live(held)
      /\ Live(held) \in Nat /\ Live(held) <= capacity /\ Live(held) <= MaxArena
  BY <1>1, <1>2, <1>3, PastFacts
<1>5. Deletes(a) /\ undo' = undo /\ undo = <<>>
  BY DEF remove_account
<1>6. PICK rest : rest = Without(held, a)
  OBVIOUS
<1>7. /\ Keeps(accounts', arena', rest) /\ Len(arena') = Live(rest) /\ Moves(held, rest)
      /\ capacity' = capacity /\ rest \in [Addr -> Codes]
      /\ Live(rest) <= capacity /\ Live(rest) <= MaxArena
  BY <1>3, <1>4, <1>5, <1>6, DeletesIs
<1>8. \E g : Past(accounts', arena', capacity', <<>>, g)
  BY <1>7, Fresh
<1>9. IInv'
  BY <1>3, <1>5, <1>7, <1>8 DEF IInv
<1> QED BY <1>4, <1>7, <1>9 DEF Good

LEMMA NextGood == IInv /\ [Next]_vars => Good
<1> SUFFICES ASSUME IInv, [Next]_vars PROVE Good
  OBVIOUS
<1>1. CASE UNCHANGED vars
  <2>1. UNCHANGED <<accounts, arena, capacity, undo>>
    BY <1>1 DEF vars
  <2> QED BY <2>1, SameGood
<1>2. ASSUME NEW a \in Addr, ensure_account(a) PROVE Good
  BY <1>2, EnsureAccountGood
<1>3. ASSUME NEW a \in Addr, TransactionCreates(a) PROVE Good
  BY <1>3, TransactionCreatesGood
<1>4. ASSUME NEW a \in Addr, remove_account(a) PROVE Good
  BY <1>4, RemoveAccountGood
<1>5. ASSUME NEW a \in Addr, NEW c \in Codes, HostSetCode(a, c) PROVE Good
  BY <1>5, HostSetCodeGood
<1>6. ASSUME NEW a \in Addr, NEW c \in Codes, TransactionSetCode(a, c) PROVE Good
  BY <1>6, TransactionSetCodeGood
<1>7. CASE Undo
  BY <1>7, UndoGood
<1>8. CASE EndTransaction
  BY <1>8, EndTransactionGood
<1>9. CASE try_clone
  BY <1>9, TryCloneGood
<1> QED BY <1>1, <1>2, <1>3, <1>4, <1>5, <1>6, <1>7, <1>8, <1>9 DEF Next

-----------------------------------------------------------------------------
(* Theorems *)

\* The invariant holds in every state: the records lie behind each other, each with
\* the code its account holds, and everything a transaction may undo to has fitted.
THEOREM Inductive == Spec => []IInv
<1>1. IInv /\ [Next]_vars => IInv'
  BY NextGood DEF Good
<1> QED BY InitInv, <1>1, PTL DEF Spec

\* The records of the accounts with code tile the buffer (WorldState.set_code).
THEOREM AlwaysPacked == Spec => []Packed
<1>1. IInv => Packed
  <2> SUFFICES ASSUME IInv PROVE Packed
    OBVIOUS
  <2>1. PICK h : Past(accounts, arena, capacity, undo, h)
    BY DEF IInv
  <2>2. PICK n, held : n = Len(undo) /\ held = h[n]
    OBVIOUS
  <2>3. undo \in Changes /\ capacity \in Nat
    BY DEF IInv
  <2>4. Keeps(accounts, arena, held) /\ Len(arena) = Live(held) /\ Live(held) <= capacity
    BY <2>1, <2>2, <2>3, PastFacts
  <2>5. PICK off, l : /\ off = Offsets(accounts) /\ l = Len(arena) /\ l \in Nat
                      /\ Layout(arena, off, held)
    BY <2>4, LayoutFacts DEF Keeps
  <2>6. Owners = Own(held) /\ Owners \subseteq Addr
    BY <2>4, KeepsFacts DEF Owners, Own
  <2>7. \A a \in Owners : /\ off[a] \in Nat /\ needed(held[a]) \in Nat
                          /\ off[a] + needed(held[a]) <= l
                          /\ extent(a) = off[a] + 1..off[a] + needed(held[a])
    <3> TAKE a \in Owners
    <3>1. a \in Addr /\ off[a] = accounts[a].offset /\ removed(a) = needed(held[a])
      BY <2>4, <2>5, <2>6, KeepsFacts
    <3> QED BY <2>5, <2>6, <3>1, LayoutFacts DEF extent
  <2>8. UNION {extent(a) : a \in Owners} = 1..Len(arena)
    <3>1. ASSUME NEW k \in UNION {extent(a) : a \in Owners}
          PROVE  k \in 1..l
      <4>1. PICK a \in Owners : k \in extent(a)
        BY <3>1
      <4> QED BY <2>5, <2>7, <4>1
    <3>2. ASSUME NEW k \in 1..l
          PROVE  k \in UNION {extent(a) : a \in Owners}
      <4>1. PICK a \in Own(held) : off[a] < k /\ k <= off[a] + needed(held[a])
        BY <2>5 DEF Layout
      <4>2. k \in extent(a)
        BY <2>6, <2>7, <4>1
      <4> QED BY <2>6, <4>1, <4>2
    <3> QED BY <2>5, <3>1, <3>2
  <2>9. ASSUME NEW a \in Owners, NEW b \in Owners, a # b
        PROVE  extent(a) \cap extent(b) = {}
    <3>1. off[a] + needed(held[a]) <= off[b] \/ off[b] + needed(held[b]) <= off[a]
      BY <2>5, <2>6, <2>9 DEF Layout
    <3> QED BY <2>7, <3>1
  <2>10. \A a \in Owners : slice(accounts[a].offset, 2) = <<a, accounts[a].len>>
    BY <2>4, <2>6, RunsWhatItHolds DEF Own
  <2> QED BY <2>4, <2>8, <2>9, <2>10 DEF Packed
<1> QED BY Inductive, <1>1, PTL

\* Every program runs with the jump destinations of its own code.
THEOREM AlwaysJumpdestsOfCode == Spec => []JumpdestsOfCode
<1>1. IInv => JumpdestsOfCode
  <2> SUFFICES ASSUME IInv PROVE JumpdestsOfCode
    OBVIOUS
  <2>1. PICK h : Past(accounts, arena, capacity, undo, h)
    BY DEF IInv
  <2>2. PICK held : held = h[Len(undo)] /\ Keeps(accounts, arena, held)
    BY <2>1 DEF Past
  <2>3. ASSUME NEW a \in Addr
        PROVE  program_jumpdests(a) = mark_jumpdests(code(a))
    <3>1. code(a) = held[a] /\ program_jumpdests(a) = mark_jumpdests(held[a])
      BY <2>2, RunsWhatItHolds
    <3> QED BY <3>1
  <2> QED BY <2>3 DEF JumpdestsOfCode
<1> QED BY Inductive, <1>1, PTL

\* Rollback's set_code, which Transaction.undo_to asserts, succeeds: what it restores
\* has fitted the buffer, which truncation never shrinks.
THEOREM RollbackNeedsNoMemory == Spec => UndoNeverFails
<1>1. IInv /\ [Next]_vars => [Undo => status' = OK]_vars
  BY UndoGood
<1> QED BY Inductive, <1>1, PTL DEF Spec, UndoNeverFails

\* What every account runs, as one state predicate.
RunsHeld == \A held : Keeps(accounts, arena, held) => \A a \in Addr : code(a) = held[a]

LEMMA RunsHeldAlways == RunsHeld
BY RunsWhatItHolds DEF RunsHeld

\* The arena with its compaction implements one independent code per account.
THEOREM ImplementsStore == Spec => ImplementsCodeStore
<1>1. Init => Store!Init
  <2> SUFFICES ASSUME Init PROVE Store!Init
    OBVIOUS
  <2>1. \A a \in Addr : accounts[a] = Absent
    BY DEF Init
  <2>2. Absent.found = FALSE /\ Absent.len = 0
    BY DEF Absent
  <2>3. {a \in Addr : accounts[a].found} = {}
    BY <2>1, <2>2
  <2>4. \A a \in Addr : code(a) = <<>>
    BY <2>1, <2>2 DEF code, slice
  <2> QED BY <2>3, <2>4 DEF Store!Init
<1>2. RunsHeld /\ RunsHeld' /\ IInv /\ [Next]_vars => [Store!Next]_(Store!storeVars)
  <2> SUFFICES ASSUME RunsHeld, RunsHeld', IInv, [Next]_vars
               PROVE  [Store!Next]_(Store!storeVars)
    OBVIOUS
  <2>1. PICK held, now : /\ Keeps(accounts, arena, held) /\ Keeps(accounts', arena', now)
                         /\ Moves(held, now)
    BY NextGood DEF Good
  <2>2. held \in [Addr -> Codes] /\ now \in [Addr -> Codes]
    BY <2>1 DEF Keeps, Layout
  <2>3. \A a \in Addr : code(a) = held[a]
    BY <2>1 DEF RunsHeld
  <2>4. \A a \in Addr : code(a)' = now[a]
    BY <2>1 DEF RunsHeld
  <2>5. [a \in Addr |-> code(a)] = held /\ [a \in Addr |-> code(a)]' = now
    BY <2>2, <2>3, <2>4
  <2>6. PICK E, F : E = {a \in Addr : accounts[a].found} /\ F = {a \in Addr : accounts'[a].found}
    OBVIOUS
  <2>7. \/ now = held /\ F = E
        \/ \E a \in Addr :
             \/ now = held /\ F = E \cup {a}
             \/ now = Without(held, a) /\ F = E \ {a}
             \/ \E c \in Codes : /\ now = Holding(held, a, c)
                                 /\ F = IF c = <<>> THEN E ELSE E \cup {a}
    <3>1. CASE now = held /\ \A b \in Addr : accounts'[b].found = accounts[b].found
      BY <2>6, <3>1, Zenon
    <3>2. ASSUME NEW a \in Addr, \A b \in Addr : b # a => accounts'[b].found = accounts[b].found,
                 accounts'[a].found
          PROVE  F = E \cup {a}
      BY <2>6, <3>2, Zenon
    <3>3. ASSUME NEW a \in Addr, \A b \in Addr : b # a => accounts'[b].found = accounts[b].found,
                 ~accounts'[a].found
          PROVE  F = E \ {a}
      BY <2>6, <3>3, Zenon
    <3>4. ASSUME NEW a \in Addr, accounts[a].found PROVE E \cup {a} = E
      BY <2>6, <3>4, Zenon
    <3>5. CASE \E a \in Addr :
                 /\ \A b \in Addr : b # a => accounts'[b].found = accounts[b].found
                 /\ \/ now = held /\ accounts'[a].found
                    \/ now = Without(held, a) /\ ~accounts'[a].found
                    \/ \E c \in Codes : /\ now = Holding(held, a, c) /\ accounts'[a].found
                                        /\ c = <<>> => accounts[a].found
      <4>1. PICK a \in Addr :
              /\ \A b \in Addr : b # a => accounts'[b].found = accounts[b].found
              /\ \/ now = held /\ accounts'[a].found
                 \/ now = Without(held, a) /\ ~accounts'[a].found
                 \/ \E c \in Codes : /\ now = Holding(held, a, c) /\ accounts'[a].found
                                     /\ c = <<>> => accounts[a].found
        BY <3>5, Zenon
      <4>2. CASE now = held /\ accounts'[a].found
        BY <3>2, <4>1, <4>2
      <4>3. CASE now = Without(held, a) /\ ~accounts'[a].found
        BY <3>3, <4>1, <4>3
      <4>4. ASSUME NEW c \in Codes, now = Holding(held, a, c), accounts'[a].found,
                   c = <<>> => accounts[a].found
            PROVE  F = IF c = <<>> THEN E ELSE E \cup {a}
        <5>1. F = E \cup {a}
          BY <3>2, <4>1, <4>4
        <5>2. c = <<>> => E \cup {a} = E
          BY <3>4, <4>4
        <5> QED BY <5>1, <5>2
      <4> QED BY <4>1, <4>2, <4>3, <4>4
    <3> QED BY <2>1, <3>1, <3>5 DEF Moves
  <2>8. CASE now = held /\ F = E
    BY <2>5, <2>6, <2>8 DEF Store!storeVars
  <2>9. ASSUME NEW a \in Addr, now = held, F = E \cup {a}
        PROVE  Store!Create(a)
    BY <2>5, <2>6, <2>9 DEF Store!Create
  <2>10. ASSUME NEW a \in Addr, now = Without(held, a), F = E \ {a}
         PROVE  Store!Remove(a)
    BY <2>5, <2>6, <2>10 DEF Store!Remove, Without
  <2>11. ASSUME NEW a \in Addr, NEW c \in Codes, now = Holding(held, a, c),
                F = IF c = <<>> THEN E ELSE E \cup {a}
         PROVE  Store!Set(a, c)
    BY <2>5, <2>6, <2>11 DEF Store!Set, Holding
  <2> QED BY <2>7, <2>8, <2>9, <2>10, <2>11 DEF Store!Next
<1> QED BY Inductive, RunsHeldAlways, <1>1, <1>2, PTL DEF Spec, Store!Spec, ImplementsCodeStore
=============================================================================
