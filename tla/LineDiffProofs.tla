--------------------------- MODULE LineDiffProofs ---------------------------
(* LineDiff for configurations of any length: whatever the table says, the  *)
(* rows rebuild both of them; and the table is such that no shorter list of *)
(* changes would.                                                           *)
EXTENDS LineDiff, FiniteSetTheorems, WellFoundedInduction, TLAPS

LEMMA Prepend ==
  ASSUME NEW S, NEW list \in Seq(S), NEW e \in S
  PROVE  /\ <<e>> \o list \in Seq(S)
         /\ Len(<<e>> \o list) = Len(list) + 1
         /\ (<<e>> \o list)[1] = e
         /\ \A x \in 1 .. Len(list) : (<<e>> \o list)[x + 1] = list[x]
OBVIOUS

(* The numbers new are v in front of the N numbers old.                     *)
Prepended(old, new, N, v) ==
  /\ N \in Nat /\ v \in Nat
  /\ DOMAIN old = 1 .. N /\ DOMAIN new = 1 .. N + 1
  /\ new[1] = v
  /\ \A x \in 1 .. N : new[x + 1] = old[x] /\ old[x] \in Nat

(* A number put in front: none, or the line before the first.               *)
LEMMA InOrderPrepend ==
  ASSUME NEW N, NEW old, NEW new, NEW v, Prepended(old, new, N, v),
         NEW n \in Nat, NEW last \in Nat, n <= last, InOrder(old, n, last),
         NEW m \in Nat, (v = 0 /\ m = n) \/ (v = n /\ n > 0 /\ m = n - 1)
  PROVE  InOrder(new, m, last)
<1> USE DEF Prepended
<1>1. \A y \in 2 .. N + 1 : y - 1 \in 1 .. N /\ new[y] = old[y - 1]
  <2> SUFFICES ASSUME NEW y \in 2 .. N + 1
               PROVE  y - 1 \in 1 .. N /\ new[y] = old[y - 1]
    OBVIOUS
  <2>1. y - 1 \in 1 .. N /\ (y - 1) + 1 = y
    OBVIOUS
  <2> QED BY <2>1
<1>2. \A y \in 2 .. N + 1 : new[y] # 0 => new[y] \in n + 1 .. last
  BY <1>1 DEF InOrder
<1>3. {new[x] : x \in 1 .. N + 1} \ {0} = m + 1 .. last
  <2>1. ASSUME NEW x \in 1 .. N + 1, new[x] # 0 PROVE new[x] \in m + 1 .. last
    <3>1. CASE x = 1
      BY <2>1, <3>1
    <3>2. CASE x # 1
      BY <1>2, <2>1, <3>2
    <3> QED BY <3>1, <3>2
  <2>2. ASSUME NEW w \in m + 1 .. last
        PROVE  \E x \in 1 .. N + 1 : new[x] = w /\ w # 0
    <3>1. CASE w \in n + 1 .. last
      <4>1. w \in {old[x] : x \in DOMAIN old}
        BY <3>1, Zenon DEF InOrder
      <4>2. PICK x \in 1 .. N : old[x] = w
        BY <4>1
      <4>3. x + 1 \in 1 .. N + 1 /\ new[x + 1] = w /\ w # 0
        BY <2>2, <4>2
      <4> QED BY <4>3, Zenon
    <3>2. CASE w \notin n + 1 .. last
      <4>1. w = v /\ w # 0 /\ 1 \in 1 .. N + 1
        BY <2>2, <3>2
      <4> QED BY <4>1, Zenon
    <3> QED BY <3>1, <3>2
  <2> QED BY <2>1, <2>2
<1>4. ASSUME NEW x \in 1 .. N + 1, NEW y \in 1 .. N + 1,
             x < y, new[x] # 0, new[y] # 0
      PROVE  new[x] < new[y]
  <2>1. y \in 2 .. N + 1
    BY <1>4
  <2>2. CASE x = 1
    BY <1>2, <1>4, <2>1, <2>2
  <2>3. CASE x # 1
    <3>1. x - 1 \in 1 .. N /\ y - 1 \in 1 .. N /\ x - 1 < y - 1
      BY <1>4, <2>3
    <3>2. new[x] = old[x - 1] /\ new[y] = old[y - 1]
      BY <1>1, <2>1, <2>3
    <3> QED BY <1>4, <3>1, <3>2 DEF InOrder
  <2> QED BY <2>2, <2>3
<1> QED BY <1>3, <1>4 DEF InOrder

LEMMA EmptyInOrder ==
  ASSUME NEW n \in Nat
  PROVE  InOrder(Lefts(<<>>), n, n) /\ InOrder(Rights(<<>>), n, n)
<1>1. DOMAIN Lefts(<<>>) = {} /\ DOMAIN Rights(<<>>) = {} /\ n + 1 .. n = {}
  BY DEF Lefts, Rights
<1> QED BY <1>1 DEF InOrder

LEMMA NumbersOf ==
  ASSUME NEW list \in Seq(Row)
  PROVE  /\ DOMAIN Lefts(list) = 1 .. Len(list)
         /\ DOMAIN Rights(list) = 1 .. Len(list)
         /\ \A x \in 1 .. Len(list) :
               /\ Lefts(list)[x] = list[x].left /\ list[x].left \in Nat
               /\ Rights(list)[x] = list[x].right /\ list[x].right \in Nat
<1>1. \A x \in 1 .. Len(list) : list[x] \in Row
  OBVIOUS
<1> QED BY <1>1 DEF Lefts, Rights, Row

(* A row put in front of the list.                                          *)
LEMMA FoundRow ==
  ASSUME TypeOK, RowsRebuild, NEW a \in {0, i}, NEW b \in {0, j},
         a > 0 \/ b > 0, (a > 0 /\ b > 0) => left[a] = right[b],
         Found(a, b),
         i' = IF a > 0 THEN i - 1 ELSE i, j' = IF b > 0 THEN j - 1 ELSE j,
         UNCHANGED <<left, right>>
  PROVE  RowsRebuild' /\ rows' \in Seq(Row)
<1> DEFINE row == [left |-> a, right |-> b]
<1>1. row \in Row /\ a \in Nat /\ b \in Nat /\ row.left = a /\ row.right = b
  BY DEF Row, TypeOK
<1>2. /\ rows' \in Seq(Row) /\ Len(rows') = Len(rows) + 1
      /\ rows'[1] = row /\ \A x \in 1 .. Len(rows) : rows'[x + 1] = rows[x]
  <2> HIDE DEF row
  <2>1. rows' = <<row>> \o rows
    BY DEF Found, row
  <2> QED BY <1>1, <2>1, Prepend DEF TypeOK
<1> HIDE DEF row
<1>3. /\ Len(rows) \in Nat /\ i \in Nat /\ j \in Nat /\ Len(left) \in Nat
      /\ Len(right) \in Nat /\ i <= Len(left) /\ j <= Len(right)
  BY DEF TypeOK
<1>4. InOrder(Lefts(rows'), i', Len(left'))
  <2> DEFINE old == Lefts(rows)
             new == Lefts(rows')
  <2>1. /\ DOMAIN old = 1 .. Len(rows) /\ DOMAIN new = 1 .. Len(rows) + 1
        /\ \A x \in 1 .. Len(rows) : old[x] = rows[x].left /\ old[x] \in Nat
        /\ \A x \in 1 .. Len(rows) + 1 : new[x] = rows'[x].left
    BY <1>2, NumbersOf DEF TypeOK
  <2>2. InOrder(old, i, Len(left))
    BY DEF RowsRebuild
  <2> HIDE DEF old, new
  <2>3. new[1] = a
    BY <1>1, <1>2, <1>3, <2>1
  <2>4. ASSUME NEW x \in 1 .. Len(rows) PROVE new[x + 1] = old[x]
    <3>1. x + 1 \in 1 .. Len(rows) + 1
      BY <1>3
    <3> QED BY <1>2, <2>1, <3>1
  <2>5. i' \in Nat /\ ((a = 0 /\ i' = i) \/ (a = i /\ i > 0 /\ i' = i - 1))
    BY <1>1, <1>3
  <2>6. InOrder(new, i', Len(left))
    <3>1. Prepended(old, new, Len(rows), a)
      BY <1>1, <1>3, <2>1, <2>3, <2>4 DEF Prepended
    <3> QED BY <1>3, <2>2, <2>5, <3>1, InOrderPrepend
  <2> QED BY <2>6 DEF new
<1>5. InOrder(Rights(rows'), j', Len(right'))
  <2> DEFINE old == Rights(rows)
             new == Rights(rows')
  <2>1. /\ DOMAIN old = 1 .. Len(rows) /\ DOMAIN new = 1 .. Len(rows) + 1
        /\ \A x \in 1 .. Len(rows) : old[x] = rows[x].right /\ old[x] \in Nat
        /\ \A x \in 1 .. Len(rows) + 1 : new[x] = rows'[x].right
    BY <1>2, NumbersOf DEF TypeOK
  <2>2. InOrder(old, j, Len(right))
    BY DEF RowsRebuild
  <2> HIDE DEF old, new
  <2>3. new[1] = b
    BY <1>1, <1>2, <1>3, <2>1
  <2>4. ASSUME NEW x \in 1 .. Len(rows) PROVE new[x + 1] = old[x]
    <3>1. x + 1 \in 1 .. Len(rows) + 1
      BY <1>3
    <3> QED BY <1>2, <2>1, <3>1
  <2>5. j' \in Nat /\ ((b = 0 /\ j' = j) \/ (b = j /\ j > 0 /\ j' = j - 1))
    BY <1>1, <1>3
  <2>6. InOrder(new, j', Len(right))
    <3>1. Prepended(old, new, Len(rows), b)
      BY <1>1, <1>3, <2>1, <2>3, <2>4 DEF Prepended
    <3> QED BY <1>3, <2>2, <2>5, <3>1, InOrderPrepend
  <2> QED BY <2>6 DEF new
<1>6. ASSUME NEW x \in 1 .. Len(rows')
      PROVE  \/ Deleted(rows'[x]) # Inserted(rows'[x])
             \/ /\ ~Deleted(rows'[x]) /\ ~Inserted(rows'[x])
                /\ left'[rows'[x].left] = right'[rows'[x].right]
  <2>1. CASE x = 1
    BY <1>1, <1>2, <2>1 DEF Deleted, Inserted
  <2>2. CASE x # 1
    <3>1. x - 1 \in 1 .. Len(rows) /\ (x - 1) + 1 = x
      BY <1>2, <1>3, <2>2
    <3>2. rows'[x] = rows[x - 1]
      BY <1>2, <3>1
    <3> QED BY <3>1, <3>2 DEF RowsRebuild
  <2> QED BY <2>1, <2>2
<1> QED BY <1>2, <1>4, <1>5, <1>6 DEF RowsRebuild

-----------------------------------------------------------------------------
(* The numbers g, taken from the first n - 1 of the numbers f.              *)
Ordered(g) == \A x, y \in DOMAIN g :
                 (x < y /\ g[x] # 0 /\ g[y] # 0) => g[x] < g[y]
Covers(g, f, n) ==
  /\ \A x \in DOMAIN g : g[x] # 0 => \E y \in 1 .. n - 1 : g[x] = f[y]
  /\ \A y \in 1 .. n - 1 : f[y] # 0 => \E x \in DOMAIN g : g[x] = f[y]

(* The numbers new are the M numbers old with v behind them.                *)
Appended(old, new, M, v) ==
  /\ M \in Nat /\ v \in Nat
  /\ DOMAIN old = 1 .. M /\ DOMAIN new = 1 .. M + 1
  /\ new[M + 1] = v
  /\ \A x \in 1 .. M : new[x] = old[x] /\ old[x] \in Nat

LEMMA OrderedAppend ==
  ASSUME NEW old, NEW new, NEW M, NEW v, Appended(old, new, M, v),
         NEW f, NEW n \in Nat \ {0}, NEW e \in Nat,
         DOMAIN f \in SUBSET Nat, 1 .. n - 1 \subseteq DOMAIN f,
         \A x \in DOMAIN f : f[x] \in Nat,
         e \in DOMAIN f, e >= n, v = f[e] \/ v = 0,
         Ordered(f), Ordered(old), Covers(old, f, n)
  PROVE  Ordered(new)
<1> USE DEF Appended
<1> SUFFICES ASSUME NEW x \in 1 .. M + 1, NEW y \in 1 .. M + 1,
                    x < y, new[x] # 0, new[y] # 0
             PROVE  new[x] < new[y]
  BY DEF Ordered
<1>1. x \in 1 .. M /\ new[x] = old[x]
  OBVIOUS
<1>2. CASE y = M + 1
  <2>1. new[y] = f[e] /\ f[e] # 0
    BY <1>2
  <2>2. PICK z \in 1 .. n - 1 : old[x] = f[z]
    BY <1>1 DEF Covers
  <2>3. z < e /\ z \in DOMAIN f /\ f[z] # 0
    BY <1>1, <2>2
  <2>4. f[z] < f[e]
    BY <2>1, <2>3 DEF Ordered
  <2> QED BY <1>1, <2>1, <2>2, <2>4
<1>3. CASE y # M + 1
  <2>1. y \in 1 .. M /\ new[y] = old[y]
    BY <1>3
  <2>2. x \in DOMAIN old /\ y \in DOMAIN old
    BY <1>1, <2>1
  <2> QED BY <1>1, <2>1, <2>2, Zenon DEF Ordered
<1> QED BY <1>2, <1>3

LEMMA CoversAppend ==
  ASSUME NEW old, NEW new, NEW M, NEW v, Appended(old, new, M, v),
         NEW f, NEW n \in Nat \ {0}, NEW m \in Nat, Covers(old, f, n),
         \/ m = n + 1 /\ v = f[n]
         \/ m = n + 2 /\ v = f[n] /\ f[n + 1] = 0
         \/ m = n + 2 /\ v = f[n + 1] /\ f[n] = 0
  PROVE  Covers(new, f, m)
<1> USE DEF Appended
<1>1. ASSUME NEW x \in 1 .. M + 1, new[x] # 0
      PROVE  \E y \in 1 .. m - 1 : new[x] = f[y]
  <2>1. CASE x = M + 1
    <3>1. n \in 1 .. m - 1 /\ (m = n + 2 => n + 1 \in 1 .. m - 1)
      OBVIOUS
    <3> QED BY <2>1, <3>1
  <2>2. CASE x # M + 1
    <3>1. x \in 1 .. M /\ new[x] = old[x]
      BY <2>2
    <3>2. PICK y \in 1 .. n - 1 : old[x] = f[y]
      BY <1>1, <3>1 DEF Covers
    <3>3. y \in 1 .. m - 1
      OBVIOUS
    <3> QED BY <3>1, <3>2, <3>3
  <2> QED BY <2>1, <2>2
<1>2. ASSUME NEW y \in 1 .. m - 1, f[y] # 0
      PROVE  \E x \in 1 .. M + 1 : new[x] = f[y]
  <2>1. CASE y \in 1 .. n - 1
    <3>1. PICK x \in 1 .. M : old[x] = f[y]
      BY <1>2, <2>1 DEF Covers
    <3>2. x \in 1 .. M + 1 /\ new[x] = f[y]
      BY <3>1
    <3> QED BY <3>2
  <2>2. CASE y \notin 1 .. n - 1
    <3>1. v = f[y]
      BY <1>2, <2>2
    <3>2. M + 1 \in 1 .. M + 1 /\ new[M + 1] = f[y]
      BY <3>1
    <3> QED BY <3>2
  <2> QED BY <2>1, <2>2
<1> QED BY <1>1, <1>2 DEF Covers

SplitInv ==
  /\ k \in 1 .. Len(rows) + 1
  /\ k > 1 => Walked
  /\ Ordered(Lefts(split)) /\ Covers(Lefts(split), Lefts(rows), k)
  /\ Ordered(Rights(split)) /\ Covers(Rights(split), Rights(rows), k)
  /\ Len(split) > 0 => k > 1

(* The inductive invariant.                                                 *)
IInv == TypeOK /\ RowsRebuild /\ SplitInv

LEMMA InitInv == Init => IInv
<1> SUFFICES ASSUME Init PROVE IInv
  OBVIOUS
<1>1. left \in Seq(Lines) /\ right \in Seq(Lines)
  BY DEF Init, Texts
<1>2. TypeOK
  BY <1>1 DEF Init, TypeOK
<1>3. InOrder(Lefts(<<>>), i, Len(left)) /\ InOrder(Rights(<<>>), j, Len(right))
  BY <1>1, EmptyInOrder DEF Init
<1>4. RowsRebuild
  BY <1>3 DEF Init, RowsRebuild
<1>5. DOMAIN Lefts(<<>>) = {} /\ DOMAIN Rights(<<>>) = {}
  BY DEF Lefts, Rights
<1>6. 1 .. 1 - 1 = {} /\ Len(rows) = 0 /\ Len(split) = 0
  BY DEF Init
<1>7. SplitInv
  BY <1>5, <1>6 DEF Init, SplitInv, Ordered, Covers
<1> QED BY <1>2, <1>4, <1>7 DEF IInv

(* The walk back: one row more in front, nothing paired yet.                *)
LEMMA WalkStep ==
  ASSUME IInv, Keep \/ Insert \/ Delete
  PROVE  IInv'
<1> USE DEF IInv
<1>1. i \in Nat /\ j \in Nat /\ i <= Len(left) /\ j <= Len(right)
  BY DEF TypeOK
<1>2. k = 1 /\ Len(split) = 0
  BY <1>1 DEF Keep, Insert, Delete, SameLine, InsertFirst, SplitInv, Walked,
       TypeOK
<1>3. RowsRebuild' /\ rows' \in Seq(Row)
  <2>1. CASE Keep
    BY <1>1, <2>1, FoundRow DEF Keep, SameLine
  <2>2. CASE Insert
    BY <1>1, <2>2, FoundRow DEF Insert, InsertFirst
  <2>3. CASE Delete
    BY <1>1, <2>3, FoundRow DEF Delete
  <2> QED BY <2>1, <2>2, <2>3
<1>4. TypeOK'
  <2>1. UNCHANGED <<left, right, k, split>>
    BY DEF Keep, Insert, Delete
  <2>2. i' \in 0 .. Len(left) /\ j' \in 0 .. Len(right)
    <3>1. CASE Keep
      BY <1>1, <3>1 DEF Keep, SameLine
    <3>2. CASE Insert
      BY <1>1, <3>2 DEF Insert, InsertFirst
    <3>3. CASE Delete
      BY <1>1, <3>3 DEF Delete
    <3> QED BY <3>1, <3>2, <3>3
  <2> QED BY <1>3, <2>1, <2>2 DEF TypeOK
<1>5. SplitInv'
  <2>1. k' = 1 /\ split' = split
    BY <1>2 DEF Keep, Insert, Delete
  <2>2. split = <<>> /\ Len(rows') \in Nat
    BY <1>2, <1>3 DEF TypeOK
  <2>3. DOMAIN Lefts(<<>>) = {} /\ DOMAIN Rights(<<>>) = {} /\ 1 .. 1 - 1 = {}
    BY DEF Lefts, Rights
  <2> QED BY <2>1, <2>2, <2>3 DEF SplitInv, Ordered, Covers
<1> QED BY <1>3, <1>4, <1>5

LEMMA AppendRow ==
  ASSUME NEW list \in Seq(Row), NEW row \in Row
  PROVE  /\ Append(list, row) \in Seq(Row)
         /\ Appended(Lefts(list), Lefts(Append(list, row)), Len(list), row.left)
         /\ Appended(Rights(list), Rights(Append(list, row)), Len(list), row.right)
<1> DEFINE new == Append(list, row)
<1>1. /\ new \in Seq(Row) /\ Len(new) = Len(list) + 1 /\ Len(list) \in Nat
      /\ new[Len(list) + 1] = row /\ \A x \in 1 .. Len(list) : new[x] = list[x]
  OBVIOUS
<1> HIDE DEF new
<1>2. row.left \in Nat /\ row.right \in Nat
  BY DEF Row
<1>3. /\ Len(list) + 1 \in 1 .. Len(new)
      /\ \A x \in 1 .. Len(list) : x \in 1 .. Len(new)
  BY <1>1
<1>4. Appended(Lefts(list), Lefts(new), Len(list), row.left)
  BY <1>1, <1>2, <1>3, NumbersOf DEF Appended
<1>5. Appended(Rights(list), Rights(new), Len(list), row.right)
  BY <1>1, <1>2, <1>3, NumbersOf DEF Appended
<1> QED BY <1>1, <1>4, <1>5 DEF new

(* What both pairing steps do with one side.                                *)
LEMMA PairNumbers ==
  ASSUME NEW old, NEW new, NEW M, NEW v, Appended(old, new, M, v),
         NEW f, NEW N \in Nat, DOMAIN f = 1 .. N, \A x \in 1 .. N : f[x] \in Nat,
         Ordered(f), Ordered(old), NEW n \in 1 .. N, Covers(old, f, n),
         NEW m \in Nat,
         \/ m = n + 1 /\ v = f[n]
         \/ m = n + 2 /\ n < N /\ v = f[n] /\ f[n + 1] = 0
         \/ m = n + 2 /\ n < N /\ v = f[n + 1] /\ f[n] = 0
  PROVE  Ordered(new) /\ Covers(new, f, m)
<1>1. Covers(new, f, m)
  BY CoversAppend
<1>2. DOMAIN f \in SUBSET Nat /\ 1 .. n - 1 \subseteq DOMAIN f
  OBVIOUS
<1>3. PICK e \in DOMAIN f : e >= n /\ v = f[e]
  <2>1. n \in DOMAIN f /\ (n < N => n + 1 \in DOMAIN f)
    OBVIOUS
  <2> QED BY <2>1
<1>4. Ordered(new)
  BY <1>2, <1>3, OrderedAppend
<1> QED BY <1>1, <1>4

(* The numbers of the rows, for the two lemmas above.                       *)
LEMMA RowNumbers ==
  ASSUME IInv
  PROVE  /\ Len(rows) \in Nat
         /\ DOMAIN Lefts(rows) = 1 .. Len(rows) /\ Ordered(Lefts(rows))
         /\ DOMAIN Rights(rows) = 1 .. Len(rows) /\ Ordered(Rights(rows))
         /\ \A x \in 1 .. Len(rows) :
               /\ rows[x] \in Row
               /\ Lefts(rows)[x] = rows[x].left /\ Lefts(rows)[x] \in Nat
               /\ Rights(rows)[x] = rows[x].right /\ Rights(rows)[x] \in Nat
<1>1. rows \in Seq(Row)
  BY DEF IInv, TypeOK
<1>2. Ordered(Lefts(rows)) /\ Ordered(Rights(rows))
  BY DEF IInv, RowsRebuild, InOrder, Ordered
<1>3. Len(rows) \in Nat /\ \A x \in 1 .. Len(rows) : rows[x] \in Row
  BY <1>1
<1> QED BY <1>1, <1>2, <1>3, NumbersOf

(* Pairing: one row more at the end, for one or for two of the rows.        *)
LEMMA PairStep ==
  ASSUME IInv, PairRows \/ SingleRow
  PROVE  IInv'
<1> DEFINE f == Lefts(rows)
           g == Rights(rows)
<1>1. /\ UNCHANGED <<left, right, dp, i, j, rows>>
      /\ k \in 1 .. Len(rows) /\ Walked /\ Len(rows) \in Nat
  BY DEF PairRows, SingleRow, IInv, TypeOK
<1>2. PICK row \in Row :
         /\ split' = Append(split, row)
         /\ \/ /\ k' = k + 1
               /\ row.left = rows[k].left /\ row.right = rows[k].right
            \/ /\ k' = k + 2 /\ k < Len(rows)
               /\ row.left = rows[k].left /\ rows[k + 1].left = 0
               /\ row.right = rows[k + 1].right /\ rows[k].right = 0
  <2>1. CASE PairRows
    <3>1. k < Len(rows) /\ rows[k].right = 0 /\ rows[k + 1].left = 0
      BY <2>1 DEF PairRows, Pairs, Deleted, Inserted
    <3>2. k + 1 \in 1 .. Len(rows)
      BY <1>1, <3>1
    <3>3. rows[k] \in Row /\ rows[k + 1] \in Row
      BY <1>1, <3>2, RowNumbers
    <3>4. [left |-> rows[k].left, right |-> rows[k + 1].right] \in Row
      BY <3>3 DEF Row
    <3> QED BY <2>1, <3>1, <3>4 DEF PairRows
  <2>2. CASE SingleRow
    <3>1. rows[k] \in Row
      BY <1>1, RowNumbers
    <3> QED BY <2>2, <3>1 DEF SingleRow
  <2> QED BY <2>1, <2>2
<1>3. /\ split' \in Seq(Row) /\ Len(split) \in Nat
      /\ Appended(Lefts(split), Lefts(split'), Len(split), row.left)
      /\ Appended(Rights(split), Rights(split'), Len(split), row.right)
  BY <1>2, AppendRow DEF IInv, TypeOK
<1>4. k' \in Nat /\ k' \in 2 .. Len(rows) + 1
  BY <1>1, <1>2
<1>5. k + 1 \in 1 .. Len(rows) \/ k' = k + 1
  BY <1>1, <1>2
<1>6. Ordered(Lefts(split')) /\ Covers(Lefts(split'), Lefts(rows), k')
  <2>1. /\ Len(rows) \in Nat /\ DOMAIN f = 1 .. Len(rows) /\ Ordered(f)
        /\ \A x \in 1 .. Len(rows) : f[x] = rows[x].left /\ f[x] \in Nat
    BY RowNumbers
  <2>2. Ordered(Lefts(split)) /\ Covers(Lefts(split), f, k)
    BY DEF IInv, SplitInv
  <2> HIDE DEF f
  <2>3. \/ k' = k + 1 /\ row.left = f[k]
        \/ k' = k + 2 /\ k < Len(rows) /\ row.left = f[k] /\ f[k + 1] = 0
    BY <1>1, <1>2, <1>5, <2>1
  <2>4. Ordered(Lefts(split')) /\ Covers(Lefts(split'), f, k')
    <3>1. /\ k' \in Nat /\ k \in 1 .. Len(rows)
          /\ Appended(Lefts(split), Lefts(split'), Len(split), row.left)
          /\ \A x \in 1 .. Len(rows) : f[x] \in Nat
      BY <1>1, <1>3, <1>4, <2>1
    <3> QED BY <2>1, <2>2, <2>3, <3>1, PairNumbers
  <2> QED BY <2>4 DEF f
<1>7. Ordered(Rights(split')) /\ Covers(Rights(split'), Rights(rows), k')
  <2>1. /\ Len(rows) \in Nat /\ DOMAIN g = 1 .. Len(rows) /\ Ordered(g)
        /\ \A x \in 1 .. Len(rows) : g[x] = rows[x].right /\ g[x] \in Nat
    BY RowNumbers
  <2>2. Ordered(Rights(split)) /\ Covers(Rights(split), g, k)
    BY DEF IInv, SplitInv
  <2> HIDE DEF g
  <2>3. \/ k' = k + 1 /\ row.right = g[k]
        \/ k' = k + 2 /\ k < Len(rows) /\ row.right = g[k + 1] /\ g[k] = 0
    BY <1>1, <1>2, <1>5, <2>1
  <2>4. Ordered(Rights(split')) /\ Covers(Rights(split'), g, k')
    <3>1. /\ k' \in Nat /\ k \in 1 .. Len(rows)
          /\ Appended(Rights(split), Rights(split'), Len(split), row.right)
          /\ \A x \in 1 .. Len(rows) : g[x] \in Nat
      BY <1>1, <1>3, <1>4, <2>1
    <3> QED BY <2>1, <2>2, <2>3, <3>1, PairNumbers
  <2> QED BY <2>4 DEF g
<1>8. SplitInv'
  BY <1>1, <1>4, <1>6, <1>7 DEF SplitInv, Walked
<1>9. TypeOK'
  BY <1>1, <1>3, <1>4 DEF IInv, TypeOK
<1>10. RowsRebuild'
  BY <1>1 DEF IInv, RowsRebuild
<1> QED BY <1>8, <1>9, <1>10 DEF IInv

-----------------------------------------------------------------------------
THEOREM Invariant == Spec => []IInv
<1>1. IInv /\ [Next]_vars => IInv'
  <2> SUFFICES ASSUME IInv, [Next]_vars PROVE IInv'
    OBVIOUS
  <2>1. CASE UNCHANGED vars
    BY <2>1 DEF vars, IInv, TypeOK, RowsRebuild, SplitInv, Walked
  <2> QED BY <2>1, WalkStep, PairStep DEF Next, Return
<1> QED BY <1>1, InitInv, PTL DEF Spec

(* Every variable keeps its type.                                           *)
THEOREM TypeCorrect == Spec => []TypeOK
<1>1. IInv => TypeOK
  BY DEF IInv
<1> QED BY <1>1, Invariant, PTL

(* For configurations of any length and any table, correct or not, the rows *)
(* of GenerateDiff rebuild both configurations.                             *)
THEOREM DiffRebuilds == Spec => []RowsRebuild
<1>1. IInv => RowsRebuild
  BY DEF IInv
<1> QED BY <1>1, Invariant, PTL

(* The view side by side shows the same lines as the unified one.           *)
THEOREM SplitComplete == Spec => []SplitRebuilds
<1>1. ASSUME IInv, Finished PROVE InOrder(Lefts(split), 0, Len(left))
  <2>1. /\ k = Len(rows) + 1 /\ i = 0 /\ Len(rows) \in Nat
    BY <1>1 DEF IInv, SplitInv, Finished, Walked, TypeOK
  <2>2. Ordered(Lefts(split)) /\ Covers(Lefts(split), Lefts(rows), Len(rows) + 1)
    BY <1>1, <2>1 DEF IInv, SplitInv
  <2>3. /\ DOMAIN Lefts(rows) = 1 .. (Len(rows) + 1) - 1
        /\ InOrder(Lefts(rows), 0, Len(left))
    BY <1>1, <2>1, RowNumbers DEF IInv, RowsRebuild
  <2>4. {Lefts(split)[x] : x \in DOMAIN Lefts(split)} \ {0}
           = {Lefts(rows)[x] : x \in DOMAIN Lefts(rows)} \ {0}
    BY <2>2, <2>3 DEF Covers
  <2> QED BY <2>2, <2>3, <2>4 DEF InOrder, Ordered
<1>2. ASSUME IInv, Finished PROVE InOrder(Rights(split), 0, Len(right))
  <2>1. /\ k = Len(rows) + 1 /\ j = 0 /\ Len(rows) \in Nat
    BY <1>2 DEF IInv, SplitInv, Finished, Walked, TypeOK
  <2>2. Ordered(Rights(split)) /\ Covers(Rights(split), Rights(rows), Len(rows) + 1)
    BY <1>2, <2>1 DEF IInv, SplitInv
  <2>3. /\ DOMAIN Rights(rows) = 1 .. (Len(rows) + 1) - 1
        /\ InOrder(Rights(rows), 0, Len(right))
    BY <1>2, <2>1, RowNumbers DEF IInv, RowsRebuild
  <2>4. {Rights(split)[x] : x \in DOMAIN Rights(split)} \ {0}
           = {Rights(rows)[x] : x \in DOMAIN Rights(rows)} \ {0}
    BY <2>2, <2>3 DEF Covers
  <2> QED BY <2>2, <2>3, <2>4 DEF InOrder, Ordered
<1>3. IInv => SplitRebuilds
  BY <1>1, <1>2 DEF SplitRebuilds
<1> QED BY <1>3, Invariant, PTL

-----------------------------------------------------------------------------
(* Induction over the natural numbers, by way of the least element of a set *)
(* of them.                                                                 *)
LEMMA Least ==
  ASSUME NEW T \in SUBSET Nat, T # {}
  PROVE  \E n \in T : \A m \in T : n <= m
<1> DEFINE less == {p \in Nat \X Nat : p[1] < p[2]}
<1>1. IsWellFoundedOn(less, Nat)
  BY NatLessThanWellFounded DEF OpToRel
<1>2. PICK n \in T : \A m \in T : ~ <<m, n>> \in less
  BY <1>1, WFMin, Zenon
<1>3. ASSUME NEW m \in T PROVE n <= m
  <2>1. <<m, n>> \in Nat \X Nat /\ <<m, n>>[1] = m /\ <<m, n>>[2] = n
    OBVIOUS
  <2>2. ~(m < n)
    BY <1>2, <2>1, Zenon
  <2> QED BY <2>2
<1> QED BY <1>3

LEMMA Induction ==
  ASSUME NEW T, 0 \in T, \A n \in Nat : n \in T => n + 1 \in T
  PROVE  \A n \in Nat : n \in T
<1> SUFFICES ASSUME Nat \ T # {} PROVE FALSE
  OBVIOUS
<1>1. PICK n \in Nat \ T : \A m \in Nat \ T : n <= m
  BY Least
<1>2. n # 0 /\ n - 1 \in Nat
  BY <1>1
<1>3. (n - 1) + 1 \in T
  BY <1>1, <1>2
<1> QED BY <1>1, <1>3

(* The table of GenerateDiff: what a cell says of the cells next to it.     *)
Cells(l, r) == (0 .. Len(l)) \X (0 .. Len(r))
Cell(l, r, t, a, b) ==
  IF a = 0 \/ b = 0 THEN 0
  ELSE IF l[a] = r[b] THEN t[<<a - 1, b - 1>>] + 1
  ELSE IF t[<<a - 1, b>>] > t[<<a, b - 1>>] THEN t[<<a - 1, b>>]
  ELSE t[<<a, b - 1>>]
IsTable(l, r, t) == t = [p \in Cells(l, r) |-> Cell(l, r, t, p[1], p[2])]

LEMMA TableDef ==
  ASSUME NEW l, NEW r PROVE Table(l, r) = CHOOSE t : IsTable(l, r, t)
BY DEF Table, IsTable, Cells, Cell

(* A table that is right for the cells up to a sum of their numbers can be  *)
(* made right for the next ones.                                            *)
Filled(l, r, n) ==
  \E t \in [Cells(l, r) -> Nat] :
    \A a \in 0 .. Len(l), b \in 0 .. Len(r) :
      a + b <= n => t[<<a, b>>] = Cell(l, r, t, a, b)

LEMMA CellType ==
  ASSUME NEW l, NEW r, Len(l) \in Nat, Len(r) \in Nat, NEW t,
         \A a \in 0 .. Len(l), b \in 0 .. Len(r) : t[<<a, b>>] \in Nat,
         NEW a \in 0 .. Len(l), NEW b \in 0 .. Len(r)
  PROVE  Cell(l, r, t, a, b) \in Nat
<1>1. CASE a = 0 \/ b = 0
  BY <1>1 DEF Cell
<1>2. CASE a # 0 /\ b # 0
  <2>1. a - 1 \in 0 .. Len(l) /\ b - 1 \in 0 .. Len(r)
    BY <1>2
  <2>2. /\ t[<<a - 1, b>>] \in Nat /\ t[<<a, b - 1>>] \in Nat
        /\ t[<<a - 1, b - 1>>] \in Nat
    BY <2>1
  <2> QED BY <2>2 DEF Cell
<1> QED BY <1>1, <1>2

LEMMA FillMore ==
  ASSUME NEW l, NEW r, Len(l) \in Nat, Len(r) \in Nat,
         NEW n \in Nat, Filled(l, r, n)
  PROVE  Filled(l, r, n + 1)
<1>1. PICK t \in [Cells(l, r) -> Nat] :
        \A a \in 0 .. Len(l), b \in 0 .. Len(r) :
          a + b <= n => t[<<a, b>>] = Cell(l, r, t, a, b)
  BY DEF Filled
<1>2. \A a \in 0 .. Len(l), b \in 0 .. Len(r) :
        <<a, b>> \in Cells(l, r) /\ t[<<a, b>>] \in Nat
  BY DEF Cells
<1>3. ASSUME NEW a \in 0 .. Len(l), NEW b \in 0 .. Len(r)
      PROVE  Cell(l, r, t, a, b) \in Nat
  BY <1>2, CellType
<1> DEFINE u == [p \in Cells(l, r) |->
                   IF p[1] + p[2] = n + 1 THEN Cell(l, r, t, p[1], p[2])
                   ELSE t[p]]
<1>4. u \in [Cells(l, r) -> Nat]
  <2>1. \A p \in Cells(l, r) : /\ p[1] \in 0 .. Len(l) /\ p[2] \in 0 .. Len(r)
                               /\ t[p] \in Nat
    BY DEF Cells
  <2> QED BY <1>3, <2>1
<1>5. \A a \in 0 .. Len(l), b \in 0 .. Len(r) :
        u[<<a, b>>] = IF a + b = n + 1 THEN Cell(l, r, t, a, b)
                      ELSE t[<<a, b>>]
  BY <1>2
<1> HIDE DEF u
<1>6. ASSUME NEW a \in 0 .. Len(l), NEW b \in 0 .. Len(r), a + b <= n + 1
      PROVE  u[<<a, b>>] = Cell(l, r, u, a, b)
  <2>1. Cell(l, r, u, a, b) = Cell(l, r, t, a, b)
    <3>1. CASE a = 0 \/ b = 0
      BY <3>1 DEF Cell
    <3>2. CASE a # 0 /\ b # 0
      <4>1. a - 1 \in 0 .. Len(l) /\ b - 1 \in 0 .. Len(r)
        BY <3>2
      <4>2. /\ u[<<a - 1, b>>] = t[<<a - 1, b>>]
            /\ u[<<a, b - 1>>] = t[<<a, b - 1>>]
            /\ u[<<a - 1, b - 1>>] = t[<<a - 1, b - 1>>]
        BY <1>5, <1>6, <4>1
      <4> QED BY <4>2 DEF Cell
    <3> QED BY <3>1, <3>2
  <2> QED BY <1>1, <1>5, <1>6, <2>1
<1> QED BY <1>4, <1>6 DEF Filled

LEMMA TableIsTable ==
  ASSUME NEW l, NEW r, Len(l) \in Nat, Len(r) \in Nat
  PROVE  IsTable(l, r, Table(l, r))
<1>1. Filled(l, r, 0)
  <2> DEFINE t == [p \in Cells(l, r) |-> 0]
  <2>1. t \in [Cells(l, r) -> Nat]
    OBVIOUS
  <2>2. ASSUME NEW a \in 0 .. Len(l), NEW b \in 0 .. Len(r), a + b <= 0
        PROVE  t[<<a, b>>] = Cell(l, r, t, a, b)
    BY <2>2 DEF Cells, Cell
  <2> HIDE DEF t
  <2> QED BY <2>1, <2>2 DEF Filled
<1>2. Filled(l, r, Len(l) + Len(r))
  <2> DEFINE T == {n \in Nat : Filled(l, r, n)}
  <2>1. 0 \in T /\ \A n \in Nat : n \in T => n + 1 \in T
    BY <1>1, FillMore
  <2> HIDE DEF T
  <2>2. Len(l) + Len(r) \in T
    BY <2>1, Induction
  <2> QED BY <2>2 DEF T
<1>3. PICK t \in [Cells(l, r) -> Nat] :
        \A a \in 0 .. Len(l), b \in 0 .. Len(r) :
          a + b <= Len(l) + Len(r) => t[<<a, b>>] = Cell(l, r, t, a, b)
  BY <1>2 DEF Filled
<1>4. IsTable(l, r, t)
  <2>1. ASSUME NEW p \in Cells(l, r)
        PROVE  t[p] = Cell(l, r, t, p[1], p[2])
    <3>1. /\ p = <<p[1], p[2]>>
          /\ p[1] \in 0 .. Len(l) /\ p[2] \in 0 .. Len(r)
          /\ p[1] + p[2] <= Len(l) + Len(r)
      BY DEF Cells
    <3> QED BY <1>3, <3>1
  <2> QED BY <2>1 DEF IsTable
<1> QED BY <1>4, TableDef

LEMMA TableCells ==
  ASSUME NEW l, NEW r, Len(l) \in Nat, Len(r) \in Nat,
         NEW a \in 0 .. Len(l), NEW b \in 0 .. Len(r)
  PROVE  Table(l, r)[<<a, b>>] = Cell(l, r, Table(l, r), a, b)
<1> DEFINE t == Table(l, r)
<1>1. <<a, b>> \in Cells(l, r)
  BY DEF Cells
<1>2. t = [p \in Cells(l, r) |-> Cell(l, r, t, p[1], p[2])]
  BY TableIsTable DEF IsTable
<1> HIDE DEF t
<1>3. t[<<a, b>>] = Cell(l, r, t, <<a, b>>[1], <<a, b>>[2])
  BY <1>1, <1>2
<1> QED BY <1>3 DEF t

(* A common subsequence of the first a and the first b lines, n lines long. *)
CommonOf(l, r, a, b, n) ==
  \E f \in Choices(n, a), g \in Choices(n, b) :
     \A x \in 1 .. n : l[f[x]] = r[g[x]]

(* A choice without its last line, and one whose last line is not the last. *)
LEMMA ShorterChoice ==
  ASSUME NEW n \in Nat \ {0}, NEW a \in Nat, NEW f \in Choices(n, a)
  PROVE  /\ a > 0 /\ f[n] \in 1 .. a
         /\ [x \in 1 .. n - 1 |-> f[x]] \in Choices(n - 1, a - 1)
         /\ f[n] # a => f \in Choices(n, a - 1)
<1>1. /\ f \in [1 .. n -> 1 .. a]
      /\ \A x, y \in 1 .. n : x < y => f[x] < f[y]
  BY DEF Choices
<1>2. n \in 1 .. n /\ \A x \in 1 .. n - 1 : x \in 1 .. n /\ x < n
  OBVIOUS
<1>3. f[n] \in 1 .. a /\ a > 0
  BY <1>1, <1>2
<1>4. \A x \in 1 .. n - 1 : f[x] \in 1 .. a /\ f[x] < f[n]
  BY <1>1, <1>2
<1>5. [x \in 1 .. n - 1 |-> f[x]] \in Choices(n - 1, a - 1)
  <2> DEFINE h == [x \in 1 .. n - 1 |-> f[x]]
  <2>1. \A x \in 1 .. n - 1 : f[x] \in 1 .. a - 1
    BY <1>3, <1>4
  <2>2. h \in [1 .. n - 1 -> 1 .. a - 1]
    BY <2>1
  <2>3. \A x, y \in 1 .. n - 1 : x < y => h[x] < h[y]
    BY <1>1, <1>2
  <2> HIDE DEF h
  <2>4. h \in Choices(n - 1, a - 1)
    BY <2>2, <2>3 DEF Choices
  <2> QED BY <2>4 DEF h
<1>6. ASSUME f[n] # a PROVE f \in Choices(n, a - 1)
  <2>1. \A x \in 1 .. n : x = n \/ x \in 1 .. n - 1
    OBVIOUS
  <2>2. \A x \in 1 .. n : f[x] \in 1 .. a - 1
    BY <1>3, <1>4, <1>6, <2>1
  <2>3. f \in [1 .. n -> 1 .. a - 1]
    BY <1>1, <2>2
  <2> QED BY <1>1, <2>3 DEF Choices
<1> QED BY <1>3, <1>5, <1>6

(* The table bounds the common subsequences: one that uses both last lines  *)
(* is one longer than one that uses neither, any other does without one of  *)
(* them.                                                                    *)
Bounds(l, r, s) ==
  \A a \in 0 .. Len(l), b \in 0 .. Len(r) : a + b <= s =>
    /\ Table(l, r)[<<a, b>>] \in Nat
    /\ \A n \in Nat : CommonOf(l, r, a, b, n) => n <= Table(l, r)[<<a, b>>]

LEMMA BoundsMore ==
  ASSUME NEW l, NEW r, Len(l) \in Nat, Len(r) \in Nat,
         NEW s \in Nat, Bounds(l, r, s)
  PROVE  Bounds(l, r, s + 1)
<1> DEFINE t == Table(l, r)
<1> SUFFICES ASSUME NEW a \in 0 .. Len(l), NEW b \in 0 .. Len(r),
                    a + b <= s + 1
             PROVE  /\ t[<<a, b>>] \in Nat
                    /\ \A n \in Nat : CommonOf(l, r, a, b, n)
                                        => n <= t[<<a, b>>]
  BY DEF Bounds
<1>1. t[<<a, b>>] = Cell(l, r, t, a, b)
  BY TableCells
<1>2. \A c \in 0 .. Len(l), d \in 0 .. Len(r) : c + d <= s =>
        /\ t[<<c, d>>] \in Nat
        /\ \A n \in Nat : CommonOf(l, r, c, d, n) => n <= t[<<c, d>>]
  BY DEF Bounds
<1> HIDE DEF t
<1>3. CASE a = 0 \/ b = 0
  <2>1. t[<<a, b>>] = 0
    BY <1>1, <1>3 DEF Cell
  <2>2. ASSUME NEW n \in Nat, CommonOf(l, r, a, b, n) PROVE n = 0
    <3> SUFFICES ASSUME n # 0 PROVE FALSE
      OBVIOUS
    <3>1. PICK f \in Choices(n, a), g \in Choices(n, b) : TRUE
      BY <2>2 DEF CommonOf
    <3>2. n \in Nat \ {0} /\ a \in Nat /\ b \in Nat
      OBVIOUS
    <3>3. a > 0 /\ b > 0
      BY <3>2, ShorterChoice
    <3> QED BY <1>3, <3>3
  <2> QED BY <2>1, <2>2
<1>4. CASE a # 0 /\ b # 0
  <2>1. /\ a - 1 \in 0 .. Len(l) /\ b - 1 \in 0 .. Len(r)
        /\ (a - 1) + b <= s /\ a + (b - 1) <= s /\ (a - 1) + (b - 1) <= s
    BY <1>4
  <2>2. /\ t[<<a - 1, b>>] \in Nat /\ t[<<a, b - 1>>] \in Nat
        /\ t[<<a - 1, b - 1>>] \in Nat
    BY <1>2, <2>1
  <2>3. t[<<a, b>>] =
          IF l[a] = r[b] THEN t[<<a - 1, b - 1>>] + 1
          ELSE IF t[<<a - 1, b>>] > t[<<a, b - 1>>] THEN t[<<a - 1, b>>]
          ELSE t[<<a, b - 1>>]
    BY <1>1, <1>4 DEF Cell
  <2>4. ASSUME NEW n \in Nat, CommonOf(l, r, a, b, n), n # 0
        PROVE  n <= t[<<a, b>>]
    <3>1. PICK f \in Choices(n, a), g \in Choices(n, b) :
             \A x \in 1 .. n : l[f[x]] = r[g[x]]
      BY <2>4 DEF CommonOf
    <3>2. CASE l[a] = r[b]
      <4> DEFINE e == [x \in 1 .. n - 1 |-> f[x]]
                 h == [x \in 1 .. n - 1 |-> g[x]]
      <4>1. e \in Choices(n - 1, a - 1) /\ h \in Choices(n - 1, b - 1)
        BY <2>4, ShorterChoice
      <4>2. \A x \in 1 .. n - 1 : l[e[x]] = r[h[x]]
        BY <3>1
      <4> HIDE DEF e, h
      <4>3. CommonOf(l, r, a - 1, b - 1, n - 1)
        BY <4>1, <4>2 DEF CommonOf
      <4>4. n - 1 \in Nat
        BY <2>4
      <4>5. n - 1 <= t[<<a - 1, b - 1>>]
        BY <1>2, <2>1, <4>3, <4>4
      <4> QED BY <2>2, <2>3, <3>2, <4>5
    <3>3. CASE l[a] # r[b]
      <4>1. n \in 1 .. n
        BY <2>4
      <4>2. f[n] # a \/ g[n] # b
        BY <3>1, <3>3, <4>1
      <4>3. CommonOf(l, r, a - 1, b, n) \/ CommonOf(l, r, a, b - 1, n)
        <5>1. n \in Nat \ {0} /\ a \in Nat /\ b \in Nat
          BY <2>4
        <5>2. f \in Choices(n, a - 1) \/ g \in Choices(n, b - 1)
          BY <4>2, <5>1, ShorterChoice
        <5> QED BY <3>1, <5>2 DEF CommonOf
      <4>4. n <= t[<<a - 1, b>>] \/ n <= t[<<a, b - 1>>]
        BY <1>2, <2>1, <4>3
      <4> QED BY <2>2, <2>3, <3>3, <4>4
    <3> QED BY <3>2, <3>3
  <2>5. t[<<a, b>>] \in Nat
    BY <2>2, <2>3
  <2> QED BY <2>4, <2>5
<1> QED BY <1>3, <1>4

LEMMA AllBounds ==
  ASSUME NEW l, NEW r, Len(l) \in Nat, Len(r) \in Nat
  PROVE  Bounds(l, r, Len(l) + Len(r))
<1>1. Bounds(l, r, 0)
  <2> SUFFICES ASSUME NEW a \in 0 .. Len(l), NEW b \in 0 .. Len(r), a + b <= 0
               PROVE  /\ Table(l, r)[<<a, b>>] \in Nat
                      /\ \A m \in Nat : CommonOf(l, r, a, b, m)
                                          => m <= Table(l, r)[<<a, b>>]
    BY DEF Bounds
  <2>1. a = 0 /\ b = 0
    OBVIOUS
  <2>2. Table(l, r)[<<a, b>>] = 0
    <3>1. Table(l, r)[<<a, b>>] = Cell(l, r, Table(l, r), a, b)
      BY TableCells
    <3> QED BY <2>1, <3>1 DEF Cell
  <2>3. ASSUME NEW m \in Nat, CommonOf(l, r, a, b, m), m # 0 PROVE FALSE
    <3>1. PICK f \in Choices(m, a) : TRUE
      BY <2>3 DEF CommonOf
    <3>2. m \in Nat \ {0} /\ a \in Nat
      BY <2>3
    <3>3. a > 0
      BY <3>2, ShorterChoice
    <3> QED BY <2>1, <3>3
  <2> QED BY <2>2, <2>3
<1> DEFINE T == {s \in Nat : Bounds(l, r, s)}
<1>2. 0 \in T /\ \A s \in Nat : s \in T => s + 1 \in T
  BY <1>1, BoundsMore
<1> HIDE DEF T
<1>3. Len(l) + Len(r) \in T
  BY <1>2, Induction
<1> QED BY <1>3 DEF T

LEMMA TableBounds ==
  ASSUME NEW l, NEW r, Len(l) \in Nat, Len(r) \in Nat, NEW n \in Nat,
         CommonOf(l, r, Len(l), Len(r), n)
  PROVE  n <= Table(l, r)[<<Len(l), Len(r)>>]
<1>1. Len(l) \in 0 .. Len(l) /\ Len(r) \in 0 .. Len(r)
  OBVIOUS
<1> QED BY <1>1, AllBounds DEF Bounds

LEMMA TableType ==
  ASSUME NEW l, NEW r, Len(l) \in Nat, Len(r) \in Nat
  PROVE  \A a \in 0 .. Len(l), b \in 0 .. Len(r) :
           /\ Table(l, r)[<<a, b>>] \in Nat
           /\ a = 0 \/ b = 0 => Table(l, r)[<<a, b>>] = 0
<1> TAKE a \in 0 .. Len(l), b \in 0 .. Len(r)
<1>1. Bounds(l, r, Len(l) + Len(r))
  BY AllBounds
<1>2. Table(l, r)[<<a, b>>] \in Nat
  BY <1>1 DEF Bounds
<1>3. Table(l, r)[<<a, b>>] = Cell(l, r, Table(l, r), a, b)
  BY TableCells
<1> QED BY <1>2, <1>3 DEF Cell

-----------------------------------------------------------------------------
(* Counting the rows: a row in front moves the numbers of the others.       *)
LEMMA OneInFront ==
  ASSUME NEW N \in Nat, NEW A \in SUBSET (1 .. N), NEW B \in SUBSET (1 .. N + 1),
         \A x \in 1 .. N : x + 1 \in B <=> x \in A
  PROVE  /\ Cardinality(A) \in Nat
         /\ Cardinality(B) = Cardinality(A) + (IF 1 \in B THEN 1 ELSE 0)
<1> DEFINE S == B \ {1}
           f == [x \in A |-> x + 1]
<1>1. IsFiniteSet(A) /\ IsFiniteSet(S) /\ Cardinality(A) \in Nat
  <2>1. IsFiniteSet(1 .. N) /\ IsFiniteSet(1 .. N + 1)
    BY FS_Interval
  <2> QED BY <2>1, FS_Subset, FS_CardinalityType
<1>2. f \in Injection(A, S) /\ f \in Surjection(A, S)
  <2>1. f \in [A -> S] /\ \A x, y \in A : f[x] = f[y] => x = y
    OBVIOUS
  <2>2. ASSUME NEW y \in S PROVE \E x \in A : f[x] = y
    <3>1. y - 1 \in 1 .. N /\ (y - 1) + 1 = y
      OBVIOUS
    <3>2. y - 1 \in A
      BY <3>1
    <3> QED BY <3>1, <3>2
  <2> HIDE DEF f, S
  <2>3. f \in Injection(A, S)
    BY <2>1 DEF Injection, IsInjective
  <2>4. f \in Surjection(A, S)
    BY <2>1, <2>2 DEF Surjection
  <2> QED BY <2>3, <2>4
<1>3. Cardinality(S) = Cardinality(A)
  <2> HIDE DEF f, S
  <2> QED BY <1>1, <1>2, FS_Surjection
<1>4. CASE 1 \in B
  <2>1. B = S \cup {1} /\ 1 \notin S
    BY <1>4
  <2> HIDE DEF S
  <2>2. Cardinality(B) = Cardinality(S) + 1
    BY <1>1, <2>1, FS_AddElement
  <2> QED BY <1>1, <1>3, <1>4, <2>2
<1>5. CASE 1 \notin B
  <2>1. B = S
    BY <1>5
  <2> QED BY <1>1, <1>3, <1>5, <2>1
<1> QED BY <1>1, <1>4, <1>5

LEMMA Counts ==
  ASSUME TypeOK PROVE Additions \in Nat /\ Deletions \in Nat
<1>1. IsFiniteSet(1 .. Len(rows))
  BY FS_Interval DEF TypeOK
<1> QED BY <1>1, FS_Subset, FS_CardinalityType DEF Additions, Deletions

LEMMA FoundCounts ==
  ASSUME TypeOK, NEW a \in Nat, NEW b \in Nat, Found(a, b)
  PROVE  /\ Len(rows') = Len(rows) + 1 /\ Len(rows) \in Nat
         /\ Additions \in Nat /\ Deletions \in Nat
         /\ Additions' = Additions + (IF a = 0 THEN 1 ELSE 0)
         /\ Deletions' = Deletions + (IF b = 0 THEN 1 ELSE 0)
<1> DEFINE row == [left |-> a, right |-> b]
<1>1. row \in Row /\ row.left = a /\ row.right = b
  BY DEF Row
<1>2. /\ Len(rows') = Len(rows) + 1 /\ Len(rows) \in Nat
      /\ rows'[1] = row /\ \A x \in 1 .. Len(rows) : rows'[x + 1] = rows[x]
  <2> HIDE DEF row
  <2>1. rows' = <<row>> \o rows
    BY DEF Found, row
  <2> QED BY <1>1, <2>1, Prepend DEF TypeOK
<1> HIDE DEF row
<1> DEFINE N    == Len(rows)
           Ins  == {x \in 1 .. Len(rows) : Inserted(rows[x])}
           Ins1 == {x \in 1 .. Len(rows) + 1 : Inserted(rows'[x])}
           Del  == {x \in 1 .. Len(rows) : Deleted(rows[x])}
           Del1 == {x \in 1 .. Len(rows) + 1 : Deleted(rows'[x])}
<1>3. \A x \in 1 .. N : x + 1 \in 1 .. N + 1
  BY <1>2
<1>4. \A x \in 1 .. N : x + 1 \in Ins1 <=> x \in Ins
  BY <1>2, <1>3 DEF Inserted
<1>4a. \A x \in 1 .. N : x + 1 \in Del1 <=> x \in Del
  BY <1>2, <1>3 DEF Deleted
<1>5. (1 \in Ins1 <=> a = 0) /\ (1 \in Del1 <=> b = 0)
  BY <1>1, <1>2 DEF Inserted, Deleted
<1>6. /\ Ins \in SUBSET (1 .. N) /\ Ins1 \in SUBSET (1 .. N + 1)
      /\ Del \in SUBSET (1 .. N) /\ Del1 \in SUBSET (1 .. N + 1)
      /\ N \in Nat
  BY <1>2
<1>7. /\ Additions = Cardinality(Ins) /\ Additions' = Cardinality(Ins1)
      /\ Deletions = Cardinality(Del) /\ Deletions' = Cardinality(Del1)
  BY <1>2 DEF Additions, Deletions, Inserted, Deleted
<1> HIDE DEF Ins, Ins1, Del, Del1, N
<1>8. /\ Cardinality(Ins) \in Nat
      /\ Cardinality(Ins1) = Cardinality(Ins) + (IF 1 \in Ins1 THEN 1 ELSE 0)
  <2>1. /\ N \in Nat /\ Ins \in SUBSET (1 .. N)
        /\ Ins1 \in SUBSET (1 .. N + 1)
    BY <1>6
  <2> QED BY <1>4, <2>1, OneInFront
<1>9. /\ Cardinality(Del) \in Nat
      /\ Cardinality(Del1) = Cardinality(Del) + (IF 1 \in Del1 THEN 1 ELSE 0)
  <2>1. /\ N \in Nat /\ Del \in SUBSET (1 .. N)
        /\ Del1 \in SUBSET (1 .. N + 1)
    BY <1>6
  <2> QED BY <1>4a, <2>1, OneInFront
<1> QED BY <1>2, <1>5, <1>7, <1>8, <1>9

(* The walk back gives up a kept line only where the table says that it is  *)
(* not needed: what was kept and what the table promises for the rest add   *)
(* up to the longest common subsequence.                                    *)
Kept == Len(rows) - Additions - Deletions

WalkInv ==
  /\ dp = Table(left, right)
  /\ Len(rows) - Additions = Len(left) - i
  /\ Len(rows) - Deletions = Len(right) - j
  /\ Kept + dp[<<i, j>>] = dp[<<Len(left), Len(right)>>]

LEMMA WalkInit == Init => WalkInv
<1> SUFFICES ASSUME Init PROVE WalkInv
  OBVIOUS
<1>1. left \in Seq(Lines) /\ right \in Seq(Lines)
  BY DEF Init, Texts
<1>2. Additions = 0 /\ Deletions = 0
  <2>1. Len(rows) = 0 /\ 1 .. 0 = {}
    BY DEF Init
  <2>2. Additions = Cardinality({}) /\ Deletions = Cardinality({})
    BY <2>1 DEF Additions, Deletions
  <2> QED BY <2>2, FS_EmptySet
<1>3. dp[<<i, j>>] \in Nat
  <2>1. Len(left) \in Nat /\ Len(right) \in Nat
    BY <1>1
  <2> QED BY <2>1, TableType DEF Init
<1> QED BY <1>1, <1>2, <1>3 DEF Init, WalkInv, Kept

LEMMA BackStep ==
  ASSUME TypeOK, WalkInv, Keep \/ Insert \/ Delete
  PROVE  WalkInv'
<1>1. /\ i \in Nat /\ j \in Nat /\ i <= Len(left) /\ j <= Len(right)
      /\ Len(left) \in Nat /\ Len(right) \in Nat
      /\ i \in 0 .. Len(left) /\ j \in 0 .. Len(right)
  BY DEF TypeOK
<1>2. /\ UNCHANGED <<left, right, dp>>
      /\ dp = Table(left, right)
  BY DEF Keep, Insert, Delete, WalkInv
<1>3. dp[<<i, j>>] =
        IF i = 0 \/ j = 0 THEN 0
        ELSE IF left[i] = right[j] THEN dp[<<i - 1, j - 1>>] + 1
        ELSE IF dp[<<i - 1, j>>] > dp[<<i, j - 1>>] THEN dp[<<i - 1, j>>]
        ELSE dp[<<i, j - 1>>]
  BY <1>1, <1>2, TableCells DEF Cell
<1>4. \A a \in 0 .. Len(left), b \in 0 .. Len(right) :
        /\ dp[<<a, b>>] \in Nat
        /\ a = 0 \/ b = 0 => dp[<<a, b>>] = 0
  BY <1>1, <1>2, TableType
<1>0. /\ Len(rows) - Additions = Len(left) - i
      /\ Len(rows) - Deletions = Len(right) - j
  BY DEF WalkInv
<1>5. dp[<<Len(left), Len(right)>>] \in Nat
  BY <1>1, <1>4
<1>6. CASE Keep
  <2>1. /\ i > 0 /\ j > 0 /\ left[i] = right[j] /\ Found(i, j)
        /\ i' = i - 1 /\ j' = j - 1
    BY <1>6 DEF Keep, SameLine
  <2>2. i - 1 \in 0 .. Len(left) /\ j - 1 \in 0 .. Len(right)
    BY <1>1, <2>1
  <2>3. dp[<<i - 1, j - 1>>] \in Nat /\ dp[<<i, j>>] = dp[<<i - 1, j - 1>>] + 1
    BY <1>3, <1>4, <2>1, <2>2
  <2>4. /\ Len(rows') = Len(rows) + 1 /\ Len(rows) \in Nat
        /\ Additions \in Nat /\ Deletions \in Nat
        /\ Additions' = Additions /\ Deletions' = Deletions
    BY <1>1, <2>1, FoundCounts
  <2>5. /\ Len(rows') - Additions' = Len(left) - i'
        /\ Len(rows') - Deletions' = Len(right) - j'
    BY <1>0, <1>1, <2>1, <2>4
  <2>6. Len(rows') - Additions' - Deletions' + dp[<<i', j'>>]
          = dp[<<Len(left), Len(right)>>]
    BY <1>5, <2>1, <2>3, <2>4 DEF WalkInv, Kept
  <2> QED BY <1>2, <2>5, <2>6 DEF WalkInv, Kept
<1>7. CASE Insert
  <2>1. /\ j > 0 /\ ~SameLine /\ Found(0, j) /\ i' = i /\ j' = j - 1
        /\ i > 0 => dp[<<i, j - 1>>] >= dp[<<i - 1, j>>]
    BY <1>7 DEF Insert, InsertFirst
  <2>2. j - 1 \in 0 .. Len(right)
    BY <1>1, <2>1
  <2>3. dp[<<i, j - 1>>] \in Nat /\ dp[<<i, j>>] = dp[<<i, j - 1>>]
    <3>1. CASE i = 0
      BY <1>1, <1>4, <2>2, <3>1
    <3>2. CASE i # 0
      <4>1. i - 1 \in 0 .. Len(left) /\ left[i] # right[j]
        BY <1>1, <2>1, <3>2 DEF SameLine
      <4>2. dp[<<i, j - 1>>] \in Nat /\ dp[<<i - 1, j>>] \in Nat
        BY <1>1, <1>4, <2>2, <4>1
      <4> QED BY <1>1, <1>3, <2>1, <3>2, <4>1, <4>2
    <3> QED BY <3>1, <3>2
  <2>4. /\ Len(rows') = Len(rows) + 1 /\ Len(rows) \in Nat
        /\ Additions \in Nat /\ Deletions \in Nat
        /\ Additions' = Additions + 1 /\ Deletions' = Deletions
    BY <1>1, <2>1, FoundCounts
  <2>5. /\ Len(rows') - Additions' = Len(left) - i'
        /\ Len(rows') - Deletions' = Len(right) - j'
    BY <1>0, <1>1, <2>1, <2>4
  <2>6. Len(rows') - Additions' - Deletions' + dp[<<i', j'>>]
          = dp[<<Len(left), Len(right)>>]
    BY <1>5, <2>1, <2>3, <2>4 DEF WalkInv, Kept
  <2> QED BY <1>2, <2>5, <2>6 DEF WalkInv, Kept
<1>8. CASE Delete
  <2>1. /\ i > 0 /\ ~SameLine /\ Found(i, 0) /\ i' = i - 1 /\ j' = j
        /\ j > 0 => ~(dp[<<i, j - 1>>] >= dp[<<i - 1, j>>])
    BY <1>1, <1>8 DEF Delete, InsertFirst
  <2>2. i - 1 \in 0 .. Len(left)
    BY <1>1, <2>1
  <2>3. dp[<<i - 1, j>>] \in Nat /\ dp[<<i, j>>] = dp[<<i - 1, j>>]
    <3>1. CASE j = 0
      BY <1>1, <1>4, <2>2, <3>1
    <3>2. CASE j # 0
      <4>1. j - 1 \in 0 .. Len(right) /\ left[i] # right[j]
        BY <1>1, <2>1, <3>2 DEF SameLine
      <4>2. dp[<<i, j - 1>>] \in Nat /\ dp[<<i - 1, j>>] \in Nat
        BY <1>1, <1>4, <2>2, <4>1
      <4> QED BY <1>1, <1>3, <2>1, <3>2, <4>1, <4>2
    <3> QED BY <3>1, <3>2
  <2>4. /\ Len(rows') = Len(rows) + 1 /\ Len(rows) \in Nat
        /\ Additions \in Nat /\ Deletions \in Nat
        /\ Additions' = Additions /\ Deletions' = Deletions + 1
    BY <1>1, <2>1, FoundCounts
  <2>5. /\ Len(rows') - Additions' = Len(left) - i'
        /\ Len(rows') - Deletions' = Len(right) - j'
    BY <1>0, <1>1, <2>1, <2>4
  <2>6. Len(rows') - Additions' - Deletions' + dp[<<i', j'>>]
          = dp[<<Len(left), Len(right)>>]
    BY <1>5, <2>1, <2>3, <2>4 DEF WalkInv, Kept
  <2> QED BY <1>2, <2>5, <2>6 DEF WalkInv, Kept
<1> QED BY <1>6, <1>7, <1>8

LEMMA WalkInvariant == Spec => []WalkInv
<1>1. TypeOK /\ WalkInv /\ [Next]_vars => WalkInv'
  <2> SUFFICES ASSUME TypeOK, WalkInv, [Next]_vars,
                      UNCHANGED <<left, right, dp, i, j, rows>>
               PROVE  WalkInv'
    BY BackStep DEF Next, PairRows, SingleRow, Return, vars
  <2> QED BY DEF WalkInv, Kept, Additions, Deletions
<1> QED BY <1>1, WalkInit, TypeCorrect, PTL DEF Spec

(* No shorter list of changes leads from one configuration to the other,    *)
(* for configurations of any length: the table of GenerateDiff bounds every *)
(* common subsequence, and the walk back keeps as many lines as it says.    *)
THEOREM DiffIsShortest == Spec => []FewestChanges
<1>1. TypeOK /\ WalkInv => FewestChanges
  <2> SUFFICES ASSUME TypeOK, WalkInv, Walked
               PROVE  /\ ~Common(Kept + 1)
                      /\ Len(left) + Additions = Len(right) + Deletions
    BY DEF FewestChanges, Kept
  <2>1. Len(left) \in Nat /\ Len(right) \in Nat /\ Len(rows) \in Nat
    BY DEF TypeOK
  <2>2. dp[<<0, 0>>] = 0 /\ dp[<<Len(left), Len(right)>>] \in Nat
    BY <2>1, TableType DEF WalkInv
  <2>3. Kept = dp[<<Len(left), Len(right)>>] /\ Kept \in Nat
    BY <2>2, Counts DEF WalkInv, Walked, Kept
  <2>4. ~Common(Kept + 1)
    <3> SUFFICES ASSUME Common(Kept + 1) PROVE FALSE
      OBVIOUS
    <3>1. CommonOf(left, right, Len(left), Len(right), Kept + 1)
      BY DEF Common, CommonOf
    <3>2. Kept + 1 <= Table(left, right)[<<Len(left), Len(right)>>]
      BY <2>1, <2>3, <3>1, TableBounds
    <3> QED BY <2>3, <3>2 DEF WalkInv
  <2>5. Len(left) + Additions = Len(right) + Deletions
    BY <2>1, Counts DEF WalkInv, Walked
  <2> QED BY <2>4, <2>5
<1> QED BY <1>1, WalkInvariant, TypeCorrect, PTL
=============================================================================
