------------------------------ MODULE LineDiff ------------------------------
(* GenerateDiff (pkg/diff/diff.go): the comparison of two configurations    *)
(* line by line. It fills a table of longest common subsequences, walks     *)
(* back through it and collects rows, and pairs a deletion with the         *)
(* insertion below it for the view side by side. A row names its lines by   *)
(* their numbers, 0 for a side that has none; texts, signs and CSS classes  *)
(* follow from these.                                                       *)
EXTENDS Integers, Sequences, FiniteSets

CONSTANTS Lines,       \* what a line may say
          MaxLength    \* bound: lines of a configuration

ASSUME LineDiffAssumption == MaxLength \in Nat

VARIABLES left, right,  \* the lines of the two configurations
          dp,           \* dp[<<a, b>>]: of the first a and the first b lines
          i, j,         \* what is left of both to walk back through
          rows,         \* the rows found, from the top
          k, split      \* the next row to pair, and the rows side by side

vars == <<left, right, dp, i, j, rows, k, split>>

Texts == UNION {[1 .. n -> Lines] : n \in 0 .. MaxLength}

(* The table: on a tie the shorter right side wins.                         *)
Table(l, r) ==
  LET t[p \in (0 .. Len(l)) \X (0 .. Len(r))] ==
        LET a == p[1]  b == p[2] IN
        IF a = 0 \/ b = 0 THEN 0
        ELSE IF l[a] = r[b] THEN t[<<a - 1, b - 1>>] + 1
        ELSE IF t[<<a - 1, b>>] > t[<<a, b - 1>>] THEN t[<<a - 1, b>>]
        ELSE t[<<a, b - 1>>]
  IN  t

Row     == [left : Nat, right : Nat]
Deleted(row)  == row.right = 0
Inserted(row) == row.left = 0

Init ==
  /\ left \in Texts /\ right \in Texts
  /\ dp = Table(left, right)
  /\ i = Len(left) /\ j = Len(right)
  /\ rows = <<>> /\ k = 1 /\ split = <<>>

(* Rows are found from the bottom and the list is reversed in the end.      *)
FoundMutant(a, b) == rows' = <<[left |-> a - 1, right |-> b - 1]>> \o rows
Found(a, b) == rows' = <<[left |-> a, right |-> b]>> \o rows

SameLine == i > 0 /\ j > 0 /\ left[i] = right[j]
InsertFirstMutant == j > 0 /\ (i > 0 => dp[<<i, j - 1>>] <= dp[<<i - 1, j>>])
InsertFirst == j > 0 /\ (i > 0 => dp[<<i, j - 1>>] >= dp[<<i - 1, j>>])

KeepMutant ==                  \* j is not moved on
  /\ SameLine
  /\ Found(i, j)
  /\ i' = i - 1
  /\ UNCHANGED <<left, right, dp, j, k, split>>
Keep ==
  /\ SameLine
  /\ Found(i, j)
  /\ i' = i - 1 /\ j' = j - 1
  /\ UNCHANGED <<left, right, dp, k, split>>

Insert ==
  /\ ~SameLine /\ InsertFirst
  /\ Found(0, j)
  /\ j' = j - 1
  /\ UNCHANGED <<left, right, dp, i, k, split>>

Delete ==
  /\ ~SameLine /\ ~InsertFirst /\ i > 0
  /\ Found(i, 0)
  /\ i' = i - 1
  /\ UNCHANGED <<left, right, dp, j, k, split>>

Pairs(n) == n < Len(rows) /\ Deleted(rows[n]) /\ Inserted(rows[n + 1])

Walked == i = 0 /\ j = 0

PairRowsMutant ==              \* the inserted row is not skipped
  /\ Walked /\ k <= Len(rows) /\ Pairs(k)
  /\ split' = Append(split, [left |-> rows[k].left, right |-> rows[k + 1].right])
  /\ k' = k + 1
  /\ UNCHANGED <<left, right, dp, i, j, rows>>
PairRows ==
  /\ Walked /\ k <= Len(rows) /\ Pairs(k)
  /\ split' = Append(split, [left |-> rows[k].left, right |-> rows[k + 1].right])
  /\ k' = k + 2
  /\ UNCHANGED <<left, right, dp, i, j, rows>>

SingleRow ==
  /\ Walked /\ k <= Len(rows) /\ ~Pairs(k)
  /\ split' = Append(split, rows[k])
  /\ k' = k + 1
  /\ UNCHANGED <<left, right, dp, i, j, rows>>

Finished == Walked /\ k > Len(rows)

Return == Finished /\ UNCHANGED vars

Next == Keep \/ Insert \/ Delete \/ PairRows \/ SingleRow \/ Return

Spec == Init /\ [][Next]_vars

Additions == Cardinality({n \in 1 .. Len(rows) : Inserted(rows[n])})
Deletions == Cardinality({n \in 1 .. Len(rows) : Deleted(rows[n])})

-----------------------------------------------------------------------------
TypeOK ==
  /\ left \in Seq(Lines) /\ right \in Seq(Lines)
  /\ i \in 0 .. Len(left) /\ j \in 0 .. Len(right)
  /\ rows \in Seq(Row) /\ split \in Seq(Row)
  /\ k \in Nat \ {0}

(* Among these numbers the lines n + 1 .. last occur, each once and in      *)
(* order; 0 stands for a side without a line.                               *)
InOrder(numbers, n, last) ==
  /\ {numbers[x] : x \in DOMAIN numbers} \ {0} = n + 1 .. last
  /\ \A x, y \in DOMAIN numbers :
        (x < y /\ numbers[x] # 0 /\ numbers[y] # 0) => numbers[x] < numbers[y]

Lefts(list)  == [x \in 1 .. Len(list) |-> list[x].left]
Rights(list) == [x \in 1 .. Len(list) |-> list[x].right]

(* The deleted and the kept rows read as the old configuration, the kept    *)
(* and the inserted ones as the new: no line is lost, doubled or moved, and *)
(* what is shown as unchanged is the same on both sides.                    *)
RowsRebuild ==
  /\ InOrder(Lefts(rows), i, Len(left))
  /\ InOrder(Rights(rows), j, Len(right))
  /\ \A x \in 1 .. Len(rows) :
        \/ Deleted(rows[x]) # Inserted(rows[x])
        \/ /\ ~Deleted(rows[x]) /\ ~Inserted(rows[x])
           /\ left[rows[x].left] = right[rows[x].right]

(* Pairing rows for the view side by side does not lose any either.         *)
SplitRebuilds ==
  Finished => /\ InOrder(Lefts(split), 0, Len(left))
              /\ InOrder(Rights(split), 0, Len(right))

(* A common subsequence: a choice of lines of the left one that can be      *)
(* found in the right one in the same order.                                *)
Choices(n, last) ==
  {f \in [1 .. n -> 1 .. last] : \A x, y \in 1 .. n : x < y => f[x] < f[y]}
Common(n) ==
  \E f \in Choices(n, Len(left)), g \in Choices(n, Len(right)) :
     \A x \in 1 .. n : left[f[x]] = right[g[x]]

(* No shorter list of changes leads from one configuration to the other:    *)
(* one more kept line would not be a common subsequence.                    *)
FewestChanges ==
  Walked => /\ ~Common(Len(rows) - Additions - Deletions + 1)
            /\ Len(left) + Additions = Len(right) + Deletions
=============================================================================
