--------------------------- MODULE QueryTreeProofs ----------------------------
(***************************************************************************)
(* Proofs about the transfer of a query message (QueryTree), for trees of  *)
(* any size and any number of sendings:                                    *)
(*                                                                         *)
(*   TreeKept    Spec => []NothingMisplaced                                *)
(*                                                                         *)
(* when no payload of the tree has a sibling.  Such a tree is a chain of   *)
(* blocks 1, ..., k with the attributes k+1, ..., K under the last of them *)
(* (PlainIsChain), so the lines of a message are the K nodes in the order  *)
(* of their numbers, followed by k ends.  The inductive invariant says how *)
(* many of these lines are written (Place), how many of them are read      *)
(* (Rebuilt), and that the rest is on its way (OnTheWay).                  *)
(***************************************************************************)
EXTENDS QueryTree, SequenceLemmas, FiniteSetTheorems, TLAPS

-----------------------------------------------------------------------------
(* The shape of a tree *)

(* Blocks 1..k, each inside the one before, and attributes k+1..K. *)
Chain(p, k, K) ==
    /\ K \in Nat \ {0} /\ k \in 1..K /\ (k < K \/ K = 1)
    /\ p \in [2..K -> 1..K]
    /\ \A m \in 2..K : p[m] = IF m <= k THEN m - 1 ELSE k

(* A set of numbers has a least one. *)
LEMMA Least ==
    ASSUME NEW T, T \subseteq Nat, T # {}
    PROVE  \E x \in T : \A y \in T : x <= y
<1>1. \E x \in T : \A y \in T : ~ (<<y, x>> \in OpToRel(<, Nat))
  BY NatLessThanWellFounded, WFMin
<1>2. PICK x \in T : \A y \in T : ~ (<<y, x>> \in OpToRel(<, Nat))
  BY <1>1
<1>3. ASSUME NEW y \in T PROVE x <= y
  <2>1. x \in Nat /\ y \in Nat
    OBVIOUS
  <2>2. y < x => <<y, x>> \in OpToRel(<, Nat)
    BY <2>1 DEF OpToRel
  <2>3. ~(y < x)
    BY <1>2, <2>2
  <2> QED
    BY <2>1, <2>3
<1> QED
  BY <1>3

(* A tree none of whose payloads has a sibling is a chain. *)
LEMMA PlainIsChain ==
    ASSUME NEW p \in Trees, Plain(p)
    PROVE  \E K \in Nat \ {0} : \E k \in 1..K : Chain(p, k, K)
<1>1. PICK K \in Nodes : p \in [2..K -> 1..K] /\ \A m \in 2..K : p[m] < m
  BY DEF Trees
<1>2. K \in Nat \ {0}
  BY <1>1, TreeAssumption DEF Nodes
<1>3. ASSUME NEW m \in 2..K, NEW n \in 2..K, m # n, p[m] = p[n], NEW i \in 2..K, p[i] = m
      PROVE  FALSE
  <2>1. i \in Children(p, m) /\ n \in Children(p, p[m])
    BY <1>1, <1>3 DEF Children
  <2>2. TypeOf(p, m) = "PAYLOAD" /\ m \in DOMAIN p
    BY <1>1, <1>2, <1>3, <2>1 DEF TypeOf
  <2>3. Children(p, p[m]) = {m}
    BY <2>2 DEF Plain
  <2> QED
    BY <1>3, <2>1, <2>3
<1> DEFINE T == {m \in 2..K : p[m] # m - 1}
<1>4. CASE T = {}
  <2> DEFINE k == IF K = 1 THEN 1 ELSE K - 1
  <2>1. k \in 1..K /\ (k < K \/ K = 1)
    BY <1>2
  <2>2. \A m \in 2..K : p[m] = IF m <= k THEN m - 1 ELSE k
    BY <1>2, <1>4
  <2> QED
    BY <1>1, <1>2, <2>1, <2>2 DEF Chain
<1>5. CASE T # {}
  <2>1. PICK b \in T : \A y \in T : b <= y
    <3>1. T \subseteq Nat
      BY <1>2
    <3> QED
      BY <1>5, <3>1, Least
  <2>2. b \in 2..K /\ p[b] # b - 1 /\ \A m \in 2..K : m < b => p[m] = m - 1
    BY <1>2, <2>1
  <2>3. p[b] \in 1..K /\ p[b] < b
    BY <1>1, <2>2
  <2> DEFINE k == b - 2
  (* Otherwise block p[b] + 1 would be a payload with the sibling b. *)
  <2>4. p[b] = k /\ k \in 1..K /\ k + 2 = b
    <3>1. p[b] < b - 1 /\ b \in Nat /\ p[b] \in Nat /\ p[b] >= 1
      BY <1>2, <2>2, <2>3
    <3>2. CASE p[b] < b - 2
      <4> DEFINE m == p[b] + 1
                 i == p[b] + 2
      <4>1. m \in 2..K /\ i \in 2..K /\ m < b /\ i < b /\ m # b
        BY <1>2, <2>2, <3>1, <3>2
      <4>2. p[m] = p[b] /\ p[i] = m
        BY <2>2, <3>1, <4>1
      <4> HIDE DEF m, i
      <4> QED
        BY <1>3, <2>2, <4>1, <4>2
    <3> QED
      BY <1>2, <2>2, <3>1, <3>2
  <2>5. \A m \in 2..K : m <= k + 1 => p[m] = m - 1
    BY <1>2, <2>2, <2>4
  <2> DEFINE U == {m \in 2..K : m > k /\ p[m] # k}
  <2>6. U = {}
    <3> SUFFICES ASSUME U # {} PROVE FALSE
      OBVIOUS
    <3>1. PICK u \in U : \A y \in U : u <= y
      <4>1. U \subseteq Nat
        BY <1>2
      <4> QED
        BY <4>1, Least
    <3>2. /\ u \in 2..K /\ u > k /\ p[u] # k /\ p[u] \in 1..K /\ p[u] < u
          /\ \A m \in 2..K : m > k /\ m < u => p[m] = k
      BY <1>1, <1>2, <2>4, <3>1
    <3>3. u > k + 2
      <4>1. p[k + 1] = k /\ p[k + 2] = k
        BY <1>2, <2>2, <2>4, <2>5
      <4>2. u # k + 1 /\ u # k + 2
        BY <3>2, <4>1
      <4> QED
        BY <1>2, <2>4, <3>2, <4>2
    (* Under an attribute of block k, which has siblings *)
    <3>4. CASE p[u] > k
      <4> DEFINE m == p[u]
      <4>1. m \in 2..K /\ p[m] = k
        BY <1>2, <2>4, <3>2, <3>4
      <4>2. PICK n \in 2..K : n # m /\ p[n] = k
        <5>1. p[k + 1] = k /\ p[k + 2] = k /\ k + 1 \in 2..K /\ k + 2 \in 2..K
          BY <1>2, <2>2, <2>4, <2>5
        <5>2. k + 1 # m \/ k + 2 # m
          BY <2>4
        <5> QED
          BY <5>1, <5>2
      <4> HIDE DEF m
      <4>3. p[u] = m
        BY DEF m
      <4> QED
        BY <1>3, <3>2, <4>1, <4>2, <4>3
    (* Under a block before k, beside the next one *)
    <3>5. CASE p[u] < k
      <4> DEFINE m == p[u] + 1
      <4>1. m \in 2..K /\ m <= k /\ m + 1 \in 2..K /\ m + 1 <= k + 1 /\ m # u
        BY <1>2, <2>2, <2>4, <3>2, <3>3, <3>5
      <4>2. p[m] = p[u] /\ p[m + 1] = m
        <5>1. m <= k + 1 /\ m - 1 = p[u] /\ (m + 1) - 1 = m
          BY <1>2, <2>4, <3>2, <4>1
        <5> QED
          BY <2>5, <4>1, <5>1
      <4> HIDE DEF m
      <4> QED
        BY <1>3, <3>2, <4>1, <4>2
    <3> QED
      BY <1>2, <2>4, <3>2, <3>4, <3>5
  <2>7. \A m \in 2..K : p[m] = IF m <= k THEN m - 1 ELSE k
    <3> SUFFICES ASSUME NEW m \in 2..K PROVE p[m] = IF m <= k THEN m - 1 ELSE k
      OBVIOUS
    <3>1. m <= k => m <= k + 1
      BY <1>2, <2>4
    <3>2. ~(m <= k) => m > k
      BY <1>2, <2>4
    <3> QED
      BY <2>5, <2>6, <3>1, <3>2
  <2>8. k < K
    BY <1>2, <2>2, <2>4
  <2> QED
    BY <1>1, <1>2, <2>4, <2>7, <2>8 DEF Chain
<1> QED
  BY <1>4, <1>5

-----------------------------------------------------------------------------
(* The inductive invariant.  A sending covers the blocks 1..j and the      *)
(* nodes up to J: the whole tree, or the message alone when the iterators  *)
(* were not reset.                                                         *)

Covers(j, J, k, K) == IF fresh THEN j = k /\ J = K ELSE j = 1 /\ J = 1

(* The lines of a sending *)
LineAt(i, j, J) ==
    IF i <= j THEN [type |-> 2, node |-> i]
    ELSE IF i <= J THEN [type |-> 1, node |-> i]
    ELSE [type |-> 3, node |-> 0]

(* The iterators when the nodes up to h have been handed out *)
Handed(h, k, K) ==
    /\ DOMAIN iter = 1..K
    /\ \A n \in 1..K :
         iter[n] = IF n < k THEN (IF n < h THEN 1 ELSE 0)
                   ELSE IF n = k /\ h > k THEN h - k ELSE 0

(* Where sendMessage is when s lines are written: at node h, back at the   *)
(* last block from its attribute h, on its way back, or done.              *)
Place(s, h, j, J) ==
    /\ h \in 1..J
    /\ \/ cur = h /\ phase = "start" /\ s = h - 1
       \/ cur = h /\ phase = "sub" /\ s = h
       \/ cur = j /\ phase = "sub" /\ h > j /\ s = h
       \/ cur \in 1..j - 1 /\ phase = "sub" /\ h = J /\ s = J + j - cur
       \/ cur = 0 /\ h = J /\ s = J + j

LineSet == [type : {1, 2, 3}, node : Nat]

(* r of the s lines written are read. *)
OnTheWay(r, s, j, J) ==
    /\ r \in Nat /\ s \in Nat
    /\ lines \in Seq(LineSet) /\ r + Len(lines) = s
    /\ \A i \in 1..Len(lines) : lines[i] = LineAt(r + i, j, J)

(* The nodes up to m are where the testcase has them. *)
Grown(m, j) ==
    /\ DOMAIN tree = 2..m
    /\ \A i \in 2..m : tree[i] = IF i <= j THEN i - 1 ELSE j

(* The listener when r lines are read: before the message, at node r, at   *)
(* the block it has gone back to, or done.                                 *)
Rebuilt(r, j, J) ==
    \/ r = 0 /\ query = 0 /\ depth = 0
    \/ /\ r \in 1..J /\ query = r /\ Grown(r, j)
       /\ depth = (IF r <= j THEN r ELSE j) /\ ptype = (IF r <= j THEN 2 ELSE 1)
    \/ /\ r \in J + 1..J + j - 1 /\ Grown(J, j)
       /\ query = J + j + 1 - r /\ depth = J + j - r
    \/ /\ r = J + j /\ query = 0 /\ depth = 0 /\ Grown(J, j)
       /\ published.root = 1 /\ published.tree = tree

Transfer(k, K, j, J, h, s, r) ==
    /\ Chain(parent, k, K) /\ fresh \in BOOLEAN /\ Covers(j, J, k, K)
    /\ Handed(IF fresh THEN h ELSE K, k, K)
    /\ Place(s, h, j, J) /\ OnTheWay(r, s, j, J) /\ Rebuilt(r, j, J)

Inv ==
    \E k, K, j, J, h, s, r \in Nat : Transfer(k, K, j, J, h, s, r)

-----------------------------------------------------------------------------
(* The children of a node *)

LEMMA Kids ==
    ASSUME NEW p, NEW k, NEW K, Chain(p, k, K), NEW n \in 1..K
    PROVE  /\ Children(p, n) = IF n < k THEN {n + 1} ELSE IF n = k THEN k + 1..K ELSE {}
           /\ Cardinality(Children(p, n)) =
                IF n < k THEN 1 ELSE IF n = k THEN K - k ELSE 0
           /\ TypeOf(p, n) = "ATTRIBUTE" <=> n > k
<1>1. /\ K \in Nat /\ k \in Nat /\ n \in Nat /\ 1 <= k /\ k <= K /\ 1 <= n /\ n <= K
      /\ k < K \/ K = 1
      /\ DOMAIN p = 2..K /\ \A m \in 2..K : p[m] = IF m <= k THEN m - 1 ELSE k
  BY DEF Chain
<1>2. ASSUME NEW m PROVE m \in Children(p, n) <=> m \in 2..K /\ n = IF m <= k THEN m - 1 ELSE k
  BY <1>1 DEF Children
<1>3. CASE n < k
  <2>1. Children(p, n) = {n + 1}
    BY <1>1, <1>2, <1>3
  <2>2. Cardinality({n + 1}) = 1
    BY FS_Singleton
  <2>3. TypeOf(p, n) # "ATTRIBUTE"
    BY <2>1 DEF TypeOf
  <2> QED
    BY <1>1, <1>3, <2>1, <2>2, <2>3
<1>4. CASE n = k
  <2>1. Children(p, n) = k + 1..K
    <3>1. ASSUME NEW m \in 2..K
          PROVE  (k = IF m <= k THEN m - 1 ELSE k) <=> m \in k + 1..K
      BY <1>1
    <3>2. k + 1..K \subseteq 2..K
      BY <1>1
    <3> QED
      BY <1>2, <1>4, <3>1, <3>2
  <2>2. Cardinality(k + 1..K) = K - k
    <3>1. Cardinality(k + 1..K) = IF k + 1 > K THEN 0 ELSE K - (k + 1) + 1
      BY <1>1, FS_Interval
    <3> QED
      BY <1>1, <3>1
  <2>3. TypeOf(p, n) # "ATTRIBUTE"
    <3>1. CASE n = 1
      BY <3>1 DEF TypeOf
    <3>2. CASE n # 1
      <4>1. k + 1 \in Children(p, n)
        BY <1>1, <1>4, <2>1, <3>2
      <4> QED
        BY <4>1 DEF TypeOf
    <3> QED
      BY <3>1, <3>2
  <2> QED
    BY <1>1, <1>4, <2>1, <2>2, <2>3
<1>5. CASE n > k
  <2>1. Children(p, n) = {}
    BY <1>1, <1>2, <1>5
  <2>2. Cardinality({}) = 0
    BY FS_EmptySet
  <2>3. TypeOf(p, n) = "ATTRIBUTE"
    BY <1>1, <1>5, <2>1 DEF TypeOf
  <2> QED
    BY <1>1, <1>5, <2>1, <2>2, <2>3
<1> QED
  BY <1>1, <1>3, <1>4, <1>5

(* getNextSubTestcase hands out the nodes in their order. *)
LEMMA Handing ==
    ASSUME NEW k, NEW K, Chain(parent, k, K), NEW h \in Nat, Handed(h, k, K),
           NEW n \in 1..K, iter[n] < Cardinality(Children(parent, n)), h >= n
    PROVE  NextChild(n) = h + 1 /\ h + 1 \in 2..K /\ (n < k => h = n) /\ n <= k
<1>1. K \in Nat /\ k \in Nat /\ n \in Nat /\ 1 <= k /\ k <= K /\ 1 <= n /\ n <= K
  BY DEF Chain
<1>2. iter[n] = IF n < k THEN (IF n < h THEN 1 ELSE 0)
                ELSE IF n = k /\ h > k THEN h - k ELSE 0
  BY DEF Handed
<1>3. CASE n < k
  <2>1. Children(parent, n) = {n + 1} /\ Cardinality(Children(parent, n)) = 1
    BY <1>3, Kids
  <2>2. iter[n] = 0 /\ h = n
    BY <1>1, <1>2, <1>3, <2>1
  <2>3. {x \in {n + 1} : x < n + 1} = {}
    BY <1>1
  <2>4. Cardinality({x \in {n + 1} : x < n + 1}) = 0
    BY <2>3, FS_EmptySet
  <2>5. NextChild(n) = n + 1
    BY <2>1, <2>2, <2>4 DEF NextChild
  <2> QED
    BY <1>1, <1>3, <2>2, <2>5
<1>4. CASE n >= k
  <2>1. n = k /\ Children(parent, n) = k + 1..K /\ Cardinality(Children(parent, n)) = K - k
    <3>1. ~(n < k)
      BY <1>1, <1>4
    <3>2. iter[n] >= 0
      BY <1>1, <1>2
    <3>3. n # k => Cardinality(Children(parent, n)) = 0
      BY <3>1, Kids
    <3>4. n = k
      BY <1>1, <1>2, <3>2, <3>3
    <3> QED
      BY <3>1, <3>4, Kids
  <2>2. iter[n] = h - k /\ h + 1 \in k + 1..K
    BY <1>1, <1>2, <2>1
  <2>3. ASSUME NEW m \in k + 1..K
        PROVE  Cardinality({x \in k + 1..K : x < m}) = m - 1 - k
    <3>1. {x \in k + 1..K : x < m} = k + 1..m - 1
      <4>1. ASSUME NEW x PROVE x \in k + 1..K /\ x < m <=> x \in k + 1..m - 1
        BY <1>1
      <4> QED
        BY <4>1
    <3>2. k + 1 \in Int /\ m - 1 \in Int
      BY <1>1
    <3>3. Cardinality(k + 1..m - 1) = IF k + 1 > m - 1 THEN 0 ELSE (m - 1) - (k + 1) + 1
      BY <3>2, FS_Interval
    <3>4. Cardinality(k + 1..m - 1) = m - 1 - k
      BY <1>1, <3>3
    <3>5. Cardinality({x \in k + 1..K : x < m}) = Cardinality(k + 1..m - 1)
      BY <3>1
    <3> QED
      BY <3>4, <3>5
  <2>4. \A m \in k + 1..K : Cardinality({x \in k + 1..K : x < m}) = h - k <=> m = h + 1
    BY <1>1, <2>2, <2>3
  <2>5. NextChild(n) = h + 1
    BY <2>1, <2>2, <2>4 DEF NextChild
  <2> QED
    BY <1>1, <2>1, <2>2, <2>5
<1> QED
  BY <1>1, <1>3, <1>4

-----------------------------------------------------------------------------
(* sendMessage *)

(* The nodes and blocks a sending covers *)
LEMMA Sizes ==
    ASSUME NEW k, NEW K, NEW j, NEW J,
           Chain(parent, k, K), fresh \in BOOLEAN, Covers(j, J, k, K)
    PROVE  /\ K \in Nat /\ k \in Nat /\ J \in Nat /\ j \in Nat
           /\ 1 <= j /\ j <= J /\ J <= K /\ j <= k /\ k <= K
           /\ j < J \/ (J = 1 /\ j = 1)
           /\ J > 1 => fresh /\ j = k /\ J = K
           /\ \A n \in 1..J : n > j <=> n > k
<1>1. K \in Nat /\ k \in Nat /\ 1 <= k /\ k <= K /\ (k < K \/ K = 1)
  BY DEF Chain
<1>2. CASE fresh
  BY <1>1, <1>2 DEF Covers
<1>3. CASE ~fresh
  BY <1>1, <1>3 DEF Covers
<1> QED
  BY <1>2, <1>3

(* No more lines are written than the sending has. *)
LEMMA PlaceBounded ==
    ASSUME NEW j \in Nat, NEW J \in Nat, 1 <= j, j <= J, NEW s, NEW h, Place(s, h, j, J)
    PROVE  s \in 0..J + j /\ h \in Nat /\ 1 <= h /\ h <= J
  BY DEF Place

(* The next line is written. *)
LEMMA LineWritten ==
    ASSUME NEW r, NEW s, NEW j \in Nat, NEW J \in Nat, OnTheWay(r, s, j, J),
           lines' = Append(lines, LineAt(s + 1, j, J))
    PROVE  OnTheWay(r, s + 1, j, J)'
<1> DEFINE l == LineAt(s + 1, j, J)
<1>1. r \in Nat /\ s \in Nat /\ lines \in Seq(LineSet) /\ r + Len(lines) = s
  BY DEF OnTheWay
<1>2. l \in LineSet
  BY <1>1 DEF LineAt, LineSet
<1> HIDE DEF l
<1>3. /\ lines' \in Seq(LineSet) /\ Len(lines') = Len(lines) + 1 /\ Len(lines) \in Nat
      /\ \A i \in 1..Len(lines) : lines'[i] = lines[i]
      /\ lines'[Len(lines) + 1] = l
  BY <1>1, <1>2, Appended DEF l
<1>4. ASSUME NEW i \in 1..Len(lines') PROVE lines'[i] = LineAt(r + i, j, J)
  <2>1. CASE i \in 1..Len(lines)
    BY <1>3, <2>1 DEF OnTheWay
  <2>2. CASE i = Len(lines) + 1
    <3>1. r + i = s + 1
      BY <1>1, <1>3, <2>2
    <3> QED
      BY <1>3, <2>2, <3>1 DEF l
  <2> QED
    BY <1>3, <2>1, <2>2
<1>5. r + Len(lines') = s + 1 /\ s + 1 \in Nat
  BY <1>1, <1>3
<1> QED
  BY <1>1, <1>3, <1>4, <1>5 DEF OnTheWay

(* The first line of a node *)
LEMMA StartStep ==
    ASSUME NEW k, NEW K, NEW j, NEW J, NEW h, NEW s, NEW r,
           Transfer(k, K, j, J, h, s, r), SendStart
    PROVE  Transfer(k, K, j, J, h, s + 1, r)'
<1>1. /\ K \in Nat /\ k \in Nat /\ J \in Nat /\ j \in Nat /\ 1 <= j /\ j <= J /\ J <= K
      /\ \A n \in 1..J : n > j <=> n > k
  BY Sizes DEF Transfer
<1>2. cur = h /\ h \in 1..J /\ h \in 1..K /\ s = h - 1 /\ s + 1 = h
  BY <1>1 DEF Transfer, Place, SendStart
<1>3. TypeOf(parent, cur) = "ATTRIBUTE" <=> h > j
  <2>1. TypeOf(parent, h) = "ATTRIBUTE" <=> h > k
    BY <1>2, Kids DEF Transfer
  <2> QED
    BY <1>1, <1>2, <2>1
<1>4. LineAt(s + 1, j, J) = [type |-> IF TypeOf(parent, cur) = "ATTRIBUTE" THEN 1 ELSE 2,
                             node |-> cur]
  BY <1>1, <1>2, <1>3 DEF LineAt
<1>5. OnTheWay(r, s + 1, j, J)'
  BY <1>1, <1>4, LineWritten DEF Transfer, SendStart
<1>6. Place(s + 1, h, j, J)'
  BY <1>2 DEF Place, SendStart
<1> QED
  BY <1>5, <1>6 DEF Transfer, SendStart, listener, Covers, Handed, Rebuilt, Grown

(* The next child *)
LEMMA SubStep ==
    ASSUME NEW k, NEW K, NEW j, NEW J, NEW h, NEW s, NEW r,
           Transfer(k, K, j, J, h, s, r), SendSub
    PROVE  Transfer(k, K, j, J, h + 1, s, r)'
<1> DEFINE H == IF fresh THEN h ELSE K
<1>1. /\ K \in Nat /\ k \in Nat /\ J \in Nat /\ j \in Nat /\ 1 <= j /\ j <= J /\ J <= K
      /\ j <= k /\ k <= K /\ (J > 1 => fresh /\ j = k /\ J = K)
  BY Sizes DEF Transfer
<1>2. h \in 1..J /\ h \in Nat
  BY <1>1 DEF Transfer, Place
<1>3. \/ cur = h /\ s = h
      \/ cur = j /\ h > j /\ s = h
      \/ cur \in 1..j - 1 /\ h = J
  BY <1>1 DEF Transfer, Place, SendSub
<1>4. cur \in 1..K /\ H \in Nat /\ H >= cur
  BY <1>1, <1>2, <1>3
<1>5. NextChild(cur) = H + 1 /\ H + 1 \in 2..K /\ (cur < k => H = cur) /\ cur <= k
  <2> HIDE DEF H
  <2>1. Handed(H, k, K)
    BY DEF Transfer, H
  <2>2. iter[cur] < Cardinality(Children(parent, cur))
    BY DEF SendSub
  <2> QED
    BY <1>4, <2>1, <2>2, Handing DEF Transfer
<1>6. fresh /\ H = h /\ j = k /\ J = K /\ h + 1 \in 1..J /\ cur' = h + 1
  <2>1. fresh
    BY <1>1, <1>5
  <2> QED
    BY <1>1, <1>2, <1>5, <2>1 DEF Transfer, Covers, SendSub
<1> HIDE DEF H
<1>7. s = h
  <2>1. ~(cur \in 1..j - 1 /\ h = J)
    BY <1>1, <1>2, <1>5, <1>6
  <2> QED
    BY <1>3, <2>1
<1>8. Place(s, h + 1, j, J)'
  BY <1>2, <1>6, <1>7 DEF Place, SendSub
<1>9. Handed(h + 1, k, K)'
  <2>1. DOMAIN iter' = 1..K /\ cur \in DOMAIN iter /\ DOMAIN iter = 1..K
    BY <1>4, <1>6 DEF Transfer, Handed, SendSub
  <2>2. ASSUME NEW n \in 1..K
        PROVE  iter'[n] = IF n < k THEN (IF n < h + 1 THEN 1 ELSE 0)
                          ELSE IF n = k /\ h + 1 > k THEN h + 1 - k ELSE 0
    <3>1. iter[n] = IF n < k THEN (IF n < h THEN 1 ELSE 0)
                    ELSE IF n = k /\ h > k THEN h - k ELSE 0
      BY <1>6 DEF Transfer, Handed
    <3>2. CASE n = cur
      <4>1. iter'[n] = iter[n] + 1
        BY <2>1, <3>2 DEF SendSub
      <4> QED
        BY <1>1, <1>2, <1>4, <1>5, <1>6, <3>1, <3>2, <4>1
    <3>3. CASE n # cur
      <4>1. iter'[n] = iter[n]
        BY <2>1, <3>3 DEF SendSub
      <4>2. n < k => n # h
        BY <1>1, <1>2, <1>4, <1>5, <1>6, <3>3
      <4>3. n = k => ~(h + 1 > k)
        BY <1>1, <1>2, <1>4, <1>5, <1>6, <3>3
      <4> QED
        BY <1>1, <1>2, <3>1, <4>1, <4>2, <4>3
    <3> QED
      BY <3>2, <3>3
  <2> QED
    BY <1>1, <1>2, <2>1, <2>2 DEF Handed
<1> QED
  BY <1>6, <1>8, <1>9 DEF Transfer, SendSub, listener, Covers, OnTheWay, Rebuilt, Grown

(* The end of a node: nothing is written for an attribute. *)
LEMMA EndStep ==
    ASSUME NEW k, NEW K, NEW j, NEW J, NEW h, NEW s, NEW r,
           Transfer(k, K, j, J, h, s, r), SendEnd
    PROVE  Transfer(k, K, j, J, h, s, r)' \/ Transfer(k, K, j, J, h, s + 1, r)'
<1>1. /\ K \in Nat /\ k \in Nat /\ J \in Nat /\ j \in Nat /\ 1 <= j /\ j <= J /\ J <= K
      /\ j <= k /\ k <= K /\ (j < J \/ (J = 1 /\ j = 1))
      /\ (J > 1 => fresh /\ j = k /\ J = K)
      /\ \A n \in 1..J : n > j <=> n > k
  BY Sizes DEF Transfer
<1>2. h \in 1..J /\ h \in Nat
  BY <1>1 DEF Transfer, Place
<1>3. \/ cur = h /\ s = h
      \/ cur = j /\ h > j /\ s = h
      \/ cur \in 1..j - 1 /\ h = J /\ s = J + j - cur
  BY <1>1 DEF Transfer, Place, SendEnd
<1>4. cur \in 1..K /\ cur \in 1..J
  BY <1>1, <1>2, <1>3
<1>5. /\ TypeOf(parent, cur) = "ATTRIBUTE" <=> cur > k
      /\ iter[cur] = IF cur < k THEN 1 ELSE IF cur = k THEN K - k ELSE 0
  <2>1. Chain(parent, k, K)
    BY DEF Transfer
  <2>2. /\ Cardinality(Children(parent, cur)) = IF cur < k THEN 1 ELSE IF cur = k THEN K - k ELSE 0
        /\ TypeOf(parent, cur) = "ATTRIBUTE" <=> cur > k
    BY <1>4, <2>1, Kids
  <2> QED
    BY <2>2 DEF SendEnd
<1>6. \A m \in 2..K : parent[m] = IF m <= k THEN m - 1 ELSE k
  BY DEF Transfer, Chain
<1>7. UNCHANGED <<parent, iter, phase, fresh, tree, query, depth, ptype, published>>
  BY DEF SendEnd, listener
<1>8. Chain(parent, k, K)' /\ Covers(j, J, k, K)' /\ Rebuilt(r, j, J)' /\ fresh' \in BOOLEAN
        /\ Handed(IF fresh THEN h ELSE K, k, K)'
  BY <1>7 DEF Transfer, Covers, Rebuilt, Grown, Handed
<1>9. ASSUME cur <= k, Place(s + 1, h, j, J)', s + 1 > J
      PROVE  Transfer(k, K, j, J, h, s + 1, r)'
  <2>1. lines' = Append(lines, [type |-> 3, node |-> 0])
    BY <1>1, <1>4, <1>5, <1>9 DEF SendEnd
  <2>2. s \in Nat
    BY DEF Transfer, OnTheWay
  <2>3. LineAt(s + 1, j, J) = [type |-> 3, node |-> 0]
    BY <1>1, <1>9, <2>2 DEF LineAt
  <2>4. OnTheWay(r, s + 1, j, J)'
    BY <1>1, <2>1, <2>3, LineWritten DEF Transfer
  <2> QED
    BY <1>7, <1>8, <1>9, <2>4 DEF Transfer
<1>10. phase = "sub"
  BY DEF SendEnd
<1>11. CASE cur = h /\ h > j
  <2>1. h > k /\ h \in 2..K /\ fresh /\ j = k
    BY <1>1, <1>2, <1>11
  <2>2. cur' = j /\ lines' = lines
    BY <1>1, <1>5, <1>6, <1>11, <2>1 DEF SendEnd
  <2>3. s = h
    BY <1>1, <1>3, <1>11
  <2>4. Place(s, h, j, J)'
    BY <1>2, <1>7, <1>10, <1>11, <2>2, <2>3 DEF Place
  <2>5. OnTheWay(r, s, j, J)'
    BY <2>2 DEF Transfer, OnTheWay
  <2> QED
    BY <1>7, <1>8, <2>4, <2>5 DEF Transfer
<1>12. CASE cur = h /\ h <= j
  <2>1. J = 1 /\ j = 1 /\ h = 1
    <3>1. CASE J > 1
      <4>1. fresh /\ j = k /\ J = K /\ k < K
        BY <1>1, <3>1
      <4>2. iter[h] = IF h < k THEN (IF h < h THEN 1 ELSE 0)
                      ELSE IF h = k /\ h > k THEN h - k ELSE 0
        BY <1>4, <1>12, <4>1 DEF Transfer, Handed
      <4> QED
        BY <1>1, <1>2, <1>5, <1>12, <4>1, <4>2
    <3> QED
      BY <1>1, <1>2, <3>1
  <2>2. s = 1 /\ cur' = 0
    BY <1>3, <1>12, <2>1 DEF SendEnd
  <2>3. Place(s + 1, h, j, J)' /\ s + 1 > J /\ cur <= k
    BY <1>1, <1>12, <2>1, <2>2 DEF Place
  <2> QED
    BY <1>9, <2>3
<1>13. CASE cur = j /\ h > j /\ s = h
  <2>1. fresh /\ j = k /\ J = K
    BY <1>1, <1>2, <1>13
  <2>2. iter[k] = h - k /\ h = J
    <3>1. iter[k] = IF k < k THEN (IF k < h THEN 1 ELSE 0)
                    ELSE IF k = k /\ h > k THEN h - k ELSE 0
      BY <1>1, <2>1 DEF Transfer, Handed
    <3> QED
      BY <1>1, <1>2, <1>5, <1>13, <2>1, <3>1
  <2>3. cur' = j - 1
    BY <1>1, <1>4, <1>6, <1>13, <2>1 DEF SendEnd
  <2>4. Place(s + 1, h, j, J)'
    <3>1. CASE j = 1
      BY <1>1, <1>2, <1>13, <2>2, <2>3, <3>1 DEF Place
    <3>2. CASE j > 1
      BY <1>1, <1>2, <1>7, <1>10, <1>13, <2>2, <2>3, <3>2 DEF Place
    <3> QED
      BY <1>1, <3>1, <3>2
  <2> QED
    BY <1>1, <1>2, <1>9, <1>13, <2>2, <2>4
<1>14. CASE cur \in 1..j - 1 /\ h = J /\ s = J + j - cur
  <2>1. cur' = cur - 1
    BY <1>1, <1>4, <1>6, <1>14 DEF SendEnd
  <2>2. Place(s + 1, h, j, J)'
    <3>1. CASE cur = 1
      BY <1>1, <1>2, <1>14, <2>1, <3>1 DEF Place
    <3>2. CASE cur > 1
      BY <1>1, <1>2, <1>7, <1>10, <1>14, <2>1, <3>2 DEF Place
    <3> QED
      BY <1>4, <3>1, <3>2
  <2> QED
    BY <1>1, <1>9, <1>14, <2>2
<1> QED
  BY <1>1, <1>2, <1>3, <1>11, <1>12, <1>13, <1>14

(* The message is sent again, from its start. *)
LEMMA ResendStep ==
    ASSUME NEW k, NEW K, NEW j, NEW J, NEW h, NEW s, NEW r,
           Transfer(k, K, j, J, h, s, r), Retransmission \/ Retest
    PROVE  Transfer(k, K, k, K, 1, 0, 0)' \/ Transfer(k, K, 1, 1, 1, 0, 0)'
<1>1. /\ K \in Nat /\ k \in Nat /\ J \in Nat /\ j \in Nat /\ 1 <= j /\ j <= J /\ J <= K
      /\ 1 <= k /\ k <= K /\ (fresh => J = K)
  <2>1. fresh => J = K
    BY DEF Transfer, Covers
  <2> QED
    BY <2>1, Sizes DEF Transfer
<1>2. Resend
  BY DEF Retransmission, Retest
<1>3. h = J /\ s = J + j
  BY <1>1, <1>2 DEF Transfer, Place, Resend
<1>4. r = s /\ lines' = << >>
  BY <1>1, <1>2, <1>3 DEF Transfer, OnTheWay, Resend
<1>5. query' = 0 /\ depth' = 0 /\ cur' = 1 /\ phase' = "start" /\ parent' = parent
  <2>1. query = 0 /\ depth = 0
    BY <1>1, <1>3, <1>4 DEF Transfer, Rebuilt
  <2> QED
    BY <1>2, <2>1 DEF Resend
<1>6. ASSUME NEW a, NEW b PROVE OnTheWay(0, 0, a, b)' /\ Rebuilt(0, a, b)'
  <2>1. lines' \in Seq(LineSet) /\ Len(lines') = 0
    BY <1>4
  <2>2. \A i \in 1..Len(lines') : lines'[i] = LineAt(0 + i, a, b)
    BY <2>1
  <2>3. OnTheWay(0, 0, a, b)'
    BY <2>1, <2>2 DEF OnTheWay
  <2> QED
    BY <1>5, <2>3 DEF Rebuilt
<1>7. ASSUME NEW a, NEW b \in Nat, b >= 1 PROVE Place(0, 1, a, b)'
  BY <1>5, <1>7 DEF Place
<1>8. Chain(parent, k, K)'
  BY <1>5 DEF Transfer
<1>9. CASE Retransmission
  <2>1. fresh' = TRUE /\ iter' = [n \in DOMAIN iter |-> 0] /\ DOMAIN iter = 1..K
    BY <1>9 DEF Retransmission, Transfer, Handed
  <2>2. Handed(1, k, K)'
    BY <1>1, <2>1 DEF Handed
  <2>3. Covers(k, K, k, K)' /\ fresh' \in BOOLEAN /\ Handed(IF fresh THEN 1 ELSE K, k, K)'
    BY <2>1, <2>2 DEF Covers
  <2>4. Transfer(k, K, k, K, 1, 0, 0)'
    BY <1>1, <1>6, <1>7, <1>8, <2>3 DEF Transfer
  <2> QED
    BY <2>4
<1>10. CASE Retest
  <2>1. fresh' = FALSE /\ iter' = iter
    BY <1>10 DEF Retest
  <2>2. Handed(K, k, K)
    BY <1>1, <1>3 DEF Transfer
  <2>3. Covers(1, 1, k, K)' /\ fresh' \in BOOLEAN /\ Handed(IF fresh THEN 1 ELSE K, k, K)'
    BY <2>1, <2>2 DEF Covers, Handed
  <2>4. Transfer(k, K, 1, 1, 1, 0, 0)'
    BY <1>6, <1>7, <1>8, <2>3 DEF Transfer
  <2> QED
    BY <2>4
<1> QED
  BY <1>9, <1>10

-----------------------------------------------------------------------------
(* listener_run *)

(* The next line is read. *)
LEMMA LineTaken ==
    ASSUME NEW r, NEW s, NEW j \in Nat, NEW J \in Nat, OnTheWay(r, s, j, J),
           lines # << >>, lines' = Tail(lines)
    PROVE  /\ OnTheWay(r + 1, s, j, J)' /\ Head(lines) = LineAt(r + 1, j, J)
           /\ r \in Nat /\ s \in Nat /\ r < s
<1>1. r \in Nat /\ s \in Nat /\ lines \in Seq(LineSet) /\ r + Len(lines) = s
  BY DEF OnTheWay
<1>2. /\ lines' \in Seq(LineSet) /\ Len(lines') = Len(lines) - 1 /\ Len(lines) \in Nat \ {0}
      /\ \A i \in 1..Len(lines) - 1 : lines'[i] = lines[i + 1]
      /\ Head(lines) = lines[1]
  BY <1>1, Shifted
<1>3. ASSUME NEW i \in 1..Len(lines') PROVE lines'[i] = LineAt((r + 1) + i, j, J)
  <2>1. i \in 1..Len(lines) - 1 /\ i + 1 \in 1..Len(lines) /\ r + (i + 1) = (r + 1) + i
    BY <1>1, <1>2
  <2>2. lines[i + 1] = LineAt(r + (i + 1), j, J)
    BY <2>1 DEF OnTheWay
  <2> QED
    BY <1>2, <2>1, <2>2
<1>4. Head(lines) = LineAt(r + 1, j, J)
  BY <1>2 DEF OnTheWay
<1>5. (r + 1) + Len(lines') = s /\ r < s /\ r + 1 \in Nat
  BY <1>1, <1>2
<1> QED
  BY <1>1, <1>2, <1>3, <1>4, <1>5 DEF OnTheWay

(* The node r + 1 is put where the testcase has it. *)
LEMMA GrownByOne ==
    ASSUME NEW r \in Nat, NEW j \in Nat, Grown(r, j), r >= 1,
           tree' = [m \in DOMAIN tree \cup {r + 1} |->
                      IF m = r + 1 THEN (IF r + 1 <= j THEN r ELSE j) ELSE tree[m]]
    PROVE  Grown(r + 1, j)'
<1>1. DOMAIN tree = 2..r /\ \A i \in 2..r : tree[i] = IF i <= j THEN i - 1 ELSE j
  BY DEF Grown
<1>2. DOMAIN tree' = 2..r + 1
  <2>1. 2..r \cup {r + 1} = 2..r + 1
    OBVIOUS
  <2> QED
    BY <1>1, <2>1
<1>3. ASSUME NEW i \in 2..r + 1 PROVE tree'[i] = IF i <= j THEN i - 1 ELSE j
  <2>1. i \in DOMAIN tree \cup {r + 1}
    BY <1>1
  <2>2. CASE i = r + 1
    BY <2>1, <2>2
  <2>3. CASE i # r + 1
    BY <1>1, <2>1, <2>3
  <2> QED
    BY <2>2, <2>3
<1> QED
  BY <1>2, <1>3 DEF Grown

LEMMA AttributeStep ==
    ASSUME NEW k, NEW K, NEW j, NEW J, NEW h, NEW s, NEW r,
           Transfer(k, K, j, J, h, s, r), ReadAttribute
    PROVE  Transfer(k, K, j, J, h, s, r + 1)'
<1>1. J \in Nat /\ j \in Nat /\ 1 <= j /\ j <= J
  BY Sizes DEF Transfer
<1>2. /\ OnTheWay(r + 1, s, j, J)' /\ Head(lines) = LineAt(r + 1, j, J)
      /\ r \in Nat /\ s \in Nat
  BY <1>1, LineTaken DEF Transfer, ReadAttribute
<1>3. r + 1 > j /\ r + 1 <= J /\ Head(lines).node = r + 1
  BY <1>1, <1>2 DEF LineAt, ReadAttribute
<1>4. r \in 1..J /\ query = r /\ Grown(r, j)
        /\ depth = (IF r <= j THEN r ELSE j) /\ ptype = (IF r <= j THEN 2 ELSE 1)
  BY <1>1, <1>2, <1>3 DEF Transfer, Rebuilt
<1>5. (IF 1 = 1 /\ ptype = 1 THEN tree[query] ELSE query) = j
  BY <1>1, <1>2, <1>3, <1>4 DEF Grown
<1>6. /\ tree' = [m \in DOMAIN tree \cup {r + 1} |->
                     IF m = r + 1 THEN (IF r + 1 <= j THEN r ELSE j) ELSE tree[m]]
      /\ query' = r + 1
  <2>1. (IF r + 1 <= j THEN r ELSE j) = j
    BY <1>1, <1>2, <1>3
  <2> QED
    BY <1>3, <1>5, <2>1 DEF ReadAttribute, add_query_sub_message
<1>7. Grown(r + 1, j)'
  BY <1>1, <1>2, <1>4, <1>6, GrownByOne
<1>8. depth' = j /\ ptype' = 1
  BY <1>1, <1>2, <1>3, <1>4 DEF ReadAttribute
<1>9. Rebuilt(r + 1, j, J)'
  BY <1>1, <1>2, <1>3, <1>6, <1>7, <1>8 DEF Rebuilt
<1> QED
  BY <1>2, <1>9 DEF Transfer, ReadAttribute, sender, Covers, Handed, Place

LEMMA BlockStartStep ==
    ASSUME NEW k, NEW K, NEW j, NEW J, NEW h, NEW s, NEW r,
           Transfer(k, K, j, J, h, s, r), ReadBlockStart
    PROVE  Transfer(k, K, j, J, h, s, r + 1)'
<1>1. J \in Nat /\ j \in Nat /\ 1 <= j /\ j <= J
  BY Sizes DEF Transfer
<1>2. /\ OnTheWay(r + 1, s, j, J)' /\ Head(lines) = LineAt(r + 1, j, J)
      /\ r \in Nat /\ s \in Nat
  BY <1>1, LineTaken DEF Transfer, ReadBlockStart
<1>3. r + 1 <= j /\ Head(lines).node = r + 1
  BY <1>1, <1>2 DEF LineAt, ReadBlockStart
<1>4. ptype' = 2 /\ depth' = depth + 1
  BY DEF ReadBlockStart
<1>5. Rebuilt(r + 1, j, J)'
  <2>1. CASE r = 0
    <3>1. query = 0 /\ depth = 0
      BY <1>1, <2>1 DEF Transfer, Rebuilt
    <3>2. query' = 1 /\ tree' = << >> /\ depth' = 1
      BY <1>3, <1>4, <2>1, <3>1 DEF ReadBlockStart
    <3>3. Grown(1, j)'
      <4>1. DOMAIN tree' = {}
        BY <3>2
      <4>2. 2..1 = {}
        OBVIOUS
      <4> QED
        BY <4>1, <4>2 DEF Grown
    <3> QED
      BY <1>1, <1>4, <2>1, <3>2, <3>3 DEF Rebuilt
  <2>2. CASE r # 0
    <3>1. r \in 1..J /\ query = r /\ Grown(r, j) /\ depth = r
      BY <1>1, <1>2, <1>3, <2>2 DEF Transfer, Rebuilt
    <3>2. /\ tree' = [m \in DOMAIN tree \cup {r + 1} |->
                         IF m = r + 1 THEN (IF r + 1 <= j THEN r ELSE j) ELSE tree[m]]
          /\ query' = r + 1
      <4>1. (IF r + 1 <= j THEN r ELSE j) = r
        BY <1>3
      <4>2. (IF 2 = 1 /\ ptype = 1 THEN tree[query] ELSE query) = r
        BY <3>1
      <4>3. add_query_sub_message(r + 1, 2)
        BY <1>3, <2>2, <3>1 DEF ReadBlockStart
      <4> QED
        BY <4>1, <4>2, <4>3 DEF add_query_sub_message
    <3>3. Grown(r + 1, j)'
      BY <1>1, <1>2, <3>1, <3>2, GrownByOne
    <3> QED
      BY <1>1, <1>2, <1>3, <1>4, <3>1, <3>2, <3>3 DEF Rebuilt
  <2> QED
    BY <2>1, <2>2
<1> QED
  BY <1>2, <1>5 DEF Transfer, ReadBlockStart, sender, Covers, Handed, Place

LEMMA BlockEndStep ==
    ASSUME NEW k, NEW K, NEW j, NEW J, NEW h, NEW s, NEW r,
           Transfer(k, K, j, J, h, s, r), ReadBlockEnd
    PROVE  Transfer(k, K, j, J, h, s, r + 1)'
<1>1. J \in Nat /\ j \in Nat /\ 1 <= j /\ j <= J /\ (j < J \/ (J = 1 /\ j = 1))
  BY Sizes DEF Transfer
<1>2. /\ OnTheWay(r + 1, s, j, J)' /\ Head(lines) = LineAt(r + 1, j, J)
      /\ r \in Nat /\ s \in Nat /\ r < s
  BY <1>1, LineTaken DEF Transfer, ReadBlockEnd
<1>3. r + 1 > J /\ r < J + j
  <2>1. s \in 0..J + j
    BY <1>1, PlaceBounded DEF Transfer
  <2>2. r + 1 > J
    BY <1>1, <1>2 DEF LineAt, ReadBlockEnd
  <2> QED
    BY <1>1, <1>2, <2>1, <2>2
<1> DEFINE up == IF query \in DOMAIN tree THEN tree[query] ELSE query
<1>4. Grown(J, j) /\ up = J + j - r /\ depth = J + j - r
  <2>1. CASE r = J
    <3>1. query = J /\ Grown(J, j) /\ depth = j
      BY <1>1, <1>2, <2>1 DEF Transfer, Rebuilt
    <3>2. up = j
      <4>1. CASE J = 1
        <5>1. J \notin 2..J /\ j = J
          BY <1>1, <4>1
        <5> QED
          BY <3>1, <5>1 DEF Grown
      <4>2. CASE J > 1
        <5>1. J \in 2..J /\ ~(J <= j)
          BY <1>1, <4>2
        <5> QED
          BY <3>1, <5>1 DEF Grown
      <4> QED
        BY <1>1, <4>1, <4>2
    <3> HIDE DEF up
    <3> QED
      BY <1>1, <2>1, <3>1, <3>2
  <2>2. CASE r # J
    <3>1. r \in J + 1..J + j - 1 /\ query = J + j + 1 - r /\ Grown(J, j) /\ depth = J + j - r
      BY <1>1, <1>2, <1>3, <2>2 DEF Transfer, Rebuilt
    <3>2. query \in 2..J /\ query <= j /\ query - 1 = J + j - r
      BY <1>1, <1>2, <3>1
    <3>3. up = J + j - r
      BY <3>1, <3>2 DEF Grown
    <3> QED
      BY <3>1, <3>3
  <2> QED
    BY <2>1, <2>2
<1>5. tree' = tree /\ depth' = J + j - (r + 1)
  BY <1>1, <1>2, <1>4 DEF ReadBlockEnd
<1>6. Grown(J, j)'
  BY <1>4, <1>5 DEF Grown
<1>7. CASE J + j - r = 1
  <2>1. published' = [root |-> up, tree |-> tree] /\ query' = 0
    BY <1>4, <1>7 DEF ReadBlockEnd
  <2>2. r + 1 = J + j /\ depth' = 0
    BY <1>1, <1>2, <1>5, <1>7
  <2>3. published'.root = 1 /\ published'.tree = tree'
    BY <1>4, <1>5, <1>7, <2>1
  <2> QED
    BY <1>2, <1>6, <2>1, <2>2, <2>3
       DEF Transfer, ReadBlockEnd, sender, Covers, Handed, Place, Rebuilt
<1>8. CASE J + j - r # 1
  <2>1. query' = J + j - r
    BY <1>4, <1>8 DEF ReadBlockEnd
  <2>2. r + 1 \in J + 1..J + j - 1 /\ query' = J + j + 1 - (r + 1)
    BY <1>1, <1>2, <1>3, <1>8, <2>1
  <2> QED
    BY <1>2, <1>5, <1>6, <2>2
       DEF Transfer, ReadBlockEnd, sender, Covers, Handed, Place, Rebuilt
<1> QED
  BY <1>7, <1>8

-----------------------------------------------------------------------------
(* The theorems *)

LEMMA TransferStarts ==
    ASSUME ~Nested, Init
    PROVE  Inv
<1>1. PICK K \in Nat \ {0} : \E k \in 1..K : Chain(parent, k, K)
  BY PlainIsChain DEF Init
<1>2. PICK k \in 1..K : Chain(parent, k, K)
  BY <1>1
<1>3. K \in Nat /\ k \in Nat /\ 1 <= k /\ k <= K /\ DOMAIN parent = 2..K
  BY <1>2 DEF Chain
<1>4. fresh = TRUE /\ Covers(k, K, k, K)
  BY DEF Init, Covers
<1>5. Handed(1, k, K)
  <2>1. 2..K \cup {1} = 1..K
    BY <1>3
  <2>2. iter = [n \in 1..K |-> 0]
    BY <1>3, <2>1 DEF Init
  <2> QED
    BY <1>3, <2>2 DEF Handed
<1>6. Place(0, 1, k, K)
  BY <1>3 DEF Init, Place
<1>7. OnTheWay(0, 0, k, K)
  <2>1. lines \in Seq(LineSet) /\ Len(lines) = 0
    BY DEF Init
  <2>2. \A i \in 1..Len(lines) : lines[i] = LineAt(0 + i, k, K)
    BY <2>1
  <2> QED
    BY <2>1, <2>2 DEF OnTheWay
<1>8. Rebuilt(0, k, K)
  BY DEF Init, Rebuilt
<1>9. Transfer(k, K, k, K, 1, 0, 0)
  BY <1>2, <1>4, <1>5, <1>6, <1>7, <1>8 DEF Transfer
<1> QED
  BY <1>3, <1>9 DEF Inv

LEMMA TransferGoesOn ==
    ASSUME Inv, [Next]_vars
    PROVE  Inv'
<1>1. PICK k, K, j, J, h, s, r \in Nat : Transfer(k, K, j, J, h, s, r)
  BY DEF Inv
<1>2. h + 1 \in Nat /\ s + 1 \in Nat /\ r + 1 \in Nat /\ 0 \in Nat /\ 1 \in Nat
  OBVIOUS
<1>3. CASE SendStart
  <2>1. Transfer(k, K, j, J, h, s + 1, r)'
    BY <1>1, <1>3, StartStep
  <2> QED
    BY <1>2, <2>1 DEF Inv
<1>4. CASE SendSub
  <2>1. Transfer(k, K, j, J, h + 1, s, r)'
    BY <1>1, <1>4, SubStep
  <2> QED
    BY <1>2, <2>1 DEF Inv
<1>5. CASE SendEnd
  <2>1. Transfer(k, K, j, J, h, s, r)' \/ Transfer(k, K, j, J, h, s + 1, r)'
    BY <1>1, <1>5, EndStep
  <2> QED
    BY <1>2, <2>1 DEF Inv
<1>6. CASE Retransmission \/ Retest
  BY <1>1, <1>2, <1>6, ResendStep DEF Inv
<1>7. CASE ReadAttribute
  <2>1. Transfer(k, K, j, J, h, s, r + 1)'
    BY <1>1, <1>7, AttributeStep
  <2> QED
    BY <1>2, <2>1 DEF Inv
<1>8. CASE ReadBlockStart
  <2>1. Transfer(k, K, j, J, h, s, r + 1)'
    BY <1>1, <1>8, BlockStartStep
  <2> QED
    BY <1>2, <2>1 DEF Inv
<1>9. CASE ReadBlockEnd
  <2>1. Transfer(k, K, j, J, h, s, r + 1)'
    BY <1>1, <1>9, BlockEndStep
  <2> QED
    BY <1>2, <2>1 DEF Inv
<1>10. CASE Done \/ UNCHANGED vars
  <2>1. UNCHANGED vars
    BY <1>10 DEF Done
  <2>2. Transfer(k, K, j, J, h, s, r)'
    BY <1>1, <2>1 DEF vars, sender, listener, Transfer, Covers, Handed, Place, OnTheWay,
                      Rebuilt, Grown
  <2> QED
    BY <1>1, <2>2 DEF Inv
<1> QED
  BY <1>3, <1>4, <1>5, <1>6, <1>7, <1>8, <1>9, <1>10 DEF Next

LEMMA InvNothingMisplaced == Inv => NothingMisplaced
<1> SUFFICES ASSUME Inv, cur = 0, lines = << >>
             PROVE  /\ published.root = 1
                    /\ \A n \in DOMAIN published.tree :
                         n \in DOMAIN parent /\ published.tree[n] = parent[n]
                    /\ fresh => DOMAIN published.tree = DOMAIN parent
  BY DEF NothingMisplaced
<1>1. PICK k, K, j, J, h, s, r \in Nat : Transfer(k, K, j, J, h, s, r)
  BY DEF Inv
<1>2. /\ 1 <= j /\ j <= J /\ J <= K /\ (J > 1 => fresh /\ j = k /\ J = K)
  BY <1>1, Sizes DEF Transfer
<1>3. s = J + j
  BY <1>1, <1>2 DEF Transfer, Place
<1>4. r = J + j
  BY <1>1, <1>3 DEF Transfer, OnTheWay
<1>5. published.root = 1 /\ published.tree = tree /\ Grown(J, j)
  BY <1>1, <1>2, <1>4 DEF Transfer, Rebuilt
<1>6. DOMAIN parent = 2..K /\ \A m \in 2..K : parent[m] = IF m <= k THEN m - 1 ELSE k
  BY <1>1 DEF Transfer, Chain
<1>7. ASSUME NEW n \in DOMAIN published.tree
      PROVE  n \in DOMAIN parent /\ published.tree[n] = parent[n]
  <2>1. n \in 2..J /\ tree[n] = IF n <= j THEN n - 1 ELSE j
    BY <1>5 DEF Grown
  <2>2. j = k /\ J = K
    BY <1>2, <2>1
  <2> QED
    BY <1>5, <1>6, <2>1, <2>2
<1>8. fresh => J = K
  BY <1>1 DEF Transfer, Covers
<1> QED
  BY <1>5, <1>6, <1>7, <1>8 DEF Grown

(* The lines written, the lines read and the lines on their way agree at   *)
(* every moment, for every tree none of whose payloads has a sibling:      *)
(* sendMessage and listener_run are at the same place of one sequence.     *)
THEOREM TransferInvariance == ASSUME ~Nested PROVE Spec => []Inv
<1>1. Init => Inv
  BY TransferStarts
<1>2. Inv /\ [Next]_vars => Inv'
  BY TransferGoesOn
<1> QED
  BY <1>1, <1>2, PTL DEF Spec

(* However large the message is and however often it is sent again, the    *)
(* instance holds each node under the parent the testcase gives it, and no *)
(* node is missing unless the testcase was run again.                      *)
THEOREM TreeKept == ASSUME ~Nested PROVE Spec => []NothingMisplaced
<1>1. Spec => []Inv
  BY TransferInvariance
<1> QED
  BY <1>1, InvNothingMisplaced, PTL
=============================================================================
