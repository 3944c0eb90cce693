--------------------- MODULE FreeKVCacheBlockQueueProofs ---------------------
(***************************************************************************)
(* FreeListSound, NoCallerBug and IsQueue for any number of blocks.        *)
(*                                                                         *)
(* The inductive invariant says at every step, inside the loops too, that  *)
(* there is a list s the links thread: all of it between operations, from  *)
(* its first block on while popleft_n is at work (the fake head's link is  *)
(* stale), up to its last block while append_n is (the fake tail's is).    *)
(* The blocks of s are the free ones, less those already popped or still   *)
(* to be appended.                                                         *)
(***************************************************************************)
EXTENDS FreeKVCacheBlockQueue, TLAPS, FiniteSetTheorems, SequenceTheorems, WellFoundedInduction

Links == Nodes \cup {None}

Types ==
  /\ next \in [Nodes -> Links] /\ prev \in [Nodes -> Links]
  /\ num_free_blocks \in Nat /\ count \in Nat
  /\ ref_cnt \in [Blocks -> Int]
  /\ null_block \in Blocks \cup {None}
  /\ pc \in {"init", "idle", "pop", "touch", "append"}
  /\ curr \in Links
  /\ ret \in Seq(Blocks) /\ todo \in Seq(Blocks)

Distinct(s, n) == \A i, j \in 1..n : s[i] = s[j] => i = j
Forward(s, n, lo, hi) == \A k \in lo..hi : next[Node(s, n, k)] = Node(s, n, k + 1)
Backward(s, n, lo, hi) == \A k \in lo..hi : prev[Node(s, n, k + 1)] = Node(s, n, k)
Outside(s, n) ==
  \A b \in Blocks : (\A k \in 1..n : s[k] # b) => next[b] = None /\ prev[b] = None
Holds(s, n, X) ==
  \A b \in Blocks : IsFree(b) /\ b \notin X <=> \E k \in 1..n : s[k] = b

\* The list s of length n, linked from its lo-th to its hi-th link, holds the free
\* blocks that are not in X.
List(s, n, lo, hi, X) ==
  /\ Distinct(s, n) /\ Forward(s, n, lo, hi) /\ Backward(s, n, lo, hi)
  /\ Outside(s, n) /\ Holds(s, n, X)

Whole ==
  \E s \in [1..num_free_blocks -> Blocks] :
    List(s, num_free_blocks, 0, num_free_blocks, {})

Popping ==
  \E s \in [1..num_free_blocks + count -> Blocks] :
    /\ List(s, num_free_blocks + count, 1, num_free_blocks + count, Range(ret))
    /\ curr = Node(s, num_free_blocks + count, 1)

OpenEnded(s, n) == List(s, n, 0, n - 1, Range(todo)) /\ curr = Node(s, n, n)

Appending ==
  \E s \in [1..num_free_blocks + count -> Blocks] : OpenEnded(s, num_free_blocks + count)

Inv ==
  /\ Types
  /\ \A b \in Blocks : b # null_block => ref_cnt[b] >= 0
  /\ pc = "init" => null_block = None /\ num_free_blocks = NumBlocks
  /\ pc # "init" => null_block \in Blocks
  /\ pc \in {"init", "idle", "touch"} => Whole /\ count = 0
  /\ pc = "pop" => Popping /\ \A b \in Range(ret) : IsFree(b)
  /\ pc = "append" => Appending /\ \A i, j \in DOMAIN todo : todo[i] = todo[j] => i = j

\* The fake ends and None are no blocks and differ.
LEMMA Ends ==
  /\ Blocks \subseteq Nodes /\ FakeHead \in Nodes /\ FakeTail \in Nodes /\ None \notin Nodes
  /\ FakeHead \notin Blocks /\ FakeTail \notin Blocks /\ FakeHead # FakeTail
  BY PoolAssumption, SMT DEF Blocks, Nodes, FakeHead, FakeTail, None

\* A node of the list is a node, a block only between the ends, and distinct places
\* hold distinct nodes.
LEMMA NodeFacts ==
  ASSUME NEW n \in Nat, NEW s \in [1..n -> Blocks]
  PROVE  /\ Node(s, n, 0) = FakeHead /\ Node(s, n, n + 1) = FakeTail
         /\ \A k \in 1..n : Node(s, n, k) = s[k] /\ s[k] \in Blocks
         /\ \A k \in 0..n + 1 : Node(s, n, k) \in Nodes
         /\ Distinct(s, n) => \A i, j \in 0..n + 1 : Node(s, n, i) = Node(s, n, j) => i = j
<1> USE Ends DEF Node
<1>1. Node(s, n, 0) = FakeHead /\ Node(s, n, n + 1) = FakeTail
  BY SMT
<1>2. \A k \in 1..n : Node(s, n, k) = s[k] /\ s[k] \in Blocks
  BY SMT
<1>3. \A k \in 0..n + 1 : Node(s, n, k) \in Nodes
  BY SMT
<1>4. ASSUME Distinct(s, n), NEW i \in 0..n + 1, NEW j \in 0..n + 1, Node(s, n, i) = Node(s, n, j)
      PROVE  i = j
  BY <1>4, SMT DEF Distinct
<1> QED
  BY <1>1, <1>2, <1>3, <1>4, Zenon

\* The list without its p-th block.
Without(s, n, p) == [i \in 1..n - 1 |-> IF i < p THEN s[i] ELSE s[i + 1]]

\* Taking a block out of the middle of a well-linked list (remove, popleft) leaves
\* the rest well-linked.
LEMMA UnlinkList ==
  ASSUME Types, NEW n \in Nat, NEW s \in [1..n -> Blocks], NEW p \in 1..n,
         Distinct(s, n), Forward(s, n, 0, n), Backward(s, n, 0, n), Outside(s, n), Unlink(s[p])
  PROVE  /\ Without(s, n, p) \in [1..n - 1 -> Blocks]
         /\ Distinct(Without(s, n, p), n - 1)
         /\ \A b \in Blocks : (\E k \in 1..n - 1 : Without(s, n, p)[k] = b)
                               <=> b # s[p] /\ \E k \in 1..n : s[k] = b
         /\ Forward(Without(s, n, p), n - 1, 0, n - 1)'
         /\ Backward(Without(s, n, p), n - 1, 0, n - 1)'
         /\ Outside(Without(s, n, p), n - 1)'
         /\ next' \in [Nodes -> Links] /\ prev' \in [Nodes -> Links]
<1> DEFINE t == Without(s, n, p)
           N(k) == Node(s, n, k)
           M(k) == Node(t, n - 1, k)
<1>1. n - 1 \in Nat /\ t \in [1..n - 1 -> Blocks]
  BY SMT DEF Without
<1>2. \A k \in 1..n - 1 : t[k] = IF k < p THEN s[k] ELSE s[k + 1]
  BY SMT DEF Without
<1>3. Distinct(t, n - 1)
  <2> HIDE DEF t
  <2> QED
    BY <1>2, SMT DEF Distinct
<1>4. \A b \in Blocks : (\E k \in 1..n - 1 : t[k] = b) <=> b # s[p] /\ \E k \in 1..n : s[k] = b
  <2> SUFFICES ASSUME NEW b \in Blocks
               PROVE  (\E k \in 1..n - 1 : t[k] = b) <=> b # s[p] /\ \E k \in 1..n : s[k] = b
    BY Zenon
  <2> HIDE DEF t
  <2>1. ASSUME NEW k \in 1..n - 1, t[k] = b PROVE b # s[p] /\ \E j \in 1..n : s[j] = b
    BY <2>1, <1>2, SMT DEF Distinct
  <2>2. ASSUME NEW k \in 1..n, s[k] = b, b # s[p] PROVE \E j \in 1..n - 1 : t[j] = b
    <3>1. CASE k < p
      BY <3>1, <2>2, <1>2, SMT
    <3>2. CASE k > p
      <4>1. k - 1 \in 1..n - 1 /\ t[k - 1] = b
        BY <3>2, <2>2, <1>2, SMT
      <4> QED
        BY <4>1, Zenon
    <3> QED
      BY <3>1, <3>2, <2>2, SMT
  <2> QED
    BY <2>1, <2>2, Zenon
<1>5. /\ \A k \in 0..n + 1 : N(k) \in Nodes
      /\ \A i, j \in 0..n + 1 : N(i) = N(j) => i = j
      /\ N(p) = s[p] /\ s[p] \in Blocks
  BY NodeFacts, Zenon
<1>6. \A k \in 0..n : M(k) = IF k < p THEN N(k) ELSE N(k + 1)
  <2> HIDE DEF t
  <2> QED
    BY <1>1, <1>2, SMT DEF Node
<1>7. /\ \A k \in 0..n : next[N(k)] = N(k + 1) /\ prev[N(k + 1)] = N(k)
      /\ prev[s[p]] = N(p - 1) /\ next[s[p]] = N(p + 1)
  <2>1. \A k \in 0..n : next[N(k)] = N(k + 1) /\ prev[N(k + 1)] = N(k)
    BY Zenon DEF Forward, Backward
  <2>2. prev[N(p)] = N(p - 1) /\ next[N(p)] = N(p + 1)
    <3> HIDE DEF N
    <3>1. p \in 0..n /\ p - 1 \in 0..n /\ (p - 1) + 1 = p
      BY SMT
    <3> QED
      BY <2>1, <3>1, Zenon
  <2> QED
    BY <2>1, <2>2, <1>5, Zenon
<1>8. /\ next' = [next EXCEPT ![N(p - 1)] = N(p + 1), ![N(p)] = None]
      /\ prev' = [prev EXCEPT ![N(p + 1)] = N(p - 1), ![N(p)] = None]
  BY <1>5, <1>7, Zenon DEF Unlink
<1>9. next' \in [Nodes -> Links] /\ prev' \in [Nodes -> Links]
  <2>1. N(p - 1) \in Nodes /\ N(p + 1) \in Nodes
    BY <1>5, SMT
  <2> QED
    BY <1>8, <2>1, Zenon DEF Types, Links
<1>10. /\ N(p - 1) \in Nodes /\ N(p) \in Nodes /\ N(p + 1) \in Nodes
       /\ N(p) # N(p - 1) /\ N(p) # N(p + 1)
       /\ next'[N(p - 1)] = N(p + 1) /\ prev'[N(p + 1)] = N(p - 1)
       /\ \A x \in Nodes : x # N(p - 1) /\ x # N(p) => next'[x] = next[x]
       /\ \A x \in Nodes : x # N(p + 1) /\ x # N(p) => prev'[x] = prev[x]
  <2> HIDE DEF N
  <2>1. p - 1 \in 0..n + 1 /\ p \in 0..n + 1 /\ p + 1 \in 0..n + 1 /\ p # p - 1 /\ p # p + 1
    BY SMT
  <2>2. N(p - 1) \in Nodes /\ N(p) \in Nodes /\ N(p + 1) \in Nodes /\ N(p) # N(p - 1) /\ N(p) # N(p + 1)
    BY <2>1, <1>5, Zenon
  <2> QED
    BY <2>2, <1>8, Zenon DEF Types
<1>11. ASSUME NEW k \in 0..n - 1
       PROVE  next'[M(k)] = M(k + 1) /\ prev'[M(k + 1)] = M(k)
  <2> HIDE DEF M, N, t
  <2>1. CASE k < p - 1
    <3>1. /\ k \in 0..n /\ k \in 0..n + 1 /\ k + 1 \in 0..n /\ k + 1 \in 0..n + 1
          /\ p \in 0..n + 1 /\ p - 1 \in 0..n + 1 /\ p + 1 \in 0..n + 1
          /\ k < p /\ k + 1 < p /\ k # p - 1 /\ k # p /\ k + 1 # p /\ k + 1 # p + 1
      BY <2>1, SMT
    <3>2. M(k) = N(k) /\ M(k + 1) = N(k + 1)
      BY <3>1, <1>6, Zenon
    <3>3. N(k) \in Nodes /\ N(k + 1) \in Nodes /\ N(k) # N(p - 1) /\ N(k) # N(p)
          /\ N(k + 1) # N(p) /\ N(k + 1) # N(p + 1)
      BY <3>1, <1>5, Zenon
    <3> QED
      BY <3>1, <3>2, <3>3, <1>7, <1>10, Zenon
  <2>2. CASE k = p - 1
    <3>1. k \in 0..n /\ k + 1 \in 0..n /\ k < p /\ ~(k + 1 < p) /\ (k + 1) + 1 = p + 1
      BY <2>2, SMT
    <3>2. M(k) = N(p - 1) /\ M(k + 1) = N(p + 1)
      BY <3>1, <2>2, <1>6, Zenon
    <3> QED
      BY <3>2, <1>10, Zenon
  <2>3. CASE k >= p
    <3>1. /\ k \in 0..n /\ k + 1 \in 0..n /\ k + 1 \in 0..n + 1 /\ (k + 1) + 1 \in 0..n + 1
          /\ p \in 0..n + 1 /\ p - 1 \in 0..n + 1 /\ p + 1 \in 0..n + 1
          /\ ~(k < p) /\ ~(k + 1 < p)
          /\ k + 1 # p - 1 /\ k + 1 # p /\ (k + 1) + 1 # p /\ (k + 1) + 1 # p + 1
      BY <2>3, SMT
    <3>2. M(k) = N(k + 1) /\ M(k + 1) = N((k + 1) + 1)
      BY <3>1, <1>6, Zenon
    <3>3. /\ N(k + 1) \in Nodes /\ N((k + 1) + 1) \in Nodes
          /\ N(k + 1) # N(p - 1) /\ N(k + 1) # N(p)
          /\ N((k + 1) + 1) # N(p) /\ N((k + 1) + 1) # N(p + 1)
      BY <3>1, <1>5, Zenon
    <3> QED
      BY <3>1, <3>2, <3>3, <1>7, <1>10, Zenon
  <2> QED
    BY <2>1, <2>2, <2>3, SMT
<1>12. Forward(t, n - 1, 0, n - 1)' /\ Backward(t, n - 1, 0, n - 1)'
  BY <1>11, Zenon DEF Forward, Backward
<1>13. Outside(t, n - 1)'
  <2> SUFFICES ASSUME NEW b \in Blocks, \A k \in 1..n - 1 : t[k] # b
               PROVE  next'[b] = None /\ prev'[b] = None
    BY Zenon DEF Outside
  <2>1. b \in Nodes
    BY Ends, Zenon
  <2>2. CASE b = s[p]
    BY <2>1, <2>2, <1>5, <1>8, SMT DEF Types
  <2>3. CASE b # s[p]
    <3>1. \A k \in 1..n : s[k] # b
      BY <2>3, <1>4, Zenon
    <3>2. next[b] = None /\ prev[b] = None
      BY <3>1, Zenon DEF Outside
    <3>3. N(p - 1) # b /\ N(p + 1) # b
      <4> SUFFICES ASSUME NEW k \in 0..n + 1 PROVE N(k) # b
        BY SMT
      <4> QED
        BY <3>1, Ends, SMT DEF Node
    <3> HIDE DEF N
    <3> QED
      BY <2>1, <2>3, <3>2, <3>3, <1>5, <1>8, SMT DEF Types
  <2> QED
    BY <2>2, <2>3, Zenon
<1> QED
  BY <1>1, <1>3, <1>4, <1>9, <1>12, <1>13, Zenon

\* __init__ builds the list of all blocks.
LEMMA InitInv == Init => Inv
<1> SUFFICES ASSUME Init PROVE Inv
  BY Zenon
<1> DEFINE s == [i \in 1..NumBlocks |-> i - 1]
<1>1. s \in [1..NumBlocks -> Blocks]
  BY PoolAssumption, SMT DEF Blocks
<1>2. \A k \in 0..NumBlocks + 1 : Node(s, NumBlocks, k) = k - 1
  BY PoolAssumption, SMT DEF Node, FakeHead, FakeTail
<1>3. Types
  BY PoolAssumption, SMT DEF Init, Types, Links, Nodes, Blocks, FakeHead, FakeTail, None
<1>4. Distinct(s, NumBlocks)
  BY PoolAssumption, SMT DEF Distinct
<1>5. Forward(s, NumBlocks, 0, NumBlocks) /\ Backward(s, NumBlocks, 0, NumBlocks)
  <2> SUFFICES ASSUME NEW k \in 0..NumBlocks
               PROVE  /\ next[Node(s, NumBlocks, k)] = Node(s, NumBlocks, k + 1)
                      /\ prev[Node(s, NumBlocks, k + 1)] = Node(s, NumBlocks, k)
    BY Zenon DEF Forward, Backward
  <2>1. Node(s, NumBlocks, k) = k - 1 /\ Node(s, NumBlocks, k + 1) = k
    BY <1>2, PoolAssumption, SMT
  <2>2. k - 1 \in Nodes /\ k \in Nodes /\ k - 1 # FakeTail /\ k # FakeHead
    BY PoolAssumption, SMT DEF Nodes, FakeHead, FakeTail
  <2> QED
    BY <2>1, <2>2, PoolAssumption, SMT DEF Init
<1>6. \A b \in Blocks : b + 1 \in 1..NumBlocks /\ s[b + 1] = b
  BY PoolAssumption, SMT DEF Blocks
<1>7. Outside(s, NumBlocks)
  BY <1>6, Zenon DEF Outside
<1>8. Holds(s, NumBlocks, {})
  <2> SUFFICES ASSUME NEW b \in Blocks PROVE IsFree(b) /\ \E k \in 1..NumBlocks : s[k] = b
    BY Zenon DEF Holds
  <2>1. IsFree(b)
    BY Ends, Zenon DEF IsFree, Init
  <2> QED
    BY <1>6, <2>1, Zenon
<1>9. Whole
  BY <1>1, <1>4, <1>5, <1>7, <1>8, Zenon DEF Whole, List, Init
<1> QED
  BY <1>3, <1>9, SMT DEF Inv, Init

\* The null block leaves an otherwise whole list.
LEMMA PopleftInv == Inv /\ popleft => Inv'
<1> SUFFICES ASSUME Inv, popleft PROVE Inv'
  BY Zenon
<1> DEFINE n == num_free_blocks
<1>1. n = NumBlocks /\ n \in Nat /\ 1 \in 1..n
  BY PoolAssumption, SMT DEF Inv, popleft
<1>2. PICK s \in [1..NumBlocks -> Blocks] : List(s, NumBlocks, 0, NumBlocks, {})
  BY <1>1, Zenon DEF Inv, popleft, Whole
<1>3. next[FakeHead] = s[1] /\ s[1] \in Blocks
  <2>1. next[Node(s, NumBlocks, 0)] = Node(s, NumBlocks, 0 + 1)
    BY <1>1, <1>2, SMT DEF List, Forward
  <2> QED
    BY <2>1, <1>1, SMT DEF Node
<1> DEFINE t == Without(s, NumBlocks, 1)
<1>4. /\ t \in [1..NumBlocks - 1 -> Blocks]
      /\ Distinct(t, NumBlocks - 1)
      /\ \A b \in Blocks : (\E k \in 1..NumBlocks - 1 : t[k] = b) <=> b # s[1] /\ \E k \in 1..NumBlocks : s[k] = b
      /\ Forward(t, NumBlocks - 1, 0, NumBlocks - 1)'
      /\ Backward(t, NumBlocks - 1, 0, NumBlocks - 1)'
      /\ Outside(t, NumBlocks - 1)'
      /\ next' \in [Nodes -> Links] /\ prev' \in [Nodes -> Links]
  BY <1>1, <1>2, <1>3, UnlinkList, Zenon DEF Inv, List, popleft
<1> HIDE DEF t
<1>5. Holds(t, NumBlocks - 1, {})'
  <2> SUFFICES ASSUME NEW b \in Blocks
               PROVE  IsFree(b)' <=> \E k \in 1..NumBlocks - 1 : t[k] = b
    BY Zenon DEF Holds
  <2>1. IsFree(b) <=> \E k \in 1..NumBlocks : s[k] = b
    BY <1>2, Zenon DEF List, Holds
  <2>2. IsFree(b)' <=> b # s[1] /\ IsFree(b)
    BY <1>3, Ends, Zenon DEF popleft, Inv, IsFree
  <2> QED
    BY <1>4, <2>1, <2>2, Zenon
<1>6. num_free_blocks' = NumBlocks - 1 /\ num_free_blocks' \in Nat
  BY <1>1, SMT DEF popleft
<1>7. Whole'
  BY <1>4, <1>5, <1>6, Zenon DEF Whole, List, Distinct
<1>8. <<next[FakeHead]>> \in Seq(Blocks)
  BY <1>3
<1>9. Types'
  BY <1>3, <1>4, <1>6, <1>8, Zenon DEF Types, Inv, popleft
<1> QED
  BY <1>3, <1>7, <1>9, Ends, SMT DEF Inv, popleft, Types

\* What the rest of a non-empty list of distinct blocks holds.
LEMMA TailFacts ==
  ASSUME NEW bs \in Seq(Blocks), bs # <<>>
  PROVE  /\ bs[1] \in Blocks /\ Tail(bs) \in Seq(Blocks)
         /\ Range(bs) = {bs[1]} \cup Range(Tail(bs))
         /\ (\A i, j \in DOMAIN bs : bs[i] = bs[j] => i = j)
              => /\ bs[1] \notin Range(Tail(bs))
                 /\ \A i, j \in DOMAIN Tail(bs) : Tail(bs)[i] = Tail(bs)[j] => i = j
<1>1. /\ Len(bs) \in Nat \ {0} /\ DOMAIN bs = 1..Len(bs)
      /\ Tail(bs) \in Seq(Blocks)
      /\ DOMAIN Tail(bs) = 1..Len(bs) - 1
      /\ \A i \in 1..Len(bs) - 1 : Tail(bs)[i] = bs[i + 1]
  BY SMT
<1>2. bs[1] \in Blocks
  BY <1>1, SMT
<1>3. Range(bs) = {bs[1]} \cup Range(Tail(bs))
  <2>1. ASSUME NEW i \in 1..Len(bs) PROVE bs[i] \in {bs[1]} \cup Range(Tail(bs))
    <3>1. CASE i = 1
      BY <3>1, Zenon
    <3>2. CASE i # 1
      <4>1. i - 1 \in 1..Len(bs) - 1 /\ Tail(bs)[i - 1] = bs[i]
        BY <1>1, <3>2, SMT
      <4> QED
        BY <4>1, <1>1, Zenon DEF Range
    <3> QED
      BY <3>1, <3>2, Zenon
  <2>2. ASSUME NEW i \in 1..Len(bs) - 1 PROVE Tail(bs)[i] \in Range(bs)
    <3>1. i + 1 \in 1..Len(bs) /\ Tail(bs)[i] = bs[i + 1]
      BY <1>1, SMT
    <3> QED
      BY <3>1, <1>1, Zenon DEF Range
  <2>3. bs[1] \in Range(bs)
    <3>1. 1 \in 1..Len(bs)
      BY <1>1, SMT
    <3> QED
      BY <3>1, <1>1, Zenon DEF Range
  <2> QED
    BY <2>1, <2>2, <2>3, <1>1 DEF Range
<1>4. ASSUME \A i, j \in DOMAIN bs : bs[i] = bs[j] => i = j
      PROVE  /\ bs[1] \notin Range(Tail(bs))
             /\ \A i, j \in DOMAIN Tail(bs) : Tail(bs)[i] = Tail(bs)[j] => i = j
  <2>1. \A i \in 1..Len(bs) - 1 : Tail(bs)[i] # bs[1]
    BY <1>1, <1>4, SMT
  <2>2. \A i, j \in 1..Len(bs) - 1 : Tail(bs)[i] = Tail(bs)[j] => i = j
    BY <1>1, <1>4, SMT
  <2> QED
    BY <1>1, <2>1, <2>2, Zenon DEF Range
<1> QED
  BY <1>1, <1>2, <1>3, <1>4, Zenon

\* A touched block leaves the list, or was not in it.
LEMMA TouchOneInv == Inv /\ TouchOne => Inv'
<1> SUFFICES ASSUME Inv, TouchOne PROVE Inv'
  BY Zenon
<1> DEFINE b == todo[1]
<1>1. b \in Blocks /\ todo' \in Seq(Blocks)
  BY TailFacts, Zenon DEF Inv, Types, TouchOne
<1>2. num_free_blocks \in Nat /\ ref_cnt \in [Blocks -> Int]
  BY Zenon DEF Inv, Types
<1>3. PICK s \in [1..num_free_blocks -> Blocks] : List(s, num_free_blocks, 0, num_free_blocks, {})
  BY Zenon DEF Inv, TouchOne, Whole
<1>4. \A c \in Blocks : IsFree(c) <=> \E k \in 1..num_free_blocks : s[k] = c
  BY <1>3, Zenon DEF List, Holds
<1>5. /\ ref_cnt' = [ref_cnt EXCEPT ![b] = @ + 1] /\ null_block' = null_block
      /\ \A c \in Blocks : c # null_block => ref_cnt[c] >= 0
  BY Zenon DEF TouchOne, Inv
<1>6. \A c \in Blocks : IsFree(c)' <=> IsFree(c) /\ c # b
  BY <1>1, <1>2, <1>5, SMT DEF IsFree
<1>7. ref_cnt' \in [Blocks -> Int] /\ \A c \in Blocks : c # null_block' => ref_cnt'[c] >= 0
  BY <1>1, <1>2, <1>5, SMT
<1>8. CASE IsFree(b)
  <2>1. Unlink(b) /\ num_free_blocks' = num_free_blocks - 1
    BY <1>8, Zenon DEF TouchOne, IsFree
  <2>2. PICK p \in 1..num_free_blocks : s[p] = b
    BY <1>1, <1>4, <1>8, Zenon
  <2>3. PICK n \in Nat : n = num_free_blocks
    BY <1>2, Zenon
  <2> DEFINE t == Without(s, n, p)
  <2>a. /\ Types /\ s \in [1..n -> Blocks] /\ p \in 1..n /\ Unlink(s[p])
        /\ Distinct(s, n) /\ Forward(s, n, 0, n) /\ Backward(s, n, 0, n) /\ Outside(s, n)
    BY <1>3, <2>1, <2>2, <2>3, Zenon DEF Inv, List
  <2>4. /\ t \in [1..n - 1 -> Blocks]
        /\ Distinct(t, n - 1)
        /\ \A c \in Blocks : (\E k \in 1..n - 1 : t[k] = c) <=> c # s[p] /\ \E k \in 1..n : s[k] = c
        /\ Forward(t, n - 1, 0, n - 1)'
        /\ Backward(t, n - 1, 0, n - 1)'
        /\ Outside(t, n - 1)'
        /\ next' \in [Nodes -> Links] /\ prev' \in [Nodes -> Links]
    BY <2>a, UnlinkList, Zenon
  <2> HIDE DEF t
  <2>5. Holds(t, n - 1, {})'
    BY <1>4, <1>6, <2>2, <2>3, <2>4, Zenon DEF Holds
  <2>6. num_free_blocks' = n - 1 /\ num_free_blocks' \in Nat
    BY <2>1, <2>2, <2>3, SMT
  <2>7. Whole'
    BY <2>4, <2>5, <2>6, Zenon DEF Whole, List, Distinct
  <2>8. Types'
    BY <1>1, <1>7, <2>4, <2>6, Zenon DEF Types, Inv, TouchOne
  <2> QED
    BY <1>7, <2>7, <2>8, SMT DEF Inv, TouchOne
<1>9. CASE ~IsFree(b)
  <2>1. UNCHANGED <<next, prev, num_free_blocks>>
    BY <1>9, Zenon DEF TouchOne, IsFree
  <2>2. \A c \in Blocks : IsFree(c)' <=> IsFree(c)
    BY <1>6, <1>9, Zenon
  <2>3. List(s, num_free_blocks, 0, num_free_blocks, {})'
    BY <1>3, <2>1, <2>2, Zenon DEF List, Distinct, Forward, Backward, Outside, Holds, Node
  <2>4. Whole'
    BY <2>1, <2>3, Zenon DEF Whole
  <2>5. Types'
    BY <1>1, <1>7, <2>1, Zenon DEF Types, Inv, TouchOne
  <2> QED
    BY <1>7, <2>4, <2>5, SMT DEF Inv, TouchOne
<1> QED
  BY <1>8, <1>9, Zenon

\* popleft_n starts on the whole list, with the count already lowered.
LEMMA GetNewBlocksInv == ASSUME Inv, NEW n \in 1..NumBlocks, get_new_blocks(n) PROVE Inv'
<1>1. num_free_blocks \in Nat
  BY Zenon DEF Inv, Types
<1>2. PICK m \in Nat : m = num_free_blocks
  BY <1>1, Zenon
<1>3. PICK s \in [1..m -> Blocks] : List(s, m, 0, m, {})
  BY <1>2, Zenon DEF Inv, get_new_blocks, Whole
<1>4. num_free_blocks' \in Nat /\ count' \in Nat /\ num_free_blocks' + count' = m
  BY <1>2, PoolAssumption, SMT DEF get_new_blocks
<1>5. curr' = Node(s, m, 1)
  <2>1. next[Node(s, m, 0)] = Node(s, m, 0 + 1)
    BY <1>3, SMT DEF List, Forward
  <2> QED
    BY <2>1, NodeFacts DEF get_new_blocks
<1>6. Range(ret') = {}
  BY DEF get_new_blocks, Range
<1>7. List(s, m, 1, m, {})'
  <2>1. Forward(s, m, 1, m)'
    BY <1>3, SMT DEF List, Forward, get_new_blocks
  <2>2. Backward(s, m, 1, m)'
    BY <1>3, SMT DEF List, Backward, get_new_blocks
  <2> QED
    BY <1>3, <2>1, <2>2, Zenon DEF List, Distinct, Outside, Holds, IsFree, get_new_blocks
<1>8. Popping'
  BY <1>4, <1>5, <1>6, <1>7, Zenon DEF Popping
<1>9. Types'
  <2>1. curr' \in Links
    BY Ends, Zenon DEF get_new_blocks, Inv, Types
  <2> QED
    BY <1>4, <2>1 DEF Types, Inv, get_new_blocks
<1> QED
  BY <1>6, <1>8, <1>9, SMT DEF Inv, get_new_blocks

\* One block leaves the front of the list.
LEMMA PopOneInv == Inv /\ PopOne => Inv'
<1> SUFFICES ASSUME Inv, PopOne PROVE Inv'
  BY Zenon
<1>1. PICK m \in Nat : m = num_free_blocks + count
  BY SMT DEF Inv, Types
<1>2. PICK s \in [1..m -> Blocks] : List(s, m, 1, m, Range(ret)) /\ curr = Node(s, m, 1)
  BY <1>1, Zenon DEF Inv, PopOne, Popping
<1>3. 1 \in 1..m /\ num_free_blocks' \in Nat /\ count' \in Nat /\ num_free_blocks' + count' = m - 1 /\ m - 1 \in Nat
  BY <1>1, SMT DEF PopOne, Inv, Types
<1>4. curr = s[1] /\ s[1] \in Blocks /\ curr \in Nodes
  BY <1>2, <1>3, NodeFacts, Ends
<1> DEFINE t == Without(s, m, 1)
           N(k) == Node(s, m, k)
           M(k) == Node(t, m - 1, k)
<1>5. /\ t \in [1..m - 1 -> Blocks]
      /\ \A k \in 1..m - 1 : t[k] = s[k + 1]
  BY <1>3, SMT DEF Without
<1>6. Distinct(s, m) /\ Outside(s, m) /\ \A k \in 1..m : next[N(k)] = N(k + 1) /\ prev[N(k + 1)] = N(k)
  BY <1>2, Zenon DEF List, Forward, Backward
<1>7. /\ \A k \in 0..m + 1 : N(k) \in Nodes
      /\ \A i, j \in 0..m + 1 : N(i) = N(j) => i = j
  BY <1>6, NodeFacts, Zenon
<1>8. \A k \in 1..m : M(k) = N(k + 1)
  <2> HIDE DEF t
  <2> QED
    BY <1>3, <1>5, SMT DEF Node
<1>9. /\ next' = [next EXCEPT ![N(1)] = None] /\ prev' = [prev EXCEPT ![N(1)] = None]
      /\ next \in [Nodes -> Links] /\ prev \in [Nodes -> Links] /\ N(1) \in Nodes
  BY <1>2, <1>4, Zenon DEF PopOne, Inv, Types
<1>10. next' \in [Nodes -> Links] /\ prev' \in [Nodes -> Links]
  BY <1>9, Zenon DEF Links
<1>11. Distinct(t, m - 1)
  <2> HIDE DEF t
  <2>1. Distinct(s, m)
    BY <1>6, Zenon
  <2>2. \A k \in 1..m - 1 : k + 1 \in 1..m
    BY <1>3, SMT
  <2> SUFFICES ASSUME NEW i \in 1..m - 1, NEW j \in 1..m - 1, t[i] = t[j] PROVE i = j
    BY Zenon DEF Distinct
  <2>3. i + 1 = j + 1
    BY <1>5, <2>1, <2>2, Zenon DEF Distinct
  <2> QED
    BY <2>3, <1>3, SMT
<1>12. Forward(t, m - 1, 1, m - 1)' /\ Backward(t, m - 1, 1, m - 1)'
  <2> SUFFICES ASSUME NEW k \in 1..m - 1
               PROVE  next'[M(k)] = M(k + 1) /\ prev'[M(k + 1)] = M(k)
    BY Zenon DEF Forward, Backward
  <2> HIDE DEF M, N, t
  <2> QED
    BY <1>3, <1>6, <1>7, <1>8, <1>9, SMT
<1>13. \A b \in Blocks : (\E k \in 1..m - 1 : t[k] = b) <=> b # s[1] /\ \E k \in 1..m : s[k] = b
  <2> SUFFICES ASSUME NEW b \in Blocks
               PROVE  (\E k \in 1..m - 1 : t[k] = b) <=> b # s[1] /\ \E k \in 1..m : s[k] = b
    BY Zenon
  <2> HIDE DEF t
  <2>1. ASSUME NEW k \in 1..m - 1, t[k] = b PROVE b # s[1] /\ \E j \in 1..m : s[j] = b
    BY <2>1, <1>3, <1>5, <1>6, SMT DEF Distinct
  <2>2. ASSUME NEW k \in 1..m, s[k] = b, b # s[1] PROVE \E j \in 1..m - 1 : t[j] = b
    <3>1. k - 1 \in 1..m - 1 /\ t[k - 1] = b
      BY <2>2, <1>3, <1>5, SMT
    <3> QED
      BY <3>1, Zenon
  <2> QED
    BY <2>1, <2>2, Zenon
<1> HIDE DEF t
<1>14. Outside(t, m - 1)'
  <2> SUFFICES ASSUME NEW b \in Blocks, \A k \in 1..m - 1 : t[k] # b
               PROVE  next'[b] = None /\ prev'[b] = None
    BY Zenon DEF Outside
  <2>1. b \in Nodes
    BY Ends, Zenon
  <2>2. CASE b = s[1]
    BY <2>1, <2>2, <1>2, <1>4, <1>9, Zenon
  <2>3. CASE b # s[1]
    BY <2>1, <2>3, <1>2, <1>4, <1>6, <1>9, <1>13, Zenon DEF Outside
  <2> QED
    BY <2>2, <2>3, Zenon
<1>15. ret' \in Seq(Blocks) /\ Range(ret') = Range(ret) \cup {s[1]}
  <2>1. ret \in Seq(Blocks) /\ ret' = Append(ret, s[1])
    BY <1>4, Zenon DEF PopOne, Inv, Types
  <2>2. /\ Len(ret) \in Nat /\ DOMAIN ret = 1..Len(ret)
        /\ ret' \in Seq(Blocks) /\ DOMAIN ret' = 1..Len(ret) + 1
        /\ \A i \in 1..Len(ret) : ret'[i] = ret[i]
        /\ ret'[Len(ret) + 1] = s[1]
    BY <2>1, <1>4, SMT
  <2>3. 1..Len(ret) + 1 = 1..Len(ret) \cup {Len(ret) + 1}
    BY <2>2, SMT
  <2> QED
    BY <2>2, <2>3 DEF Range
<1>16. IsFree(s[1])
  BY <1>2, <1>3, <1>4, Zenon DEF List, Holds
<1>17. Holds(t, m - 1, Range(ret))'
  BY <1>2, <1>13, <1>15, Zenon DEF List, Holds, IsFree, PopOne
<1>18. curr' = Node(t, m - 1, 1)
  BY <1>2, <1>3, <1>6, <1>8, SMT DEF PopOne
<1>19. Popping'
  <2>1. List(t, m - 1, 1, m - 1, Range(ret))'
    BY <1>11, <1>12, <1>14, <1>17, Zenon DEF List, Distinct
  <2> QED
    BY <1>3, <1>5, <1>18, <2>1, Zenon DEF Popping
<1>20. Types'
  <2>1. curr' \in Links
    BY <1>4, <1>9, Zenon DEF PopOne
  <2> QED
    BY <1>3, <1>10, <1>15, <2>1, Zenon DEF PopOne, Inv, Types
<1>21. \A b \in Range(ret') : IsFree(b)'
  BY <1>15, <1>16, Zenon DEF PopOne, Inv, IsFree
<1> QED
  BY <1>19, <1>20, <1>21, SMT DEF Inv, PopOne

\* The fake head is linked to the rest and the popped blocks get their reference.
LEMMA PopDoneInv == Inv /\ PopDone => Inv'
<1> SUFFICES ASSUME Inv, PopDone PROVE Inv'
  BY Zenon
<1>1. PICK m \in Nat : m = num_free_blocks /\ m = num_free_blocks + count
  BY SMT DEF Inv, Types, PopDone
<1>2. PICK s \in [1..m -> Blocks] : List(s, m, 1, m, Range(ret)) /\ curr = Node(s, m, 1)
  BY <1>1, Zenon DEF Inv, PopDone, Popping
<1> DEFINE N(k) == Node(s, m, k)
<1>3. Distinct(s, m) /\ Outside(s, m) /\ \A k \in 1..m : next[N(k)] = N(k + 1) /\ prev[N(k + 1)] = N(k)
  BY <1>2, Zenon DEF List, Forward, Backward
<1>4. /\ \A k \in 0..m + 1 : N(k) \in Nodes
      /\ \A i, j \in 0..m + 1 : N(i) = N(j) => i = j
      /\ N(0) = FakeHead
  BY <1>3, NodeFacts, Zenon
<1>5. /\ next' = [next EXCEPT ![N(0)] = N(1)] /\ prev' = [prev EXCEPT ![N(1)] = N(0)]
      /\ next \in [Nodes -> Links] /\ prev \in [Nodes -> Links] /\ N(0) \in Nodes /\ N(1) \in Nodes
  <2>1. N(0) \in Nodes /\ N(1) \in Nodes
    BY <1>4, SMT
  <2> QED
    BY <1>2, <1>4, <2>1, Zenon DEF PopDone, Inv, Types
<1>6. next' \in [Nodes -> Links] /\ prev' \in [Nodes -> Links]
  BY <1>5, Zenon DEF Links
<1>7. Forward(s, m, 0, m)' /\ Backward(s, m, 0, m)'
  <2> SUFFICES ASSUME NEW k \in 0..m
               PROVE  next'[N(k)] = N(k + 1) /\ prev'[N(k + 1)] = N(k)
    BY Zenon DEF Forward, Backward
  <2> HIDE DEF N
  <2> QED
    BY <1>3, <1>4, <1>5, SMT
<1>8. Outside(s, m)'
  <2> SUFFICES ASSUME NEW b \in Blocks, \A k \in 1..m : s[k] # b
               PROVE  next'[b] = None /\ prev'[b] = None
    BY Zenon DEF Outside
  <2>1. b \in Nodes /\ next[b] = None /\ prev[b] = None
    BY <1>3, Ends, Zenon DEF Outside
  <2>2. N(0) # b /\ N(1) # b
    BY Ends, SMT DEF Node
  <2> HIDE DEF N
  <2> QED
    BY <1>5, <2>1, <2>2, Zenon
<1>9. /\ ref_cnt \in [Blocks -> Int]
      /\ ref_cnt' = [b \in Blocks |-> IF b \in Range(ret) THEN ref_cnt[b] + 1 ELSE ref_cnt[b]]
      /\ null_block' = null_block
      /\ \A b \in Range(ret) : IsFree(b)
      /\ \A b \in Blocks : b # null_block => ref_cnt[b] >= 0
  BY Zenon DEF PopDone, Inv, Types
<1>10. \A b \in Blocks : IsFree(b)' <=> IsFree(b) /\ b \notin Range(ret)
  BY <1>9, SMT DEF IsFree
<1>11. ref_cnt' \in [Blocks -> Int] /\ \A b \in Blocks : b # null_block' => ref_cnt'[b] >= 0
  BY <1>9, SMT
<1>12. Holds(s, m, {})'
  BY <1>2, <1>10, Zenon DEF List, Holds
<1>13. num_free_blocks' = m /\ count' = 0
  BY <1>1, SMT DEF PopDone, Inv, Types
<1>14. Whole'
  BY <1>3, <1>7, <1>8, <1>12, <1>13, Zenon DEF Whole, List, Distinct
<1>15. Types'
  BY <1>6, <1>11, <1>13, Zenon DEF Types, Inv, PopDone, Links
<1> QED
  BY <1>11, <1>13, <1>14, <1>15, SMT DEF Inv, PopDone

\* The blocks of a free were in no list; those left without a reference are to be
\* appended.
LEMMA FreeBlocksInv == ASSUME Inv, NEW bs \in Lists, free_blocks(bs) PROVE Inv'
<1>1. /\ bs \in Seq(Blocks) /\ Range(bs) \subseteq Blocks
      /\ \A b \in Range(bs) : \E i \in DOMAIN bs : bs[i] = b
      /\ \A i \in DOMAIN bs : bs[i] \in Range(bs)
      /\ \A i, j \in DOMAIN bs : bs[i] = bs[j] => i = j
  <2>1. PICK n \in 0..NumBlocks : bs \in [1..n -> Blocks]
    BY Zenon DEF Lists
  <2>2. bs \in Seq(Blocks)
    BY <2>1, PoolAssumption, SMT
  <2> QED
    BY <2>1, <2>2 DEF Lists, Range
<1>2. PICK m \in Nat : m = num_free_blocks /\ m = num_free_blocks + count /\ count = 0
  BY SMT DEF Inv, Types, free_blocks
<1>3. PICK s \in [1..m -> Blocks] : List(s, m, 0, m, {})
  BY <1>2, Zenon DEF Inv, free_blocks, Whole
<1>4. /\ ref_cnt \in [Blocks -> Int] /\ null_block' = null_block
      /\ ref_cnt' = [b \in Blocks |-> IF b \in Range(bs) THEN ref_cnt[b] - 1 ELSE ref_cnt[b]]
      /\ \A b \in Blocks : b # null_block => ref_cnt[b] >= 0
      /\ \A b \in Range(bs) : b = null_block \/ ref_cnt[b] > 0
  BY <1>1, Zenon DEF free_blocks, Inv, Types
<1>5. ref_cnt' \in [Blocks -> Int] /\ \A b \in Blocks : b # null_block' => ref_cnt'[b] >= 0
  BY <1>4, SMT
<1>6. \A b \in Blocks : IsFree(b)' /\ b \notin Range(bs) <=> IsFree(b)
  BY <1>4, SMT DEF IsFree
<1>7. Holds(s, m, Range(bs))'
  BY <1>3, <1>6, Zenon DEF List, Holds
<1>8. Distinct(s, m) /\ Forward(s, m, 0, m)' /\ Backward(s, m, 0, m)' /\ Outside(s, m)'
  BY <1>3, Zenon DEF List, Forward, Backward, Outside, free_blocks
<1>9. CASE \E i \in DOMAIN bs : ToQueue(bs[i], ref_cnt')
  <2>1. pc' = "append" /\ curr' = prev[FakeTail] /\ todo' = bs /\ num_free_blocks' + count' = m
    BY <1>2, <1>9, Zenon DEF free_blocks
  <2>2. curr' = Node(s, m, m)
    <3>1. prev[Node(s, m, m + 1)] = Node(s, m, m)
      BY <1>3, SMT DEF List, Backward
    <3> QED
      BY <2>1, <3>1, NodeFacts, Zenon
  <2>3. Forward(s, m, 0, m - 1)' /\ Backward(s, m, 0, m - 1)'
    BY <1>8, SMT DEF Forward, Backward
  <2>4. Appending'
    <3>1. OpenEnded(s, m)'
      BY <1>7, <1>8, <2>1, <2>2, <2>3, Zenon DEF OpenEnded, List, Distinct
    <3> QED
      BY <2>1, <3>1, Zenon DEF Appending
  <2>5. Types'
    <3>1. curr' \in Links
      BY <2>1, Ends, Zenon DEF Inv, Types
    <3> QED
      BY <1>1, <1>5, <2>1, <3>1, Zenon DEF Types, Inv, free_blocks
  <2> QED
    BY <1>1, <1>5, <2>1, <2>4, <2>5, SMT DEF Inv, free_blocks
<1>10. CASE ~\E i \in DOMAIN bs : ToQueue(bs[i], ref_cnt')
  <2>1. \A b \in Range(bs) : ~IsFree(b)'
    BY <1>1, <1>4, <1>10, Zenon DEF ToQueue, IsFree
  <2>2. Holds(s, m, {})'
    BY <1>7, <2>1, Zenon DEF Holds
  <2>3. Whole'
    <3>1. List(s, m, 0, m, {})'
      BY <1>8, <2>2, Zenon DEF List, Distinct
    <3>2. num_free_blocks' = m
      BY <1>2, Zenon DEF free_blocks
    <3> QED
      BY <3>1, <3>2, Zenon DEF Whole
  <2>4. Types'
    BY <1>5, <1>10, Zenon DEF Types, Inv, free_blocks
  <2> QED
    BY <1>5, <1>10, <2>3, <2>4, SMT DEF Inv, free_blocks
<1> QED
  BY <1>9, <1>10, Zenon

\* A free block is linked after the last one; another one is passed over.
LEMMA AppendOneInv == Inv /\ AppendOne => Inv'
<1> SUFFICES ASSUME Inv, AppendOne PROVE Inv'
  BY Zenon
<1>1. PICK m \in Nat : m = num_free_blocks + count
  BY SMT DEF Inv, Types
<1>2. PICK s \in [1..m -> Blocks] : List(s, m, 0, m - 1, Range(todo)) /\ curr = Node(s, m, m)
  <2>1. PICK s \in [1..m -> Blocks] : OpenEnded(s, m)
    BY <1>1, Zenon DEF Inv, AppendOne, Appending
  <2> QED
    BY <2>1, Zenon DEF OpenEnded
<1>3. PICK b \in Blocks : b = todo[1]
  BY TailFacts, Zenon DEF Inv, Types, AppendOne
<1>4. /\ todo' \in Seq(Blocks) /\ Range(todo) = {b} \cup Range(todo') /\ b \notin Range(todo')
      /\ \A i, j \in DOMAIN todo' : todo'[i] = todo'[j] => i = j
  BY <1>3, TailFacts, Zenon DEF Inv, Types, AppendOne
<1>5. \A c \in Blocks : IsFree(c)' <=> IsFree(c)
  BY Zenon DEF IsFree, AppendOne
<1>6. \A c \in Blocks : IsFree(c) /\ c \notin Range(todo) <=> \E k \in 1..m : s[k] = c
  BY <1>2, Zenon DEF List, Holds
<1>7. CASE ~IsFree(b)
  <2>1. UNCHANGED <<next, prev, curr, count, num_free_blocks>>
    BY <1>3, <1>7, Zenon DEF AppendOne, ToQueue, IsFree
  <2>2. Holds(s, m, Range(todo))'
    BY <1>4, <1>5, <1>6, <1>7, Zenon DEF Holds
  <2>3. List(s, m, 0, m - 1, Range(todo))'
    BY <1>2, <2>1, <2>2, Zenon DEF List, Distinct, Forward, Backward, Outside
  <2>4. Appending'
    <3>1. OpenEnded(s, m)'
      BY <1>2, <2>1, <2>3, Zenon DEF OpenEnded
    <3>2. num_free_blocks' + count' = m
      BY <1>1, <2>1, Zenon
    <3> QED
      BY <3>1, <3>2, Zenon DEF Appending
  <2>5. Types'
    BY <1>4, <2>1, Zenon DEF Types, Inv, AppendOne
  <2> QED
    BY <1>4, <2>4, <2>5, SMT DEF Inv, AppendOne
<1>8. CASE IsFree(b)
  <2> DEFINE t == [i \in 1..m + 1 |-> IF i <= m THEN s[i] ELSE b]
             N(k) == Node(s, m, k)
             M(k) == Node(t, m + 1, k)
  <2>1. /\ t \in [1..m + 1 -> Blocks]
        /\ \A k \in 1..m : t[k] = s[k]
        /\ t[m + 1] = b
    BY SMT
  <2>2. Distinct(s, m) /\ Outside(s, m) /\ \A k \in 0..m - 1 : next[N(k)] = N(k + 1) /\ prev[N(k + 1)] = N(k)
    BY <1>2, Zenon DEF List, Forward, Backward
  <2>3. \A k \in 1..m : s[k] # b
    BY <1>4, <1>6, Zenon
  <2>4. /\ \A k \in 0..m + 1 : N(k) \in Nodes
        /\ \A i, j \in 0..m + 1 : N(i) = N(j) => i = j
    BY <2>2, NodeFacts, Zenon
  <2>5. \A k \in 0..m : N(k) # b
    BY <2>3, Ends, SMT DEF Node
  <2>6. /\ \A k \in 0..m : M(k) = N(k)
        /\ M(m + 1) = b
    <3> HIDE DEF t
    <3> QED
      BY <2>1, SMT DEF Node
  <2>7. /\ next' = [next EXCEPT ![N(m)] = b] /\ prev' = [prev EXCEPT ![b] = N(m)]
        /\ next \in [Nodes -> Links] /\ prev \in [Nodes -> Links]
        /\ N(m) \in Nodes /\ b \in Nodes
        /\ curr' = b /\ count' = count + 1
    <3>1. N(m) \in Nodes /\ b \in Nodes
      BY <2>4, Ends, SMT
    <3>2. ToQueue(b, ref_cnt)
      BY <1>8, Zenon DEF ToQueue, IsFree
    <3> QED
      BY <1>2, <1>3, <3>1, <3>2, Zenon DEF AppendOne, Inv, Types
  <2>8. next' \in [Nodes -> Links] /\ prev' \in [Nodes -> Links] /\ curr' \in Links
    BY <2>7, Zenon DEF Links
  <2>9. num_free_blocks' + count' = m + 1 /\ count' \in Nat /\ num_free_blocks' \in Nat
    BY <1>1, <2>7, SMT DEF AppendOne, Inv, Types
  <2>10. Distinct(t, m + 1)
    <3> HIDE DEF t
    <3> SUFFICES ASSUME NEW i \in 1..m + 1, NEW j \in 1..m + 1, t[i] = t[j] PROVE i = j
      BY Zenon DEF Distinct
    <3>1. Distinct(s, m)
      BY <2>2, Zenon
    <3> QED
      BY <2>1, <2>3, <3>1, SMT DEF Distinct
  <2>11. Forward(t, m + 1, 0, m)' /\ Backward(t, m + 1, 0, m)'
    <3> SUFFICES ASSUME NEW k \in 0..m
                 PROVE  next'[M(k)] = M(k + 1) /\ prev'[M(k + 1)] = M(k)
      BY Zenon DEF Forward, Backward
    <3> HIDE DEF M, N, t
    <3> QED
      BY <2>2, <2>4, <2>5, <2>6, <2>7, SMT
  <2>12. \A c \in Blocks : (\E k \in 1..m + 1 : t[k] = c) <=> c = b \/ \E k \in 1..m : s[k] = c
    <3> HIDE DEF t
    <3>1. 1..m + 1 = 1..m \cup {m + 1}
      BY SMT
    <3> QED
      BY <2>1, <3>1, Zenon
  <2> HIDE DEF t
  <2>13. Outside(t, m + 1)'
    <3> SUFFICES ASSUME NEW c \in Blocks, \A k \in 1..m + 1 : t[k] # c
                 PROVE  next'[c] = None /\ prev'[c] = None
      BY Zenon DEF Outside
    <3>1. c # b /\ \A k \in 1..m : s[k] # c
      BY <2>12, Zenon
    <3>2. c \in Nodes /\ next[c] = None /\ prev[c] = None
      BY <2>2, <3>1, Ends, Zenon DEF Outside
    <3>3. N(m) # c
      BY <3>1, Ends, SMT DEF Node
    <3> HIDE DEF N
    <3> QED
      BY <2>7, <3>1, <3>2, <3>3, Zenon
  <2>14. Holds(t, m + 1, Range(todo))'
    BY <1>4, <1>5, <1>6, <1>8, <2>12, Zenon DEF Holds
  <2>15. Appending'
    <3>1. (m + 1) - 1 = m
      BY SMT
    <3>2. List(t, m + 1, 0, m + 1 - 1, Range(todo))'
      BY <2>10, <2>11, <2>13, <2>14, <3>1 DEF List, Distinct
    <3>3. curr' = Node(t, m + 1, m + 1)
      BY <2>6, <2>7, Zenon
    <3>4. OpenEnded(t, m + 1)'
      BY <3>2, <3>3 DEF OpenEnded
    <3> QED
      BY <2>1, <2>9, <3>4, Zenon DEF Appending
  <2>16. Types'
    BY <1>4, <2>8, <2>9, Zenon DEF Types, Inv, AppendOne
  <2> QED
    BY <1>4, <2>15, <2>16, SMT DEF Inv, AppendOne
<1> QED
  BY <1>7, <1>8, Zenon

\* The fake tail closes the list.
LEMMA AppendDoneInv == Inv /\ AppendDone => Inv'
<1> SUFFICES ASSUME Inv, AppendDone PROVE Inv'
  BY Zenon
<1>1. PICK m \in Nat : m = num_free_blocks + count
  BY SMT DEF Inv, Types
<1>2. PICK s \in [1..m -> Blocks] : OpenEnded(s, m)
  BY <1>1, Zenon DEF Inv, AppendDone, Appending
<1> DEFINE N(k) == Node(s, m, k)
<1>3. /\ Distinct(s, m) /\ Outside(s, m) /\ curr = N(m)
      /\ \A k \in 0..m - 1 : next[N(k)] = N(k + 1) /\ prev[N(k + 1)] = N(k)
  BY <1>2, Zenon DEF OpenEnded, List, Forward, Backward
<1>4. /\ \A k \in 0..m + 1 : N(k) \in Nodes
      /\ \A i, j \in 0..m + 1 : N(i) = N(j) => i = j
      /\ N(m + 1) = FakeTail
  BY <1>3, NodeFacts, Zenon
<1>5. /\ next' = [next EXCEPT ![N(m)] = N(m + 1)] /\ prev' = [prev EXCEPT ![N(m + 1)] = N(m)]
      /\ next \in [Nodes -> Links] /\ prev \in [Nodes -> Links] /\ N(m) \in Nodes /\ N(m + 1) \in Nodes
  <2>1. N(m) \in Nodes /\ N(m + 1) \in Nodes
    BY <1>4, SMT
  <2> QED
    BY <1>3, <1>4, <2>1, Zenon DEF AppendDone, Inv, Types
<1>6. next' \in [Nodes -> Links] /\ prev' \in [Nodes -> Links]
  BY <1>5, Zenon DEF Links
<1>7. Forward(s, m, 0, m)' /\ Backward(s, m, 0, m)'
  <2> SUFFICES ASSUME NEW k \in 0..m
               PROVE  next'[N(k)] = N(k + 1) /\ prev'[N(k + 1)] = N(k)
    BY Zenon DEF Forward, Backward
  <2> HIDE DEF N
  <2> QED
    BY <1>3, <1>4, <1>5, SMT
<1>8. Outside(s, m)'
  <2> SUFFICES ASSUME NEW b \in Blocks, \A k \in 1..m : s[k] # b
               PROVE  next'[b] = None /\ prev'[b] = None
    BY Zenon DEF Outside
  <2>1. b \in Nodes /\ next[b] = None /\ prev[b] = None
    BY <1>3, Ends, Zenon DEF Outside
  <2>2. N(m) # b /\ N(m + 1) # b
    BY Ends, SMT DEF Node
  <2> HIDE DEF N
  <2> QED
    BY <1>5, <2>1, <2>2, Zenon
<1>9. Holds(s, m, {})'
  <2>1. Range(todo) = {}
    BY DEF AppendDone, Range
  <2>2. Holds(s, m, {})
    BY <1>2, <2>1, Zenon DEF OpenEnded, List
  <2> QED
    BY <2>2, Zenon DEF Holds, IsFree, AppendDone
<1>10. num_free_blocks' = m /\ count' = 0
  BY <1>1, Zenon DEF AppendDone
<1>11. Whole'
  BY <1>3, <1>7, <1>8, <1>9, <1>10, Zenon DEF Whole, List, Distinct
<1>12. Types'
  BY <1>6, <1>10 DEF Types, Inv, AppendDone, Links
<1> QED
  BY <1>10, <1>11, <1>12, SMT DEF Inv, AppendDone

\* A prefix hit's loop starts and ends on the whole list.
LEMMA TouchInv ==
  ASSUME Inv, (\E bs \in Lists : touch(bs)) \/ TouchDone \/ UNCHANGED vars
  PROVE  Inv'
<1>1. UNCHANGED <<next, prev, num_free_blocks, ref_cnt, null_block, curr, ret, count>>
  BY Zenon DEF touch, TouchDone, vars
<1>2. todo' \in Seq(Blocks)
  <2>1. ASSUME NEW bs \in Lists PROVE bs \in Seq(Blocks)
    <3>1. PICK n \in 0..NumBlocks : bs \in [1..n -> Blocks]
      BY Zenon DEF Lists
    <3> QED
      BY <3>1, PoolAssumption, SMT
  <2> QED
    BY <2>1, Zenon DEF touch, TouchDone, vars, Inv, Types
<1>3. Whole' <=> Whole
  BY <1>1 DEF Whole, List, Distinct, Forward, Backward, Outside, Holds, IsFree
<1>4. CASE UNCHANGED vars
  <2>1. Popping' <=> Popping
    BY <1>4 DEF vars, Popping, List, Distinct, Forward, Backward, Outside, Holds, IsFree
  <2>2. Appending' <=> Appending
    BY <1>4 DEF vars, Appending, OpenEnded, List, Distinct, Forward, Backward, Outside, Holds, IsFree
  <2> QED
    BY <1>3, <1>4, <2>1, <2>2, Zenon DEF vars, Inv, Types, IsFree
<1>5. CASE (\E bs \in Lists : touch(bs)) \/ TouchDone
  <2>1. pc \in {"idle", "touch"} /\ pc' \in {"idle", "touch"}
    BY <1>5, Zenon DEF touch, TouchDone
  <2>2. Types'
    BY <1>1, <1>2, <2>1, Zenon DEF Types, Inv
  <2> QED
    BY <1>1, <1>3, <2>1, <2>2, Zenon DEF Inv
<1> QED
  BY <1>4, <1>5, Zenon

\* The invariant holds in every reachable state.
THEOREM FreeListInv == Spec => []Inv
<1>1. Inv /\ [Next]_vars => Inv'
  BY PopleftInv, GetNewBlocksInv, PopOneInv, PopDoneInv, TouchInv, TouchOneInv,
     FreeBlocksInv, AppendOneInv, AppendDoneInv, Zenon DEF Next
<1> QED
  BY InitInv, <1>1, PTL DEF Spec

\* For any number of blocks and any history of allocations, prefix hits and frees,
\* the links thread exactly the unreferenced blocks, each once, and num_free_blocks
\* counts them.
THEOREM FreeListIsSound == Spec => []FreeListSound
<1>1. Inv => FreeListSound
  <2> SUFFICES ASSUME Inv, pc = "idle"
               PROVE  /\ num_free_blocks >= 0
                      /\ \E s \in [1..num_free_blocks -> Blocks] :
                           /\ Linked(s, num_free_blocks)
                           /\ \A b \in Blocks : IsFree(b) <=> \E k \in 1..num_free_blocks : s[k] = b
    BY Zenon DEF FreeListSound
  <2>1. num_free_blocks >= 0
    BY SMT DEF Inv, Types
  <2> QED
    BY <2>1, Zenon DEF Inv, Whole, List, Distinct, Forward, Backward, Outside, Holds, Linked
<1> QED
  BY <1>1, FreeListInv, PTL

\* None of the errors of popleft_n, remove and append_n, and no assert of
\* get_new_blocks, is ever raised.
THEOREM FreeListNoCallerBug == Spec => []NoCallerBug
<1>1. Inv => NoCallerBug
  <2> SUFFICES ASSUME Inv PROVE NoCallerBug
    BY Zenon
  <2>1. ASSUME pc = "pop", count > 0 PROVE curr \in Blocks /\ ref_cnt[curr] = 0 /\ next[curr] # None
    <3>1. PICK m \in Nat : m = num_free_blocks + count
      BY SMT DEF Inv, Types
    <3>2. PICK s \in [1..m -> Blocks] : List(s, m, 1, m, Range(ret)) /\ curr = Node(s, m, 1)
      BY <2>1, <3>1, Zenon DEF Inv, Popping
    <3>3. 1 \in 1..m /\ 1 + 1 \in 0..m + 1
      BY <2>1, <3>1, SMT DEF Inv, Types
    <3>4. curr = s[1] /\ s[1] \in Blocks /\ Node(s, m, 1 + 1) \in Nodes
      BY <3>2, <3>3, NodeFacts, Zenon
    <3>5. next[curr] = Node(s, m, 1 + 1)
      BY <3>2, <3>3, Zenon DEF List, Forward
    <3> QED
      BY <3>2, <3>3, <3>4, <3>5, Ends, Zenon DEF List, Holds, IsFree
  <2>2. ASSUME pc = "touch", todo # <<>>, IsFree(todo[1])
        PROVE  prev[todo[1]] # None /\ next[todo[1]] # None
    <3>1. PICK m \in Nat : m = num_free_blocks
      BY Zenon DEF Inv, Types
    <3>2. PICK s \in [1..m -> Blocks] : List(s, m, 0, m, {})
      BY <2>2, <3>1, Zenon DEF Inv, Whole
    <3>3. PICK p \in 1..m : s[p] = todo[1]
      BY <2>2, <3>2, TailFacts, Zenon DEF List, Holds, Inv, Types
    <3>4. p \in 0..m /\ p - 1 \in 0..m /\ (p - 1) + 1 = p /\ p - 1 \in 0..m + 1 /\ p + 1 \in 0..m + 1
      BY SMT
    <3>5. todo[1] = Node(s, m, p) /\ Node(s, m, p - 1) \in Nodes /\ Node(s, m, p + 1) \in Nodes
      BY <3>3, <3>4, NodeFacts, Zenon
    <3>6. next[todo[1]] = Node(s, m, p + 1) /\ prev[todo[1]] = Node(s, m, p - 1)
      BY <3>2, <3>4, <3>5, Zenon DEF List, Forward, Backward
    <3> QED
      BY <3>5, <3>6, Ends, Zenon
  <2>3. ASSUME pc = "append" PROVE curr # None
    <3>1. PICK m \in Nat : m = num_free_blocks + count
      BY SMT DEF Inv, Types
    <3>2. PICK s \in [1..m -> Blocks] : OpenEnded(s, m)
      BY <2>3, <3>1, Zenon DEF Inv, Appending
    <3>3. m \in 0..m + 1
      BY SMT
    <3> QED
      BY <3>2, <3>3, NodeFacts, Ends, Zenon DEF OpenEnded
  <2> QED
    BY <2>1, <2>2, <2>3, Zenon DEF NoCallerBug
<1> QED
  BY <1>1, FreeListInv, PTL

\* The free list is sound for any number of blocks and any use of the pool.
THEOREM PoolIsSound == Spec => []PoolSound
<1>1. FreeListSound /\ NoCallerBug => PoolSound
  BY Zenon DEF PoolSound
<1> QED
  BY <1>1, FreeListIsSound, FreeListNoCallerBug, PTL

-----------------------------------------------------------------------------
(***************************************************************************)
(* The list is a queue: the walk along the links is the list of the        *)
(* invariant, and every step maps to a step of FreeBlockOrder or to none.  *)
(***************************************************************************)

(* A nonempty set of naturals has a least element. *)
LEMMA LeastNat ==
  ASSUME NEW T \in SUBSET Nat, T # {}
  PROVE  \E x \in T : \A y \in T : x <= y
<1>1. PICK x \in T : \A y \in T : ~(<<y, x>> \in OpToRel(<, Nat))
  BY WFMin, NatLessThanWellFounded, Zenon
<1>2. \A y \in T : ~(y < x)
  BY <1>1, Zenon DEF OpToRel
<1> QED
  BY <1>2, SMT

(* Induction over the naturals, for a property given as a set. *)
LEMMA NatSetInduction ==
  ASSUME NEW T, 0 \in T, \A k \in Nat : k \in T => k + 1 \in T
  PROVE  \A k \in Nat : k \in T
<1> DEFINE Bad == Nat \ T
<1>1. SUFFICES ASSUME Bad # {} PROVE FALSE
  BY Zenon
<1>2. PICK k \in Bad : \A j \in Bad : k <= j
  <2>1. Bad \in SUBSET Nat
    BY Zenon
  <2> HIDE DEF Bad
  <2> QED
    BY <1>1, <2>1, LeastNat, Zenon
<1>3. k \in Nat /\ k # 0
  BY <1>2, Zenon
<1>4. k - 1 \in Nat /\ k - 1 \notin Bad /\ (k - 1) + 1 = k
  <2> HIDE DEF Bad
  <2> QED
    BY <1>2, <1>3, SMT
<1>5. k \in T
  BY <1>4, Zenon
<1> QED
  BY <1>2, <1>5, Zenon

(* f grows from a by the N steps of step. *)
Built(f, N, S, a, step) ==
  /\ f \in [0 .. N -> S] /\ f[0] = a
  /\ \A i \in 1 .. N : f[i] = step[i][f[i - 1]]

(* A function can be built value by value. *)
LEMMA Recursion ==
  ASSUME NEW S, NEW N \in Nat, NEW a \in S, NEW step \in [1 .. N -> [S -> S]]
  PROVE  \E f : Built(f, N, S, a, step)
<1> DEFINE Builds(m, f) ==
             /\ f \in [0 .. m -> S] /\ f[0] = a
             /\ \A i \in 1 .. m : f[i] = step[i][f[i - 1]]
           T == {m \in Nat : m <= N => \E f : Builds(m, f)}
<1>1. 0 \in T
  <2>1. Builds(0, [i \in 0 .. 0 |-> a])
    BY SMT
  <2>2. \E f : Builds(0, f)
    BY <2>1, Zenon
  <2> QED
    BY <2>2, SMT
<1>2. ASSUME NEW m \in Nat, m \in T PROVE m + 1 \in T
  <2>0. m + 1 \in Nat
    BY SMT
  <2>1. SUFFICES ASSUME m + 1 <= N PROVE \E f : Builds(m + 1, f)
    BY <2>0, Zenon
  <2>2. m <= N /\ m + 1 \in 1 .. N /\ m \in 0 .. m
    BY <2>1, SMT
  <2>3. PICK f : Builds(m, f)
    BY <1>2, <2>2, Zenon
  <2>4. step[m + 1][f[m]] \in S
    BY <2>2, <2>3, Zenon
  <2> DEFINE g == [i \in 0 .. m + 1 |-> IF i <= m THEN f[i] ELSE step[m + 1][f[m]]]
  <2>5. g \in [0 .. m + 1 -> S] /\ g[0] = a
    BY <2>3, <2>4, SMT
  <2>6. ASSUME NEW i \in 1 .. m + 1 PROVE g[i] = step[i][g[i - 1]]
    <3>1. g[i - 1] = f[i - 1] /\ (i <= m => g[i] = f[i] /\ i \in 1 .. m)
      BY SMT
    <3>2. CASE i <= m
      BY <2>3, <3>1, <3>2, Zenon
    <3>3. CASE ~(i <= m)
      <4>1. i = m + 1 /\ i - 1 = m
        BY <3>3, SMT
      <4>2. g[i] = step[m + 1][f[m]]
        BY <3>3, <4>1, SMT
      <4> QED
        BY <3>1, <4>1, <4>2, Zenon
    <3> QED
      BY <3>2, <3>3, Zenon
  <2>7. Builds(m + 1, g)
    BY <2>5, <2>6, Zenon
  <2> QED
    BY <2>7, Zenon
<1>3. N \in T
  <2> HIDE DEF T
  <2> QED
    BY <1>1, <1>2, NatSetInduction, Zenon
<1>4. PICK f : Builds(N, f)
  BY <1>3, SMT
<1> QED
  BY <1>4, Zenon DEF Built

\* Walking, with at most NumBlocks blocks.
Walks(links, w) ==
  w = [k \in 0..NumBlocks |->
        [b \in Links |-> IF k = 0 \/ b \notin Blocks THEN <<>> ELSE <<b>> \o w[k - 1][links[b]]]]

\* A block in front of a list.
LEMMA InFront ==
  ASSUME NEW b \in Blocks, NEW s \in Seq(Blocks)
  PROVE  /\ <<b>> \o s \in Seq(Blocks) /\ Len(<<b>> \o s) = Len(s) + 1
         /\ (<<b>> \o s)[1] = b
         /\ \A j \in 1..Len(s) : (<<b>> \o s)[j + 1] = s[j]
  OBVIOUS

\* Walk is defined: its recursion is on the number of blocks left.
LEMMA WalkDefined ==
  ASSUME NEW links \in [Nodes -> Links]
  PROVE  \E w \in [0..NumBlocks -> [Links -> Seq(Blocks)]] :
           /\ \A start \in Links : Walk(links, start) = w[NumBlocks][start]
           /\ \A b \in Links : w[0][b] = <<>>
           /\ \A k \in 1..NumBlocks : \A b \in Links :
                w[k][b] = IF b \notin Blocks THEN <<>> ELSE <<b>> \o w[k - 1][links[b]]
<1> DEFINE S == [Links -> Seq(Blocks)]
           a == [b \in Links |-> <<>>]
           more == [x \in S |-> [b \in Links |-> IF b \notin Blocks THEN <<>> ELSE <<b>> \o x[links[b]]]]
           step == [i \in 1..NumBlocks |-> more]
           w == CHOOSE w : Walks(links, w)
<1>1. a \in S
  <2>1. <<>> \in Seq(Blocks)
    BY SMT
  <2> QED
    BY <2>1, Zenon
<1>2. ASSUME NEW x \in S PROVE [b \in Links |-> IF b \notin Blocks THEN <<>> ELSE <<b>> \o x[links[b]]] \in S
  <2>1. ASSUME NEW b \in Links, b \in Blocks PROVE <<b>> \o x[links[b]] \in Seq(Blocks)
    <3>1. links[b] \in Links
      BY <2>1, Ends, Zenon
    <3>2. x[links[b]] \in Seq(Blocks)
      BY <3>1, Zenon
    <3> QED
      BY <2>1, <3>2, InFront, Zenon
  <2>2. <<>> \in Seq(Blocks)
    BY SMT
  <2> QED
    BY <2>1, <2>2, Zenon
<1>3. step \in [1..NumBlocks -> [S -> S]]
  BY <1>2, Zenon
<1>4. NumBlocks \in Nat
  BY PoolAssumption, Zenon
<1>5. PICK f : Built(f, NumBlocks, S, a, step)
  <2> HIDE DEF S, a, step
  <2> QED
    BY <1>1, <1>3, <1>4, Recursion, Zenon
<1>6. f \in [0..NumBlocks -> S] /\ f[0] = a /\ \A i \in 1..NumBlocks : f[i] = step[i][f[i - 1]]
  BY <1>5, Zenon DEF Built
<1>7. \A i \in 0..NumBlocks : i # 0 => i \in 1..NumBlocks /\ i - 1 \in 0..NumBlocks
  BY <1>4, SMT
<1>8. ASSUME NEW i \in 0..NumBlocks
      PROVE  f[i] = [b \in Links |-> IF i = 0 \/ b \notin Blocks THEN <<>> ELSE <<b>> \o f[i - 1][links[b]]]
  <2>1. CASE i = 0
    BY <1>6, <2>1, Zenon
  <2>2. CASE i # 0
    <3>1. f[i] = more[f[i - 1]] /\ f[i - 1] \in S
      BY <1>6, <1>7, <2>2, Zenon
    <3> QED
      BY <2>2, <3>1, Zenon
  <2> QED
    BY <2>1, <2>2, Zenon
<1>9. Walks(links, f)
  BY <1>6, <1>8, Zenon DEF Walks
<1>10. Walks(links, w)
  BY <1>9, Zenon
<1>11. \A start : Walk(links, start) = w[NumBlocks][start]
  BY Zenon DEF Walk, Walks, Links
<1> HIDE DEF w
<1>12. /\ DOMAIN w = 0..NumBlocks /\ w = [k \in 0..NumBlocks |-> w[k]]
       /\ \A k \in 0..NumBlocks : w[k] = [b \in Links |-> IF k = 0 \/ b \notin Blocks THEN <<>> ELSE <<b>> \o w[k - 1][links[b]]]
  BY <1>10, Zenon DEF Walks
<1> DEFINE T == {k \in Nat : k <= NumBlocks => w[k] \in S}
<1>13. 0 \in T
  <2>1. 0 \in 0..NumBlocks
    BY <1>4, SMT
  <2>2. w[0] = a
    BY <1>12, <2>1, Zenon
  <2> QED
    BY <1>1, <2>2, Zenon
<1>14. ASSUME NEW k \in Nat, k \in T PROVE k + 1 \in T
  <2>0. k + 1 \in Nat
    BY SMT
  <2>1. SUFFICES ASSUME k + 1 <= NumBlocks PROVE w[k + 1] \in S
    BY <2>0, Zenon
  <2>2. k <= NumBlocks /\ k + 1 \in 0..NumBlocks /\ k + 1 # 0 /\ (k + 1) - 1 = k
    BY <1>4, <2>1, SMT
  <2>3. w[k] \in S
    BY <1>14, <2>2, Zenon
  <2>4. w[k + 1] = [b \in Links |-> IF b \notin Blocks THEN <<>> ELSE <<b>> \o w[k][links[b]]]
    BY <1>12, <2>2, Zenon
  <2> QED
    BY <1>2, <2>3, <2>4, Zenon
<1>15. \A k \in 0..NumBlocks : w[k] \in S
  <2> HIDE DEF T
  <2>1. \A k \in Nat : k \in T
    BY <1>13, <1>14, NatSetInduction, Zenon
  <2>2. \A k \in 0..NumBlocks : k \in Nat /\ k <= NumBlocks
    BY <1>4, SMT
  <2> QED
    BY <2>1, <2>2, Zenon DEF T
<1>16. w \in [0..NumBlocks -> S]
  BY <1>12, <1>15, Zenon
<1>17. \A b \in Links : w[0][b] = <<>>
  <2>1. 0 \in 0..NumBlocks
    BY <1>4, SMT
  <2> QED
    BY <1>12, <2>1, Zenon
<1>18. \A k \in 1..NumBlocks : k \in 0..NumBlocks /\ k # 0
  BY <1>4, SMT
<1>19. \A k \in 1..NumBlocks : \A b \in Links :
         w[k][b] = IF b \notin Blocks THEN <<>> ELSE <<b>> \o w[k - 1][links[b]]
  <2> TAKE k \in 1..NumBlocks
  <2>1. w[k] = [b \in Links |-> IF b \notin Blocks THEN <<>> ELSE <<b>> \o w[k - 1][links[b]]]
    BY <1>12, <1>18, Zenon
  <2> QED
    BY <2>1, Zenon
<1> QED
  BY <1>11, <1>16, <1>17, <1>19, Zenon

\* A list of distinct blocks is no longer than the pool.
LEMMA DistinctFits ==
  ASSUME NEW n \in Nat, NEW s \in [1..n -> Blocks], Distinct(s, n)
  PROVE  n <= NumBlocks
<1>1. IsFiniteSet(Blocks) /\ Cardinality(Blocks) = NumBlocks
  <2>1. 0 \in Int /\ NumBlocks - 1 \in Int /\ ~(0 > NumBlocks - 1) /\ (NumBlocks - 1) - 0 + 1 = NumBlocks
    BY PoolAssumption, SMT
  <2>2. IsFiniteSet(0..NumBlocks - 1) /\ Cardinality(0..NumBlocks - 1) = (NumBlocks - 1) - 0 + 1
    BY <2>1, FS_Interval, Zenon
  <2> QED
    BY <2>1, <2>2, Zenon DEF Blocks
<1>2. IsFiniteSet(1..n) /\ Cardinality(1..n) = n
  <2>1. 1 \in Int /\ n \in Int /\ (1 > n => n = 0) /\ n - 1 + 1 = n
    BY SMT
  <2>2. IsFiniteSet(1..n) /\ Cardinality(1..n) = IF 1 > n THEN 0 ELSE n - 1 + 1
    BY <2>1, FS_Interval, Zenon
  <2> QED
    BY <2>1, <2>2, Zenon
<1>3. s \in Injection(1..n, Blocks)
  BY Zenon DEF Distinct, Injection, IsInjective
<1>4. Cardinality(1..n) <= Cardinality(Blocks)
  BY <1>1, <1>3, FS_Injection, Zenon
<1> QED
  BY <1>1, <1>2, <1>4, Zenon

\* The last j blocks of s.
Suffix(s, n, j) == [i \in 1..j |-> s[n - j + i]]

\* One block more.
LEMMA SuffixGrows ==
  ASSUME NEW n \in Nat, NEW s \in [1..n -> Blocks], NEW j \in Nat, j + 1 <= n
  PROVE  <<s[n - j]>> \o Suffix(s, n, j) = Suffix(s, n, j + 1)
<1> DEFINE f == Suffix(s, n, j)
           g == Suffix(s, n, j + 1)
           b == s[n - j]
<1>1. \A i \in 1..j : n - j + i \in 1..n
  BY SMT
<1>2. \A i \in 1..j + 1 : n - (j + 1) + i \in 1..n
  BY SMT
<1>3. f \in [1..j -> Blocks] /\ \A i \in 1..j : f[i] = s[n - j + i]
  BY <1>1, Zenon DEF Suffix
<1>4. g \in [1..j + 1 -> Blocks] /\ \A i \in 1..j + 1 : g[i] = s[n - (j + 1) + i]
  BY <1>2, Zenon DEF Suffix
<1>5. b \in Blocks /\ f \in Seq(Blocks) /\ Len(f) = j
  <2>1. n - j \in 1..n
    BY SMT
  <2>2. b \in Blocks
    BY <2>1, Zenon
  <2> HIDE DEF f
  <2> QED
    BY <2>2, <1>3, SMT
<1>6. g \in Seq(Blocks) /\ Len(g) = j + 1
  <2> HIDE DEF g
  <2> QED
    BY <1>4, SMT
<1> DEFINE h == <<b>> \o f
<1>7. h \in Seq(Blocks) /\ Len(h) = j + 1 /\ h[1] = b /\ \A i \in 1..j : h[i + 1] = f[i]
  <2> HIDE DEF f, b
  <2> QED
    BY <1>5, InFront, Zenon
<1>8. ASSUME NEW i \in 1..j + 1 PROVE h[i] = g[i]
  <2> HIDE DEF h, f, g
  <2>1. CASE i = 1
    <3>1. n - (j + 1) + 1 = n - j
      BY SMT
    <3> QED
      BY <1>4, <1>7, <2>1, <3>1, Zenon
  <2>2. CASE i # 1
    <3>1. i - 1 \in 1..j /\ (i - 1) + 1 = i /\ n - j + (i - 1) = n - (j + 1) + i
      BY <2>2, SMT
    <3> QED
      BY <1>3, <1>4, <1>7, <3>1, Zenon
  <2> QED
    BY <2>1, <2>2, Zenon
<1> HIDE DEF h, g
<1>9. h = g
  BY <1>6, <1>7, <1>8, SeqEqual, Zenon
<1> QED
  BY <1>9, Zenon DEF h, g

\* The links from start thread s and leave the blocks after it.
Threads(links, start, s, n) ==
  /\ \A k \in 1..n - 1 : links[s[k]] = s[k + 1]
  /\ IF n = 0 THEN start \notin Blocks ELSE start = s[1] /\ links[s[n]] \notin Blocks

\* The walk from start is the list that the links thread.
LEMMA WalkIs ==
  ASSUME NEW links \in [Nodes -> Links], NEW start \in Links,
         NEW n \in Nat, NEW s \in [1..n -> Blocks], Distinct(s, n), Threads(links, start, s, n)
  PROVE  Walk(links, start) = s
<1>1. n <= NumBlocks /\ NumBlocks \in Nat
  BY DistinctFits, PoolAssumption, Zenon
<1>2. PICK w \in [0..NumBlocks -> [Links -> Seq(Blocks)]] :
           /\ \A x \in Links : Walk(links, x) = w[NumBlocks][x]
           /\ \A b \in Links : w[0][b] = <<>>
           /\ \A k \in 1..NumBlocks : \A b \in Links :
                w[k][b] = IF b \notin Blocks THEN <<>> ELSE <<b>> \o w[k - 1][links[b]]
  BY WalkDefined, Zenon
<1> DEFINE at(i) == IF i <= n THEN s[i] ELSE IF n = 0 THEN start ELSE links[s[n]]
           T == {j \in Nat : j <= n => \A k \in 0..NumBlocks : j <= k => w[k][at(n - j + 1)] = Suffix(s, n, j)}
<1>3. Blocks \subseteq Links /\ \A b \in Blocks : links[b] \in Links
  BY Ends, Zenon DEF Links
<1>4. 0 \in T
  <2>1. n - 0 + 1 = n + 1 /\ ~(n + 1 <= n)
    BY SMT
  <2>2. at(n - 0 + 1) \in Links /\ at(n - 0 + 1) \notin Blocks
    <3>1. n # 0 => n \in 1..n
      BY SMT
    <3> QED
      BY <1>3, <2>1, <3>1, Zenon DEF Threads
  <2>3. ASSUME NEW k \in 0..NumBlocks PROVE w[k][at(n - 0 + 1)] = <<>>
    <3> HIDE DEF at
    <3>1. k = 0 \/ k \in 1..NumBlocks
      BY <1>1, SMT
    <3> QED
      BY <1>2, <2>2, <3>1, Zenon
  <2>4. Suffix(s, n, 0) = <<>>
    BY SMT DEF Suffix
  <2> HIDE DEF at
  <2> QED
    BY <2>3, <2>4, Zenon
<1>5. ASSUME NEW j \in Nat, j \in T PROVE j + 1 \in T
  <2>1. j + 1 \in Nat
    BY SMT
  <2>2. SUFFICES ASSUME j + 1 <= n, NEW k \in 0..NumBlocks, j + 1 <= k
                 PROVE  w[k][at(n - (j + 1) + 1)] = Suffix(s, n, j + 1)
    BY <2>1, Zenon
  <2>3. /\ j <= n /\ k \in 1..NumBlocks /\ k - 1 \in 0..NumBlocks /\ j <= k - 1
        /\ n - (j + 1) + 1 = n - j /\ n - j \in 1..n /\ n - j <= n /\ n # 0
        /\ n - j + 1 = (n - j) + 1
    BY <1>1, <2>2, SMT
  <2>4. at(n - (j + 1) + 1) = s[n - j] /\ s[n - j] \in Blocks
    BY <2>3, Zenon
  <2>5. links[s[n - j]] = at(n - j + 1)
    <3>1. CASE j = 0
      <4>1. n - j = n /\ ~(n - j + 1 <= n)
        BY <3>1, SMT
      <4> QED
        BY <2>3, <4>1, Zenon
    <3>2. CASE j # 0
      <4>1. n - j \in 1..n - 1 /\ n - j + 1 <= n
        BY <2>2, <3>2, SMT
      <4>2. links[s[n - j]] = s[(n - j) + 1]
        BY <4>1, Zenon DEF Threads
      <4> QED
        BY <2>3, <4>1, <4>2, Zenon
    <3> QED
      BY <3>1, <3>2, Zenon
  <2>6. w[k - 1][at(n - j + 1)] = Suffix(s, n, j)
    <3> HIDE DEF at
    <3> QED
      BY <1>5, <2>3, Zenon
  <2>7. w[k][s[n - j]] = <<s[n - j]>> \o w[k - 1][links[s[n - j]]]
    BY <1>2, <1>3, <2>3, <2>4, Zenon
  <2> HIDE DEF at
  <2> QED
    BY <2>2, <2>4, <2>5, <2>6, <2>7, SuffixGrows, Zenon
<1>6. w[NumBlocks][at(n - n + 1)] = Suffix(s, n, n)
  <2> HIDE DEF T
  <2>1. n \in T
    BY <1>4, <1>5, NatSetInduction, Zenon
  <2>2. NumBlocks \in 0..NumBlocks /\ n <= n
    BY <1>1, SMT
  <2> QED
    BY <1>1, <2>1, <2>2, Zenon DEF T
<1>7. at(n - n + 1) = start
  <2>1. n - n + 1 = 1 /\ (n # 0 <=> 1 <= n)
    BY SMT
  <2> QED
    BY <2>1, Zenon DEF Threads
<1>8. Suffix(s, n, n) = s
  <2>1. \A i \in 1..n : n - n + i = i
    BY SMT
  <2>2. Suffix(s, n, n) = [i \in 1..n |-> s[i]]
    BY <2>1, Zenon DEF Suffix
  <2> QED
    BY <2>2, Zenon
<1> QED
  BY <1>2, <1>6, <1>7, <1>8, Zenon

\* f holds the len elements of s after its first off.
IsCut(f, s, off, len) ==
  f \in Seq(Blocks) /\ Len(f) = len /\ \A k \in 1..len : f[k] = s[off + k]

\* h holds the elements of f, then those of g.
IsJoined(h, f, g) ==
  /\ h \in Seq(Blocks) /\ Len(h) = Len(f) + Len(g)
  /\ \A i \in 1..Len(f) : h[i] = f[i]
  /\ \A i \in 1..Len(g) : h[Len(f) + i] = g[i]

\* What SubSeq cuts out of a list.
LEMMA Cut ==
  ASSUME NEW n \in Nat, NEW s \in [1..n -> Blocks], NEW off \in Nat, NEW len \in Nat, off + len <= n,
         NEW i, NEW j, i = off + 1, j = off + len
  PROVE  IsCut(SubSeq(s, i, j), s, off, len)
<1>1. i \in Int /\ j \in Int /\ (\A k \in i..j : s[k] \in Blocks)
  BY SMT
<1> DEFINE f == SubSeq(s, i, j)
<1>2. f \in Seq(Blocks) /\ Len(f) = (IF i <= j THEN j - i + 1 ELSE 0)
  BY <1>1, SubSeqProperties, SMT
<1>3. (IF i <= j THEN j - i + 1 ELSE 0) = len
  BY SMT
<1>4. ASSUME NEW k \in 1..len PROVE f[k] = s[off + k]
  <2>1. k \in 1..j - i + 1 /\ i + k - 1 = off + k
    BY SMT
  <2>2. f[k] = s[i + k - 1]
    BY <1>1, <2>1, SubSeqProperties, SMT
  <2> QED
    BY <2>1, <2>2, Zenon
<1> QED
  BY <1>2, <1>3, <1>4, Zenon DEF IsCut

\* One list after another.
LEMMA Joined ==
  ASSUME NEW f \in Seq(Blocks), NEW g \in Seq(Blocks)
  PROVE  IsJoined(f \o g, f, g)
  BY SMT DEF IsJoined

\* The forward links from the first block of a list to the fake tail thread it.
LEMMA ForwardThreads ==
  ASSUME NEW links \in [Nodes -> Links], NEW n \in Nat, NEW s \in [1..n -> Blocks],
         \A k \in 1..n : links[Node(s, n, k)] = Node(s, n, k + 1)
  PROVE  Threads(links, Node(s, n, 1), s, n)
<1>1. /\ \A k \in 1..n - 1 : k \in 1..n /\ k + 1 \in 1..n
      /\ n # 0 => 1 \in 1..n /\ n \in 1..n
      /\ n = 0 => 1 = n + 1
  BY SMT
<1>2. /\ Node(s, n, n + 1) = FakeTail /\ FakeTail \notin Blocks
      /\ \A k \in 1..n : Node(s, n, k) = s[k]
  BY NodeFacts, Ends, Zenon
<1> QED
  BY <1>1, <1>2, Zenon DEF Threads

\* From its first block on, the walk is the list.
LEMMA FromFirst ==
  ASSUME NEW links \in [Nodes -> Links], NEW n \in Nat, NEW s \in [1..n -> Blocks], Distinct(s, n),
         \A k \in 1..n : links[Node(s, n, k)] = Node(s, n, k + 1)
  PROVE  Walk(links, Node(s, n, 1)) = s
<1>1. 1 \in 0..n + 1
  BY SMT
<1>2. Node(s, n, 1) \in Links
  BY <1>1, NodeFacts, Zenon DEF Links
<1> QED
  BY <1>2, ForwardThreads, WalkIs, Zenon

\* From the fake head on, it is the list even before the fake tail closes it.
LEMMA FromHead ==
  ASSUME NEW links \in [Nodes -> Links], NEW n \in Nat, NEW s \in [1..n -> Blocks], Distinct(s, n),
         \A k \in 0..n - 1 : links[Node(s, n, k)] = Node(s, n, k + 1),
         links[Node(s, n, n)] \notin Blocks
  PROVE  Walk(links, links[FakeHead]) = s
<1>1. /\ \A k \in 1..n - 1 : k \in 1..n /\ k + 1 \in 1..n /\ k \in 0..n - 1
      /\ n # 0 => 1 \in 1..n /\ n \in 1..n /\ 0 \in 0..n - 1 /\ 0 + 1 = 1
  BY SMT
<1>2. Node(s, n, 0) = FakeHead /\ \A k \in 1..n : Node(s, n, k) = s[k]
  BY NodeFacts, Zenon
<1>3. Threads(links, links[FakeHead], s, n)
  BY <1>1, <1>2, Zenon DEF Threads
<1>4. links[FakeHead] \in Links
  BY Ends, Zenon
<1> QED
  BY <1>3, <1>4, WalkIs, Zenon

\* A whole list is the walk from the fake head.
LEMMA WholeWalk ==
  ASSUME NEW links \in [Nodes -> Links], NEW n \in Nat, NEW s \in [1..n -> Blocks], Distinct(s, n),
         \A k \in 0..n : links[Node(s, n, k)] = Node(s, n, k + 1)
  PROVE  Walk(links, links[FakeHead]) = s
<1>1. n \in 0..n /\ \A k \in 0..n - 1 : k \in 0..n
  BY SMT
<1>2. links[Node(s, n, n)] \notin Blocks
  BY <1>1, NodeFacts, Ends, Zenon
<1> QED
  BY <1>1, <1>2, FromHead, Zenon

\* The two views of the list, by what is under way.
Views ==
  /\ pc = "pop" => /\ Listed = SubSeq(Walk(next, curr), count + 1, Len(Walk(next, curr)))
                   /\ Allocated = ret \o SubSeq(Walk(next, curr), 1, count)
  /\ pc = "append" => Listed = SubSeq(Walk(next, next[FakeHead]), 1, num_free_blocks) /\ Allocated = ret
  /\ pc \in {"init", "idle", "touch"} => Listed = Walk(next, next[FakeHead]) /\ Allocated = ret

\* They are what the refinement mapping takes.
LEMMA ViewsHold == Views /\ Views'
<1>1. Views
  <2> DEFINE w == Walk(next, curr)
             v == Walk(next, next[FakeHead])
             a == SubSeq(w, count + 1, Len(w))
             b == SubSeq(v, 1, num_free_blocks)
             c == ret \o SubSeq(w, 1, count)
  <2>1. Listed = (CASE pc = "pop" -> a [] pc = "append" -> b [] OTHER -> v) /\ Allocated = IF pc = "pop" THEN c ELSE ret
    BY Zenon DEF Listed, Allocated
  <2> HIDE DEF v, a, b, c
  <2>2. /\ pc = "pop" => Listed = a /\ Allocated = c
        /\ pc = "append" => Listed = b /\ Allocated = ret
        /\ pc \in {"init", "idle", "touch"} => Listed = v /\ Allocated = ret
    BY <2>1, SMT
  <2> QED
    BY <2>2, Zenon DEF Views, v, a, b, c
<1>2. Views'
  <2> DEFINE w == Walk(next', curr')
             v == Walk(next', next'[FakeHead])
             a == SubSeq(w, count' + 1, Len(w))
             b == SubSeq(v, 1, num_free_blocks')
             c == ret' \o SubSeq(w, 1, count')
  <2>1. Listed' = (CASE pc' = "pop" -> a [] pc' = "append" -> b [] OTHER -> v) /\ Allocated' = IF pc' = "pop" THEN c ELSE ret'
    BY Zenon DEF Listed, Allocated
  <2> HIDE DEF v, a, b, c
  <2>2. /\ pc' = "pop" => Listed' = a /\ Allocated' = c
        /\ pc' = "append" => Listed' = b /\ Allocated' = ret'
        /\ pc' \in {"init", "idle", "touch"} => Listed' = v /\ Allocated' = ret'
    BY <2>1, SMT
  <2> QED
    BY <2>2, Zenon DEF Views, v, a, b, c
<1> QED
  BY <1>1, <1>2, Zenon

\* The links of the list, as the lemmas about walks take them.
LEMMA Links0 ==
  ASSUME NEW n \in Nat, NEW s \in [1..n -> Blocks], NEW X, List(s, n, 0, n, X), Types
  PROVE  Walk(next, next[FakeHead]) = s
<1>1. Distinct(s, n) /\ next \in [Nodes -> Links] /\ \A k \in 0..n : next[Node(s, n, k)] = Node(s, n, k + 1)
  BY Zenon DEF List, Forward, Types
<1> QED
  BY <1>1, WholeWalk, Zenon

\* A list without one block is what is before it and what is after it.
LEMMA WithoutIs ==
  ASSUME NEW n \in Nat, NEW s \in [1..n -> Blocks], NEW p \in 1..n
  PROVE  /\ Without(s, n, p) = SubSeq(s, 1, p - 1) \o SubSeq(s, p + 1, n)
         /\ Without(s, n, 1) = SubSeq(s, 2, n)
<1>1. n - 1 \in Nat /\ Len(s) = n
  BY SMT
<1> DEFINE t == Without(s, n, p)
           f == SubSeq(s, 1, p - 1)
           g == SubSeq(s, p + 1, n)
           h == f \o g
<1>2. t \in Seq(Blocks) /\ Len(t) = n - 1 /\ \A i \in 1..n - 1 : t[i] = IF i < p THEN s[i] ELSE s[i + 1]
  <2>1. t \in [1..n - 1 -> Blocks] /\ \A i \in 1..n - 1 : t[i] = IF i < p THEN s[i] ELSE s[i + 1]
    BY SMT DEF Without
  <2> HIDE DEF t
  <2> QED
    BY <1>1, <2>1, SMT
<1>3. f \in Seq(Blocks) /\ Len(f) = p - 1 /\ \A k \in 1..p - 1 : f[k] = s[k]
  <2>1. 0 \in Nat /\ p - 1 \in Nat /\ 0 + (p - 1) <= n /\ 1 = 0 + 1 /\ p - 1 = 0 + (p - 1)
        /\ \A k \in 1..p - 1 : 0 + k = k
    BY SMT
  <2>2. IsCut(f, s, 0, p - 1)
    BY <2>1, Cut, Zenon
  <2> QED
    BY <2>1, <2>2, Zenon DEF IsCut
<1>4. g \in Seq(Blocks) /\ Len(g) = n - p /\ \A k \in 1..n - p : g[k] = s[p + k]
  <2>1. p \in Nat /\ n - p \in Nat /\ p + (n - p) <= n /\ n = p + (n - p)
    BY SMT
  <2>2. IsCut(g, s, p, n - p)
    BY <2>1, Cut, Zenon
  <2> QED
    BY <2>2, Zenon DEF IsCut
<1>5. /\ h \in Seq(Blocks) /\ Len(h) = (p - 1) + (n - p)
      /\ \A i \in 1..p - 1 : h[i] = f[i]
      /\ \A i \in 1..n - p : h[(p - 1) + i] = g[i]
  <2> HIDE DEF f, g
  <2>1. IsJoined(h, f, g)
    BY <1>3, <1>4, Joined, Zenon
  <2> HIDE DEF h
  <2> QED
    BY <1>3, <1>4, <2>1, Zenon DEF IsJoined
<1>6. (p - 1) + (n - p) = n - 1
  BY SMT
<1>7. ASSUME NEW i \in 1..n - 1 PROVE t[i] = h[i]
  <2> HIDE DEF t, f, g, h
  <2>1. CASE i < p
    <3>1. i \in 1..p - 1
      BY <2>1, SMT
    <3> QED
      BY <1>2, <1>3, <1>5, <2>1, <3>1, Zenon
  <2>2. CASE ~(i < p)
    <3>1. PICK q \in 1..n - p : p + q = i + 1 /\ (p - 1) + q = i
      <4>1. (i + 1) - p \in 1..n - p /\ p + ((i + 1) - p) = i + 1 /\ (p - 1) + ((i + 1) - p) = i
        BY <2>2, SMT
      <4> QED
        BY <4>1, Zenon
    <3>2. h[i] = g[q] /\ g[q] = s[i + 1]
      BY <1>4, <1>5, <3>1, Zenon
    <3> QED
      BY <1>2, <2>2, <3>2, Zenon
  <2> QED
    BY <2>1, <2>2, Zenon
<1>8. t = h
  <2> HIDE DEF t, h
  <2> QED
    BY <1>2, <1>5, <1>6, <1>7, SeqEqual, Zenon
<1>9. Without(s, n, 1) = SubSeq(s, 2, n)
  <2> DEFINE u == Without(s, n, 1)
             v == SubSeq(s, 2, n)
  <2>1. u \in Seq(Blocks) /\ Len(u) = n - 1 /\ \A i \in 1..n - 1 : u[i] = s[i + 1]
    <3>1. u \in [1..n - 1 -> Blocks] /\ \A i \in 1..n - 1 : u[i] = s[i + 1]
      BY SMT DEF Without
    <3> HIDE DEF u
    <3> QED
      BY <1>1, <3>1, SMT
  <2>2. 1 \in Nat /\ 1 + (n - 1) <= n /\ 2 = 1 + 1 /\ n = 1 + (n - 1) /\ \A k \in 1..n - 1 : 1 + k = k + 1
    BY SMT
  <2>3. IsCut(v, s, 1, n - 1)
    BY <1>1, <2>2, Cut, Zenon
  <2>5. \A k \in 1..n - 1 : u[k] = v[k]
    <3> HIDE DEF u, v
    <3> QED
      BY <2>1, <2>2, <2>3, Zenon DEF IsCut
  <2> HIDE DEF u, v
  <2>6. u = v
    BY <2>1, <2>3, <2>5, SeqEqual, Zenon DEF IsCut
  <2> QED
    BY <2>6, Zenon DEF u, v
<1> QED
  BY <1>8, <1>9, Zenon

\* The list as a sequence.
LEMMA AsSeq ==
  ASSUME NEW n \in Nat, NEW s \in [1..n -> Blocks] PROVE s \in Seq(Blocks) /\ Len(s) = n
  BY SMT

\* The pool's constructor takes the first block.
LEMMA PopleftTakes == Inv /\ popleft => Order!Next
<1> SUFFICES ASSUME Inv, popleft PROVE Order!Next
  BY Zenon
<1>1. PICK n \in Nat : n = num_free_blocks /\ 1 \in 1..n
  BY PoolAssumption, SMT DEF Inv, popleft
<1>2. PICK s \in [1..n -> Blocks] : List(s, n, 0, n, {})
  BY <1>1, Zenon DEF Inv, popleft, Whole
<1>3. next[FakeHead] = s[1] /\ s[1] \in Blocks
  <2>1. 0 \in 0..n /\ 0 + 1 = 1
    BY SMT
  <2>2. next[Node(s, n, 0)] = Node(s, n, 0 + 1)
    BY <1>2, <2>1, Zenon DEF List, Forward
  <2> QED
    BY <1>1, <2>1, <2>2, SMT DEF Node
<1>4. /\ Without(s, n, 1) \in [1..n - 1 -> Blocks] /\ Distinct(Without(s, n, 1), n - 1)
      /\ Forward(Without(s, n, 1), n - 1, 0, n - 1)' /\ next' \in [Nodes -> Links]
  BY <1>1, <1>2, <1>3, UnlinkList, Zenon DEF Inv, List, popleft
<1>5. Walk(next', next'[FakeHead]) = SubSeq(s, 2, n)
  <2>1. n - 1 \in Nat
    BY <1>1, SMT
  <2>2. Walk(next', next'[FakeHead]) = Without(s, n, 1)
    BY <1>4, <2>1, WholeWalk, Zenon DEF Forward
  <2> QED
    BY <1>1, <2>2, WithoutIs, Zenon
<1>6. Listed = s /\ Listed' = SubSeq(s, 2, n) /\ Allocated' = <<s[1]>>
  <2>1. Walk(next, next[FakeHead]) = s
    BY <1>2, Links0, Zenon DEF Inv
  <2>2. pc = "init" /\ pc' = "idle" /\ ret' = <<s[1]>>
    BY <1>3, Zenon DEF popleft
  <2> QED
    BY <1>5, <2>1, <2>2, ViewsHold, Zenon DEF Views
<1>7. SubSeq(s, 1, 1) = <<s[1]>>
  <2>1. IsCut(SubSeq(s, 1, 1), s, 0, 1)
    <3>1. 0 \in Nat /\ 1 \in Nat /\ 0 + 1 <= n /\ 1 = 0 + 1
      BY <1>1, SMT
    <3> QED
      BY <3>1, Cut, Zenon
  <2> DEFINE f == SubSeq(s, 1, 1)
  <2>2. f \in Seq(Blocks) /\ Len(f) = 1 /\ f[1] = s[1]
    <3> HIDE DEF f
    <3>1. 1 \in 1..1 /\ 0 + 1 = 1
      BY SMT
    <3>2. IsCut(f, s, 0, 1)
      BY <2>1, Zenon DEF f
    <3>3. f \in Seq(Blocks) /\ Len(f) = 1 /\ f[1] = s[0 + 1]
      BY <3>1, <3>2, Zenon DEF IsCut
    <3> QED
      BY <3>1, <3>3, Zenon
  <2> HIDE DEF f
  <2>3. f = <<s[1]>>
    BY <2>2, <1>3, SMT
  <2> QED
    BY <2>3, Zenon DEF f
<1>8. Len(Listed) = n /\ 1 + 1 = 2
  BY <1>6, AsSeq, SMT
<1>9. Order!Take(1)
  BY <1>6, <1>7, <1>8, Zenon DEF Order!Take
<1> QED
  BY <1>1, <1>8, <1>9, Zenon DEF Order!Next

\* An allocation takes its blocks when popleft_n starts.
LEMMA GetTakes == ASSUME Inv, NEW n \in 1..NumBlocks, get_new_blocks(n) PROVE Order!Next
<1>1. PICK m \in Nat : m = num_free_blocks /\ n \in 1..m
  BY PoolAssumption, SMT DEF Inv, Types, get_new_blocks
<1>2. PICK s \in [1..m -> Blocks] : List(s, m, 0, m, {})
  BY <1>1, Zenon DEF Inv, get_new_blocks, Whole
<1>3. Walk(next, next[FakeHead]) = s /\ Len(s) = m
  BY <1>2, Links0, AsSeq, Zenon DEF Inv
<1>4. /\ pc = "idle" /\ pc' = "pop" /\ ret' = <<>> /\ count' = n
      /\ Walk(next', curr') = Walk(next, next[FakeHead])
  BY Zenon DEF get_new_blocks
<1>5. Listed = s /\ Listed' = SubSeq(s, n + 1, m) /\ Allocated' = <<>> \o SubSeq(s, 1, n)
  BY <1>3, <1>4, ViewsHold, Zenon DEF Views
<1>6. <<>> \o SubSeq(s, 1, n) = SubSeq(s, 1, n)
  <2>1. 0 \in Nat /\ n \in Nat /\ 0 + n <= m /\ 1 = 0 + 1 /\ n = 0 + n
    BY <1>1, SMT
  <2>2. IsCut(SubSeq(s, 1, n), s, 0, n)
    BY <2>1, Cut, Zenon
  <2>3. SubSeq(s, 1, n) \in Seq(Blocks)
    BY <2>2, Zenon DEF IsCut
  <2> DEFINE f == SubSeq(s, 1, n)
  <2> HIDE DEF f
  <2>4. f \in Seq(Blocks) => <<>> \o f = f
    BY SMT
  <2> QED
    BY <2>3, <2>4, Zenon DEF f
<1>7. Order!Take(n)
  BY <1>3, <1>5, <1>6, Zenon DEF Order!Take
<1> QED
  BY <1>1, <1>3, <1>5, <1>7, Zenon DEF Order!Next

\* A prefix hit's free block leaves from its place.
LEMMA TouchLeaves == Inv /\ TouchOne => [Order!Next]_<<Listed, Allocated>>
<1> SUFFICES ASSUME Inv, TouchOne PROVE Order!Next \/ (Listed' = Listed /\ Allocated' = Allocated)
  BY Zenon
<1> DEFINE b == todo[1]
<1>1. PICK n \in Nat : n = num_free_blocks
  BY Zenon DEF Inv, Types
<1>2. PICK s \in [1..n -> Blocks] : List(s, n, 0, n, {})
  BY <1>1, Zenon DEF Inv, TouchOne, Whole
<1>3. Walk(next, next[FakeHead]) = s /\ Len(s) = n
  BY <1>2, Links0, AsSeq, Zenon DEF Inv
<1>4. /\ Listed = s /\ Allocated = ret
      /\ Listed' = Walk(next', next'[FakeHead]) /\ Allocated' = ret /\ b \in Blocks
  <2>1. pc = "touch" /\ pc' = "touch" /\ ret' = ret
    BY Zenon DEF TouchOne
  <2>2. b \in Blocks
    BY TailFacts, Zenon DEF Inv, Types, TouchOne
  <2> QED
    BY <1>3, <2>1, <2>2, ViewsHold, Zenon DEF Views
<1>5. CASE IsFree(b)
  <2>1. Unlink(b)
    BY <1>5, Zenon DEF TouchOne, IsFree
  <2>2. PICK p \in 1..n : s[p] = b
    BY <1>2, <1>4, <1>5, Zenon DEF List, Holds
  <2>a. Types /\ Unlink(s[p]) /\ Distinct(s, n) /\ Forward(s, n, 0, n) /\ Backward(s, n, 0, n) /\ Outside(s, n)
    BY <1>2, <2>1, <2>2, Zenon DEF Inv, List
  <2>3. /\ Without(s, n, p) \in [1..n - 1 -> Blocks] /\ Distinct(Without(s, n, p), n - 1)
        /\ Forward(Without(s, n, p), n - 1, 0, n - 1)' /\ next' \in [Nodes -> Links]
    BY <2>a, UnlinkList, Zenon
  <2>4. n - 1 \in Nat
    BY <2>2, SMT
  <2>5. Walk(next', next'[FakeHead]) = Without(s, n, p)
    BY <2>3, <2>4, WholeWalk, Zenon DEF Forward
  <2>6. Listed' = SubSeq(s, 1, p - 1) \o SubSeq(s, p + 1, n)
    BY <1>4, <2>5, WithoutIs, Zenon
  <2>7. Order!Leave(p)
    BY <1>3, <1>4, <2>6, Zenon DEF Order!Leave
  <2> QED
    BY <1>3, <1>4, <2>7, Zenon DEF Order!Next
<1>6. CASE ~IsFree(b)
  <2>1. next' = next
    BY <1>6, Zenon DEF TouchOne, IsFree
  <2> QED
    BY <1>3, <1>4, <2>1, Zenon
<1> QED
  BY <1>5, <1>6, Zenon

\* While popleft_n moves a block out, what it has and what it will take stay the
\* blocks of the allocation.
LEMMA PopOneStutters == Inv /\ PopOne => Listed' = Listed /\ Allocated' = Allocated
<1> SUFFICES ASSUME Inv, PopOne PROVE Listed' = Listed /\ Allocated' = Allocated
  BY Zenon
<1>1. PICK m \in Nat, c \in Nat, r \in Seq(Blocks) :
        m = num_free_blocks + count /\ c = count /\ r = ret /\ c >= 1 /\ c <= m
  <2>1. num_free_blocks + count \in Nat /\ count \in Nat /\ count >= 1 /\ count <= num_free_blocks + count
    BY SMT DEF Inv, Types, PopOne
  <2> QED
    BY <2>1, Zenon DEF Inv, Types
<1>2. PICK s \in [1..m -> Blocks] : List(s, m, 1, m, Range(ret)) /\ curr = Node(s, m, 1)
  BY <1>1, Zenon DEF Inv, PopOne, Popping
<1>3. 1 \in 1..m /\ m - 1 \in Nat /\ c - 1 \in Nat /\ (c - 1) + 1 = c
  BY <1>1, SMT
<1> DEFINE t == Without(s, m, 1)
           N(k) == Node(s, m, k)
           M(k) == Node(t, m - 1, k)
<1>4. curr = s[1] /\ s[1] \in Blocks
  BY <1>2, <1>3, NodeFacts, Zenon
<1>5. t \in [1..m - 1 -> Blocks] /\ \A k \in 1..m - 1 : t[k] = s[k + 1]
  BY <1>3, SMT DEF Without
<1>6. Distinct(s, m) /\ \A k \in 1..m : next[N(k)] = N(k + 1)
  BY <1>2, Zenon DEF List, Forward
<1>7. /\ \A k \in 0..m + 1 : N(k) \in Nodes
      /\ \A i, j \in 0..m + 1 : N(i) = N(j) => i = j
  BY <1>6, NodeFacts, Zenon
<1>8. \A k \in 1..m : M(k) = N(k + 1)
  <2> HIDE DEF t
  <2> QED
    BY <1>3, <1>5, SMT DEF Node
<1>9. next' = [next EXCEPT ![N(1)] = None] /\ next \in [Nodes -> Links] /\ next' \in [Nodes -> Links]
  BY <1>2, Zenon DEF PopOne, Inv, Types, Links
<1>10. Distinct(t, m - 1)
  <2> HIDE DEF t
  <2> SUFFICES ASSUME NEW i \in 1..m - 1, NEW j \in 1..m - 1, t[i] = t[j] PROVE i = j
    BY Zenon DEF Distinct
  <2>1. i + 1 \in 1..m /\ j + 1 \in 1..m /\ (i + 1 = j + 1 => i = j)
    BY <1>3, SMT
  <2> QED
    BY <1>5, <1>6, <2>1, Zenon DEF Distinct
<1>11. \A k \in 1..m - 1 : next'[M(k)] = M(k + 1)
  <2> HIDE DEF M, N, t
  <2> QED
    BY <1>3, <1>6, <1>7, <1>8, <1>9, SMT
<1>12. curr' = M(1)
  <2>1. next[N(1)] = N(1 + 1) /\ M(1) = N(1 + 1)
    <3> HIDE DEF M, N, t
    <3> QED
      BY <1>3, <1>6, <1>8, Zenon
  <2> QED
    BY <1>2, <2>1, Zenon DEF PopOne
<1>13. Walk(next, curr) = s /\ Len(s) = m /\ Walk(next', curr') = t /\ Len(t) = m - 1
  <2>1. Walk(next, N(1)) = s
    BY <1>6, <1>9, FromFirst, Zenon
  <2>2. Walk(next', M(1)) = t
    <3> HIDE DEF t
    <3> QED
      BY <1>3, <1>5, <1>9, <1>10, <1>11, FromFirst, Zenon
  <2> QED
    BY <1>2, <1>3, <1>5, <1>12, <2>1, <2>2, AsSeq, Zenon
<1>14. /\ Listed = SubSeq(s, c + 1, m) /\ Listed' = SubSeq(t, c, m - 1)
       /\ Allocated = r \o SubSeq(s, 1, c) /\ Allocated' = Append(r, s[1]) \o SubSeq(t, 1, c - 1)
  <2>1. pc = "pop" /\ pc' = "pop" /\ count' = c - 1 /\ ret' = Append(r, s[1])
    BY <1>1, <1>4, Zenon DEF PopOne
  <2> QED
    BY <1>1, <1>3, <1>13, <2>1, ViewsHold, Zenon DEF Views
<1> HIDE DEF t
<1>15. SubSeq(s, c + 1, m) = SubSeq(t, c, m - 1)
  <2>1. /\ c \in Nat /\ m - c \in Nat /\ c + (m - c) <= m /\ m = c + (m - c)
        /\ (c - 1) + (m - c) <= m - 1 /\ c = (c - 1) + 1 /\ m - 1 = (c - 1) + (m - c)
    BY <1>1, SMT
  <2>2. IsCut(SubSeq(s, c + 1, m), s, c, m - c) /\ IsCut(SubSeq(t, c, m - 1), t, c - 1, m - c)
    BY <1>3, <1>5, <2>1, Cut, Zenon
  <2>3. \A k \in 1..m - c : (c - 1) + k \in 1..m - 1 /\ ((c - 1) + k) + 1 = c + k
    BY <1>1, SMT
  <2> DEFINE f == SubSeq(s, c + 1, m)
             g == SubSeq(t, c, m - 1)
  <2> HIDE DEF f, g
  <2>4. IsCut(f, s, c, m - c) /\ IsCut(g, t, c - 1, m - c)
    BY <2>2, Zenon DEF f, g
  <2>5. ASSUME NEW k \in 1..m - c PROVE f[k] = g[k]
    <3>1. f[k] = s[c + k] /\ g[k] = t[(c - 1) + k]
      BY <2>4, Zenon DEF IsCut
    <3>2. t[(c - 1) + k] = s[((c - 1) + k) + 1]
      BY <1>5, <2>3, Zenon
    <3> QED
      BY <2>3, <3>1, <3>2, Zenon
  <2>6. f \in Seq(Blocks) /\ g \in Seq(Blocks) /\ Len(f) = m - c /\ Len(g) = m - c
    BY <2>4, Zenon DEF IsCut
  <2>7. f = g
    BY <2>5, <2>6, SeqEqual, Zenon
  <2> QED
    BY <2>7, Zenon DEF f, g
<1>16. r \o SubSeq(s, 1, c) = Append(r, s[1]) \o SubSeq(t, 1, c - 1)
  <2>1. /\ 0 \in Nat /\ 1 = 0 + 1 /\ 0 + c <= m /\ c = 0 + c
        /\ 0 + (c - 1) <= m - 1 /\ c - 1 = 0 + (c - 1)
    BY <1>1, SMT
  <2>2. IsCut(SubSeq(s, 1, c), s, 0, c) /\ IsCut(SubSeq(t, 1, c - 1), t, 0, c - 1)
    BY <1>3, <1>5, <2>1, Cut, Zenon
  <2> DEFINE f == SubSeq(s, 1, c)
             g == SubSeq(t, 1, c - 1)
             x == s[1]
  <2> HIDE DEF f, g
  <2>4. IsCut(f, s, 0, c) /\ IsCut(g, t, 0, c - 1)
    BY <2>2, Zenon DEF f, g
  <2>5. /\ f \in Seq(Blocks) /\ Len(f) = c /\ \A k \in 1..c : f[k] = s[k]
        /\ g \in Seq(Blocks) /\ Len(g) = c - 1 /\ \A k \in 1..c - 1 : g[k] = s[k + 1]
    <3>1. \A k \in 1..c : 0 + k = k
      BY <1>1, SMT
    <3>2. \A k \in 1..c - 1 : 0 + k = k /\ k \in 1..m - 1
      BY <1>1, SMT
    <3>3. \A k \in 1..c : f[k] = s[k]
      BY <2>4, <3>1, Zenon DEF IsCut
    <3>4. ASSUME NEW k \in 1..c - 1 PROVE g[k] = s[k + 1]
      <4>1. g[k] = t[0 + k]
        BY <2>4, Zenon DEF IsCut
      <4> QED
        BY <1>5, <3>2, <4>1, Zenon
    <3> QED
      BY <2>4, <3>3, <3>4, Zenon DEF IsCut
  <2>6. f[1] = x /\ \A k \in 1..c - 1 : f[k + 1] = g[k]
    <3>1. 1 \in 1..c /\ \A k \in 1..c - 1 : k + 1 \in 1..c
      BY <1>1, SMT
    <3> QED
      BY <2>5, <3>1, Zenon
  <2>7. x \in Blocks
    BY <1>4, Zenon
  <2> HIDE DEF x
  <2> DEFINE R == Append(r, x)
             h1 == r \o f
             h2 == R \o g
             l == Len(r)
  <2>8. l \in Nat /\ R \in Seq(Blocks) /\ Len(R) = l + 1 /\ R[l + 1] = x /\ \A i \in 1..l : R[i] = r[i]
    BY <2>7, SMT
  <2>9. IsJoined(h1, r, f) /\ IsJoined(h2, R, g)
    BY <2>5, <2>8, Joined, Zenon
  <2> HIDE DEF R, h1, h2, l
  <2>10. Len(r) = l
    BY Zenon DEF l
  <2>11. h1 \in Seq(Blocks) /\ h2 \in Seq(Blocks) /\ Len(h1) = l + c /\ Len(h2) = (l + 1) + (c - 1)
    BY <2>5, <2>8, <2>9, <2>10, Zenon DEF IsJoined
  <2>12. l + c = (l + 1) + (c - 1)
    BY <2>8, <1>1, SMT
  <2>13. ASSUME NEW i \in 1..l + c PROVE h1[i] = h2[i]
    <3>1. CASE i <= l
      <4>1. i \in 1..l /\ i \in 1..l + 1
        BY <2>8, <3>1, SMT
      <4>2. h1[i] = r[i] /\ h2[i] = R[i]
        BY <2>8, <2>9, <2>10, <4>1, Zenon DEF IsJoined
      <4> QED
        BY <2>8, <4>1, <4>2, Zenon
    <3>2. CASE i = l + 1
      <4>1. 1 \in 1..c /\ i \in 1..l + 1
        BY <1>1, <2>8, <3>2, SMT
      <4>2. h1[l + 1] = f[1] /\ h2[i] = R[i]
        BY <2>5, <2>8, <2>9, <2>10, <4>1, Zenon DEF IsJoined
      <4> QED
        BY <2>6, <2>8, <3>2, <4>2, Zenon
    <3>3. CASE i > l + 1
      <4>1. PICK k \in 1..c - 1 : i = (l + 1) + k /\ i = l + (k + 1) /\ k + 1 \in 1..c
        <5>1. i - (l + 1) \in 1..c - 1 /\ i = (l + 1) + (i - (l + 1)) /\ i = l + ((i - (l + 1)) + 1) /\ (i - (l + 1)) + 1 \in 1..c
          BY <1>1, <2>8, <3>3, SMT
        <5> QED
          BY <5>1, Zenon
      <4>2. h1[l + (k + 1)] = f[k + 1] /\ h2[(l + 1) + k] = g[k]
        BY <2>5, <2>8, <2>9, <2>10, <4>1, Zenon DEF IsJoined
      <4> QED
        BY <2>6, <4>1, <4>2, Zenon
    <3> QED
      BY <2>8, <3>1, <3>2, <3>3, SMT
  <2>14. h1 = h2
    BY <2>11, <2>12, <2>13, SeqEqual, Zenon
  <2> QED
    BY <2>14, Zenon DEF f, g, x, R, h1, h2
<1> QED
  BY <1>14, <1>15, <1>16, Zenon

\* Nor does the end of the loop change either.
LEMMA PopDoneStutters == Inv /\ PopDone => Listed' = Listed /\ Allocated' = Allocated
<1> SUFFICES ASSUME Inv, PopDone PROVE Listed' = Listed /\ Allocated' = Allocated
  BY Zenon
<1>1. PICK m \in Nat : m = num_free_blocks /\ m = num_free_blocks + count /\ count = 0
  BY SMT DEF Inv, Types, PopDone
<1>2. PICK s \in [1..m -> Blocks] : List(s, m, 1, m, Range(ret)) /\ curr = Node(s, m, 1)
  BY <1>1, Zenon DEF Inv, PopDone, Popping
<1> DEFINE N(k) == Node(s, m, k)
<1>3. Distinct(s, m) /\ \A k \in 1..m : next[N(k)] = N(k + 1)
  BY <1>2, Zenon DEF List, Forward
<1>4. /\ \A k \in 0..m + 1 : N(k) \in Nodes
      /\ \A i, j \in 0..m + 1 : N(i) = N(j) => i = j
      /\ N(0) = FakeHead
  BY <1>3, NodeFacts, Zenon
<1>5. next' = [next EXCEPT ![FakeHead] = N(1)] /\ next \in [Nodes -> Links] /\ N(1) \in Nodes
  <2>1. 1 \in 0..m + 1
    BY SMT
  <2> QED
    BY <1>2, <1>4, <2>1, Zenon DEF PopDone, Inv, Types
<1>6. next' \in [Nodes -> Links] /\ next'[FakeHead] = N(1)
  BY <1>5, Ends, Zenon DEF Links
<1>7. \A k \in 1..m : next'[N(k)] = N(k + 1)
  <2> HIDE DEF N
  <2> QED
    BY <1>3, <1>4, <1>5, SMT
<1>8. Walk(next, curr) = s /\ Walk(next', next'[FakeHead]) = s /\ s \in Seq(Blocks) /\ Len(s) = m
  BY <1>2, <1>3, <1>5, <1>6, <1>7, FromFirst, AsSeq, Zenon
<1>9. /\ Listed = SubSeq(s, 0 + 1, m) /\ Allocated = ret \o SubSeq(s, 1, 0)
      /\ Listed' = s /\ Allocated' = ret
  <2>1. pc = "pop" /\ pc' = "idle" /\ ret' = ret
    BY Zenon DEF PopDone
  <2> QED
    BY <1>1, <1>8, <2>1, ViewsHold, Zenon DEF Views
<1>10. SubSeq(s, 0 + 1, m) = s
  <2>1. 0 + 1 = 1
    BY SMT
  <2> QED
    BY <1>8, <2>1, SubSeqFull, Zenon
<1>11. ret \o SubSeq(s, 1, 0) = ret
  <2>1. 1 \in Int /\ 0 \in Int /\ 0 < 1
    BY SMT
  <2>2. SubSeq(s, 1, 0) = <<>>
    BY <2>1, SubSeqEmpty, Zenon
  <2>3. ret \o <<>> = ret
    <3>1. ret \in Seq(Blocks)
      BY Zenon DEF Inv, Types
    <3> QED
      BY <3>1, SMT
  <2> QED
    BY <2>2, <2>3, Zenon
<1> QED
  BY <1>9, <1>10, <1>11, Zenon

\* While append_n is at work its last block leads to no other.
OpenEnd == pc = "append" => next[curr] \notin Blocks

\* A free decides what joins, and the list stays as it was.
LEMMA FreeStutters ==
  ASSUME Inv, NEW bs \in Lists, free_blocks(bs)
  PROVE  Listed' = Listed /\ Allocated' = Allocated /\ OpenEnd'
<1>1. PICK m \in Nat : m = num_free_blocks /\ m = num_free_blocks'
  BY Zenon DEF Inv, Types, free_blocks
<1>2. PICK s \in [1..m -> Blocks] : List(s, m, 0, m, {})
  BY <1>1, Zenon DEF Inv, free_blocks, Whole
<1>3. Walk(next, next[FakeHead]) = s /\ s \in Seq(Blocks) /\ Len(s) = m
  BY <1>2, Links0, AsSeq, Zenon DEF Inv
<1>4. SubSeq(s, 1, m) = s
  BY <1>3, SubSeqFull, Zenon
<1>5. pc = "idle" /\ next' = next /\ ret' = ret /\ (pc' = "idle" \/ (pc' = "append" /\ curr' = prev[FakeTail]))
  <2>1. CASE \E i \in DOMAIN bs : ToQueue(bs[i], ref_cnt')
    BY <2>1, Zenon DEF free_blocks
  <2>2. CASE ~\E i \in DOMAIN bs : ToQueue(bs[i], ref_cnt')
    BY <2>2, Zenon DEF free_blocks
  <2> QED
    BY <2>1, <2>2, Zenon
<1>6. Listed = s /\ Allocated = ret
  BY <1>3, <1>5, ViewsHold, Zenon DEF Views
<1>7. Listed' = s /\ Allocated' = ret
  BY <1>1, <1>3, <1>4, <1>5, ViewsHold, Zenon DEF Views
<1>8. OpenEnd'
  <2> SUFFICES ASSUME pc' = "append" PROVE next'[curr'] \notin Blocks
    BY Zenon DEF OpenEnd
  <2>1. curr' = prev[FakeTail]
    BY <1>5, SMT
  <2>2. m \in 0..m
    BY SMT
  <2>3. prev[FakeTail] = Node(s, m, m) /\ next[Node(s, m, m)] = FakeTail
    BY <1>2, <2>2, NodeFacts, Zenon DEF List, Forward, Backward
  <2> QED
    BY <1>5, <2>1, <2>3, Ends, Zenon
<1> QED
  BY <1>6, <1>7, <1>8, Zenon

\* A block linked after the last one has not joined before append_n ends.
LEMMA AppendOneStutters ==
  ASSUME Inv, OpenEnd, AppendOne
  PROVE  Listed' = Listed /\ Allocated' = Allocated /\ OpenEnd'
<1>1. PICK m \in Nat, nf \in Nat : m = num_free_blocks + count /\ nf = num_free_blocks /\ nf <= m
  <2>1. num_free_blocks + count \in Nat /\ num_free_blocks \in Nat /\ num_free_blocks <= num_free_blocks + count
    BY SMT DEF Inv, Types
  <2> QED
    BY <2>1, Zenon
<1>2. PICK s \in [1..m -> Blocks] : OpenEnded(s, m)
  BY <1>1, Zenon DEF Inv, AppendOne, Appending
<1> DEFINE N(k) == Node(s, m, k)
<1>3. /\ Distinct(s, m) /\ Outside(s, m) /\ curr = N(m)
      /\ \A k \in 0..m - 1 : next[N(k)] = N(k + 1)
      /\ \A c \in Blocks : IsFree(c) /\ c \notin Range(todo) <=> \E k \in 1..m : s[k] = c
  BY <1>2, Zenon DEF OpenEnded, List, Forward, Holds
<1>4. next \in [Nodes -> Links] /\ pc = "append" /\ pc' = "append" /\ next[curr] \notin Blocks
      /\ num_free_blocks' = nf /\ ret' = ret
  BY <1>1, Zenon DEF Inv, Types, AppendOne, OpenEnd
<1>5. Walk(next, next[FakeHead]) = s
  BY <1>3, <1>4, FromHead, Zenon
<1>6. Listed = SubSeq(s, 1, nf) /\ Allocated = ret
  BY <1>1, <1>4, <1>5, ViewsHold, Zenon DEF Views
<1>7. Listed' = SubSeq(Walk(next', next'[FakeHead]), 1, nf) /\ Allocated' = ret
  BY <1>4, ViewsHold, Zenon DEF Views
<1>8. PICK b \in Blocks : b = todo[1] /\ b \in Range(todo)
  <2>1. todo \in Seq(Blocks) /\ todo # <<>>
    BY Zenon DEF Inv, Types, AppendOne
  <2>2. todo[1] \in Blocks /\ Range(todo) = {todo[1]} \cup Range(Tail(todo))
    BY <2>1, TailFacts, Zenon
  <2> QED
    BY <2>2, Zenon
<1>9. CASE ~IsFree(b)
  <2>1. next' = next /\ curr' = curr
    BY <1>8, <1>9, Zenon DEF AppendOne, ToQueue, IsFree
  <2>2. OpenEnd'
    BY <1>4, <2>1, Zenon DEF OpenEnd
  <2> QED
    BY <1>5, <1>6, <1>7, <2>1, <2>2, Zenon
<1>10. CASE IsFree(b)
  <2> DEFINE t == [i \in 1..m + 1 |-> IF i <= m THEN s[i] ELSE b]
             M(k) == Node(t, m + 1, k)
  <2>1. /\ t \in [1..m + 1 -> Blocks]
        /\ \A k \in 1..m : t[k] = s[k]
        /\ t[m + 1] = b
    BY SMT
  <2> HIDE DEF t
  <2>2. \A k \in 1..m : s[k] # b
    BY <1>3, <1>8, Zenon
  <2>3. /\ \A k \in 0..m + 1 : N(k) \in Nodes
        /\ \A i, j \in 0..m + 1 : N(i) = N(j) => i = j
    BY <1>3, NodeFacts, Zenon
  <2>4. \A k \in 0..m : N(k) # b
    BY <2>2, Ends, SMT DEF Node
  <2>5. /\ \A k \in 0..m : M(k) = N(k)
        /\ M(m + 1) = b
    BY <2>1, SMT DEF Node
  <2>6. next' = [next EXCEPT ![N(m)] = b] /\ curr' = b /\ N(m) \in Nodes /\ b \in Nodes
    <3>1. N(m) \in Nodes /\ b \in Nodes
      BY <2>3, Ends, SMT
    <3>2. ToQueue(b, ref_cnt)
      BY <1>10, Zenon DEF ToQueue, IsFree
    <3> QED
      BY <1>3, <1>8, <3>1, <3>2, Zenon DEF AppendOne
  <2>7. next' \in [Nodes -> Links]
    BY <1>4, <2>6, Zenon DEF Links
  <2>8. Distinct(t, m + 1)
    <3> SUFFICES ASSUME NEW i \in 1..m + 1, NEW j \in 1..m + 1, t[i] = t[j] PROVE i = j
      BY Zenon DEF Distinct
    <3>1. Distinct(s, m)
      BY <1>3, Zenon
    <3> QED
      BY <2>1, <2>2, <3>1, SMT DEF Distinct
  <2>9. \A k \in 0..m : next'[M(k)] = M(k + 1)
    <3> HIDE DEF M, N
    <3> QED
      BY <1>3, <1>4, <2>3, <2>5, <2>6, SMT
  <2>10. next'[b] \notin Blocks
    <3>1. next[b] = None /\ None \notin Blocks
      BY <1>3, <2>2, Ends, Zenon DEF Outside
    <3>2. N(m) # b
      <4>1. m \in 0..m
        BY SMT
      <4> QED
        BY <2>4, <4>1, Zenon
    <3> HIDE DEF N
    <3> QED
      BY <1>4, <2>6, <3>1, <3>2, Zenon
  <2>11. Walk(next', next'[FakeHead]) = t
    <3>1. m + 1 \in Nat /\ (m + 1) - 1 = m
      BY SMT
    <3> QED
      BY <2>1, <2>5, <2>7, <2>8, <2>9, <2>10, <3>1, FromHead, Zenon
  <2>12. SubSeq(t, 1, nf) = SubSeq(s, 1, nf)
    <3>1. /\ 0 \in Nat /\ 0 + nf <= m /\ 0 + nf <= m + 1 /\ m + 1 \in Nat /\ 1 = 0 + 1 /\ nf = 0 + nf
          /\ \A k \in 1..nf : k \in 1..m /\ 0 + k = k
      BY <1>1, SMT
    <3> DEFINE f == SubSeq(t, 1, nf)
               g == SubSeq(s, 1, nf)
    <3>2. IsCut(f, t, 0, nf) /\ IsCut(g, s, 0, nf)
      BY <2>1, <3>1, Cut, Zenon
    <3> HIDE DEF f, g
    <3>3. ASSUME NEW k \in 1..nf PROVE f[k] = g[k]
      <4>1. f[k] = t[0 + k] /\ g[k] = s[0 + k]
        BY <3>2, Zenon DEF IsCut
      <4> QED
        BY <2>1, <3>1, <4>1, Zenon
    <3>4. f \in Seq(Blocks) /\ g \in Seq(Blocks) /\ Len(f) = nf /\ Len(g) = nf
      BY <3>2, Zenon DEF IsCut
    <3>5. f = g
      BY <3>3, <3>4, SeqEqual, Zenon
    <3> QED
      BY <3>5, Zenon DEF f, g
  <2>13. OpenEnd'
    BY <2>6, <2>10, Zenon DEF OpenEnd
  <2> QED
    BY <1>6, <1>7, <2>11, <2>12, <2>13, Zenon
<1> QED
  BY <1>9, <1>10, Zenon

\* A list of distinct blocks is an order of the blocks it holds.
LEMMA OrderOf ==
  ASSUME NEW l \in Nat, NEW f \in [1..l -> Blocks], Distinct(f, l), NEW S, S = {f[i] : i \in 1..l}
  PROVE  f \in Order!Orders(S)
<1>1. IsFiniteSet(1..l) /\ Cardinality(1..l) = l
  <2>1. 1 \in Int /\ l \in Int /\ (1 > l => l = 0) /\ l - 1 + 1 = l
    BY SMT
  <2>2. IsFiniteSet(1..l) /\ Cardinality(1..l) = IF 1 > l THEN 0 ELSE l - 1 + 1
    BY <2>1, FS_Interval, Zenon
  <2> QED
    BY <2>1, <2>2, Zenon
<1>2. f \in [1..l -> S] /\ IsInjective(f) /\ (\A x \in S : \E i \in 1..l : f[i] = x)
  <2>1. \A i \in 1..l : f[i] \in S
    BY Zenon
  <2>2. f \in [1..l -> S]
    BY <2>1, Zenon
  <2> QED
    BY <2>2, Zenon DEF Distinct, IsInjective
<1>3. f \in Bijection(1..l, S)
  BY <1>2, Zenon DEF Bijection, Injection, Surjection
<1>4. ExistsBijection(1..l, S)
  BY <1>3, Zenon DEF ExistsBijection
<1>5. Cardinality(S) = l
  BY <1>1, <1>4, FS_Bijection, Zenon
<1>6. Order!Cardinality(S) = Cardinality(S)
  BY Zenon DEF Order!Cardinality, Cardinality, Order!IsFiniteSet, IsFiniteSet
<1>7. f \in Order!Bijection(1..l, S)
  BY <1>2, Zenon DEF Order!Bijection, Order!Injection, Order!Surjection, Order!IsInjective, IsInjective
<1> QED
  BY <1>5, <1>6, <1>7, Zenon DEF Order!Orders

\* The end of append_n adds the blocks it linked, in their order.
LEMMA AppendDoneAppends == Inv /\ OpenEnd /\ AppendDone => Order!Next
<1> SUFFICES ASSUME Inv, OpenEnd, AppendDone PROVE Order!Next
  BY Zenon
<1>1. PICK m \in Nat, nf \in Nat : m = num_free_blocks + count /\ nf = num_free_blocks /\ nf <= m
  <2>1. num_free_blocks + count \in Nat /\ num_free_blocks \in Nat /\ num_free_blocks <= num_free_blocks + count
    BY SMT DEF Inv, Types
  <2> QED
    BY <2>1, Zenon
<1>2. PICK s \in [1..m -> Blocks] : OpenEnded(s, m)
  BY <1>1, Zenon DEF Inv, AppendDone, Appending
<1> DEFINE N(k) == Node(s, m, k)
<1>3. Distinct(s, m) /\ curr = N(m) /\ \A k \in 0..m - 1 : next[N(k)] = N(k + 1)
  BY <1>2, Zenon DEF OpenEnded, List, Forward
<1>4. /\ \A k \in 0..m + 1 : N(k) \in Nodes
      /\ \A i, j \in 0..m + 1 : N(i) = N(j) => i = j
      /\ N(m + 1) = FakeTail
  BY <1>3, NodeFacts, Zenon
<1>5. /\ next \in [Nodes -> Links] /\ next[N(m)] \notin Blocks /\ pc = "append"
      /\ pc' = "idle" /\ ret' = ret /\ next' = [next EXCEPT ![N(m)] = N(m + 1)]
  BY <1>3, <1>4, Zenon DEF Inv, Types, OpenEnd, AppendDone
<1>6. next' \in [Nodes -> Links]
  BY <1>4, <1>5, Ends, Zenon DEF Links
<1>7. \A k \in 0..m : next'[N(k)] = N(k + 1)
  <2> HIDE DEF N
  <2> QED
    BY <1>3, <1>4, <1>5, SMT
<1>8. Walk(next, next[FakeHead]) = s /\ Walk(next', next'[FakeHead]) = s
  BY <1>3, <1>5, <1>6, <1>7, FromHead, WholeWalk, Zenon
<1>9. Listed = SubSeq(s, 1, nf) /\ Allocated = ret /\ Listed' = s /\ Allocated' = ret
  BY <1>1, <1>5, <1>8, ViewsHold, Zenon DEF Views
<1> DEFINE bs == SubSeq(s, nf + 1, m)
           l == m - nf
           S == {bs[i] : i \in 1..l}
<1>10. s \in Seq(Blocks) /\ Len(s) = m
  BY AsSeq, Zenon
<1>11. SubSeq(s, 1, nf) \o bs = s
  <2>1. 1 \in 1..Len(s) + 1 /\ nf \in 1 - 1..Len(s) /\ m \in nf..Len(s)
    BY <1>1, <1>10, SMT
  <2>2. SubSeq(s, 1, nf) \o bs = SubSeq(s, 1, m)
    BY <1>10, <2>1, ConcatAdjacentSubSeq, Zenon
  <2> QED
    BY <1>10, <2>2, SubSeqFull, Zenon
<1>12. l \in Nat /\ bs \in [1..l -> Blocks] /\ \A k \in 1..l : bs[k] = s[nf + k]
  <2>1. l \in Nat /\ nf + l <= m /\ m = nf + l
    BY <1>1, SMT
  <2> HIDE DEF l
  <2>2. IsCut(bs, s, nf, l)
    BY <2>1, Cut, Zenon
  <2> HIDE DEF bs
  <2>3. bs \in Seq(Blocks) /\ Len(bs) = l /\ \A k \in 1..l : bs[k] = s[nf + k]
    BY <2>2, Zenon DEF IsCut
  <2>4. bs \in [1..Len(bs) -> Blocks]
    BY <2>3, SMT
  <2> QED
    BY <2>1, <2>3, <2>4, Zenon
<1>13. Distinct(bs, l)
  <2> HIDE DEF bs
  <2>1. SUFFICES ASSUME NEW i \in 1..l, NEW j \in 1..l, bs[i] = bs[j] PROVE i = j
    BY Zenon DEF Distinct
  <2>2. nf + i \in 1..m /\ nf + j \in 1..m /\ (nf + i = nf + j => i = j)
    BY <1>1, SMT
  <2> QED
    BY <1>3, <1>12, <2>1, <2>2, Zenon DEF Distinct
<1>14. bs \in Order!Orders(S) /\ S \in SUBSET Blocks
  <2> HIDE DEF bs, l
  <2> QED
    BY <1>12, <1>13, OrderOf, Zenon
<1>15. Order!IsInjective(s)
  BY <1>3, Zenon DEF Order!IsInjective, Distinct
<1>16. Order!Append_n(bs)
  <2> HIDE DEF bs
  <2> QED
    BY <1>9, <1>11, <1>15, Zenon DEF Order!Append_n
<1> QED
  BY <1>14, <1>16, Zenon DEF Order!Next

\* __init__ queues every block once.
LEMMA InitQueue == Init => Order!Init
<1> SUFFICES ASSUME Init PROVE Order!Init
  BY Zenon
<1>1. Inv /\ pc = "init" /\ num_free_blocks = NumBlocks /\ NumBlocks \in Nat /\ ret = <<>>
  BY InitInv, PoolAssumption, Zenon DEF Init
<1>2. PICK s \in [1..NumBlocks -> Blocks] : List(s, NumBlocks, 0, NumBlocks, {})
  BY <1>1, Zenon DEF Inv, Whole
<1>3. Listed = s /\ Allocated = <<>>
  <2>1. Walk(next, next[FakeHead]) = s
    BY <1>1, <1>2, Links0, Zenon DEF Inv
  <2> QED
    BY <1>1, <2>1, ViewsHold, Zenon DEF Views
<1>4. Blocks = {s[i] : i \in 1..NumBlocks}
  <2>1. \A b \in Blocks : IsFree(b)
    BY Ends, Zenon DEF IsFree, Init
  <2>2. \A b \in Blocks : \E i \in 1..NumBlocks : s[i] = b
    BY <1>2, <2>1, Zenon DEF List, Holds
  <2> QED
    BY <2>2, Zenon
<1>5. s \in Order!Orders(Blocks)
  BY <1>1, <1>2, <1>4, OrderOf, Zenon DEF List
<1> QED
  BY <1>3, <1>5, Zenon DEF Order!Init

\* The start and the end of a prefix hit's loop leave the list alone.
LEMMA TouchStutters ==
  ASSUME (\E bs \in Lists : touch(bs)) \/ TouchDone
  PROVE  Listed' = Listed /\ Allocated' = Allocated
<1>1. /\ pc \in {"init", "idle", "touch"} /\ pc' \in {"init", "idle", "touch"}
      /\ next' = next /\ ret' = ret
  BY Zenon DEF touch, TouchDone
<1> QED
  BY <1>1, ViewsHold, Zenon DEF Views

\* The free list is the queue KVCacheManager takes it for: for any number of blocks
\* and any history of allocations, prefix hits and frees, the linked list hands out
\* the block that is free the longest, lets a block that is hit leave from its place
\* and takes freed blocks back at its end in the order given.
THEOREM FreeListIsQueue == Spec => IsQueue
<1>1. Inv /\ OpenEnd /\ [Next]_vars => OpenEnd'
  <2> SUFFICES ASSUME Inv, OpenEnd, [Next]_vars PROVE OpenEnd'
    BY Zenon
  <2>1. CASE \E bs \in Lists : free_blocks(bs)
    BY <2>1, FreeStutters, Zenon
  <2>2. CASE AppendOne
    BY <2>2, AppendOneStutters, Zenon
  <2>3. CASE UNCHANGED vars
    BY <2>3, Zenon DEF OpenEnd, vars
  <2>4. ASSUME pc' # "append" PROVE OpenEnd'
    BY <2>4, Zenon DEF OpenEnd
  <2>5. CASE popleft \/ (\E n \in 1..NumBlocks : get_new_blocks(n)) \/ (\E bs \in Lists : touch(bs))
             \/ PopOne \/ PopDone \/ TouchOne \/ TouchDone \/ AppendDone
    <3>1. pc' # "append"
      BY <2>5, SMT DEF popleft, get_new_blocks, touch, PopOne, PopDone, TouchOne, TouchDone, AppendDone
    <3> QED
      BY <2>4, <3>1, Zenon
  <2> QED
    BY <2>1, <2>2, <2>3, <2>5, Zenon DEF Next
<1>2. Init => OpenEnd
  BY SMT DEF Init, OpenEnd
<1>3. Inv /\ OpenEnd /\ [Next]_vars => [Order!Next]_<<Listed, Allocated>>
  <2> SUFFICES ASSUME Inv, OpenEnd, [Next]_vars
               PROVE  Order!Next \/ (Listed' = Listed /\ Allocated' = Allocated)
    BY Zenon
  <2>1. CASE UNCHANGED vars
    BY <2>1, Zenon DEF vars, Listed, Allocated
  <2>2. CASE Next
    BY <2>2, PopleftTakes, GetTakes, PopOneStutters, PopDoneStutters, TouchStutters, TouchLeaves,
       FreeStutters, AppendOneStutters, AppendDoneAppends, Zenon DEF Next
  <2> QED
    BY <2>1, <2>2, Zenon
<1> QED
  BY FreeListInv, InitQueue, <1>1, <1>2, <1>3, PTL DEF Spec, IsQueue, Order!Spec
=============================================================================
