-------------------------- MODULE SpecDecodeLemmas --------------------------
(***************************************************************************)
(* Facts about the operators of SpecDecodeStep, for batches of any size    *)
(* and any number of draft tokens.  The index arithmetic of                *)
(* _calc_spec_decode_metadata hands each row of the rejection sampler the  *)
(* row's own drafts, each with the context it stands after; so the tokens  *)
(* a row keeps are the target model's choices, and the scheduler's cut at  *)
(* the stop leaves a run of plain decoding.                                *)
(*                                                                         *)
(* What a lemma shows of a sequence or a function is stated by a named     *)
(* predicate (Joins, Cuts, Lays, ...), which the later proofs expand where *)
(* they need it.                                                           *)
(***************************************************************************)
EXTENDS SpecDecodeStep, SequenceTheorems, FiniteSetTheorems, WellFoundedInduction, TLAPS

-----------------------------------------------------------------------------
(* Sequences and numbers. *)

(* w is u, then v. *)
Joins(X, u, v, w) ==
  /\ w \in Seq(X) /\ Len(w) = Len(u) + Len(v)
  /\ \A j \in 1 .. Len(u) : w[j] = u[j]
  /\ \A j \in 1 .. Len(v) : w[Len(u) + j] = v[j]

(* What a concatenation is, as the proofs below use it. *)
LEMMA Joined ==
  ASSUME NEW X, NEW u \in Seq(X), NEW v \in Seq(X)
  PROVE  Joins(X, u, v, u \o v)
  BY DEF Joins

(* A function on 1 .. l is a sequence of length l. *)
LEMMA SeqByLen ==
  ASSUME NEW S, NEW l \in Nat, NEW f \in [1 .. l -> S]
  PROVE  f \in Seq(S) /\ Len(f) = l
  OBVIOUS

(* A nonempty set of naturals has a least element. *)
LEMMA LeastNat ==
  ASSUME NEW T \in SUBSET Nat, T # {}
  PROVE  \E x \in T : \A y \in T : x <= y
<1>1. PICK x \in T : \A y \in T : ~(<<y, x>> \in OpToRel(<, Nat))
  BY WFMin, NatLessThanWellFounded, Zenon
<1>2. \A y \in T : ~(y < x)
  BY <1>1, Zenon DEF OpToRel
<1> QED
  BY <1>2, SMT

(* Induction over the naturals, for a property given as a set. *)
LEMMA NatSetInduction ==
  ASSUME NEW T, 0 \in T, \A k \in Nat : k \in T => k + 1 \in T
  PROVE  \A k \in Nat : k \in T
<1> DEFINE Bad == Nat \ T
<1>1. SUFFICES ASSUME Bad # {} PROVE FALSE
  BY Zenon
<1>2. PICK k \in Bad : \A j \in Bad : k <= j
  <2>1. Bad \in SUBSET Nat
    BY Zenon
  <2> HIDE DEF Bad
  <2> QED
    BY <1>1, <2>1, LeastNat, Zenon
<1>3. k \in Nat /\ k # 0
  BY <1>2, Zenon
<1>4. k - 1 \in Nat /\ k - 1 \notin Bad /\ (k - 1) + 1 = k
  <2> HIDE DEF Bad
  <2> QED
    BY <1>2, <1>3, SMT
<1>5. k \in T
  BY <1>4, Zenon
<1> QED
  BY <1>2, <1>5, Zenon

(* f grows from a by the N steps of next. *)
Built(f, N, S, a, next) ==
  /\ f \in [0 .. N -> S] /\ f[0] = a
  /\ \A i \in 1 .. N : f[i] = next[i][f[i - 1]]

(* A function can be built value by value. *)
LEMMA Recursion ==
  ASSUME NEW S, NEW N \in Nat, NEW a \in S, NEW next \in [1 .. N -> [S -> S]]
  PROVE  \E f : Built(f, N, S, a, next)
<1> DEFINE Builds(m, f) ==
             /\ f \in [0 .. m -> S] /\ f[0] = a
             /\ \A i \in 1 .. m : f[i] = next[i][f[i - 1]]
           T == {m \in Nat : m <= N => \E f : Builds(m, f)}
<1>1. 0 \in T
  <2>1. Builds(0, [i \in 0 .. 0 |-> a])
    BY SMT
  <2>2. \E f : Builds(0, f)
    BY <2>1, Zenon
  <2> QED
    BY <2>2, SMT
<1>2. ASSUME NEW m \in Nat, m \in T PROVE m + 1 \in T
  <2>0. m + 1 \in Nat
    BY SMT
  <2>1. SUFFICES ASSUME m + 1 <= N PROVE \E f : Builds(m + 1, f)
    BY <2>0, Zenon
  <2>2. m <= N /\ m + 1 \in 1 .. N /\ m \in 0 .. m
    BY <2>1, SMT
  <2>3. PICK f : Builds(m, f)
    BY <1>2, <2>2, Zenon
  <2>4. next[m + 1][f[m]] \in S
    BY <2>2, <2>3, Zenon
  <2> DEFINE g == [i \in 0 .. m + 1 |-> IF i <= m THEN f[i] ELSE next[m + 1][f[m]]]
  <2>5. g \in [0 .. m + 1 -> S] /\ g[0] = a
    BY <2>3, <2>4, SMT
  <2>6. ASSUME NEW i \in 1 .. m + 1 PROVE g[i] = next[i][g[i - 1]]
    <3>1. g[i - 1] = f[i - 1] /\ (i <= m => g[i] = f[i] /\ i \in 1 .. m)
      BY SMT
    <3>2. CASE i <= m
      BY <2>3, <3>1, <3>2, Zenon
    <3>3. CASE ~(i <= m)
      <4>1. i = m + 1 /\ i - 1 = m
        BY <3>3, SMT
      <4>2. g[i] = next[m + 1][f[m]]
        BY <3>3, <4>1, SMT
      <4> QED
        BY <3>1, <4>1, <4>2, Zenon
    <3> QED
      BY <3>2, <3>3, Zenon
  <2>7. Builds(m + 1, g)
    BY <2>5, <2>6, Zenon
  <2> QED
    BY <2>7, Zenon
<1>3. N \in T
  <2> HIDE DEF T
  <2> QED
    BY <1>1, <1>2, NatSetInduction, Zenon
<1>4. PICK f : Builds(N, f)
  BY <1>3, SMT
<1> QED
  BY <1>4, Zenon DEF Built

(* The largest element of a bounded set of naturals. *)
LEMMA MaxIsLargest ==
  ASSUME NEW n \in Nat, NEW S \in SUBSET (0 .. n), S # {}
  PROVE  Max(S) \in S /\ \A y \in S : y <= Max(S)
<1> DEFINE T == {k \in Nat : n - k \in S}
<1>1. PICK x \in S : TRUE
  BY Zenon
<1>2. n - x \in Nat /\ n - (n - x) = x
  BY SMT
<1>3. T \in SUBSET Nat /\ T # {}
  BY <1>1, <1>2, Zenon
<1>4. PICK k \in T : \A j \in T : k <= j
  <2> HIDE DEF T
  <2> QED
    BY <1>3, LeastNat, Zenon
<1>5. k \in Nat /\ n - k \in S
  BY <1>4, Zenon
<1>6. ASSUME NEW y \in S PROVE n - k >= y
  <2>1. n - y \in Nat /\ n - (n - y) = y /\ y \in Int
    BY SMT
  <2>2. n - y \in T
    BY <2>1, Zenon
  <2>3. k <= n - y
    BY <1>4, <2>2, Zenon
  <2> QED
    BY <1>5, <2>1, <2>3, SMT
<1>7. Max(S) \in S /\ \A y \in S : Max(S) >= y
  BY <1>5, <1>6, Zenon DEF Max
<1>8. \A y \in S : y <= Max(S)
  BY <1>7, SMT
<1> QED
  BY <1>7, <1>8, Zenon

(* The first l tokens of s. *)
LEMMA Prefix ==
  ASSUME NEW X, NEW s \in Seq(X), NEW l \in 0 .. Len(s)
  PROVE  /\ SubSeq(s, 1, l) \in Seq(X) /\ Len(SubSeq(s, 1, l)) = l
         /\ \A j \in 1 .. l : SubSeq(s, 1, l)[j] = s[j]
  OBVIOUS

(* One token more of s. *)
LEMMA PrefixGrows ==
  ASSUME NEW X, NEW s \in Seq(X), NEW l \in 0 .. Len(s) - 1
  PROVE  SubSeq(s, 1, l + 1) = Append(SubSeq(s, 1, l), s[l + 1])
  OBVIOUS

(* w is the l entries of u behind the first c. *)
Cuts(X, u, c, l, w) ==
  w \in Seq(X) /\ Len(w) = l /\ \A j \in 1 .. l : w[j] = u[c + j]

(* What SubSeq cuts out. *)
LEMMA Cut ==
  ASSUME NEW X, NEW u, NEW c \in Nat, NEW l \in Nat, \A j \in c + 1 .. c + l : u[j] \in X
  PROVE  Cuts(X, u, c, l, SubSeq(u, c + 1, c + l))
<1> DEFINE a == c + 1
           z == c + l
<1>1. a \in Int /\ z \in Int /\ z - a + 1 = l /\ (~(a <= z) => l = 0) /\ \A j \in 1 .. l : a + j - 1 = c + j
  BY SMT
<1>2. \A j \in a .. z : u[j] \in X
  BY Zenon
<1> HIDE DEF a, z
<1>3. SubSeq(u, a, z) \in Seq(X) /\ Len(SubSeq(u, a, z)) = (IF a <= z THEN z - a + 1 ELSE 0)
  BY <1>1, <1>2, SubSeqProperties
<1>4. \A j \in 1 .. z - a + 1 : SubSeq(u, a, z)[j] = u[a + j - 1]
  BY <1>1, <1>2, SubSeqProperties
<1>5. Cuts(X, u, c, l, SubSeq(u, a, z))
  BY <1>1, <1>3, <1>4, Zenon DEF Cuts
<1> QED
  BY <1>5, Zenon DEF a, z

(* c entries of u and l tokens of s and d, up to the q-th of d. *)
Splices(u, c, s, d, l, q) ==
  SubSeq(u, 1, c) \o SubSeq(SubSeq(s \o d, c + 1, c + l), 1, Len(s) + q - c) = s \o SubSeq(d, 1, q)

(* The computed entries, which are exact, and the scheduled tokens up to the
   q-th draft make up the request's tokens and the drafts before it. *)
LEMMA Splice ==
  ASSUME NEW X, NEW s \in Seq(X), NEW d \in Seq(X), NEW u, NEW c \in 0 .. Len(s),
         \A j \in 1 .. c : u[j] = s[j],
         NEW l \in Nat, c + l <= Len(s) + Len(d), NEW q \in 0 .. Len(d), Len(s) + q - c <= l
  PROVE  Splices(u, c, s, d, l, q)
<1> DEFINE sd == s \o d
           v == SubSeq(u, 1, c)
           w == SubSeq(sd, c + 1, c + l)
           e == Len(s) + q - c
           x == SubSeq(w, 1, e)
           y == SubSeq(d, 1, q)
<1>1. Len(s) \in Nat /\ Len(d) \in Nat /\ c \in Nat /\ q \in Nat /\ c <= Len(s) /\ q <= Len(d) /\ e \in Nat /\ e <= l
  BY SMT
<1>2. Joins(X, s, d, sd)
  BY Joined, Zenon
<1>3. v \in Seq(X) /\ Len(v) = c /\ \A j \in 1 .. c : v[j] = s[j]
  <2>1. \A j \in 1 .. c : u[j] \in X
    BY SMT
  <2>2. 0 \in Nat /\ 0 + 1 = 1 /\ 0 + c = c /\ \A j \in 1 .. c : 0 + j = j
    BY <1>1, SMT
  <2>3. Cuts(X, u, 0, c, SubSeq(u, 0 + 1, 0 + c))
    <3>1. \A j \in 0 + 1 .. 0 + c : u[j] \in X
      BY <2>1, <2>2, Zenon
    <3> QED
      BY <1>1, <2>2, <3>1, Cut, Zenon
  <2> QED
    BY <2>2, <2>3, Zenon DEF Cuts
<1>4. sd \in Seq(X) /\ Len(sd) = Len(s) + Len(d) /\ (\A j \in 1 .. Len(s) : sd[j] = s[j]) /\ \A j \in 1 .. Len(d) : sd[Len(s) + j] = d[j]
  BY <1>2, Zenon DEF Joins
<1> HIDE DEF v, sd
<1>5. w \in Seq(X) /\ Len(w) = l /\ \A j \in 1 .. l : w[j] = sd[c + j]
  <2>1. c + l <= Len(sd) /\ Len(sd) \in Nat
    BY <1>1, <1>4, SMT
  <2>2. \A j \in c + 1 .. c + l : sd[j] \in X
    BY <1>1, <1>4, <2>1, SMT
  <2>3. Cuts(X, sd, c, l, w)
    BY <1>1, <2>2, Cut, Zenon
  <2> QED
    BY <2>3, Zenon DEF Cuts
<1>6. y \in Seq(X) /\ Len(y) = q /\ \A j \in 1 .. q : y[j] = d[j]
  BY Prefix, Zenon
<1> HIDE DEF w, e
<1>7. x \in Seq(X) /\ Len(x) = e /\ \A j \in 1 .. e : x[j] = w[j]
  <2>1. e \in 0 .. Len(w)
    BY <1>1, <1>5, SMT
  <2> QED
    BY <1>5, <2>1, Prefix, Zenon
<1> HIDE DEF x, y
<1>8. Joins(X, v, x, v \o x) /\ Joins(X, s, y, s \o y)
  BY <1>3, <1>6, <1>7, Joined, Zenon
<1>9. /\ v \o x \in Seq(X) /\ Len(v \o x) = c + e
      /\ (\A j \in 1 .. c : (v \o x)[j] = v[j]) /\ \A j \in 1 .. e : (v \o x)[c + j] = x[j]
  BY <1>3, <1>7, <1>8, Zenon DEF Joins
<1>10. /\ s \o y \in Seq(X) /\ Len(s \o y) = Len(s) + q
       /\ (\A j \in 1 .. Len(s) : (s \o y)[j] = s[j]) /\ \A j \in 1 .. q : (s \o y)[Len(s) + j] = y[j]
  BY <1>6, <1>8, Zenon DEF Joins
<1>11. c + e = Len(s) + q
  BY <1>1, SMT DEF e
<1>12. ASSUME NEW j \in 1 .. Len(s) + q PROVE (v \o x)[j] = (s \o y)[j]
  <2>1. CASE j <= c
    <3>1. j \in 1 .. c /\ j \in 1 .. Len(s)
      BY <1>1, <2>1, SMT
    <3> QED
      BY <1>3, <1>9, <1>10, <3>1, Zenon
  <2>2. CASE ~(j <= c)
    <3>1. j - c \in 1 .. e /\ c + (j - c) = j /\ j - c \in 1 .. l
      BY <1>1, <1>11, <2>2, SMT
    <3>2. (v \o x)[j] = sd[j]
      <4>1. (v \o x)[c + (j - c)] = x[j - c] /\ x[j - c] = w[j - c] /\ w[j - c] = sd[c + (j - c)]
        BY <1>5, <1>7, <1>9, <3>1, Zenon
      <4> QED
        BY <3>1, <4>1, Zenon
    <3>3. sd[j] = (s \o y)[j]
      <4>1. CASE j <= Len(s)
        <5>1. j \in 1 .. Len(s)
          BY <4>1, SMT
        <5> QED
          BY <1>4, <1>10, <5>1, Zenon
      <4>2. CASE ~(j <= Len(s))
        <5>1. j - Len(s) \in 1 .. q /\ j - Len(s) \in 1 .. Len(d) /\ Len(s) + (j - Len(s)) = j
          BY <1>1, <4>2, SMT
        <5>2. /\ sd[Len(s) + (j - Len(s))] = d[j - Len(s)] /\ (s \o y)[Len(s) + (j - Len(s))] = y[j - Len(s)]
              /\ y[j - Len(s)] = d[j - Len(s)]
          BY <1>4, <1>6, <1>10, <5>1, Zenon
        <5> QED
          BY <5>1, <5>2, Zenon
      <4> QED
        BY <4>1, <4>2, Zenon
    <3> QED
      BY <3>2, <3>3, Zenon
  <2> QED
    BY <2>1, <2>2, Zenon
<1>13. v \o x = s \o y
  <2> DEFINE A == v \o x
             B == s \o y
  <2>1. A \in Seq(X) /\ B \in Seq(X) /\ Len(A) = Len(B) /\ \A j \in 1 .. Len(A) : A[j] = B[j]
    BY <1>9, <1>10, <1>11, <1>12, Zenon
  <2> HIDE DEF A, B
  <2>2. A = B
    BY <2>1, SeqEqual, Zenon
  <2> QED
    BY <2>2, Zenon DEF A, B
<1> QED
  BY <1>13, Zenon DEF v, w, x, y, sd, e, Splices

(* w is the sequence f of length l with t behind it. *)
Adds(X, l, f, t, w) ==
  /\ w \in [1 .. l + 1 -> X] /\ w[l + 1] = t
  /\ \A p \in 1 .. l : w[p] = f[p]

(* Appending, in both ways of writing it. *)
LEMMA Appended ==
  ASSUME NEW X, NEW f \in Seq(X), NEW t \in X
  PROVE  Adds(X, Len(f), f, t, Append(f, t)) /\ Adds(X, Len(f), f, t, f \o <<t>>)
<1>1. Adds(X, Len(f), f, t, Append(f, t))
  <2>1. /\ Append(f, t) \in Seq(X) /\ Len(Append(f, t)) = Len(f) + 1
        /\ \A p \in 1 .. Len(f) : Append(f, t)[p] = f[p]
    BY SMT
  <2>2. Append(f, t)[Len(f) + 1] = t
    BY SMT
  <2>3. Append(f, t) \in [1 .. Len(Append(f, t)) -> X]
    BY <2>1, LenProperties, Zenon
  <2> QED
    BY <2>1, <2>2, <2>3, Zenon DEF Adds
<1>2. f \o <<t>> = Append(f, t)
  BY SMT
<1> QED
  BY <1>1, <1>2, Zenon

(* A prefix of s and x that reaches k tokens into x. *)
LEMMA PrefixOfJoin ==
  ASSUME NEW X, NEW s \in Seq(X), NEW x \in Seq(X), NEW k \in 0 .. Len(x)
  PROVE  SubSeq(s \o x, 1, Len(s) + k) = s \o SubSeq(x, 1, k)
<1> DEFINE sx == s \o x
           y == SubSeq(x, 1, k)
           A == SubSeq(sx, 1, Len(s) + k)
           B == s \o y
<1>1. Len(s) \in Nat /\ Len(x) \in Nat /\ k \in Nat /\ k <= Len(x)
  BY SMT
<1>2. Joins(X, s, x, sx)
  BY Joined, Zenon
<1>3. y \in Seq(X) /\ Len(y) = k /\ \A j \in 1 .. k : y[j] = x[j]
  BY Prefix, Zenon
<1> HIDE DEF sx, y
<1>4. Joins(X, s, y, B)
  BY <1>3, Joined, Zenon
<1>5. A \in Seq(X) /\ Len(A) = Len(s) + k /\ \A j \in 1 .. Len(s) + k : A[j] = sx[j]
  <2>1. Len(s) + k \in 0 .. Len(sx) /\ sx \in Seq(X)
    <3>1. sx \in Seq(X) /\ Len(sx) = Len(s) + Len(x)
      BY <1>2, Zenon DEF Joins
    <3> QED
      BY <1>1, <3>1, SMT
  <2> QED
    BY <2>1, Prefix, Zenon
<1> HIDE DEF A, B
<1>6. B \in Seq(X) /\ Len(B) = Len(s) + k
  BY <1>3, <1>4, Zenon DEF Joins
<1>7. ASSUME NEW j \in 1 .. Len(s) + k PROVE A[j] = B[j]
  <2>1. CASE j <= Len(s)
    <3>1. j \in 1 .. Len(s)
      BY <2>1, SMT
    <3> QED
      BY <1>2, <1>4, <1>5, <3>1, Zenon DEF Joins
  <2>2. CASE ~(j <= Len(s))
    <3>1. j - Len(s) \in 1 .. k /\ j - Len(s) \in 1 .. Len(x) /\ Len(s) + (j - Len(s)) = j
      BY <1>1, <2>2, SMT
    <3>2. sx[Len(s) + (j - Len(s))] = x[j - Len(s)] /\ B[Len(s) + (j - Len(s))] = y[j - Len(s)] /\ y[j - Len(s)] = x[j - Len(s)]
      BY <1>2, <1>3, <1>4, <3>1, Zenon DEF Joins
    <3> QED
      BY <1>5, <3>1, <3>2, Zenon
  <2> QED
    BY <2>1, <2>2, Zenon
<1>8. A = B
  BY <1>5, <1>6, <1>7, SeqEqual, Zenon
<1> QED
  BY <1>8, Zenon DEF A, B, sx, y

-----------------------------------------------------------------------------
(* The flat tensors of a batch. *)

(* Cumsum adds up: every entry is the one before it and the row's own. *)
LEMMA CumsumSteps ==
  ASSUME NEW N \in Nat, NEW n \in [1 .. N -> Nat]
  PROVE  /\ Cumsum(n) \in [1 .. N -> Nat]
         /\ \A i \in 1 .. N : Start(Cumsum(n), i) \in Nat /\ Cumsum(n)[i] = Start(Cumsum(n), i) + n[i]
<1> DEFINE Sums(c) == c = [i \in 1 .. N |-> n[i] + (IF i = 1 THEN 0 ELSE c[i - 1])]
           cs == CHOOSE c : Sums(c)
<1>1. Cumsum(n) = cs
  BY DEF Cumsum
<1>2. \E c : Sums(c)
  <2> DEFINE next == [i \in 1 .. N |-> [x \in Nat |-> x + n[i]]]
  <2>1. next \in [1 .. N -> [Nat -> Nat]] /\ \A x \in Nat, i \in 1 .. N : next[i][x] = x + n[i]
    BY SMT
  <2> HIDE DEF next
  <2>0. 0 \in Nat
    OBVIOUS
  <2>2. PICK f : Built(f, N, Nat, 0, next)
    BY <2>0, <2>1, Recursion, Zenon
  <2>3. ASSUME NEW i \in 1 .. N PROVE f[i] = n[i] + f[i - 1]
    <3>1. f[i - 1] \in Nat /\ n[i] \in Nat
      BY <2>2, SMT DEF Built
    <3>2. f[i] = f[i - 1] + n[i]
      BY <2>1, <2>2, <3>1, Zenon DEF Built
    <3> QED
      BY <3>1, <3>2, SMT
  <2> DEFINE c == [i \in 1 .. N |-> f[i]]
  <2>4. \A i \in 1 .. N : c[i] = n[i] + (IF i = 1 THEN 0 ELSE c[i - 1])
    BY <2>2, <2>3, SMT DEF Built
  <2>5. Sums(c)
    BY <2>4, Zenon
  <2> QED
    BY <2>5, Zenon
<1>3. Sums(cs)
  BY <1>2, Zenon
<1> HIDE DEF cs
<1>4. DOMAIN cs = 1 .. N /\ \A i \in 1 .. N : cs[i] = n[i] + (IF i = 1 THEN 0 ELSE cs[i - 1])
  BY <1>3, Zenon
<1> DEFINE T == {m \in Nat : m \in 1 .. N => cs[m] \in Nat}
<1>5. 0 \in T
  BY SMT
<1>6. ASSUME NEW m \in Nat, m \in T PROVE m + 1 \in T
  <2>1. SUFFICES ASSUME m + 1 \in 1 .. N PROVE cs[m + 1] \in Nat
    BY SMT
  <2>2. m # 0 => m \in 1 .. N /\ cs[m] \in Nat
    BY <1>6, <2>1, SMT
  <2>3. cs[m + 1] = n[m + 1] + (IF m = 0 THEN 0 ELSE cs[m])
    BY <1>4, <2>1, SMT
  <2> QED
    BY <2>1, <2>2, <2>3, SMT
<1>7. \A m \in 1 .. N : cs[m] \in Nat
  <2> HIDE DEF T
  <2>1. \A m \in Nat : m \in T
    BY <1>5, <1>6, NatSetInduction, Zenon
  <2> QED
    BY <2>1 DEF T
<1>8. cs \in [1 .. N -> Nat]
  BY <1>3, <1>7, Zenon
<1>9. ASSUME NEW i \in 1 .. N PROVE Start(cs, i) \in Nat /\ cs[i] = Start(cs, i) + n[i]
  BY <1>4, <1>7, SMT DEF Start
<1> QED
  BY <1>1, <1>8, <1>9, Zenon

(* Rows lie one after the other: row i ends where row i + 1 starts, and every
   cell of a row lies inside the flat tensor. *)
LEMMA CumsumOrder ==
  ASSUME NEW N \in Nat, NEW n \in [1 .. N -> Nat]
  PROVE  \A m \in 1 .. N : \A i \in 1 .. m : Cumsum(n)[i] <= Cumsum(n)[m]
<1> DEFINE cu == Cumsum(n)
           T == {m \in Nat : m \in 1 .. N => \A i \in 1 .. m : cu[i] <= cu[m]}
<1>1. cu \in [1 .. N -> Nat] /\ \A i \in 1 .. N : Start(cu, i) \in Nat /\ cu[i] = Start(cu, i) + n[i]
  BY CumsumSteps, Zenon
<1> HIDE DEF cu
<1>2. 0 \in T
  BY SMT
<1>3. ASSUME NEW m \in Nat, m \in T PROVE m + 1 \in T
  <2>1. SUFFICES ASSUME m + 1 \in 1 .. N, NEW i \in 1 .. m + 1 PROVE cu[i] <= cu[m + 1]
    BY SMT
  <2>2. cu[m + 1] \in Nat
    BY <1>1, <2>1, SMT
  <2>3. CASE i = m + 1
    BY <2>2, <2>3, SMT
  <2>4. CASE i # m + 1
    <3>1. m \in 1 .. N /\ i \in 1 .. m /\ m + 1 # 1
      BY <2>1, <2>4, SMT
    <3>2. cu[i] <= cu[m]
      BY <1>3, <3>1, SMT
    <3>3. cu[m + 1] = cu[m] + n[m + 1]
      BY <1>1, <2>1, <3>1, SMT DEF Start
    <3>4. cu[i] \in Nat /\ cu[m] \in Nat /\ n[m + 1] \in Nat
      BY <1>1, <2>1, <3>1, SMT
    <3> QED
      BY <3>2, <3>3, <3>4, SMT
  <2> QED
    BY <2>3, <2>4, Zenon
<1>4. \A m \in Nat : m \in T
  <2> HIDE DEF T
  <2> QED
    BY <1>2, <1>3, NatSetInduction, Zenon
<1> QED
  BY <1>4, SMT DEF cu

(* A cell of row i is a cell of the flat tensor. *)
LEMMA CellInside ==
  ASSUME NEW N \in Nat, NEW n \in [1 .. N -> Nat], NEW i \in 1 .. N, NEW k \in 1 .. n[i]
  PROVE  Start(Cumsum(n), i) + k \in 1 .. Cumsum(n)[N]
<1>1. /\ Cumsum(n) \in [1 .. N -> Nat] /\ Start(Cumsum(n), i) \in Nat
      /\ Cumsum(n)[i] = Start(Cumsum(n), i) + n[i]
  BY CumsumSteps, Zenon
<1>2. N \in 1 .. N /\ i \in 1 .. N
  BY SMT
<1>3. Cumsum(n)[i] <= Cumsum(n)[N]
  BY <1>2, CumsumOrder, Zenon
<1> QED
  BY <1>1, <1>2, <1>3, SMT

(* t holds the rows s, n[i] cells in row i, one after the other. *)
Lays(X, N, n, s, t) ==
  /\ t \in Seq(X) /\ Len(t) = Cumsum(n)[N]
  /\ \A i \in 1 .. N : \A k \in 1 .. n[i] : t[Start(Cumsum(n), i) + k] = s[i][k]

(* FlattenSeq puts cell k of row i at the row's start plus k. *)
LEMMA Flattened ==
  ASSUME NEW N \in Nat \ {0}, NEW X, NEW s \in [1 .. N -> Seq(X)],
         NEW n \in [1 .. N -> Nat], \A i \in 1 .. N : n[i] = Len(s[i])
  PROVE  Lays(X, N, n, s, FlattenSeq(s))
<1> DEFINE Flats(f) == f = [i \in 1 .. N |-> IF i = 1 THEN s[i] ELSE f[i - 1] \o s[i]]
           fl == CHOOSE f : Flats(f)
           cu == Cumsum(n)
<1>1. s \in Seq(Seq(X)) /\ Len(s) = N
  BY SMT
<1>2. FlattenSeq(s) = fl[N]
  BY <1>1, SMT DEF FlattenSeq
<1>3. \E f : Flats(f)
  <2> DEFINE next == [i \in 1 .. N |-> [x \in Seq(X) |-> x \o s[i]]]
  <2>1. \A i \in 1 .. N : \A x \in Seq(X) : x \o s[i] \in Seq(X)
    BY SMT
  <2>2. next \in [1 .. N -> [Seq(X) -> Seq(X)]] /\ \A x \in Seq(X), i \in 1 .. N : next[i][x] = x \o s[i]
    BY <2>1, Zenon
  <2> HIDE DEF next
  <2>3. <<>> \in Seq(X) /\ N \in Nat
    BY SMT
  <2>4. PICK f : Built(f, N, Seq(X), <<>>, next)
    BY <2>2, <2>3, Recursion, Zenon
  <2>5. ASSUME NEW i \in 1 .. N PROVE f[i] = f[i - 1] \o s[i]
    <3>1. f[i - 1] \in Seq(X)
      BY <2>4, SMT DEF Built
    <3> QED
      BY <2>2, <2>4, <3>1, Zenon DEF Built
  <2> DEFINE c == [i \in 1 .. N |-> f[i]]
  <2>6. ASSUME NEW i \in 1 .. N PROVE c[i] = IF i = 1 THEN s[i] ELSE c[i - 1] \o s[i]
    <3>1. CASE i = 1
      <4>1. f[1] = <<>> \o s[1]
        <5>1. f[0] = <<>> /\ f[1] = f[1 - 1] \o s[1]
          BY <2>4, <2>5, <3>1, Zenon DEF Built
        <5>2. 1 - 1 = 0
          BY SMT
        <5> QED
          BY <5>1, <5>2, Zenon
      <4>2. <<>> \o s[1] = s[1]
        BY <3>1, ConcatEmptySeq, Zenon
      <4> QED
        BY <3>1, <4>1, <4>2, Zenon
    <3>2. CASE i # 1
      <4>1. i - 1 \in 1 .. N
        BY <3>2, SMT
      <4> QED
        BY <2>5, <3>2, <4>1, Zenon
    <3> QED
      BY <3>1, <3>2, Zenon
  <2>7. Flats(c)
    BY <2>6, Zenon
  <2> QED
    BY <2>7, Zenon
<1>4. Flats(fl)
  BY <1>3, Zenon
<1> HIDE DEF fl
<1>5. \A i \in 1 .. N : fl[i] = IF i = 1 THEN s[i] ELSE fl[i - 1] \o s[i]
  BY <1>4, Zenon
<1>6. cu \in [1 .. N -> Nat] /\ \A i \in 1 .. N : Start(cu, i) \in Nat /\ cu[i] = Start(cu, i) + n[i]
  <2>1. N \in Nat
    OBVIOUS
  <2> QED
    BY <2>1, CumsumSteps, Zenon
<1>7. \A m \in 1 .. N : \A i \in 1 .. m : cu[i] <= cu[m]
  <2>1. N \in Nat
    OBVIOUS
  <2> QED
    BY <2>1, CumsumOrder, Zenon
<1> HIDE DEF cu
<1> DEFINE Holds(m) ==
             /\ fl[m] \in Seq(X) /\ Len(fl[m]) = cu[m]
             /\ \A i \in 1 .. m : \A k \in 1 .. n[i] : fl[m][Start(cu, i) + k] = s[i][k]
           T == {m \in Nat : m \in 1 .. N => Holds(m)}
<1>8. 0 \in T
  BY SMT
<1>9. ASSUME NEW m \in Nat, m \in T PROVE m + 1 \in T
  <2>0. m + 1 \in Nat
    BY SMT
  <2>1. SUFFICES ASSUME m + 1 \in 1 .. N PROVE Holds(m + 1)
    BY <2>0, Zenon
  <2>2. s[m + 1] \in Seq(X) /\ n[m + 1] = Len(s[m + 1]) /\ n[m + 1] \in Nat
    BY <2>1, Zenon
  <2>3. CASE m = 0
    <3>1. fl[1] = s[1] /\ cu[1] = n[1] /\ Start(cu, 1) = 0
      BY <1>5, <1>6, <2>1, <2>2, <2>3, SMT DEF Start
    <3> QED
      BY <2>2, <2>3, <3>1, SMT
  <2>4. CASE m # 0
    <3>1. m \in 1 .. N /\ m + 1 # 1 /\ (m + 1) - 1 = m
      BY <2>1, <2>4, SMT
    <3>2. Holds(m)
      BY <1>9, <3>1, Zenon
    <3>3. fl[m + 1] = fl[m] \o s[m + 1]
      BY <1>5, <2>1, <3>1, Zenon
    <3>4. Start(cu, m + 1) = cu[m] /\ cu[m + 1] = cu[m] + n[m + 1] /\ cu[m] \in Nat
      BY <1>6, <2>1, <3>1, Zenon DEF Start
    <3>5. /\ fl[m + 1] \in Seq(X) /\ Len(fl[m + 1]) = Len(fl[m]) + Len(s[m + 1])
          /\ \A j \in 1 .. Len(fl[m]) : fl[m + 1][j] = fl[m][j]
          /\ \A j \in 1 .. Len(s[m + 1]) : fl[m + 1][Len(fl[m]) + j] = s[m + 1][j]
      <4>1. fl[m] \in Seq(X) /\ s[m + 1] \in Seq(X)
        BY <2>2, <3>2, Zenon
      <4>2. Joins(X, fl[m], s[m + 1], fl[m + 1])
        BY <3>3, <4>1, Joined, Zenon
      <4> QED
        BY <4>2, Zenon DEF Joins
    <3>6. ASSUME NEW i \in 1 .. m + 1, NEW k \in 1 .. n[i]
          PROVE  fl[m + 1][Start(cu, i) + k] = s[i][k]
      <4>1. CASE i = m + 1
        <5>1. fl[m + 1][cu[m] + k] = s[m + 1][k]
          <6>1. k \in 1 .. Len(s[m + 1]) /\ Len(fl[m]) = cu[m]
            BY <2>2, <3>2, <4>1, Zenon
          <6> QED
            BY <3>5, <6>1, Zenon
        <5> QED
          BY <3>4, <4>1, <5>1, Zenon
      <4>2. CASE i # m + 1
        <5>1. i \in 1 .. m /\ i \in 1 .. N
          BY <2>1, <4>2, SMT
        <5>2. cu[i] <= cu[m] /\ cu[i] = Start(cu, i) + n[i] /\ Start(cu, i) \in Nat /\ n[i] \in Nat
          BY <1>6, <1>7, <3>1, <5>1, Zenon
        <5>3. Start(cu, i) + k \in 1 .. cu[m]
          BY <3>4, <5>2, SMT
        <5>4. fl[m + 1][Start(cu, i) + k] = fl[m][Start(cu, i) + k]
          BY <3>2, <3>5, <5>3, Zenon
        <5> QED
          BY <3>2, <5>1, <5>4, Zenon
      <4> QED
        BY <4>1, <4>2, Zenon
    <3> QED
      BY <2>2, <3>2, <3>4, <3>5, <3>6, Zenon
  <2> QED
    BY <2>3, <2>4, Zenon
<1>10. \A m \in Nat : m \in T
  <2> HIDE DEF T
  <2> QED
    BY <1>8, <1>9, NatSetInduction, Zenon
<1>11. Holds(N)
  <2>1. N \in Nat /\ N \in 1 .. N
    BY SMT
  <2> QED
    BY <1>10, <2>1, Zenon
<1> QED
  BY <1>2, <1>11, Zenon DEF cu, Lays

(* np.repeat and arange: cell k of row i is the row's first index plus k - 1. *)
Counts(N, n, first, t) ==
  /\ DOMAIN t = 1 .. Cumsum(n)[N]
  /\ \A i \in 1 .. N : \A k \in 1 .. n[i] : t[Start(Cumsum(n), i) + k] = first[i] + k - 1

(* RepeatArange counts from the first index of every row. *)
LEMMA Repeated ==
  ASSUME NEW N \in Nat \ {0}, NEW n \in [1 .. N -> Nat], NEW first \in [1 .. N -> Int]
  PROVE  Counts(N, n, first, RepeatArange(first, n))
<1> DEFINE s == [i \in 1 .. N |-> [k \in 1 .. n[i] |-> first[i] + k - 1]]
<1>1. RepeatArange(first, n) = FlattenSeq(s)
  <2>1. DOMAIN n = 1 .. N
    BY Zenon
  <2> QED
    BY <2>1, Zenon DEF RepeatArange, Flat
<1>2. ASSUME NEW i \in 1 .. N PROVE s[i] \in Seq(Int) /\ n[i] = Len(s[i])
  <2>1. n[i] \in Nat /\ first[i] \in Int
    BY Zenon
  <2>2. s[i] = [k \in 1 .. n[i] |-> first[i] + k - 1]
    BY Zenon
  <2> HIDE DEF s
  <2>3. s[i] \in [1 .. n[i] -> Int]
    BY <2>1, <2>2, SMT
  <2> QED
    BY <2>1, <2>3, SeqByLen, Zenon
<1>3. s \in [1 .. N -> Seq(Int)]
  BY <1>2, Zenon
<1>4. \A i \in 1 .. N : \A k \in 1 .. n[i] : s[i][k] = first[i] + k - 1
  BY Zenon
<1> HIDE DEF s
<1>5. Lays(Int, N, n, s, FlattenSeq(s))
  BY <1>2, <1>3, Flattened, Zenon
<1>6. DOMAIN FlattenSeq(s) = 1 .. Cumsum(n)[N]
  <2>1. FlattenSeq(s) \in Seq(Int) /\ Len(FlattenSeq(s)) = Cumsum(n)[N]
    BY <1>5, Zenon DEF Lays
  <2> QED
    BY <2>1, LenProperties, Zenon
<1> QED
  BY <1>1, <1>4, <1>5, <1>6, Zenon DEF Lays, Counts

(* What position k of row i attends to. *)
Context(b, i, k) == SubSeq(kv[b[i].req], 1, computed[b[i].req]) \o SubSeq(Tokens(b, i), 1, k)

(* A batch of N rows, each with at least one token more than it has drafts. *)
Packed(b, N) ==
  /\ DOMAIN b = 1 .. N
  /\ \A i \in 1 .. N :
       /\ b[i].sched \in Nat /\ Len(b[i].drafts) \in Nat /\ Len(b[i].drafts) < b[i].sched
       /\ Tokens(b, i) \in Seq(Vocab) /\ Len(Tokens(b, i)) = b[i].sched

(* Row i of the metadata m is row i of the batch: its drafts, each with the
   context it stands after, and the context of the bonus token. *)
Unpacks(b, m, i) ==
  LET n == Len(b[i].drafts)
      k == b[i].sched - n
  IN  /\ m.num_draft_tokens[i] = n
      /\ \A p \in 1 .. n : TargetOf(m, i, p) = Context(b, i, k - 1 + p) /\ DraftOf(m, i, p) = Tokens(b, i)[k + p]
      /\ m.bonus_logits[i] = Context(b, i, b[i].sched)

(* The index arithmetic of _calc_spec_decode_metadata is right for every mix
   of rows: no row reads a logit or a draft of another. *)
LEMMA MetadataUnpacks ==
  ASSUME NEW N \in Nat \ {0}, NEW b, Packed(b, N)
  PROVE  /\ SpecDecodeMetadata(b).num_draft_tokens \in [1 .. N -> Nat]
         /\ \A i \in 1 .. N : Unpacks(b, SpecDecodeMetadata(b), i)
<1> DEFINE n == [i \in 1 .. N |-> Len(b[i].drafts)]
           sampled == [i \in 1 .. N |-> n[i] + 1]
           sched == [i \in 1 .. N |-> b[i].sched]
           cu_scheduled == Cumsum(sched)
           cu_sampled == Cumsum(sampled)
           cu_drafts == Cumsum(n)
           lfirst == [i \in 1 .. N |-> cu_scheduled[i] - sampled[i]]
           tfirst == [i \in 1 .. N |-> cu_sampled[i] - sampled[i]]
           li == RepeatArange(lfirst, sampled)
           ti == RepeatArange(tfirst, n)
           m == SpecDecodeMetadata(b)
<1>1. DOMAIN b = 1 .. N
  BY Zenon DEF Packed
<1>2. /\ m.num_draft_tokens = n /\ m.cu_num_draft_tokens = cu_drafts
      /\ m.target_logits = [j \in DOMAIN ti |-> hidden_states(b)[li[ti[j] + 1] + 1]]
      /\ m.bonus_logits = [i \in 1 .. N |-> hidden_states(b)[li[cu_sampled[i] - 1 + 1] + 1]]
      /\ m.draft_token_ids = [j \in DOMAIN ti |-> input_ids(b)[li[ti[j] + 1 + 1] + 1]]
  BY <1>1, Zenon DEF SpecDecodeMetadata, target_logits_first
<1>3. ASSUME NEW i \in 1 .. N
      PROVE  n[i] \in Nat /\ sampled[i] = n[i] + 1 /\ sched[i] \in Nat /\ n[i] < sched[i]
  BY Zenon DEF Packed
<1>4. n \in [1 .. N -> Nat] /\ sampled \in [1 .. N -> Nat] /\ sched \in [1 .. N -> Nat]
  <2>1. \A i \in 1 .. N : n[i] + 1 \in Nat
    <3> HIDE DEF n
    <3> QED
      BY <1>3, SMT
  <2> QED
    BY <1>3, <2>1, Zenon
<1>5. hidden_states(b) = FlattenSeq([i \in 1 .. N |-> [k \in 1 .. b[i].sched |-> Context(b, i, k)]])
  BY <1>1, Zenon DEF hidden_states, Flat, Context
<1>6. input_ids(b) = FlattenSeq([i \in 1 .. N |-> Tokens(b, i)])
  BY <1>1, Zenon DEF input_ids, Flat
<1>7. ASSUME NEW i \in 1 .. N, NEW k \in 1 .. sched[i]
      PROVE  /\ hidden_states(b)[Start(cu_scheduled, i) + k] = Context(b, i, k)
             /\ input_ids(b)[Start(cu_scheduled, i) + k] = Tokens(b, i)[k]
  <2> DEFINE s == [j \in 1 .. N |-> [l \in 1 .. b[j].sched |-> Context(b, j, l)]]
             X == UNION {{Context(b, j, l) : l \in Nat} : j \in 1 .. N}
             u == [j \in 1 .. N |-> Tokens(b, j)]
  <2>1. ASSUME NEW j \in 1 .. N PROVE s[j] \in Seq(X) /\ Len(s[j]) = sched[j]
    <3>1. b[j].sched \in Nat /\ sched[j] = b[j].sched
      BY Zenon DEF Packed
    <3>2. s[j] = [l \in 1 .. b[j].sched |-> Context(b, j, l)]
      BY Zenon
    <3>3. \A l \in 1 .. b[j].sched : Context(b, j, l) \in X
      <4>1. \A l \in 1 .. b[j].sched : l \in Nat
        BY <3>1, SMT
      <4>2. {Context(b, j, l) : l \in Nat} \in {{Context(b, h, l) : l \in Nat} : h \in 1 .. N}
        BY Zenon
      <4>3. \A l \in Nat : Context(b, j, l) \in {Context(b, j, q) : q \in Nat}
        BY Zenon
      <4> QED
        BY <4>1, <4>2, <4>3, Zenon
    <3> HIDE DEF X
    <3>4. s[j] \in [1 .. b[j].sched -> X]
      BY <3>2, <3>3, Zenon
    <3> HIDE DEF s, sched
    <3> QED
      BY <3>1, <3>4, SeqByLen, Zenon
  <2>2. s \in [1 .. N -> Seq(X)]
    <3> HIDE DEF X
    <3> QED
      BY <2>1, Zenon
  <2>3. s[i][k] = Context(b, i, k)
    BY Zenon
  <2>4. u \in [1 .. N -> Seq(Vocab)] /\ \A j \in 1 .. N : sched[j] = Len(u[j])
    BY Zenon DEF Packed
  <2>5. u[i][k] = Tokens(b, i)[k]
    BY Zenon
  <2> HIDE DEF s, X, u
  <2>6. Lays(X, N, sched, s, FlattenSeq(s))
    BY <1>4, <2>1, <2>2, Flattened, Zenon
  <2>7. Lays(Vocab, N, sched, u, FlattenSeq(u))
    BY <1>4, <2>4, Flattened, Zenon
  <2>8. hidden_states(b) = FlattenSeq(s) /\ input_ids(b) = FlattenSeq(u)
    BY <1>5, <1>6, Zenon DEF s, u
  <2> QED
    BY <2>3, <2>5, <2>6, <2>7, <2>8, Zenon DEF Lays
<1>8. /\ cu_sampled \in [1 .. N -> Nat]
      /\ \A i \in 1 .. N : Start(cu_sampled, i) \in Nat /\ cu_sampled[i] = Start(cu_sampled, i) + sampled[i]
  <2> HIDE DEF sampled
  <2> QED
    BY <1>4, CumsumSteps, Zenon
<1>9. /\ cu_scheduled \in [1 .. N -> Nat]
      /\ \A i \in 1 .. N : Start(cu_scheduled, i) \in Nat /\ cu_scheduled[i] = Start(cu_scheduled, i) + sched[i]
  <2> HIDE DEF sched
  <2> QED
    BY <1>4, CumsumSteps, Zenon
<1>10. \A i \in 1 .. N : \A p \in 1 .. n[i] : Start(cu_drafts, i) + p \in 1 .. cu_drafts[N]
  <2> HIDE DEF n
  <2> QED
    BY <1>4, CellInside, Zenon
<1> HIDE DEF n, sched, sampled, cu_scheduled, cu_sampled, cu_drafts
<1>11. ASSUME NEW i \in 1 .. N
       PROVE  cu_scheduled[i] - sampled[i] \in Int /\ cu_sampled[i] - sampled[i] \in Int
  <2>1. cu_scheduled[i] \in Nat /\ cu_sampled[i] \in Nat /\ sampled[i] \in Nat
    BY <1>4, <1>8, <1>9, Zenon
  <2> QED
    BY <2>1, SMT
<1>12. Counts(N, sampled, lfirst, li) /\ Counts(N, n, tfirst, ti)
  <2>1. lfirst \in [1 .. N -> Int] /\ tfirst \in [1 .. N -> Int]
    BY <1>11, Zenon
  <2> HIDE DEF lfirst, tfirst
  <2> QED
    BY <1>4, <2>1, Repeated, Zenon
<1>13. ASSUME NEW i \in 1 .. N, NEW p \in 1 .. n[i] + 1
       PROVE  /\ li[Start(cu_sampled, i) + p] + 1 = Start(cu_scheduled, i) + (b[i].sched - n[i] - 1 + p)
              /\ b[i].sched - n[i] - 1 + p \in 1 .. sched[i]
  <2>1. /\ n[i] \in Nat /\ sampled[i] = n[i] + 1 /\ sched[i] \in Nat /\ n[i] < sched[i]
        /\ b[i].sched = sched[i]
    BY <1>3, Zenon DEF sched
  <2>2. cu_scheduled[i] = Start(cu_scheduled, i) + sched[i] /\ Start(cu_scheduled, i) \in Nat
    BY <1>9, Zenon
  <2>3. lfirst[i] = cu_scheduled[i] - sampled[i]
    BY Zenon
  <2>4. p \in 1 .. sampled[i]
    BY <2>1, Zenon
  <2>5. li[Start(cu_sampled, i) + p] = lfirst[i] + p - 1
    <3> HIDE DEF li, lfirst
    <3> QED
      BY <1>12, <2>4, Zenon DEF Counts, cu_sampled
  <2> HIDE DEF li, lfirst
  <2>6. b[i].sched - n[i] - 1 + p \in 1 .. sched[i]
    BY <2>1, SMT
  <2>7. li[Start(cu_sampled, i) + p] + 1 = Start(cu_scheduled, i) + (sched[i] - n[i] - 1 + p)
    BY <2>1, <2>2, <2>3, <2>5, SMT
  <2> QED
    BY <2>1, <2>6, <2>7, Zenon
<1>14. ASSUME NEW i \in 1 .. N, NEW p \in 1 .. n[i]
       PROVE  /\ Start(cu_drafts, i) + p \in DOMAIN ti
              /\ ti[Start(cu_drafts, i) + p] + 1 = Start(cu_sampled, i) + p
  <2>1. n[i] \in Nat /\ cu_sampled[i] = Start(cu_sampled, i) + sampled[i] /\ Start(cu_sampled, i) \in Nat
    BY <1>3, <1>8, Zenon
  <2>2. tfirst[i] = cu_sampled[i] - sampled[i] /\ sampled[i] \in Nat
    BY <1>4, Zenon
  <2>3. ti[Start(cu_drafts, i) + p] = tfirst[i] + p - 1 /\ Start(cu_drafts, i) + p \in DOMAIN ti
    <3> HIDE DEF ti, tfirst
    <3> QED
      BY <1>10, <1>12, Zenon DEF Counts, cu_drafts
  <2> HIDE DEF ti, tfirst
  <2> QED
    BY <2>1, <2>2, <2>3, SMT
<1> HIDE DEF li, ti, m
<1>15. ASSUME NEW i \in 1 .. N PROVE Unpacks(b, m, i)
  <2> DEFINE k == sched[i] - n[i]
  <2>0. n[i] = Len(b[i].drafts) /\ n[i] \in Nat /\ m.num_draft_tokens[i] = n[i] /\ sched[i] = b[i].sched
    BY <1>2, <1>3, Zenon DEF n, sched
  <2>1. sched[i] \in Nat /\ n[i] < sched[i]
    BY <1>3, Zenon
  <2>5. ASSUME NEW q \in 1 .. n[i] + 1, NEW c \in 1 .. sched[i], c = sched[i] - n[i] - 1 + q
        PROVE  /\ hidden_states(b)[li[Start(cu_sampled, i) + q] + 1] = Context(b, i, c)
               /\ input_ids(b)[li[Start(cu_sampled, i) + q] + 1] = Tokens(b, i)[c]
    <3>1. li[Start(cu_sampled, i) + q] + 1 = Start(cu_scheduled, i) + c
      BY <1>13, <2>0, <2>5, Zenon
    <3>2. /\ hidden_states(b)[Start(cu_scheduled, i) + c] = Context(b, i, c)
          /\ input_ids(b)[Start(cu_scheduled, i) + c] = Tokens(b, i)[c]
      BY <1>7, Zenon
    <3> QED
      BY <3>1, <3>2, Zenon
  <2>6. ASSUME NEW p \in 1 .. n[i]
        PROVE  /\ TargetOf(m, i, p) = hidden_states(b)[li[Start(cu_sampled, i) + p] + 1]
               /\ DraftOf(m, i, p) = input_ids(b)[li[Start(cu_sampled, i) + p + 1] + 1]
    <3> DEFINE j == Start(cu_drafts, i) + p
    <3>1. j \in DOMAIN ti /\ ti[j] + 1 = Start(cu_sampled, i) + p
      BY <1>14, Zenon
    <3>2. TargetOf(m, i, p) = m.target_logits[j] /\ DraftOf(m, i, p) = m.draft_token_ids[j]
      BY <1>2, Zenon DEF TargetOf, DraftOf
    <3> HIDE DEF j
    <3>3. /\ m.target_logits[j] = hidden_states(b)[li[ti[j] + 1] + 1]
          /\ m.draft_token_ids[j] = input_ids(b)[li[ti[j] + 1 + 1] + 1]
      BY <1>2, <3>1, Zenon
    <3> QED
      BY <3>1, <3>2, <3>3, Zenon
  <2>2. ASSUME NEW p \in 1 .. n[i] PROVE TargetOf(m, i, p) = Context(b, i, k - 1 + p)
    <3>1. p \in 1 .. n[i] + 1 /\ k - 1 + p \in 1 .. sched[i]
      <4>1. n[i] \in Nat /\ sched[i] \in Nat /\ n[i] < sched[i]
        BY <2>0, <2>1, Zenon
      <4>2. ASSUME NEW x \in Nat, NEW y \in Nat, x < y, NEW q \in 1 .. x
            PROVE  q \in 1 .. x + 1 /\ y - x - 1 + q \in 1 .. y
        BY <4>2, SMT
      <4> QED
        BY <4>1, <4>2, Zenon
    <3> QED
      <4>1. hidden_states(b)[li[Start(cu_sampled, i) + p] + 1] = Context(b, i, k - 1 + p)
        BY <2>5, <3>1, Zenon
      <4> QED
        BY <2>6, <4>1, Zenon
  <2>3. ASSUME NEW p \in 1 .. n[i] PROVE DraftOf(m, i, p) = Tokens(b, i)[k + p]
    <3>1. p + 1 \in 1 .. n[i] + 1 /\ k + p \in 1 .. sched[i] /\ k + p = sched[i] - n[i] - 1 + (p + 1)
      BY <2>0, <2>1, SMT
    <3>2. input_ids(b)[li[Start(cu_sampled, i) + (p + 1)] + 1] = Tokens(b, i)[k + p]
      BY <2>5, <3>1, Zenon
    <3>3. Start(cu_sampled, i) + p + 1 = Start(cu_sampled, i) + (p + 1)
      BY <1>8, <2>0, SMT
    <3> QED
      BY <2>6, <3>2, <3>3, Zenon
  <2>4. m.bonus_logits[i] = Context(b, i, b[i].sched)
    <3>1. /\ n[i] + 1 \in 1 .. n[i] + 1 /\ sched[i] \in 1 .. sched[i]
          /\ sched[i] = sched[i] - n[i] - 1 + (n[i] + 1)
      BY <2>0, <2>1, SMT
    <3>2. m.bonus_logits[i] = hidden_states(b)[li[cu_sampled[i] - 1 + 1] + 1]
      BY <1>2, Zenon
    <3>3. cu_sampled[i] - 1 + 1 = Start(cu_sampled, i) + (n[i] + 1)
      <4>1. cu_sampled[i] = Start(cu_sampled, i) + sampled[i] /\ sampled[i] = n[i] + 1 /\ Start(cu_sampled, i) \in Nat
        BY <1>3, <1>8, Zenon
      <4> QED
        BY <2>0, <4>1, SMT
    <3>4. hidden_states(b)[li[Start(cu_sampled, i) + (n[i] + 1)] + 1] = Context(b, i, sched[i])
      BY <2>5, <3>1, Zenon
    <3> QED
      BY <2>0, <3>2, <3>3, <3>4, Zenon
  <2> QED
    BY <2>0, <2>2, <2>3, <2>4, Zenon DEF Unpacks
<1> QED
  BY <1>2, <1>4, <1>15, Zenon DEF m

-----------------------------------------------------------------------------
(* One row of the rejection sampler's output. *)

(* What the theorems assume of a deployment: finitely many requests, with
   prompts of tokens that fit the model, and a target model that chooses
   tokens.  The draft model, the batches, the stop token and the requests'
   max_tokens are arbitrary. *)
Setting ==
  /\ IsFiniteSet(Reqs) /\ Vocab \subseteq Nat
  /\ NumSpec \in Nat /\ MaxModelLen \in Nat /\ MaxPreemptions \in Nat
  /\ Prompt \in [Reqs -> Seq(Vocab)]
  /\ \A r \in Reqs : Len(Prompt[r]) \in 1 .. MaxModelLen
  /\ \A s \in Seq(Vocab) : Argmax(s) \in Vocab /\ Support(s) \subseteq Vocab

(* The padded output is as wide as the longest row of drafts needs. *)
LEMMA WidestRow ==
  ASSUME NEW N \in Nat \ {0}, NEW n \in [1 .. N -> Nat]
  PROVE  Max(Range(n)) \in Nat /\ \A i \in 1 .. N : n[i] <= Max(Range(n))
<1> DEFINE B == Cumsum(n)[N]
<1>1. B \in Nat /\ \A i \in 1 .. N : n[i] <= B
  <2>1. N \in Nat /\ N \in 1 .. N
    BY SMT
  <2>2. Cumsum(n) \in [1 .. N -> Nat] /\ \A i \in 1 .. N : Start(Cumsum(n), i) \in Nat /\ Cumsum(n)[i] = Start(Cumsum(n), i) + n[i]
    BY <2>1, CumsumSteps, Zenon
  <2>3. \A m \in 1 .. N : \A i \in 1 .. m : Cumsum(n)[i] <= Cumsum(n)[m]
    BY <2>1, CumsumOrder, Zenon
  <2>4. ASSUME NEW i \in 1 .. N PROVE n[i] <= B
    <3>1. Cumsum(n)[i] <= B /\ n[i] \in Nat /\ Start(Cumsum(n), i) \in Nat /\ Cumsum(n)[i] = Start(Cumsum(n), i) + n[i] /\ B \in Nat
      BY <2>1, <2>2, <2>3, Zenon
    <3> QED
      BY <3>1, SMT
  <2>5. B \in Nat
    BY <2>1, <2>2, Zenon
  <2> QED
    BY <2>4, <2>5, Zenon
<1> HIDE DEF B
<1>2. Range(n) = {n[i] : i \in 1 .. N}
  BY Zenon DEF Range
<1>3. Range(n) \in SUBSET (0 .. B)
  BY <1>1, <1>2, SMT
<1>4. n[1] \in Range(n) /\ \A i \in 1 .. N : n[i] \in Range(n)
  <2>1. 1 \in 1 .. N
    BY SMT
  <2> QED
    BY <1>2, <2>1, Zenon
<1>5. Max(Range(n)) \in Range(n) /\ \A y \in Range(n) : y <= Max(Range(n))
  BY <1>1, <1>3, <1>4, MaxIsLargest, Zenon
<1>6. Max(Range(n)) \in Nat
  BY <1>1, <1>3, <1>5, SMT
<1> QED
  BY <1>4, <1>5, <1>6, Zenon

(* parse_output takes the padding off again. *)
LEMMA ValidIsRow ==
  ASSUME Setting, NEW W \in Nat, NEW row \in Seq(Vocab), Len(row) <= W
  PROVE  Valid([c \in 1 .. W |-> IF c \in DOMAIN row THEN row[c] ELSE PLACEHOLDER_TOKEN_ID]) = row
<1> DEFINE out == [c \in 1 .. W |-> IF c \in DOMAIN row THEN row[c] ELSE PLACEHOLDER_TOKEN_ID]
           L == Len(row)
           Kept(x, c) == IF out[c] # PLACEHOLDER_TOKEN_ID /\ out[c] \in Vocab THEN Append(x, out[c]) ELSE x
           Keeps(f) == f = [c \in 0 .. W |-> IF c = 0 THEN <<>> ELSE Kept(f[c - 1], c)]
           kept == CHOOSE f : Keeps(f)
<1>1. L \in Nat /\ DOMAIN row = 1 .. L /\ L <= W
  BY LenProperties, Zenon
<1>0. ASSUME NEW c \in 1 .. W PROVE out[c] = IF c \in DOMAIN row THEN row[c] ELSE PLACEHOLDER_TOKEN_ID
  BY Zenon
<1>2. Len(out) = W
  <2>1. out \in [1 .. W -> Vocab \cup {PLACEHOLDER_TOKEN_ID}]
    BY SMT
  <2> QED
    BY <2>1, SeqByLen, Zenon
<1> HIDE DEF out
<1>3. Valid(out) = kept[W]
  BY <1>2, Zenon DEF Valid
<1>4. \E f : Keeps(f)
  <2> DEFINE next == [c \in 1 .. W |-> [x \in Seq(Vocab) |-> Kept(x, c)]]
  <2>1. \A c \in 1 .. W : \A x \in Seq(Vocab) : Kept(x, c) \in Seq(Vocab)
    BY SMT
  <2> HIDE DEF Kept
  <2>2. next \in [1 .. W -> [Seq(Vocab) -> Seq(Vocab)]] /\ \A x \in Seq(Vocab), c \in 1 .. W : next[c][x] = Kept(x, c)
    BY <2>1, Zenon
  <2> HIDE DEF next
  <2>3. <<>> \in Seq(Vocab)
    BY EmptySeq, Zenon
  <2>4. PICK f : Built(f, W, Seq(Vocab), <<>>, next)
    BY <2>2, <2>3, Recursion, Zenon
  <2>5. ASSUME NEW c \in 0 .. W PROVE f[c] = IF c = 0 THEN <<>> ELSE Kept(f[c - 1], c)
    <3>1. CASE c = 0
      BY <2>4, <3>1, Zenon DEF Built
    <3>2. CASE c # 0
      <4>1. c \in 1 .. W /\ c - 1 \in 0 .. W
        BY <3>2, SMT
      <4>2. f[c - 1] \in Seq(Vocab)
        BY <2>4, <4>1, Zenon DEF Built
      <4> QED
        BY <2>2, <2>4, <3>2, <4>1, <4>2, Zenon DEF Built
    <3> QED
      BY <3>1, <3>2, Zenon
  <2>6. Keeps(f)
    BY <2>4, <2>5, Zenon DEF Built
  <2> QED
    BY <2>6, Zenon
<1>5. Keeps(kept)
  BY <1>4, Zenon
<1> HIDE DEF kept
<1>6. kept[0] = <<>>
  <2>1. 0 \in 0 .. W
    BY SMT
  <2> QED
    BY <1>5, <2>1, Zenon
<1>7. ASSUME NEW c \in 1 .. W PROVE kept[c] = Kept(kept[c - 1], c)
  <2>1. c \in 0 .. W /\ c # 0
    BY SMT
  <2> QED
    BY <1>5, <2>1, Zenon
<1>8. ASSUME NEW c \in 1 .. W
      PROVE  /\ c <= L => Kept(kept[c - 1], c) = Append(kept[c - 1], row[c])
             /\ ~(c <= L) => Kept(kept[c - 1], c) = kept[c - 1]
  <2>1. CASE c <= L
    <3>1. c \in DOMAIN row /\ row[c] \in Vocab
      BY <1>1, <2>1, SMT
    <3>2. out[c] = row[c] /\ out[c] # PLACEHOLDER_TOKEN_ID
      BY <1>0, <3>1, SMT DEF Setting, PLACEHOLDER_TOKEN_ID
    <3> QED
      BY <2>1, <3>1, <3>2, Zenon
  <2>2. CASE ~(c <= L)
    <3>1. c \notin DOMAIN row
      BY <1>1, <2>2, SMT
    <3>2. out[c] = PLACEHOLDER_TOKEN_ID
      BY <1>0, <3>1, Zenon
    <3> QED
      BY <2>2, <3>2, Zenon
  <2> QED
    BY <2>1, <2>2, Zenon
<1> HIDE DEF Kept, L
<1> DEFINE T == {c \in Nat : c <= W => (c <= L => kept[c] = SubSeq(row, 1, c)) /\ (~(c <= L) => kept[c] = row)}
<1>9. 0 \in T
  <2>1. SubSeq(row, 1, 0) = <<>>
    BY SMT
  <2>2. 0 \in Nat /\ 0 <= L
    BY <1>1, SMT
  <2> QED
    BY <1>6, <2>1, <2>2, Zenon
<1>10. ASSUME NEW c \in Nat, c \in T PROVE c + 1 \in T
  <2>0. c + 1 \in Nat
    BY SMT
  <2>1. SUFFICES ASSUME c + 1 <= W
                 PROVE  /\ c + 1 <= L => kept[c + 1] = SubSeq(row, 1, c + 1)
                        /\ ~(c + 1 <= L) => kept[c + 1] = row
    BY <2>0, Zenon
  <2>2. c <= W /\ c + 1 \in 1 .. W /\ (c + 1) - 1 = c
    BY <2>1, SMT
  <2>3. (c <= L => kept[c] = SubSeq(row, 1, c)) /\ (~(c <= L) => kept[c] = row)
    BY <1>10, <2>2, Zenon
  <2>4. kept[c + 1] = Kept(kept[(c + 1) - 1], c + 1)
    BY <1>7, <2>2, Zenon
  <2>5. CASE c + 1 <= L
    <3>1. c <= L /\ c \in 0 .. Len(row) - 1
      BY <1>1, <2>5, SMT DEF L
    <3>2. kept[c + 1] = Append(kept[(c + 1) - 1], row[c + 1])
      BY <1>8, <2>2, <2>4, <2>5, Zenon
    <3>3. SubSeq(row, 1, c + 1) = Append(SubSeq(row, 1, c), row[c + 1])
      BY <3>1, PrefixGrows, Zenon
    <3> QED
      BY <2>2, <2>3, <2>5, <3>1, <3>2, <3>3, Zenon
  <2>6. CASE ~(c + 1 <= L)
    <3>1. kept[c + 1] = kept[(c + 1) - 1]
      BY <1>8, <2>2, <2>4, <2>6, Zenon
    <3>2. CASE c = L
      <4>1. SubSeq(row, 1, L) = row
        BY SubSeqFull, Zenon DEF L
      <4>2. c <= L
        BY <1>1, <3>2, SMT
      <4> QED
        BY <2>2, <2>3, <2>6, <3>1, <3>2, <4>1, <4>2, Zenon
    <3>3. CASE c # L
      <4>1. ~(c <= L)
        BY <1>1, <2>6, <3>3, SMT
      <4> QED
        BY <2>2, <2>3, <2>6, <3>1, <4>1, Zenon
    <3> QED
      BY <3>2, <3>3, Zenon
  <2> QED
    BY <2>5, <2>6, Zenon
<1>11. W \in T
  <2> HIDE DEF T
  <2> QED
    BY <1>9, <1>10, NatSetInduction, Zenon
<1>12. (W <= L => kept[W] = SubSeq(row, 1, W)) /\ (~(W <= L) => kept[W] = row)
  <2>1. W <= W
    BY SMT
  <2> QED
    BY <1>11, <2>1, Zenon
<1>13. ASSUME W <= L PROVE Valid(out) = row
  <2>1. W = L
    <3>1. ASSUME NEW x \in Nat, NEW y \in Nat, x <= y, y <= x PROVE x = y
      BY <3>1, SMT
    <3> QED
      BY <1>1, <1>13, <3>1, Zenon
  <2>2. SubSeq(row, 1, L) = row
    BY SubSeqFull, Zenon DEF L
  <2> QED
    BY <1>3, <1>12, <1>13, <2>1, <2>2, Zenon
<1> QED
  BY <1>3, <1>12, <1>13, Zenon DEF out

(* Row i of the metadata m holds the drafts d of a request whose tokens are s,
   each draft with the tokens before it as context. *)
Faces(m, i, s, d) ==
  /\ s \in Seq(Vocab) /\ d \in Seq(Vocab) /\ m.num_draft_tokens[i] = Len(d)
  /\ \A p \in 1 .. Len(d) : DraftOf(m, i, p) = d[p] /\ TargetOf(m, i, p) = s \o SubSeq(d, 1, p - 1)
  /\ m.bonus_logits[i] = s \o SubSeq(d, 1, Len(d))

(* A verified row: drafts up to some position, and there a token; every token
   of it one that the target may choose after those before it. *)
Verified(r, s, d, row) ==
  /\ row \in Seq(Vocab) /\ Len(row) \in 1 .. Len(d) + 1
  /\ \A p \in 1 .. Len(row) - 1 : row[p] = d[p]
  /\ \A p \in 1 .. Len(row) : row[p] \in Chooses(r, s \o SubSeq(d, 1, p - 1))

(* The context of every draft, and of the bonus token, is a token sequence. *)
LEMMA ContextTyped ==
  ASSUME NEW s \in Seq(Vocab), NEW d \in Seq(Vocab), NEW p \in 1 .. Len(d) + 1
  PROVE  s \o SubSeq(d, 1, p - 1) \in Seq(Vocab)
<1>1. p - 1 \in 0 .. Len(d)
  BY SMT
<1>2. SubSeq(d, 1, p - 1) \in Seq(Vocab)
  BY <1>1, Prefix, Zenon
<1> QED
  BY <1>2, SMT

(* A row of l tokens, the last one t. *)
LEMMA RowOfTokens ==
  ASSUME NEW r, NEW s \in Seq(Vocab), NEW d \in Seq(Vocab), NEW a \in 0 .. Len(d),
         NEW row, row \in [1 .. a + 1 -> Vocab], \A p \in 1 .. a : row[p] = d[p],
         \A p \in 1 .. a + 1 : row[p] \in Chooses(r, s \o SubSeq(d, 1, p - 1))
  PROVE  Verified(r, s, d, row)
<1>1. a + 1 \in Nat /\ a + 1 \in 1 .. Len(d) + 1 /\ (a + 1) - 1 = a
  BY SMT
<1>2. row \in Seq(Vocab) /\ Len(row) = a + 1
  BY <1>1, SeqByLen, Zenon
<1> QED
  BY <1>1, <1>2, Zenon DEF Verified

(* Random rows: drafts the target may choose, then a token it may choose. *)
LEMMA RandomVerifies ==
  ASSUME Setting, NEW r \in Reqs \ Greedy, NEW m, NEW i, NEW s, NEW d, Faces(m, i, s, d),
         NEW row \in rejection_random(m, i)
  PROVE  Verified(r, s, d, row)
<1> DEFINE n == Len(d)
           Ctx(p) == s \o SubSeq(d, 1, p - 1)
<1>0. s \in Seq(Vocab) /\ d \in Seq(Vocab) /\ m.num_draft_tokens[i] = n
  BY Zenon DEF Faces
<1>1. n \in Nat /\ \A p \in 1 .. n : d[p] \in Vocab
  BY <1>0, SMT
<1>2. \A p \in 1 .. n : DraftOf(m, i, p) = d[p] /\ TargetOf(m, i, p) = Ctx(p)
  BY Zenon DEF Faces
<1>3. m.bonus_logits[i] = Ctx(n + 1)
  <2>1. (n + 1) - 1 = n
    BY <1>1, SMT
  <2> QED
    BY <2>1, Zenon DEF Faces
<1>4. \A p \in 1 .. n + 1 : Ctx(p) \in Seq(Vocab)
  BY <1>0, ContextTyped, Zenon
<1> HIDE DEF n, Ctx
<1>5. PICK a \in 0 .. n : /\ \A p \in 1 .. a : DraftOf(m, i, p) \in Support(TargetOf(m, i, p))
                          /\ \E t \in IF a = n THEN Support(m.bonus_logits[i])
                                      ELSE Support(TargetOf(m, i, a + 1)) \ {DraftOf(m, i, a + 1)} :
                               row = Append([p \in 1 .. a |-> DraftOf(m, i, p)], t)
  BY <1>0, Zenon DEF rejection_random
<1>6. a \in Nat /\ a + 1 \in 1 .. n + 1 /\ (a # n => a + 1 \in 1 .. n) /\ (\A p \in 1 .. a : p \in 1 .. n)
  BY <1>1, SMT
<1>7. PICK t \in Support(Ctx(a + 1)) : row = Append([p \in 1 .. a |-> DraftOf(m, i, p)], t)
  <2>1. CASE a = n
    BY <1>3, <1>5, <2>1, Zenon
  <2>2. CASE a # n
    <3>1. TargetOf(m, i, a + 1) = Ctx(a + 1)
      BY <1>2, <1>6, <2>2, Zenon
    <3> QED
      BY <1>5, <2>2, <3>1, Zenon
  <2> QED
    BY <2>1, <2>2, Zenon
<1>8. t \in Vocab
  BY <1>4, <1>6, <1>7, Zenon DEF Setting
<1>9. [p \in 1 .. a |-> DraftOf(m, i, p)] = [p \in 1 .. a |-> d[p]]
  BY <1>2, <1>6, Zenon
<1>10. /\ row \in [1 .. a + 1 -> Vocab] /\ row[a + 1] = t
       /\ \A p \in 1 .. a : row[p] = d[p]
  <2> DEFINE f == [p \in 1 .. a |-> d[p]]
  <2>1. f \in [1 .. a -> Vocab] /\ \A p \in 1 .. a : f[p] = d[p]
    BY <1>1, <1>6, Zenon
  <2>2. row = Append(f, t)
    BY <1>7, <1>9, Zenon
  <2> HIDE DEF f
  <2>3. f \in Seq(Vocab) /\ Len(f) = a
    BY <1>6, <2>1, SeqByLen, Zenon
  <2>4. /\ Append(f, t) \in [1 .. a + 1 -> Vocab] /\ Append(f, t)[a + 1] = t
        /\ \A p \in 1 .. a : Append(f, t)[p] = f[p]
    <3>1. Adds(Vocab, a, f, t, Append(f, t))
      BY <1>8, <2>3, Appended, Zenon
    <3> QED
      BY <3>1, Zenon DEF Adds
  <2> QED
    BY <2>1, <2>2, <2>4, Zenon
<1>11. ASSUME NEW p \in 1 .. a + 1 PROVE row[p] \in Chooses(r, Ctx(p))
  <2>1. CASE p = a + 1
    BY <1>7, <1>10, <2>1, Zenon DEF Chooses
  <2>2. CASE p # a + 1
    <3>1. p \in 1 .. a /\ p \in 1 .. n
      BY <1>6, <2>2, SMT
    <3>2. row[p] \in Support(Ctx(p))
      BY <1>2, <1>5, <1>10, <3>1, Zenon
    <3> QED
      BY <3>2, Zenon DEF Chooses
  <2> QED
    BY <2>1, <2>2, Zenon
<1> QED
  BY <1>0, <1>10, <1>11, RowOfTokens, Zenon DEF n, Ctx

(* Greedy rows: the target's own choices, which are the drafts but the last. *)
LEMMA GreedyVerifies ==
  ASSUME Setting, NEW r \in Greedy, NEW m, NEW i, NEW s, NEW d, Faces(m, i, s, d),
         NEW row \in rejection_greedy(m, i)
  PROVE  Verified(r, s, d, row)
<1> DEFINE n == Len(d)
           Ctx(p) == s \o SubSeq(d, 1, p - 1)
           Agrees(p) == DraftOf(m, i, p) = Argmax(TargetOf(m, i, p))
           K == {p \in 0 .. n : \A q \in 1 .. p - 1 : Agrees(q)}
           kept == Max(K)
           choice == [p \in 1 .. kept |-> Argmax(TargetOf(m, i, p))]
<1>0. s \in Seq(Vocab) /\ d \in Seq(Vocab) /\ m.num_draft_tokens[i] = n
  BY Zenon DEF Faces
<1>1. n \in Nat /\ \A p \in 1 .. n : d[p] \in Vocab
  BY <1>0, SMT
<1>2. \A p \in 1 .. n : DraftOf(m, i, p) = d[p] /\ TargetOf(m, i, p) = Ctx(p)
  BY Zenon DEF Faces
<1>3. m.bonus_logits[i] = Ctx(n + 1)
  <2>1. (n + 1) - 1 = n
    BY <1>1, SMT
  <2> QED
    BY <2>1, Zenon DEF Faces
<1>4. \A p \in 1 .. n + 1 : Ctx(p) \in Seq(Vocab)
  BY <1>0, ContextTyped, Zenon
<1>5. row = choice \o (IF \A p \in 1 .. n : Agrees(p) THEN <<Argmax(m.bonus_logits[i])>> ELSE <<>>)
  BY <1>0, Zenon DEF rejection_greedy
<1> HIDE DEF n, Ctx
<1>6. kept \in K /\ \A p \in K : p <= kept
  <2>1. K \in SUBSET (0 .. n)
    BY Zenon
  <2>2. K # {}
    <3>1. 0 \in 0 .. n /\ \A q \in 1 .. 0 - 1 : Agrees(q)
      BY <1>1, SMT
    <3> QED
      BY <3>1, Zenon
  <2> HIDE DEF K
  <2> QED
    BY <1>1, <2>1, <2>2, MaxIsLargest, Zenon
<1> HIDE DEF kept
<1>7. kept \in 0 .. n /\ \A q \in 1 .. kept - 1 : Agrees(q)
  BY <1>6, Zenon
<1>8. \A p \in 1 .. n : Argmax(TargetOf(m, i, p)) = Argmax(Ctx(p)) /\ Argmax(Ctx(p)) \in Vocab
  <2>1. \A p \in 1 .. n : p \in 1 .. n + 1
    BY <1>1, SMT
  <2> QED
    BY <1>2, <1>4, <2>1, Zenon DEF Setting
<1>9. Argmax(Ctx(n + 1)) \in Vocab
  <2>1. n + 1 \in 1 .. n + 1
    BY <1>1, SMT
  <2> QED
    BY <1>4, <2>1, Zenon DEF Setting
<1>10. /\ choice \in [1 .. kept -> Vocab] /\ \A p \in 1 .. kept : choice[p] = Argmax(Ctx(p))
  <2>1. \A p \in 1 .. kept : p \in 1 .. n
    BY <1>1, <1>7, SMT
  <2> QED
    BY <1>8, <2>1, Zenon
<1>11. CASE \A p \in 1 .. n : Agrees(p)
  <2>1. kept = n
    <3>1. n \in 0 .. n /\ \A q \in 1 .. n - 1 : q \in 1 .. n
      BY <1>1, SMT
    <3>2. n \in K
      BY <1>11, <3>1, Zenon
    <3>3. n <= kept
      BY <1>6, <3>2, Zenon
    <3> QED
      BY <1>1, <1>7, <3>3, SMT
  <2>2. row = choice \o <<Argmax(Ctx(n + 1))>>
    BY <1>3, <1>5, <1>11, Zenon
  <2> DEFINE t == Argmax(Ctx(n + 1))
  <2>3. choice \in [1 .. n -> Vocab] /\ \A p \in 1 .. n : choice[p] = Argmax(Ctx(p))
    BY <1>10, <2>1, Zenon
  <2>4. \A p \in 1 .. n : choice[p] = d[p]
    BY <1>2, <1>11, <2>3, Zenon
  <2> HIDE DEF choice, t
  <2>5. choice \in Seq(Vocab) /\ Len(choice) = n
    BY <1>1, <2>3, SeqByLen, Zenon
  <2>6. t \in Vocab /\ row = choice \o <<t>>
    BY <1>9, <2>2, Zenon DEF t
  <2>7. /\ choice \o <<t>> \in [1 .. n + 1 -> Vocab] /\ (choice \o <<t>>)[n + 1] = t
        /\ \A p \in 1 .. n : (choice \o <<t>>)[p] = choice[p]
    <3>1. Adds(Vocab, n, choice, t, choice \o <<t>>)
      BY <2>5, <2>6, Appended, Zenon
    <3> QED
      BY <3>1, Zenon DEF Adds
  <2>8. ASSUME NEW p \in 1 .. n + 1 PROVE row[p] \in Chooses(r, Ctx(p))
    <3>1. CASE p = n + 1
      <4>1. row[p] = Argmax(Ctx(p))
        BY <2>6, <2>7, <3>1, Zenon DEF t
      <4> QED
        BY <4>1, Zenon DEF Chooses
    <3>2. CASE p # n + 1
      <4>1. p \in 1 .. n
        BY <1>1, <3>2, SMT
      <4>2. row[p] = Argmax(Ctx(p))
        BY <2>3, <2>6, <2>7, <4>1, Zenon
      <4> QED
        BY <4>2, Zenon DEF Chooses
    <3> QED
      BY <3>1, <3>2, Zenon
  <2>9. row \in [1 .. n + 1 -> Vocab] /\ \A p \in 1 .. n : row[p] = d[p]
    BY <2>4, <2>6, <2>7, Zenon
  <2>10. n \in 0 .. n
    BY <1>1, SMT
  <2> QED
    BY <1>0, <2>8, <2>9, <2>10, RowOfTokens, Zenon DEF n, Ctx
<1>12. CASE ~(\A p \in 1 .. n : Agrees(p))
  <2>1. kept # 0
    <3>1. n # 0
      BY <1>1, <1>12, SMT
    <3>2. 1 \in 0 .. n /\ \A q \in 1 .. 1 - 1 : Agrees(q)
      BY <1>1, <3>1, SMT
    <3>3. 1 \in K
      BY <3>2, Zenon
    <3>4. 1 <= kept
      BY <1>6, <3>3, Zenon
    <3> QED
      BY <1>7, <3>4, SMT
  <2>2. row = choice
    <3>1. kept \in Nat
      BY <1>1, <1>7, SMT
    <3>2. row = choice \o <<>>
      BY <1>5, <1>12, Zenon
    <3> HIDE DEF choice
    <3>3. choice \in Seq(Vocab)
      BY <1>10, <3>1, SeqByLen, Zenon
    <3> QED
      BY <3>2, <3>3, ConcatEmptySeq, Zenon
  <2> DEFINE a == kept - 1
  <2>3. a \in 0 .. n /\ a + 1 = kept /\ \A p \in 1 .. a : p \in 1 .. kept /\ p \in 1 .. n
    BY <1>1, <1>7, <2>1, SMT
  <2>4. row \in [1 .. kept -> Vocab] /\ \A p \in 1 .. kept : row[p] = Argmax(Ctx(p))
    BY <1>10, <2>2, Zenon
  <2>5. \A p \in 1 .. a : row[p] = d[p]
    <3>1. \A p \in 1 .. a : d[p] = Argmax(Ctx(p))
      BY <1>2, <1>7, <2>3, Zenon
    <3> QED
      BY <2>3, <2>4, <3>1, Zenon
  <2>6. \A p \in 1 .. kept : row[p] \in Chooses(r, Ctx(p))
    BY <2>4, Zenon DEF Chooses
  <2> HIDE DEF a
  <2> QED
    BY <1>0, <2>3, <2>4, <2>5, <2>6, RowOfTokens, Zenon DEF n, Ctx
<1> QED
  BY <1>11, <1>12, Zenon

-----------------------------------------------------------------------------
(* The cut at the stop. *)

(* t tokens of gen are kept: the first that stops the request is the last. *)
Trims(r, gen, t) ==
  /\ Trimmed(r, gen) = SubSeq(gen, 1, t) /\ (Len(gen) # 0 => t # 0)
  /\ \A m \in 0 .. t - 1 : ~Stopped(r, text[r] \o SubSeq(gen, 1, m))
  /\ t = Len(gen) \/ Stopped(r, text[r] \o SubSeq(gen, 1, t))

(* The scheduler cuts every output at the first stop. *)
LEMMA CutAtStop ==
  ASSUME NEW r, text[r] \in Seq(Vocab), ~Stopped(r, text[r]), NEW gen \in Seq(Vocab)
  PROVE  \E t \in 0 .. Len(gen) : Trims(r, gen, t)
<1> DEFINE g == Len(gen)
           Halts(m) == Stopped(r, text[r] \o SubSeq(gen, 1, m))
           K == {n \in 0 .. g : \A m \in 0 .. n - 1 : ~Halts(m)}
           t == Max(K)
<1>1. g \in Nat
  BY SMT
<1>2. ~Halts(0)
  <2>1. SubSeq(gen, 1, 0) = <<>>
    BY SMT
  <2>2. text[r] \o <<>> = text[r]
    BY ConcatEmptySeq, Zenon
  <2> QED
    BY <2>1, <2>2, Zenon
<1>3. Trimmed(r, gen) = SubSeq(gen, 1, t)
  BY Zenon DEF Trimmed
<1> HIDE DEF g, Halts
<1>4. t \in K /\ \A p \in K : p <= t
  <2>1. K \in SUBSET (0 .. g)
    BY Zenon
  <2>2. K # {}
    <3>1. 0 \in 0 .. g /\ \A m \in 0 .. 0 - 1 : ~Halts(m)
      BY <1>1, SMT
    <3> QED
      BY <3>1, Zenon
  <2> HIDE DEF K
  <2> QED
    BY <1>1, <2>1, <2>2, MaxIsLargest, Zenon
<1> HIDE DEF t
<1>5. t \in 0 .. g /\ \A m \in 0 .. t - 1 : ~Halts(m)
  BY <1>4, Zenon
<1>6. g # 0 => t # 0
  <2>1. SUFFICES ASSUME g # 0, t = 0 PROVE FALSE
    BY Zenon
  <2>2. 1 \in 0 .. g /\ \A m \in 0 .. 1 - 1 : m = 0
    BY <1>1, <2>1, SMT
  <2>3. 1 \in K
    BY <1>2, <2>2, Zenon
  <2>4. 1 <= 0
    BY <1>4, <2>1, <2>3, Zenon
  <2> QED
    BY <2>4, SMT
<1>7. t = g \/ Halts(t)
  <2>1. SUFFICES ASSUME t # g, ~Halts(t) PROVE FALSE
    BY Zenon
  <2>2. t + 1 \in 0 .. g /\ \A m \in 0 .. (t + 1) - 1 : m = t \/ m \in 0 .. t - 1
    BY <1>1, <1>5, <2>1, SMT
  <2>3. t + 1 \in K
    BY <1>5, <2>1, <2>2, Zenon
  <2>4. t + 1 <= t
    BY <1>4, <2>3, Zenon
  <2> QED
    BY <1>1, <1>5, <2>4, SMT
<1>8. Trims(r, gen, t)
  BY <1>3, <1>5, <1>6, <1>7, Zenon DEF Trims, g, Halts
<1> QED
  BY <1>5, <1>8, Zenon DEF g

(* A verified row, cut at the stop, is a step of plain decoding. *)
LEMMA VerifiedDecodes ==
  ASSUME NEW r, NEW s \in Seq(Vocab), s = text[r], NEW d \in Seq(Vocab), NEW gen, Verified(r, s, d, gen),
         NEW t \in 1 .. Len(gen), Trims(r, gen, t)
  PROVE  Contract!Decodes(r, s, s \o SubSeq(gen, 1, t))
<1> DEFINE g == Len(gen)
           x == SubSeq(gen, 1, t)
           new == s \o x
<1>1. gen \in Seq(Vocab) /\ g \in 1 .. Len(d) + 1
  BY Zenon DEF Verified
<1>2. Len(s) \in Nat /\ g \in Nat /\ Len(d) \in Nat /\ t \in 1 .. g /\ t \in Nat
  BY <1>1, SMT
<1>3. x \in Seq(Vocab) /\ Len(x) = t /\ \A j \in 1 .. t : x[j] = gen[j]
  <2>1. t \in 0 .. Len(gen)
    BY <1>2, SMT
  <2> QED
    BY <1>1, <2>1, Prefix, Zenon
<1> HIDE DEF g
<1>4. ASSUME NEW j \in 0 .. t - 1 PROVE SubSeq(d, 1, j) = SubSeq(gen, 1, j) /\ SubSeq(x, 1, j) = SubSeq(gen, 1, j)
  <2>1. j \in 0 .. Len(d) /\ j \in 0 .. Len(gen) /\ j \in 0 .. Len(x)
    BY <1>1, <1>2, <1>3, SMT DEF g
  <2> DEFINE A == SubSeq(d, 1, j)
             B == SubSeq(gen, 1, j)
             C == SubSeq(x, 1, j)
  <2> HIDE DEF x
  <2>2. /\ A \in Seq(Vocab) /\ Len(A) = j /\ \A p \in 1 .. j : A[p] = d[p]
        /\ B \in Seq(Vocab) /\ Len(B) = j /\ \A p \in 1 .. j : B[p] = gen[p]
        /\ C \in Seq(Vocab) /\ Len(C) = j /\ \A p \in 1 .. j : C[p] = x[p]
    BY <1>1, <1>3, <2>1, Prefix, Zenon
  <2> HIDE DEF A, B, C
  <2>3. \A p \in 1 .. j : p \in 1 .. g - 1 /\ p \in 1 .. t
    BY <1>2, SMT
  <2>4. \A p \in 1 .. j : A[p] = B[p] /\ C[p] = B[p]
    BY <1>3, <2>2, <2>3, Zenon DEF Verified, g
  <2>5. A = B /\ C = B
    BY <2>2, <2>4, SeqEqual, Zenon
  <2> QED
    BY <2>5, Zenon DEF A, B, C
<1>5. Joins(Vocab, s, x, new)
  BY <1>3, Joined, Zenon
<1>6. Len(new) = Len(s) + t
  BY <1>3, <1>5, Zenon DEF Joins
<1>7. SubSeq(new, 1, Len(s)) = s
  <2>1. 0 \in 0 .. Len(x) /\ Len(s) + 0 = Len(s)
    BY <1>2, <1>3, SMT
  <2> HIDE DEF x
  <2>2. SubSeq(new, 1, Len(s) + 0) = s \o SubSeq(x, 1, 0)
    BY <1>3, <2>1, PrefixOfJoin, Zenon
  <2>3. SubSeq(x, 1, 0) = <<>>
    BY SMT
  <2>4. s \o <<>> = s
    BY ConcatEmptySeq, Zenon
  <2> QED
    BY <2>1, <2>2, <2>3, <2>4, Zenon
<1>8. ASSUME NEW i \in Len(s) + 1 .. Len(new)
      PROVE  new[i] \in Chooses(r, SubSeq(new, 1, i - 1)) /\ ~Stopped(r, SubSeq(new, 1, i - 1))
  <2> DEFINE j == i - Len(s)
  <2>1. j \in 1 .. t /\ j - 1 \in 0 .. t - 1 /\ Len(s) + j = i /\ Len(s) + (j - 1) = i - 1 /\ j - 1 \in 0 .. Len(x) /\ j \in 1 .. g
    <3> HIDE DEF new, x
    <3> QED
      BY <1>2, <1>3, <1>6, SMT
  <2> HIDE DEF j
  <2>2. SubSeq(new, 1, i - 1) = s \o SubSeq(gen, 1, j - 1)
    <3>1. SubSeq(new, 1, Len(s) + (j - 1)) = s \o SubSeq(x, 1, j - 1)
      <4> HIDE DEF x
      <4> QED
        BY <1>3, <2>1, PrefixOfJoin, Zenon
    <3> QED
      BY <1>4, <2>1, <3>1, Zenon
  <2>3. new[i] = gen[j]
    <3>1. new[Len(s) + j] = x[j]
      BY <1>3, <1>5, <2>1, Zenon DEF Joins
    <3> QED
      BY <1>3, <2>1, <3>1, Zenon
  <2>4. gen[j] \in Chooses(r, s \o SubSeq(gen, 1, j - 1))
    BY <1>4, <2>1, Zenon DEF Verified, g
  <2>5. ~Stopped(r, s \o SubSeq(gen, 1, j - 1))
    BY <2>1, Zenon DEF Trims
  <2> QED
    BY <2>2, <2>3, <2>4, <2>5, Zenon
<1>9. Len(s) < Len(new)
  <2> HIDE DEF new
  <2> QED
    BY <1>2, <1>6, SMT
<1> HIDE DEF new
<1>10. Contract!Decodes(r, s, new)
  BY <1>7, <1>8, <1>9, Zenon DEF Contract!Decodes
<1> QED
  BY <1>10, Zenon DEF new
=============================================================================
