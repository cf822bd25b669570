------------------------------ MODULE Recursion ------------------------------
(***************************************************************************)
(* Induction over numbers with the property given as a set, and from it    *)
(* what recursive functions and the folds of the community modules         *)
(* compute.  The proofs about files and texts cite these lemmas.           *)
(***************************************************************************)
EXTENDS SequencesExt, FiniteSetTheorems, TLAPS

\* Every set of natural numbers has a least element.
LEMMA Least ==
  ASSUME NEW S \in SUBSET Nat, S # {}
  PROVE  \E a \in S : \A b \in S : a <= b
<1> DEFINE R == {p \in Nat \X Nat : p[1] < p[2]}
<1>1. OpToRel(<, Nat) = R
  BY DEF OpToRel
<1>2. IsWellFoundedOn(R, Nat)
  BY <1>1, NatLessThanWellFounded
<1> HIDE DEF R
<1>3. PICK a \in S : \A b \in S : <<b, a>> \notin R
  BY <1>2, WFMin
<1>4. ASSUME NEW b \in S PROVE a <= b
  <2>1. a \in Nat /\ b \in Nat /\ <<b, a>> \notin R
    BY <1>3
  <2>2. ~(b < a)
    BY <2>1 DEF R
  <2>3. QED
    BY <2>1, <2>2
<1>5. QED
  BY <1>4

LEMMA MinOf ==
  ASSUME NEW S \in SUBSET Nat, S # {}
  PROVE  Min(S) \in S /\ \A b \in S : Min(S) <= b
BY Least DEF Min

LEMMA MaxOf ==
  ASSUME NEW c \in Nat, NEW S \in SUBSET (0 .. c), S # {}
  PROVE  Max(S) \in S /\ \A b \in S : Max(S) >= b
<1> DEFINE T == {c - x : x \in S}
<1>1. T \in SUBSET Nat /\ T # {}
  <2>1. \A x \in S : c - x \in Nat
    OBVIOUS
  <2>2. QED
    BY <2>1
<1>2. PICK a \in T : \A b \in T : a <= b
  BY <1>1, Least
<1>3. c - a \in S /\ \A b \in S : c - a >= b
  <2>1. PICK x \in S : a = c - x
    OBVIOUS
  <2>2. \A b \in S : c - x <= c - b
    BY <1>2, <2>1
  <2>3. c - a = x /\ \A b \in S : x >= b
    BY <2>1, <2>2
  <2>4. QED
    BY <2>3
<1>4. QED
  BY <1>3 DEF Max

\* Induction up to N: a set that holds 0 and with each k < N also k + 1.
LEMMA Induction ==
  ASSUME NEW N \in Nat, NEW S, 0 \in S,
         \A k \in 0 .. N - 1 : k \in S => k + 1 \in S
  PROVE  \A k \in 0 .. N : k \in S
<1> DEFINE T == {k \in 0 .. N : k \notin S}
<1>1. SUFFICES ASSUME T # {} PROVE FALSE
  OBVIOUS
<1>2. PICK a \in T : \A b \in T : a <= b
  <2>1. T \in SUBSET Nat
    OBVIOUS
  <2> HIDE DEF T
  <2>2. QED
    BY <1>1, <2>1, Least
<1>3. a \in 0 .. N /\ a # 0 /\ a \notin S
  OBVIOUS
<1>4. a - 1 \in 0 .. N - 1 /\ (a - 1) + 1 = a
  BY <1>3
<1>5. a - 1 \in S
  BY <1>2, <1>4
<1>6. QED
  BY <1>3, <1>4, <1>5

-----------------------------------------------------------------------------

\* Every step of a recursion along 1 .. N stays in M.
Steps(step, N, M) == \A k \in 1 .. N, x \in M : step[<<k, x>>] \in M

\* h is the recursion along 1 .. N that begins with base.
Recurs(h, N, M, base, step) ==
  /\ h \in [0 .. N -> M]
  /\ h[0] = base
  /\ \A k \in 1 .. N : h[k] = step[<<k, h[k - 1]>>]

\* g is the fold that takes the elements of 1 .. N from the greatest down.
FoldsDown(g, N, M, base, step) ==
  /\ g \in [SUBSET (1 .. N) -> M]
  /\ \A s \in SUBSET (1 .. N) :
       g[s] = IF s = {} THEN base ELSE step[<<Max(s), g[s \ {Max(s)}]>>]

LEMMA RecursionExists ==
  ASSUME NEW N \in Nat, NEW M, NEW base \in M, NEW step, Steps(step, N, M)
  PROVE  \E h : Recurs(h, N, M, base, step)
<1> DEFINE Good(m, h) ==
             h[0] = base /\ \A k \in 1 .. m : h[k] = step[<<k, h[k - 1]>>]
           S == {m \in 0 .. N : \E h \in [0 .. m -> M] : Good(m, h)}
<1>1. 0 \in S
  <2>1. [x \in 0 .. 0 |-> base] \in [0 .. 0 -> M] /\ Good(0, [x \in 0 .. 0 |-> base])
    OBVIOUS
  <2>2. 0 \in 0 .. N
    OBVIOUS
  <2> HIDE DEF Good
  <2>3. QED
    BY <2>1, <2>2
<1>2. ASSUME NEW m \in 0 .. N - 1, m \in S PROVE m + 1 \in S
  <2>1. PICK h \in [0 .. m -> M] : Good(m, h)
    BY <1>2
  <2> DEFINE g == [x \in 0 .. m + 1 |-> IF x = m + 1 THEN step[<<m + 1, h[m]>>] ELSE h[x]]
  <2>2. /\ m \in Nat /\ m + 1 \in 1 .. N /\ h[m] \in M
        /\ step[<<m + 1, h[m]>>] \in M
    BY DEF Steps
  <2>3. g \in [0 .. m + 1 -> M]
    BY <2>2
  <2>4. \A x \in 0 .. m : g[x] = h[x]
    BY <2>2
  <2>5. g[m + 1] = step[<<m + 1, g[m]>>]
    <3>1. m + 1 \in 0 .. m + 1 /\ g[m] = h[m]
      BY <2>2, <2>4
    <3>2. QED
      BY <3>1
  <2>6. ASSUME NEW k \in 1 .. m + 1 PROVE g[k] = step[<<k, g[k - 1]>>]
    <3>1. CASE k = m + 1
      <4>1. k - 1 = m
        BY <3>1, <2>2
      <4>2. QED
        BY <3>1, <4>1, <2>5
    <3>2. CASE k # m + 1
      <4>1. k \in 1 .. m /\ k \in 0 .. m /\ k - 1 \in 0 .. m
        BY <3>2, <2>2
      <4> HIDE DEF g
      <4>2. QED
        BY <4>1, <2>1, <2>4
    <3>3. QED
      BY <3>1, <3>2
  <2>7. g[0] = base
    BY <2>1, <2>2
  <2> HIDE DEF g
  <2>8. QED
    BY <2>2, <2>3, <2>6, <2>7
<1>3. N \in S
  <2> HIDE DEF S
  <2>1. QED
    BY <1>1, <1>2, Induction
<1>4. QED
  BY <1>3 DEF Recurs

LEMMA FoldExists ==
  ASSUME NEW N \in Nat, NEW M, NEW base \in M, NEW step, Steps(step, N, M)
  PROVE  \E g : FoldsDown(g, N, M, base, step)
<1> DEFINE Good(m, g) ==
             \A s \in SUBSET (1 .. m) :
               g[s] = IF s = {} THEN base ELSE step[<<Max(s), g[s \ {Max(s)}]>>]
           S == {m \in 0 .. N : \E g \in [SUBSET (1 .. m) -> M] : Good(m, g)}
<1>1. 0 \in S
  <2> DEFINE g == [s \in SUBSET (1 .. 0) |-> base]
  <2>1. \A s \in SUBSET (1 .. 0) : s = {}
    OBVIOUS
  <2>2. g \in [SUBSET (1 .. 0) -> M] /\ Good(0, g)
    BY <2>1
  <2>4. 0 \in 0 .. N
    OBVIOUS
  <2> HIDE DEF Good, g
  <2>3. QED
    BY <2>2, <2>4
<1>2. ASSUME NEW m \in 0 .. N - 1, m \in S PROVE m + 1 \in S
  <2>1. PICK h \in [SUBSET (1 .. m) -> M] : Good(m, h)
    BY <1>2
  <2> DEFINE g == [s \in SUBSET (1 .. m + 1) |->
                     IF m + 1 \in s THEN step[<<m + 1, h[s \ {m + 1}]>>] ELSE h[s]]
  <2>2. m \in Nat /\ m + 1 \in 1 .. N /\ m + 1 \notin 1 .. m /\ 1 .. m + 1 = (1 .. m) \cup {m + 1}
    OBVIOUS
  <2>3. \A s \in SUBSET (1 .. m + 1) : s \ {m + 1} \in SUBSET (1 .. m)
    BY <2>2
  <2>4. \A s \in SUBSET (1 .. m + 1) : m + 1 \notin s => s \in SUBSET (1 .. m)
    BY <2>2
  <2>5. g \in [SUBSET (1 .. m + 1) -> M]
    <3>1. \A s \in SUBSET (1 .. m + 1) : g[s] \in M
      <4> SUFFICES ASSUME NEW s \in SUBSET (1 .. m + 1) PROVE g[s] \in M
        OBVIOUS
      <4>1. CASE m + 1 \in s
        <5>1. h[s \ {m + 1}] \in M
          BY <2>3
        <5>3. step[<<m + 1, h[s \ {m + 1}]>>] \in M
          BY <2>2, <5>1 DEF Steps
        <5>4. QED
          BY <4>1, <5>3
      <4>2. CASE m + 1 \notin s
        BY <2>4, <4>2
      <4>3. QED
        BY <4>1, <4>2
    <3>2. QED
      BY <3>1
  <2>6. \A s \in SUBSET (1 .. m) : g[s] = h[s]
    BY <2>2
  <2>7. \A s \in SUBSET (1 .. m + 1) :
          m + 1 \in s => g[s] = step[<<m + 1, h[s \ {m + 1}]>>]
    OBVIOUS
  <2> HIDE DEF g
  <2>8. ASSUME NEW s \in SUBSET (1 .. m + 1)
        PROVE  g[s] = IF s = {} THEN base ELSE step[<<Max(s), g[s \ {Max(s)}]>>]
    <3>1. CASE m + 1 \in s
      <4>1. Max(s) = m + 1
        <5>1. m + 1 \in Nat /\ s \in SUBSET (0 .. m + 1) /\ s # {}
          BY <2>2, <3>1
        <5>2. Max(s) \in s /\ \A b \in s : Max(s) >= b
          BY <5>1, MaxOf
        <5>3. Max(s) >= m + 1 /\ Max(s) \in 1 .. m + 1
          BY <3>1, <5>2
        <5>4. QED
          BY <2>2, <5>3
      <4>2. s \ {Max(s)} \in SUBSET (1 .. m)
        BY <2>3, <4>1
      <4>3. QED
        BY <2>6, <2>7, <3>1, <4>1, <4>2
    <3>2. CASE m + 1 \notin s
      <4>1. s \in SUBSET (1 .. m)
        BY <2>4, <3>2
      <4>2. s # {} => s \ {Max(s)} \in SUBSET (1 .. m)
        BY <4>1
      <4>3. g[s] = h[s] /\ (s # {} => g[s \ {Max(s)}] = h[s \ {Max(s)}])
        BY <2>6, <4>1, <4>2
      <4>4. QED
        BY <2>1, <4>1, <4>3
    <3>3. QED
      BY <3>1, <3>2
  <2>9. Good(m + 1, g)
    BY <2>8
  <2>10. m + 1 \in 0 .. N
    BY <2>2
  <2> HIDE DEF Good
  <2>11. QED
    BY <2>5, <2>9, <2>10
<1>3. N \in S
  <2> HIDE DEF S
  <2>1. QED
    BY <1>1, <1>2, Induction
<1>4. QED
  BY <1>3 DEF FoldsDown

\* The sets such a fold passes, when it starts from the numbers up to k.
LEMMA Prefix ==
  ASSUME NEW N \in Nat, NEW k \in 1 .. N
  PROVE  /\ 1 .. k \in SUBSET (1 .. N) /\ 1 .. k # {}
         /\ Max(1 .. k) = k /\ (1 .. k) \ {k} = 1 .. k - 1
<1>1. k \in Nat /\ k \in 1 .. k /\ 1 .. k \in SUBSET (0 .. k)
  OBVIOUS
<1>2. Max(1 .. k) \in 1 .. k /\ \A b \in 1 .. k : Max(1 .. k) >= b
  <2> DEFINE S == 1 .. k
  <2>1. S \in SUBSET (0 .. k) /\ S # {}
    BY <1>1
  <2> HIDE DEF S
  <2>2. Max(S) \in S /\ \A b \in S : Max(S) >= b
    BY <1>1, <2>1, MaxOf
  <2>3. QED
    BY <2>2 DEF S
<1>3. Max(1 .. k) = k
  BY <1>1, <1>2
<1>4. QED
  BY <1>1, <1>3

\* The fold of the numbers up to k is the recursion up to k.
LEMMA FoldIsRecursion ==
  ASSUME NEW N \in Nat, NEW M, NEW base \in M, NEW step, Steps(step, N, M),
         NEW h, Recurs(h, N, M, base, step), NEW g, g[{}] = base,
         \A k \in 1 .. N : g[1 .. k - 1] \in M => g[1 .. k] = step[<<k, g[1 .. k - 1]>>]
  PROVE  g[1 .. N] = h[N]
<1> DEFINE S == {k \in 0 .. N : g[1 .. k] = h[k]}
<1>1. 0 \in S
  <2>1. 1 .. 0 = {} /\ 0 \in 0 .. N
    OBVIOUS
  <2>2. QED
    BY <2>1 DEF Recurs
<1>2. ASSUME NEW k \in 0 .. N - 1, k \in S PROVE k + 1 \in S
  <2>1. k + 1 \in 1 .. N /\ k + 1 \in 0 .. N /\ (k + 1) - 1 = k
    OBVIOUS
  <2>2. g[1 .. k] = h[k] /\ h[k] \in M
    BY <1>2 DEF Recurs
  <2>3. g[1 .. k + 1] = step[<<k + 1, g[1 .. k]>>]
    BY <2>1, <2>2
  <2>4. h[k + 1] = step[<<k + 1, h[k]>>]
    BY <2>1 DEF Recurs
  <2>5. g[1 .. k + 1] = h[k + 1]
    BY <2>2, <2>3, <2>4
  <2>6. QED
    BY <2>1, <2>5
<1>3. N \in S
  <2> HIDE DEF S
  <2>1. \A k \in 0 .. N : k \in S
    BY <1>1, <1>2, Induction
  <2>2. N \in 0 .. N
    OBVIOUS
  <2>3. QED
    BY <2>1, <2>2
<1>4. QED
  BY <1>3
-----------------------------------------------------------------------------
(* Sequences that are put together. *)

LEMMA FlattenExists ==
  ASSUME NEW C, NEW seqs \in Seq(Seq(C))
  PROVE  \E h \in [0 .. Len(seqs) -> Seq(C)] :
           /\ h[0] = << >> /\ FlattenSeq(seqs) = h[Len(seqs)]
           /\ \A k \in 1 .. Len(seqs) : h[k] = h[k - 1] \o seqs[k]
<1> DEFINE N == Len(seqs)
           M == Seq(C)
           step == [p \in (1 .. N) \X M |-> p[2] \o seqs[p[1]]]
           flatten == CHOOSE f : f = [i \in 1 .. N |->
                        IF i = 1 THEN seqs[i] ELSE f[i - 1] \o seqs[i]]
<1>1. N \in Nat /\ << >> \in M /\ \A k \in 1 .. N : seqs[k] \in M
  OBVIOUS
<1>2. \A s, t \in M : s \o t \in M /\ << >> \o t = t
  OBVIOUS
<1>3. FlattenSeq(seqs) = IF N = 0 THEN seqs ELSE flatten[N]
  BY DEF FlattenSeq
<1> HIDE DEF M
<1>4. \A k \in 1 .. N, x \in M : step[<<k, x>>] = x \o seqs[k]
  OBVIOUS
<1>5. N = 0 => seqs = << >>
  OBVIOUS
<1> HIDE DEF N, step
<1>6. Steps(step, N, M)
  BY <1>1, <1>2, <1>4 DEF Steps
<1>7. PICK h : Recurs(h, N, M, << >>, step)
  BY <1>1, <1>6, RecursionExists
<1>8. /\ h \in [0 .. N -> M] /\ h[0] = << >>
      /\ \A k \in 1 .. N : h[k] = h[k - 1] \o seqs[k]
  <2>1. \A k \in 1 .. N : k - 1 \in 0 .. N
    BY <1>1
  <2> QED
    BY <1>4, <1>7, <2>1 DEF Recurs
<1>9. FlattenSeq(seqs) = h[N]
  <2>1. CASE N = 0
    BY <1>3, <1>5, <1>8, <2>1
  <2>2. CASE N # 0
    <3> DEFINE g == [i \in 1 .. N |-> h[i]]
    <3>1. g = [i \in 1 .. N |-> IF i = 1 THEN seqs[i] ELSE g[i - 1] \o seqs[i]]
      <4>1. ASSUME NEW i \in 1 .. N
            PROVE  h[i] = IF i = 1 THEN seqs[i] ELSE g[i - 1] \o seqs[i]
        <5>1. CASE i = 1
          BY <1>1, <1>2, <1>8, <5>1
        <5>2. CASE i # 1
          <6>1. i - 1 \in 1 .. N
            BY <1>1, <5>2
          <6> QED
            BY <1>8, <5>2, <6>1
        <5> QED
          BY <5>1, <5>2
      <4> QED
        BY <4>1
    <3> HIDE DEF g
    <3>2. flatten = [i \in 1 .. N |-> IF i = 1 THEN seqs[i] ELSE flatten[i - 1] \o seqs[i]]
      BY <3>1
    <3> HIDE DEF flatten
    <3> DEFINE S == {k \in 0 .. N : k = 0 \/ flatten[k] = h[k]}
    <3>3. 0 \in S
      BY <1>1
    <3>4. ASSUME NEW k \in 0 .. N - 1, k \in S PROVE k + 1 \in S
      <4>1. k + 1 \in 1 .. N /\ (k + 1) - 1 = k
        BY <1>1
      <4>2. flatten[k + 1] = IF k + 1 = 1 THEN seqs[k + 1] ELSE flatten[k] \o seqs[k + 1]
        BY <3>2, <4>1
      <4>3. h[k + 1] = h[k] \o seqs[k + 1]
        BY <1>8, <4>1
      <4>4. flatten[k + 1] = h[k + 1]
        <5>1. CASE k = 0
          <6>1. seqs[k + 1] \in M
            BY <1>1, <4>1
          <6>2. k + 1 = 1 /\ h[k] = << >>
            BY <1>8, <5>1
          <6>3. flatten[k + 1] = seqs[k + 1]
            BY <4>2, <6>2
          <6>4. h[k + 1] = << >> \o seqs[k + 1]
            BY <4>3, <6>2
          <6> QED
            BY <1>2, <6>1, <6>3, <6>4
        <5>2. CASE k # 0
          <6>1. k + 1 # 1 /\ flatten[k] = h[k]
            BY <1>1, <3>4, <5>2
          <6> QED
            BY <4>2, <4>3, <6>1
        <5> QED
          BY <5>1, <5>2
      <4> QED
        BY <4>1, <4>4
    <3>5. N \in S
      <4> HIDE DEF S
      <4>1. \A k \in 0 .. N : k \in S
        BY <1>1, <3>3, <3>4, Induction
      <4> QED
        BY <1>1, <4>1
    <3> QED
      BY <1>3, <2>2, <3>5
  <2> QED
    BY <2>1, <2>2
<1> QED
  BY <1>8, <1>9 DEF N, M

\* Positions that grow.
LEMMA Growing ==
  ASSUME NEW N \in Nat, NEW p \in [0 .. N -> Nat], \A k \in 1 .. N : p[k - 1] < p[k]
  PROVE  \A a, b \in 0 .. N : a < b => p[a] < p[b]
<1> DEFINE S == {b \in 0 .. N : \A a \in 0 .. N : a < b => p[a] < p[b]}
<1>1. 0 \in S
  OBVIOUS
<1>2. ASSUME NEW b \in 0 .. N - 1, b \in S PROVE b + 1 \in S
  <2>1. b + 1 \in 1 .. N /\ (b + 1) - 1 = b /\ b + 1 \in 0 .. N
    OBVIOUS
  <2>2. p[b] < p[b + 1]
    BY <2>1
  <2>3. ASSUME NEW a \in 0 .. N, a < b + 1 PROVE p[a] < p[b + 1]
    <3>1. a = b \/ a < b
      BY <2>3
    <3>2. p[a] \in Nat /\ p[b] \in Nat /\ p[b + 1] \in Nat
      BY <2>1
    <3> QED
      BY <1>2, <2>2, <3>1, <3>2
  <2> QED
    BY <2>1, <2>3
<1>3. \A b \in 0 .. N : b \in S
  <2> HIDE DEF S
  <2> QED
    BY <1>1, <1>2, Induction
<1> QED
  BY <1>3

\* Every place lies between two neighbours of them.
LEMMA Located ==
  ASSUME NEW N \in Nat, NEW p \in [0 .. N -> Nat], p[0] = 0, NEW y \in 1 .. p[N]
  PROVE  \E k \in 1 .. N : p[k - 1] < y /\ y <= p[k]
<1> DEFINE S == {k \in 0 .. N : y <= p[k]}
<1>1. S \in SUBSET Nat /\ N \in S
  OBVIOUS
<1> HIDE DEF S
<1>2. PICK k \in S : \A b \in S : k <= b
  BY <1>1, Least
<1>3. k \in 0 .. N /\ y <= p[k] /\ y \in Nat /\ y > 0
  BY DEF S
<1>4. k # 0
  BY <1>3
<1>5. k - 1 \in 0 .. N /\ k \in 1 .. N
  BY <1>3, <1>4
<1>6. ~(y <= p[k - 1])
  <2>1. k - 1 \notin S
    BY <1>2, <1>5
  <2> QED
    BY <1>5, <2>1 DEF S
<1>7. p[k - 1] \in Nat
  BY <1>5
<1> QED
  BY <1>3, <1>5, <1>6, <1>7

\* p[k] is where the k-th part of a flattened sequence ends.
PartsEnd(seqs, p) ==
  /\ p \in [0 .. Len(seqs) -> Nat] /\ p[0] = 0
  /\ \A k \in 1 .. Len(seqs) : p[k] = p[k - 1] + Len(seqs[k])

\* s holds the parts one after the other.
Parts(s, seqs, p) ==
  \A k \in 1 .. Len(seqs) : \A x \in 1 .. Len(seqs[k]) : s[p[k - 1] + x] = seqs[k][x]

LEMMA ConcatIs ==
  ASSUME NEW C, NEW s \in Seq(C), NEW t \in Seq(C)
  PROVE  /\ s \o t \in Seq(C) /\ Len(s \o t) = Len(s) + Len(t)
         /\ Len(s) \in Nat /\ Len(t) \in Nat
         /\ \A x \in 1 .. Len(s) : (s \o t)[x] = s[x]
         /\ \A x \in 1 .. Len(t) : (s \o t)[Len(s) + x] = t[x]
OBVIOUS

LEMMA FlattenLayout ==
  ASSUME NEW C, NEW seqs \in Seq(Seq(C))
  PROVE  \E p : /\ PartsEnd(seqs, p)
                /\ FlattenSeq(seqs) \in Seq(C) /\ Len(FlattenSeq(seqs)) = p[Len(seqs)]
                /\ Parts(FlattenSeq(seqs), seqs, p)
<1> DEFINE N == Len(seqs)
           M == Seq(C)
<1>1. N \in Nat /\ \A k \in 1 .. N : seqs[k] \in M
  OBVIOUS
<1>2. /\ \A s \in M : Len(s) \in Nat
      /\ \A s, t \in M : Len(s \o t) = Len(s) + Len(t)
      /\ Len(<< >>) = 0
  OBVIOUS
<1>3. PICK h \in [0 .. N -> M] :
        /\ h[0] = << >> /\ FlattenSeq(seqs) = h[N]
        /\ \A k \in 1 .. N : h[k] = h[k - 1] \o seqs[k]
  BY FlattenExists
<1> HIDE DEF N, M
<1> DEFINE p == [k \in 0 .. N |-> Len(h[k])]
<1>4. p \in [0 .. N -> Nat] /\ p[0] = 0
  BY <1>1, <1>2, <1>3
<1>5. \A k \in 0 .. N : p[k] = Len(h[k])
  OBVIOUS
<1> HIDE DEF p
<1>6. \A k \in 1 .. N : k - 1 \in 0 .. N
  BY <1>1
<1>7. ASSUME NEW k \in 1 .. N PROVE p[k] = p[k - 1] + Len(seqs[k])
  <2>1. h[k] = h[k - 1] \o seqs[k] /\ h[k - 1] \in M /\ seqs[k] \in M
    BY <1>1, <1>3, <1>6
  <2>2. p[k] = Len(h[k]) /\ p[k - 1] = Len(h[k - 1])
    BY <1>1, <1>5, <1>6
  <2> QED
    BY <1>2, <2>1, <2>2
<1> DEFINE S == {m \in 0 .. N :
                   \A k \in 1 .. m : \A x \in 1 .. Len(seqs[k]) :
                     p[k - 1] + x \in 1 .. p[m] /\ h[m][p[k - 1] + x] = seqs[k][x]}
<1>8. 0 \in S
  BY <1>1
<1>9. ASSUME NEW m \in 0 .. N - 1, m \in S PROVE m + 1 \in S
  <2>1. m + 1 \in 1 .. N /\ (m + 1) - 1 = m /\ m + 1 \in 0 .. N /\ m \in 0 .. N
    BY <1>1
  <2>2. h[m + 1] = h[m] \o seqs[m + 1] /\ h[m] \in M /\ seqs[m + 1] \in M
    BY <1>1, <1>3, <2>1
  <2>3. /\ p[m] = Len(h[m]) /\ p[m] \in Nat
        /\ p[m + 1] = p[m] + Len(seqs[m + 1]) /\ Len(seqs[m + 1]) \in Nat
    BY <1>2, <1>4, <1>5, <1>7, <2>1, <2>2
  <2>4. /\ \A x \in 1 .. Len(h[m]) : h[m + 1][x] = h[m][x]
        /\ \A x \in 1 .. Len(seqs[m + 1]) : h[m + 1][Len(h[m]) + x] = seqs[m + 1][x]
    <3> DEFINE s == h[m]
               e == seqs[m + 1]
    <3>1. s \in Seq(C) /\ e \in Seq(C) /\ h[m + 1] = s \o e
      BY <2>2 DEF M
    <3> HIDE DEF s, e
    <3>2. /\ \A x \in 1 .. Len(s) : (s \o e)[x] = s[x]
          /\ \A x \in 1 .. Len(e) : (s \o e)[Len(s) + x] = e[x]
      BY <3>1, ConcatIs
    <3> QED
      BY <3>1, <3>2 DEF s, e
  <2>5. ASSUME NEW k \in 1 .. m + 1, NEW x \in 1 .. Len(seqs[k])
        PROVE  p[k - 1] + x \in 1 .. p[m + 1] /\ h[m + 1][p[k - 1] + x] = seqs[k][x]
    <3>1. CASE k = m + 1
      <4>1. p[k - 1] = p[m] /\ x \in 1 .. Len(seqs[m + 1])
        BY <2>1, <3>1
      <4>2. p[m] + x \in 1 .. p[m + 1]
        <5>1. \A a, l \in Nat : \A y \in 1 .. l : a + y \in 1 .. a + l
          OBVIOUS
        <5> QED
          BY <2>3, <4>1, <5>1
      <4>3. h[m + 1][p[m] + x] = seqs[m + 1][x]
        BY <2>3, <2>4, <4>1
      <4> QED
        BY <3>1, <4>1, <4>2, <4>3
    <3>2. CASE k # m + 1
      <4>1. k \in 1 .. m
        BY <2>1, <3>2
      <4>2. p[k - 1] + x \in 1 .. p[m] /\ h[m][p[k - 1] + x] = seqs[k][x]
        BY <1>9, <4>1
      <4> HIDE DEF S
      <4>3. p[k - 1] + x \in 1 .. p[m + 1]
        <5>1. \A a, l \in Nat : 1 .. a \subseteq 1 .. a + l
          OBVIOUS
        <5> QED
          BY <2>3, <4>2, <5>1
      <4>4. h[m + 1][p[k - 1] + x] = h[m][p[k - 1] + x]
        <5>1. p[k - 1] + x \in 1 .. Len(h[m])
          BY <2>3, <4>2
        <5> QED
          BY <2>4, <5>1
      <4> QED
        BY <4>2, <4>3, <4>4
    <3> QED
      BY <3>1, <3>2
  <2> QED
    BY <2>1, <2>5
<1>10. N \in S
  <2> HIDE DEF S
  <2>1. \A k \in 0 .. N : k \in S
    BY <1>1, <1>8, <1>9, Induction
  <2> QED
    BY <1>1, <2>1
<1>11. Parts(FlattenSeq(seqs), seqs, p)
  BY <1>1, <1>3, <1>10 DEF Parts, N
<1>12. PartsEnd(seqs, p)
  BY <1>4, <1>7 DEF PartsEnd, N
<1>13. FlattenSeq(seqs) \in Seq(C) /\ Len(FlattenSeq(seqs)) = p[N]
  BY <1>1, <1>3, <1>5 DEF M
<1> QED
  BY <1>11, <1>12, <1>13 DEF N

\* The parts of a sequence whose parts all have two elements.
LEMMA PairsLayout ==
  ASSUME NEW C, NEW seqs \in Seq(Seq(C)), \A k \in 1 .. Len(seqs) : Len(seqs[k]) = 2
  PROVE  /\ FlattenSeq(seqs) \in Seq(C) /\ Len(FlattenSeq(seqs)) = 2 * Len(seqs)
         /\ \A k \in 1 .. Len(seqs) : /\ FlattenSeq(seqs)[2 * k - 1] = seqs[k][1]
                                      /\ FlattenSeq(seqs)[2 * k] = seqs[k][2]
<1> DEFINE N == Len(seqs)
           flat == FlattenSeq(seqs)
<1>1. N \in Nat
  OBVIOUS
<1>2. PICK p : PartsEnd(seqs, p) /\ flat \in Seq(C) /\ Len(flat) = p[N] /\ Parts(flat, seqs, p)
  BY FlattenLayout
<1>3. p \in [0 .. N -> Nat] /\ p[0] = 0 /\ \A k \in 1 .. N : p[k] = p[k - 1] + 2
  BY <1>2 DEF PartsEnd
<1>4. \A k \in 1 .. N : flat[p[k - 1] + 1] = seqs[k][1] /\ flat[p[k - 1] + 2] = seqs[k][2]
  BY <1>2 DEF Parts
<1> HIDE DEF N, flat
<1> DEFINE S == {k \in 0 .. N : p[k] = 2 * k}
<1>5. 0 \in S
  BY <1>1, <1>3
<1>6. ASSUME NEW k \in 0 .. N - 1, k \in S PROVE k + 1 \in S
  <2>1. k + 1 \in 1 .. N /\ (k + 1) - 1 = k /\ k + 1 \in 0 .. N
    BY <1>1
  <2>2. p[k + 1] = p[k] + 2
    BY <1>3, <2>1
  <2> QED
    BY <1>6, <2>1, <2>2
<1>7. \A k \in 0 .. N : p[k] = 2 * k
  <2> HIDE DEF S
  <2>1. \A k \in 0 .. N : k \in S
    BY <1>1, <1>5, <1>6, Induction
  <2> QED
    BY <2>1 DEF S
<1>8. ASSUME NEW k \in 1 .. N PROVE flat[2 * k - 1] = seqs[k][1] /\ flat[2 * k] = seqs[k][2]
  <2>1. k - 1 \in 0 .. N /\ p[k - 1] = 2 * (k - 1)
    BY <1>1, <1>7
  <2>2. p[k - 1] + 1 = 2 * k - 1 /\ p[k - 1] + 2 = 2 * k
    BY <1>1, <2>1
  <2> QED
    BY <1>4, <2>2
<1>9. p[N] = 2 * N
  BY <1>1, <1>7
<1> QED
  BY <1>2, <1>8, <1>9 DEF N, flat
-----------------------------------------------------------------------------
(* Sums. *)

Total(s) == FoldLeft(+, 0, s)

\* h[k] is the sum of the first k numbers of s.
IsSums(s, h) ==
  /\ h \in [0 .. Len(s) -> Nat] /\ h[0] = 0
  /\ \A k \in 1 .. Len(s) : h[k] = h[k - 1] + s[k]

LEMMA SumsExist ==
  ASSUME NEW s \in Seq(Nat)
  PROVE  \E h : IsSums(s, h) /\ Total(s) = h[Len(s)]
<1> DEFINE N == Len(s)
           M == Nat
           step == [p \in (1 .. N) \X M |-> p[2] + s[p[1]]]
           iter == CHOOSE g : g = [t \in SUBSET (1 .. N) |->
                     IF t = {} THEN 0 ELSE g[t \ {Max(t)}] + s[Max(t)]]
<1>1. N \in Nat /\ DOMAIN s = 1 .. N /\ \A k \in 1 .. N : s[k] \in Nat
  OBVIOUS
<1>2. \A k \in 1 .. N, x \in M : step[<<k, x>>] = x + s[k]
  OBVIOUS
<1>3. Total(s) = iter[1 .. N]
  BY <1>1 DEF Total, FoldLeft, MapThenFoldSet
<1> HIDE DEF N, step
<1>4. 0 \in M /\ Steps(step, N, M)
  <2>1. \A k \in 1 .. N, x \in M : x + s[k] \in M
    BY <1>1
  <2> HIDE DEF M
  <2>2. Steps(step, N, M)
    BY <1>2, <2>1 DEF Steps
  <2> QED
    BY <2>2 DEF M
<1> HIDE DEF M
<1>5. PICK g : FoldsDown(g, N, M, 0, step)
  BY <1>1, <1>4, FoldExists
<1>6. g = [t \in SUBSET (1 .. N) |-> IF t = {} THEN 0 ELSE g[t \ {Max(t)}] + s[Max(t)]]
  <2>1. ASSUME NEW t \in SUBSET (1 .. N), t # {}
        PROVE  g[t] = g[t \ {Max(t)}] + s[Max(t)]
    <3>1. t \in SUBSET (0 .. N)
      BY <1>1
    <3>2. Max(t) \in t
      BY <1>1, <2>1, <3>1, MaxOf
    <3>3. Max(t) \in 1 .. N /\ t \ {Max(t)} \in SUBSET (1 .. N)
      BY <3>2
    <3>4. g[t \ {Max(t)}] \in M /\ g[t] = step[<<Max(t), g[t \ {Max(t)}]>>]
      BY <1>5, <2>1, <3>3 DEF FoldsDown
    <3> QED
      BY <1>2, <3>3, <3>4
  <2>2. g[{}] = 0 /\ DOMAIN g = SUBSET (1 .. N) /\ g = [t \in DOMAIN g |-> g[t]]
    BY <1>5 DEF FoldsDown
  <2> QED
    BY <2>1, <2>2
<1>7. iter = [t \in SUBSET (1 .. N) |-> IF t = {} THEN 0 ELSE iter[t \ {Max(t)}] + s[Max(t)]]
  BY <1>6
<1> HIDE DEF iter
<1>8. iter[{}] = 0
  BY <1>7
<1>9. ASSUME NEW k \in 1 .. N, iter[1 .. k - 1] \in M
      PROVE  iter[1 .. k] = step[<<k, iter[1 .. k - 1]>>]
  <2>1. /\ 1 .. k \in SUBSET (1 .. N) /\ 1 .. k # {}
        /\ Max(1 .. k) = k /\ (1 .. k) \ {k} = 1 .. k - 1
    BY <1>1, Prefix
  <2>2. iter[1 .. k] = iter[(1 .. k) \ {Max(1 .. k)}] + s[Max(1 .. k)]
    BY <1>7, <2>1
  <2> QED
    BY <1>2, <1>9, <2>1, <2>2
<1>10. PICK h : Recurs(h, N, M, 0, step)
  BY <1>1, <1>4, RecursionExists
<1>11. iter[1 .. N] = h[N]
  BY <1>1, <1>4, <1>8, <1>9, <1>10, FoldIsRecursion
<1>12. ASSUME NEW k \in 1 .. N PROVE h[k] = h[k - 1] + s[k]
  <2>1. h[k - 1] \in M /\ h[k] = step[<<k, h[k - 1]>>]
    BY <1>1, <1>10 DEF Recurs
  <2> QED
    BY <1>2, <2>1
<1>13. h \in [0 .. N -> Nat] /\ h[0] = 0
  BY <1>10 DEF Recurs, M
<1> QED
  BY <1>3, <1>11, <1>12, <1>13 DEF IsSums, N

LEMMA SumType ==
  ASSUME NEW s \in Seq(Nat)
  PROVE  Total(s) \in Nat
<1>1. PICK h : IsSums(s, h) /\ Total(s) = h[Len(s)]
  BY SumsExist
<1>2. Len(s) \in 0 .. Len(s)
  OBVIOUS
<1> QED
  BY <1>1, <1>2 DEF IsSums

\* The sum of four numbers and the sequence behind them.
LEMMA SumBehindFour ==
  ASSUME NEW a \in Nat, NEW b \in Nat, NEW c \in Nat, NEW d \in Nat, NEW s \in Seq(Nat)
  PROVE  Total(<<a, b, c, d>> \o s) = a + b + c + d + Total(s)
<1> DEFINE t == <<a, b, c, d>> \o s
           N == Len(s)
<1>1. /\ N \in Nat /\ t \in Seq(Nat) /\ Len(t) = N + 4
      /\ \A k \in 1 .. N : s[k] \in Nat
  OBVIOUS
<1>2. t[1] = a /\ t[2] = b /\ t[3] = c /\ t[4] = d
  OBVIOUS
<1>3. \A k \in 1 .. N : t[k + 4] = s[k]
  OBVIOUS
<1> HIDE DEF t
<1>4. PICK g : IsSums(t, g) /\ Total(t) = g[Len(t)]
  BY <1>1, SumsExist
<1>5. PICK h : IsSums(s, h) /\ Total(s) = h[N]
  BY SumsExist
<1> HIDE DEF N
<1>6. /\ h \in [0 .. N -> Nat] /\ h[0] = 0
      /\ \A k \in 1 .. N : h[k] = h[k - 1] + s[k]
  BY <1>5 DEF IsSums, N
<1>7. /\ g[0] = 0
      /\ \A k \in 1 .. N + 4 : g[k] = g[k - 1] + t[k]
  BY <1>1, <1>4 DEF IsSums
<1>8. g[4] = a + b + c + d
  <2>1. 1 \in 1 .. N + 4 /\ 2 \in 1 .. N + 4 /\ 3 \in 1 .. N + 4 /\ 4 \in 1 .. N + 4
    BY <1>1
  <2>2. g[1] = g[0] + t[1] /\ g[2] = g[1] + t[2] /\ g[3] = g[2] + t[3] /\ g[4] = g[3] + t[4]
    BY <1>7, <2>1
  <2> QED
    BY <1>2, <1>7, <2>2
<1> DEFINE S == {k \in 0 .. N : g[k + 4] = a + b + c + d + h[k]}
<1>9. 0 \in S
  BY <1>1, <1>6, <1>8
<1>10. ASSUME NEW k \in 0 .. N - 1, k \in S PROVE k + 1 \in S
  <2>1. /\ k + 1 \in 1 .. N /\ (k + 1) - 1 = k /\ k + 1 \in 0 .. N /\ k \in 0 .. N
        /\ (k + 1) + 4 \in 1 .. N + 4 /\ (k + 1) + 4 - 1 = k + 4
    BY <1>1
  <2>2. h[k + 1] = h[k] + s[k + 1] /\ h[k] \in Nat /\ s[k + 1] \in Nat
    BY <1>1, <1>6, <2>1
  <2>3. g[(k + 1) + 4] = g[k + 4] + s[k + 1]
    BY <1>3, <1>7, <2>1
  <2>4. g[(k + 1) + 4] = a + b + c + d + h[k + 1]
    BY <1>10, <2>2, <2>3
  <2> QED
    BY <2>1, <2>4
<1>11. N \in S
  <2> HIDE DEF S
  <2>1. \A k \in 0 .. N : k \in S
    BY <1>1, <1>9, <1>10, Induction
  <2> QED
    BY <1>1, <2>1
<1> QED
  BY <1>1, <1>4, <1>5, <1>11 DEF t

\* A number at the end of a sequence is added to its sum.
LEMMA SumAppend ==
  ASSUME NEW s \in Seq(Nat), NEW x \in Nat
  PROVE  Total(Append(s, x)) = Total(s) + x
<1> DEFINE t == Append(s, x)
           N == Len(s)
<1>1. /\ N \in Nat /\ t \in Seq(Nat) /\ Len(t) = N + 1
      /\ \A k \in 1 .. N : t[k] = s[k]
      /\ t[N + 1] = x
  OBVIOUS
<1>2. PICK g : IsSums(t, g) /\ Total(t) = g[Len(t)]
  BY <1>1, SumsExist
<1>3. PICK h : IsSums(s, h) /\ Total(s) = h[N]
  BY SumsExist
<1> HIDE DEF t
<1>4. /\ h[0] = 0 /\ g[0] = 0
      /\ \A k \in 1 .. N : h[k] = h[k - 1] + s[k]
      /\ \A k \in 1 .. N + 1 : g[k] = g[k - 1] + t[k]
  BY <1>1, <1>2, <1>3 DEF IsSums
<1> HIDE DEF N
<1> DEFINE S == {k \in 0 .. N : g[k] = h[k]}
<1>5. 0 \in S
  BY <1>1, <1>4
<1>6. ASSUME NEW k \in 0 .. N - 1, k \in S PROVE k + 1 \in S
  <2>1. k + 1 \in 1 .. N /\ k + 1 \in 1 .. N + 1 /\ (k + 1) - 1 = k /\ k + 1 \in 0 .. N
    BY <1>1
  <2>2. h[k + 1] = h[k] + s[k + 1] /\ g[k + 1] = g[k] + t[k + 1] /\ t[k + 1] = s[k + 1]
    BY <1>1, <1>4, <2>1
  <2> QED
    BY <1>6, <2>1, <2>2
<1>7. N \in S
  <2> HIDE DEF S
  <2>1. \A k \in 0 .. N : k \in S
    BY <1>1, <1>5, <1>6, Induction
  <2> QED
    BY <1>1, <2>1
<1>8. g[N + 1] = h[N] + x
  <2>1. N + 1 \in 1 .. N + 1 /\ (N + 1) - 1 = N
    BY <1>1
  <2> QED
    BY <1>1, <1>4, <1>7, <2>1
<1> QED
  BY <1>1, <1>2, <1>3, <1>8 DEF t

\* Two sequences that differ in one place differ as much in their sums.
LEMMA SumChanged ==
  ASSUME NEW s \in Seq(Nat), NEW t \in Seq(Nat), Len(s) = Len(t), NEW n \in 1 .. Len(s),
         \A k \in 1 .. Len(s) : k # n => s[k] = t[k]
  PROVE  Total(t) + s[n] = Total(s) + t[n]
<1> DEFINE N == Len(s)
<1>1. /\ N \in Nat /\ n \in 1 .. N /\ \A k \in 1 .. N : s[k] \in Nat /\ t[k] \in Nat
      /\ \A k \in 1 .. N : k # n => s[k] = t[k]
  OBVIOUS
<1>2. PICK g : IsSums(t, g) /\ Total(t) = g[N]
  BY SumsExist
<1>3. PICK h : IsSums(s, h) /\ Total(s) = h[N]
  BY SumsExist
<1>4. /\ h[0] = 0 /\ g[0] = 0 /\ h \in [0 .. N -> Nat] /\ g \in [0 .. N -> Nat]
      /\ \A k \in 1 .. N : h[k] = h[k - 1] + s[k]
      /\ \A k \in 1 .. N : g[k] = g[k - 1] + t[k]
  BY <1>2, <1>3 DEF IsSums
<1> HIDE DEF N
<1> DEFINE S == {k \in 0 .. N : IF k < n THEN g[k] = h[k] ELSE g[k] + s[n] = h[k] + t[n]}
<1>5. 0 \in S
  <2>1. 0 < n /\ 0 \in 0 .. N
    BY <1>1
  <2> QED
    BY <1>4, <2>1
<1>6. ASSUME NEW k \in 0 .. N - 1, k \in S PROVE k + 1 \in S
  <2>1. k + 1 \in 1 .. N /\ (k + 1) - 1 = k /\ k + 1 \in 0 .. N /\ k \in 0 .. N
    BY <1>1
  <2>2. /\ h[k + 1] = h[k] + s[k + 1] /\ g[k + 1] = g[k] + t[k + 1]
        /\ s[k + 1] \in Nat /\ t[k + 1] \in Nat /\ s[n] \in Nat /\ t[n] \in Nat
        /\ h[k] \in Nat /\ g[k] \in Nat /\ h[k + 1] \in Nat /\ g[k + 1] \in Nat
    BY <1>1, <1>4, <2>1
  <2>3. CASE k + 1 < n
    <3>1. k < n /\ k + 1 # n /\ g[k] = h[k]
      BY <1>1, <1>6, <2>1, <2>3
    <3>2. g[k + 1] = h[k + 1]
      BY <1>1, <2>1, <2>2, <3>1
    <3> QED
      BY <2>1, <2>3, <3>2
  <2>4. CASE k + 1 = n
    <3>1. k < n /\ ~(k + 1 < n) /\ g[k] = h[k]
      BY <1>1, <1>6, <2>1, <2>4
    <3>2. g[k + 1] = g[k] + t[n] /\ h[k + 1] = g[k] + s[n]
      BY <2>2, <2>4, <3>1
    <3>3. g[k + 1] + s[n] = h[k + 1] + t[n]
      <4> DEFINE a == g[k]
                 x == t[n]
                 y == s[n]
      <4>1. a \in Nat /\ x \in Nat /\ y \in Nat
        BY <2>2
      <4>2. g[k + 1] = a + x /\ h[k + 1] = a + y
        BY <3>2
      <4>3. h[k + 1] + x = (a + y) + x /\ g[k + 1] + y = (a + x) + y
        BY <4>2
      <4> HIDE DEF a, x, y
      <4>4. (a + y) + x = (a + x) + y
        BY <4>1
      <4> QED
        BY <4>3, <4>4 DEF x, y
    <3> QED
      BY <2>1, <3>1, <3>3
  <2>5. CASE k + 1 > n
    <3>1. ~(k < n) /\ ~(k + 1 < n) /\ k + 1 # n /\ g[k] + s[n] = h[k] + t[n]
      BY <1>1, <1>6, <2>1, <2>5
    <3>2. s[k + 1] = t[k + 1]
      BY <1>1, <2>1, <3>1
    <3>3. g[k + 1] + s[n] = h[k + 1] + t[n]
      <4> DEFINE a == g[k]
                 b == h[k]
                 x == s[k + 1]
                 y == s[n]
                 z == t[n]
      <4>1. a \in Nat /\ b \in Nat /\ x \in Nat /\ y \in Nat /\ z \in Nat /\ a + y = b + z
        BY <2>2, <3>1
      <4>2. g[k + 1] + y = (a + x) + y /\ h[k + 1] + z = (b + x) + z
        BY <2>2, <3>2
      <4> HIDE DEF a, b, x, y, z
      <4>3. (a + x) + y = (b + x) + z
        BY <4>1
      <4> QED
        BY <4>2, <4>3 DEF y, z
    <3> QED
      BY <2>1, <3>1, <3>3
  <2> QED
    BY <1>1, <2>1, <2>3, <2>4, <2>5
<1>7. N \in S
  <2> HIDE DEF S
  <2>1. \A k \in 0 .. N : k \in S
    BY <1>1, <1>5, <1>6, Induction
  <2> QED
    BY <1>1, <2>1
<1>8. ~(N < n)
  BY <1>1
<1> QED
  BY <1>2, <1>3, <1>7, <1>8
=============================================================================
