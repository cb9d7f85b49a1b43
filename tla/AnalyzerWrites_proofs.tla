------------------------ MODULE AnalyzerWrites_proofs ------------------------
(***************************************************************************)
(* Proofs about AnalyzerWrites, for any calls, rows, files and processes.  *)
(***************************************************************************)
EXTENDS AnalyzerWritesInv, SequenceTheorems, FiniteSetTheorems, WellFoundedInduction, TLAPS

---------------------------------------------------------------------------
(* Induction over the natural numbers, for a set of them.                  *)

LEMMA LessThan == \E R : IsWellFoundedOn(R, Nat) /\ \A m, n \in Nat : m < n => <<m, n>> \in R
<1>1. \A m, n \in Nat : m < n => <<m, n>> \in OpToRel(<, Nat)
  BY DEF OpToRel
<1> QED
  BY <1>1, NatLessThanWellFounded, Zenon

(* A set of numbers that is not empty has a least one.                     *)
LEMMA Least ==
  ASSUME NEW T, T \subseteq Nat, T # {}
  PROVE  \E m \in T : \A n \in T : m <= n
<1>1. PICK R : IsWellFoundedOn(R, Nat) /\ \A m, n \in Nat : m < n => <<m, n>> \in R
  BY LessThan
<1>2. IsWellFoundedOn(R, Nat)
  BY <1>1
<1>3. \E m \in T : \A n \in T : ~(<<n, m>> \in R)
  <2> HIDE <1>1
  <2> QED
    BY <1>2, WFMin, ZenonT(30)
<1>4. PICK m \in T : \A n \in T : ~(<<n, m>> \in R)
  BY <1>3, Zenon
<1>5. ASSUME NEW n \in T PROVE m <= n
  <2>1. n \in Nat /\ m \in Nat /\ ~(n < m)
    BY <1>1, <1>4, Zenon
  <2> QED
    BY <2>1
<1> QED
  BY <1>5

LEMMA Induction ==
  ASSUME NEW T, T \subseteq Nat, 0 \in T, \A n \in T : n + 1 \in T
  PROVE  Nat \subseteq T
<1>1. CASE Nat \ T # {}
  <2>1. PICK m \in Nat \ T : \A n \in Nat \ T : m <= n
    BY <1>1, Least
  <2>2. m # 0 /\ m - 1 \in Nat
    BY <2>1
  <2>3. m - 1 \in T
    BY <2>1, <2>2
  <2> QED
    BY <2>1, <2>2, <2>3
<1> QED
  BY <1>1

---------------------------------------------------------------------------
(* Sequences of sequences, and the replay of a script.                     *)

LEMMA FlattenType ==
  ASSUME NEW S, NEW seqs \in Seq(Seq(S))
  PROVE  FlattenSeq(seqs) \in Seq(S)
<1> DEFINE n == Len(seqs)
           Fits(g, k) == g = [i \in 1..k |-> IF i = 1 THEN seqs[i] ELSE g[i - 1] \o seqs[i]]
           flat == CHOOSE g : Fits(g, n)
<1>1. n \in Nat /\ \A i \in 1..n : seqs[i] \in Seq(S)
  OBVIOUS
<1>2. CASE n = 0
  <2>1. seqs = <<>>
    BY <1>2
  <2> QED
    BY <1>2, <2>1 DEF FlattenSeq
<1>3. CASE n # 0
  <2>1. FlattenSeq(seqs) = flat[n]
    BY <1>3 DEF FlattenSeq
  <2> HIDE DEF flat, n
  <2>2. \E g : Fits(g, n)
    <3> DEFINE T == {k \in Nat : \E g : Fits(g, k)}
    <3>1. 0 \in T
      <4>1. Fits([i \in 1..0 |-> 0], 0)
        OBVIOUS
      <4> QED
        BY <4>1
    <3>2. ASSUME NEW k \in T PROVE k + 1 \in T
      <4>1. PICK g : Fits(g, k)
        OBVIOUS
      <4> DEFINE h == [i \in 1..(k + 1) |->
                         IF i \in 1..k THEN g[i] ELSE IF i = 1 THEN seqs[i] ELSE g[k] \o seqs[i]]
      <4>2. ASSUME NEW i \in 1..(k + 1)
            PROVE  h[i] = IF i = 1 THEN seqs[i] ELSE h[i - 1] \o seqs[i]
        <5>1. CASE i \in 1..k
          <6>1. h[i] = g[i] /\ g[i] = IF i = 1 THEN seqs[i] ELSE g[i - 1] \o seqs[i]
            BY <4>1, <5>1
          <6>2. i # 1 => i - 1 \in 1..k /\ h[i - 1] = g[i - 1]
            BY <5>1
          <6> QED
            BY <6>1, <6>2
        <5>2. CASE i = k + 1
          <6>1. h[i] = IF i = 1 THEN seqs[i] ELSE g[k] \o seqs[i]
            BY <5>2
          <6>2. i # 1 => k \in 1..k /\ i - 1 = k /\ h[k] = g[k]
            BY <5>2
          <6> QED
            BY <6>1, <6>2
        <5> QED
          BY <5>1, <5>2
      <4>3. Fits(h, k + 1)
        BY <4>2
      <4>4. k + 1 \in Nat
        OBVIOUS
      <4> HIDE DEF h, Fits
      <4> QED
        BY <4>3, <4>4
    <3> HIDE DEF T
    <3>3. Nat \subseteq T
      <4>1. T \subseteq Nat
        BY DEF T
      <4> QED
        BY <3>1, <3>2, <4>1, Induction
    <3> QED
      BY <1>1, <3>3 DEF T
  <2>3. Fits(flat, n)
    BY <2>2 DEF flat
  <2>4. \A j \in 1..n : flat[j] = IF j = 1 THEN seqs[j] ELSE flat[j - 1] \o seqs[j]
    BY <2>3
  <2> DEFINE T == {i \in Nat : i + 1 \in 1..n => flat[i + 1] \in Seq(S)}
  <2>5. 0 \in T
    BY <1>1, <2>3
  <2>6. ASSUME NEW i \in T PROVE i + 1 \in T
    <3>1. i \in Nat /\ (i + 1 \in 1..n => flat[i + 1] \in Seq(S))
      OBVIOUS
    <3>2. CASE (i + 1) + 1 \in 1..n
      <4>1. i + 1 \in 1..n /\ flat[i + 1] \in Seq(S) /\ seqs[(i + 1) + 1] \in Seq(S)
        BY <1>1, <3>1, <3>2
      <4>2. flat[(i + 1) + 1] = flat[i + 1] \o seqs[(i + 1) + 1]
        <5>1. (i + 1) + 1 # 1 /\ ((i + 1) + 1) - 1 = i + 1
          BY <3>1
        <5> QED
          BY <2>4, <3>2, <5>1
      <4>3. flat[i + 1] \o seqs[(i + 1) + 1] \in Seq(S)
        BY <4>1, ConcatProperties
      <4>4. i + 1 \in Nat /\ flat[(i + 1) + 1] \in Seq(S)
        BY <3>1, <4>2, <4>3
      <4> QED
        BY <4>4
    <3> QED
      BY <3>1, <3>2
  <2> HIDE DEF T
  <2>7. Nat \subseteq T
    <3>1. T \subseteq Nat
      BY DEF T
    <3> QED
      BY <2>5, <2>6, <3>1, Induction
  <2>8. n - 1 \in Nat /\ (n - 1) + 1 = n /\ n \in 1..n
    BY <1>1, <1>3
  <2> QED
    BY <2>1, <2>7, <2>8 DEF T
<1> QED
  BY <1>2, <1>3

(* What the fold of a script is a value of, over the sets of its indices.  *)
Chain(r, T, d, N, g) ==
  g = [S \in SUBSET N |->
         IF S = {} THEN T ELSE Effect(r, d[Max(S)], g[S \ {Max(S)}])]

LEMMA MaxOfInterval ==
  ASSUME NEW k \in Nat, NEW S, S \subseteq 1..(k + 1), k + 1 \in S
  PROVE  Max(S) = k + 1
<1>1. \A x \in S : k + 1 >= x
  OBVIOUS
<1>2. \A x \in S : (\A y \in S : x >= y) => x = k + 1
  OBVIOUS
<1> QED
  BY <1>1, <1>2 DEF Max

LEMMA ChainExists ==
  ASSUME NEW r, NEW T, NEW d, NEW n \in Nat
  PROVE  \E g : Chain(r, T, d, 1..n, g)
<1> DEFINE K == {k \in Nat : \E g : Chain(r, T, d, 1..k, g)}
<1>1. 0 \in K
  <2> DEFINE g == [S \in SUBSET (1..0) |-> T]
  <2>1. \A S \in SUBSET (1..0) : S = {}
    OBVIOUS
  <2>2. Chain(r, T, d, 1..0, g)
    BY <2>1 DEF Chain
  <2> HIDE DEF g
  <2> QED
    BY <2>2
<1>2. ASSUME NEW k \in K PROVE k + 1 \in K
  <2>1. PICK g : Chain(r, T, d, 1..k, g)
    OBVIOUS
  <2> DEFINE h == [S \in SUBSET (1..(k + 1)) |->
                     IF k + 1 \in S THEN Effect(r, d[k + 1], g[S \ {k + 1}]) ELSE g[S]]
  <2>2. ASSUME NEW S \in SUBSET (1..(k + 1))
        PROVE  h[S] = IF S = {} THEN T ELSE Effect(r, d[Max(S)], h[S \ {Max(S)}])
    <3>1. CASE k + 1 \in S
      <4>1. Max(S) = k + 1 /\ S # {}
        BY <3>1, MaxOfInterval
      <4>2. S \ {k + 1} \in SUBSET (1..(k + 1)) /\ k + 1 \notin S \ {k + 1}
        OBVIOUS
      <4>3. h[S \ {k + 1}] = g[S \ {k + 1}]
        BY <4>2
      <4>4. h[S] = Effect(r, d[k + 1], g[S \ {k + 1}])
        BY <3>1
      <4> QED
        BY <4>1, <4>3, <4>4
    <3>2. CASE k + 1 \notin S
      <4>1. S \in SUBSET (1..k)
        BY <3>2
      <4>2. h[S] = g[S]
        BY <3>2
      <4>3. g[S] = IF S = {} THEN T ELSE Effect(r, d[Max(S)], g[S \ {Max(S)}])
        BY <2>1, <4>1 DEF Chain
      <4>4. h[S \ {Max(S)}] = g[S \ {Max(S)}]
        <5>1. S \ {Max(S)} \in SUBSET (1..(k + 1)) /\ k + 1 \notin S \ {Max(S)}
          BY <3>2
        <5> QED
          BY <5>1
      <4> QED
        BY <4>2, <4>3, <4>4
    <3> QED
      BY <3>1, <3>2
  <2>3. Chain(r, T, d, 1..(k + 1), h)
    <3>1. h = [S \in SUBSET (1..(k + 1)) |-> h[S]]
      OBVIOUS
    <3> HIDE DEF h
    <3> QED
      BY <2>2, <3>1 DEF Chain
  <2>4. k + 1 \in Nat
    OBVIOUS
  <2> HIDE DEF h
  <2> QED
    BY <2>3, <2>4
<1> HIDE DEF K
<1>3. K \subseteq Nat
  BY DEF K
<1> QED
  BY <1>1, <1>2, <1>3, Induction DEF K

(* The fold is one.                                                        *)
LEMMA ReplayedChain ==
  ASSUME NEW r, NEW T, NEW d, DOMAIN d = 1..Len(d), Len(d) \in Nat
  PROVE  \E g : Chain(r, T, d, 1..Len(d), g) /\ Replayed(r, T, d) = g[1..Len(d)]
<1> DEFINE c == CHOOSE g : Chain(r, T, d, 1..Len(d), g)
<1>1. Replayed(r, T, d) = c[1..Len(d)]
  BY DEF Replayed, FoldLeft, MapThenFoldSet, Chain
<1>2. Chain(r, T, d, 1..Len(d), c)
  BY ChainExists
<1> QED
  BY <1>1, <1>2

(* The replay of a script, statement by statement.                         *)
LEMMA Replay ==
  ASSUME NEW r, NEW T, NEW d \in Seq(Statement)
  PROVE  \E f : /\ f[0] = T
                /\ \A k \in Nat : k + 1 \in 1..Len(d) => f[k + 1] = Effect(r, d[k + 1], f[k])
                /\ Replayed(r, T, d) = f[Len(d)]
<1>1. DOMAIN d = 1..Len(d) /\ Len(d) \in Nat
  OBVIOUS
<1>2. PICK g : Chain(r, T, d, 1..Len(d), g) /\ Replayed(r, T, d) = g[1..Len(d)]
  BY <1>1, ReplayedChain
<1> DEFINE f == [k \in Nat |-> g[1..k]]
<1>3. f[0] = T
  <2>1. 1..0 = {} /\ 1..0 \in SUBSET (1..Len(d))
    OBVIOUS
  <2>2. g[1..0] = T
    BY <1>2, <2>1 DEF Chain
  <2> QED
    BY <2>2
<1>4. ASSUME NEW k \in Nat, k + 1 \in 1..Len(d)
      PROVE  f[k + 1] = Effect(r, d[k + 1], f[k])
  <2>1. 1..(k + 1) \in SUBSET (1..Len(d)) /\ 1..(k + 1) # {}
    BY <1>1, <1>4
  <2>2. Max(1..(k + 1)) = k + 1
    BY MaxOfInterval
  <2>3. (1..(k + 1)) \ {k + 1} = 1..k
    OBVIOUS
  <2>4. g[1..(k + 1)] = Effect(r, d[k + 1], g[1..k])
    BY <1>2, <2>1, <2>2, <2>3 DEF Chain
  <2> QED
    BY <2>4
<1>5. f[Len(d)] = g[1..Len(d)]
  BY <1>1
<1> HIDE DEF f
<1> QED
  BY <1>2, <1>3, <1>4, <1>5

LEMMA ReplayedEmpty ==
  ASSUME NEW r, NEW T
  PROVE  Replayed(r, T, <<>>) = T
<1>0. PICK d : d = <<>>
  OBVIOUS
<1>1. d \in Seq(Statement)
  BY <1>0
<1>2. PICK f : f[0] = T /\ Replayed(r, T, d) = f[Len(d)]
  BY <1>1, Replay
<1> QED
  BY <1>0, <1>1, <1>2

LEMMA ReplayedAppend ==
  ASSUME NEW r, NEW T, NEW d \in Seq(Statement), NEW s \in Statement
  PROVE  Replayed(r, T, Append(d, s)) = Effect(r, s, Replayed(r, T, d))
<1>1. PICK e : e = Append(d, s)
  OBVIOUS
<1>2. e \in Seq(Statement)
  BY <1>1
<1>3. /\ Len(e) = Len(d) + 1 /\ Len(d) \in Nat
      /\ \A i \in 1..Len(d) : e[i] = d[i]
      /\ e[Len(d) + 1] = s
  BY <1>1
<1>4. PICK f : /\ f[0] = T
               /\ \A k \in Nat : k + 1 \in 1..Len(d) => f[k + 1] = Effect(r, d[k + 1], f[k])
               /\ Replayed(r, T, d) = f[Len(d)]
  BY Replay
<1>5. PICK h : /\ h[0] = T
               /\ \A k \in Nat : k + 1 \in 1..Len(e) => h[k + 1] = Effect(r, e[k + 1], h[k])
               /\ Replayed(r, T, e) = h[Len(e)]
  BY <1>2, Replay
<1> PICK n : n = Len(d)
  OBVIOUS
<1> DEFINE K == {k \in Nat : k <= n => f[k] = h[k]}
<1>6. 0 \in K
  BY <1>4, <1>5
<1>7. ASSUME NEW k \in K PROVE k + 1 \in K
  <2>1. CASE k + 1 <= n
    <3>1. k \in Nat /\ k + 1 \in 1..n /\ k + 1 \in 1..Len(e) /\ f[k] = h[k]
      BY <1>3, <2>1
    <3>2. f[k + 1] = Effect(r, d[k + 1], f[k]) /\ h[k + 1] = Effect(r, e[k + 1], h[k])
      BY <1>4, <1>5, <3>1
    <3> QED
      BY <1>3, <3>1, <3>2
  <2> QED
    BY <2>1
<1> HIDE DEF K
<1>8. Nat \subseteq K
  <2>1. K \subseteq Nat
    BY DEF K
  <2> QED
    BY <1>6, <1>7, <2>1, Induction
<1>9. f[n] = h[n]
  BY <1>3, <1>8 DEF K
<1>10. h[n + 1] = Effect(r, s, h[n])
  BY <1>3, <1>5
<1> QED
  BY <1>1, <1>3, <1>4, <1>5, <1>9, <1>10

---------------------------------------------------------------------------
(* What a statement does to a row.                                         *)

LEMMA ResultType ==
  ASSUME NEW r \in Request, NEW s \in Statement, NEW v \in Value \cup {None}
  PROVE  Result(r, s, v) \in Value \cup {None}
<1>1. CASE s.does = "drop" \/ (v = None /\ s.does \notin Inserts)
  BY <1>1 DEF Result
<1>2. CASE s.does # "drop" /\ v = None /\ s.does \in Inserts
  <2>1. s.text \in Text \cup {Empty} /\ s.by \in Writer /\ s.owner \in Owner
    BY DEF Statement
  <2> QED
    BY <1>2, <2>1 DEF Result, Value
<1>3. CASE s.does # "drop" /\ v # None
  <2>1. s.text \in Text \cup {Empty} /\ s.by \in Writer /\ s.owner \in Owner
    BY DEF Statement
  <2>2. /\ v.text \in Text \cup {Empty} /\ v.by \in Writer /\ v.maker \in Request \cup {None}
        /\ v.owner \in Owner
    BY <1>3 DEF Value
  <2>3. PICK t \in {s.text, v.text}, b \in {s.by, v.by}, p \in {s.owner, v.owner} :
          Result(r, s, v) = [text |-> t, by |-> b, maker |-> v.maker, owner |-> p]
    BY <1>3 DEF Result
  <2> QED
    BY <2>1, <2>2, <2>3 DEF Value
<1> QED
  BY <1>1, <1>2, <1>3

(* A statement changes its rows, each by what the row alone asks for.      *)
LEMMA EffectAt ==
  ASSUME NEW r, NEW s, NEW T, NEW x \in Row
  PROVE  Effect(r, s, T)[x] = IF x \in s.of THEN Result(r, s, T[x]) ELSE T[x]
BY DEF Effect

LEMMA EffectType ==
  ASSUME NEW r \in Request, NEW s \in Statement, NEW T \in [Row -> Value \cup {None}]
  PROVE  Effect(r, s, T) \in [Row -> Value \cup {None}]
<1>1. \A x \in Row : Result(r, s, T[x]) \in Value \cup {None}
  BY ResultType
<1> QED
  BY <1>1 DEF Effect

(* A replay keeps the type of the rows.                                    *)
LEMMA ReplayedType ==
  ASSUME NEW r \in Request, NEW T \in [Row -> Value \cup {None}], NEW d \in Seq(Statement)
  PROVE  Replayed(r, T, d) \in [Row -> Value \cup {None}]
<1>1. PICK f : /\ f[0] = T
               /\ \A k \in Nat : k + 1 \in 1..Len(d) => f[k + 1] = Effect(r, d[k + 1], f[k])
               /\ Replayed(r, T, d) = f[Len(d)]
  BY Replay
<1> DEFINE K == {k \in Nat : k <= Len(d) => f[k] \in [Row -> Value \cup {None}]}
<1>2. 0 \in K
  BY <1>1
<1>3. ASSUME NEW k \in K PROVE k + 1 \in K
  <2>1. CASE k + 1 <= Len(d)
    <3>1. k + 1 \in 1..Len(d) /\ f[k] \in [Row -> Value \cup {None}] /\ d[k + 1] \in Statement
      BY <2>1
    <3>2. f[k + 1] = Effect(r, d[k + 1], f[k])
      BY <1>1, <3>1
    <3>3. f[k + 1] \in [Row -> Value \cup {None}]
      BY <3>1, <3>2, EffectType
    <3> QED
      BY <3>3
  <2> QED
    BY <2>1
<1> HIDE DEF K
<1>4. Nat \subseteq K
  <2>1. K \subseteq Nat
    BY DEF K
  <2> QED
    BY <1>2, <1>3, <2>1, Induction
<1> QED
  BY <1>1, <1>4 DEF K

(* To a row, a replay does what the row alone asks for.                    *)
LEMMA ReplayedAt ==
  ASSUME NEW r \in Request, NEW d \in Seq(Statement), NEW x \in Row,
         NEW T \in [Row -> Value \cup {None}], NEW U \in [Row -> Value \cup {None}],
         T[x] = U[x]
  PROVE  Replayed(r, T, d)[x] = Replayed(r, U, d)[x]
<1> DEFINE V == [Row -> Value \cup {None}]
<1>1. PICK f : /\ f[0] = T
               /\ \A k \in Nat : k + 1 \in 1..Len(d) => f[k + 1] = Effect(r, d[k + 1], f[k])
               /\ Replayed(r, T, d) = f[Len(d)]
  BY Replay
<1>2. PICK h : /\ h[0] = U
               /\ \A k \in Nat : k + 1 \in 1..Len(d) => h[k + 1] = Effect(r, d[k + 1], h[k])
               /\ Replayed(r, U, d) = h[Len(d)]
  BY Replay
<1> DEFINE K == {k \in Nat : k <= Len(d) => f[k] \in V /\ h[k] \in V /\ f[k][x] = h[k][x]}
<1>3. 0 \in K
  BY <1>1, <1>2
<1>4. ASSUME NEW k \in K PROVE k + 1 \in K
  <2>1. CASE k + 1 <= Len(d)
    <3>1. /\ k + 1 \in 1..Len(d) /\ f[k] \in V /\ h[k] \in V /\ f[k][x] = h[k][x]
          /\ d[k + 1] \in Statement
      BY <2>1
    <3>2. f[k + 1] = Effect(r, d[k + 1], f[k]) /\ h[k + 1] = Effect(r, d[k + 1], h[k])
      BY <1>1, <1>2, <3>1
    <3>3. f[k + 1] \in V /\ h[k + 1] \in V
      BY <3>1, <3>2, EffectType
    <3>4. f[k + 1][x] = h[k + 1][x]
      BY <3>1, <3>2, EffectAt
    <3> QED
      BY <3>3, <3>4
  <2> QED
    BY <2>1
<1> HIDE DEF K
<1>5. Nat \subseteq K
  <2>1. K \subseteq Nat
    BY DEF K
  <2> QED
    BY <1>3, <1>4, <2>1, Induction
<1> QED
  BY <1>1, <1>2, <1>5 DEF K

(* A row that no statement of a script changes stays.                      *)
LEMMA ReplayedIdle ==
  ASSUME NEW r \in Request, NEW d \in Seq(Statement), NEW x \in Row,
         NEW T \in [Row -> Value \cup {None}], \A i \in DOMAIN d : x \notin d[i].of
  PROVE  Replayed(r, T, d)[x] = T[x]
<1> DEFINE V == [Row -> Value \cup {None}]
<1>1. PICK f : /\ f[0] = T
               /\ \A k \in Nat : k + 1 \in 1..Len(d) => f[k + 1] = Effect(r, d[k + 1], f[k])
               /\ Replayed(r, T, d) = f[Len(d)]
  BY Replay
<1> DEFINE K == {k \in Nat : k <= Len(d) => f[k] \in V /\ f[k][x] = T[x]}
<1>2. 0 \in K
  BY <1>1
<1>3. ASSUME NEW k \in K PROVE k + 1 \in K
  <2>1. CASE k + 1 <= Len(d)
    <3>1. /\ k + 1 \in 1..Len(d) /\ f[k] \in V /\ f[k][x] = T[x]
          /\ d[k + 1] \in Statement /\ k + 1 \in DOMAIN d
      BY <2>1
    <3>2. f[k + 1] = Effect(r, d[k + 1], f[k])
      BY <1>1, <3>1
    <3>3. f[k + 1] \in V
      BY <3>1, <3>2, EffectType
    <3>4. f[k + 1][x] = T[x]
      BY <3>1, <3>2, EffectAt
    <3> QED
      BY <3>3, <3>4
  <2> QED
    BY <2>1
<1> HIDE DEF K
<1>4. Nat \subseteq K
  <2>1. K \subseteq Nat
    BY DEF K
  <2> QED
    BY <1>2, <1>3, <2>1, Induction
<1> QED
  BY <1>1, <1>4 DEF K

---------------------------------------------------------------------------
(* Scripts.                                                                *)

LEMMA StatementIs ==
  ASSUME NEW does \in Does, NEW x \in Row \cup {None}, NEW t \in Text \cup {Empty},
         NEW by \in Writer, NEW p \in Owner
  PROVE  /\ Stmt(does, x, t, by) \in Statement /\ In(Stmt(does, x, t, by), p) \in Statement
         /\ LET s == Stmt(does, x, t, by)
            IN  s.does = does /\ s.row = x /\ s.of = {} /\ s.text = t /\ s.by = by
         /\ LET s == In(Stmt(does, x, t, by), p)
            IN  s.does = does /\ s.row = x /\ s.of = {} /\ s.text = t /\ s.by = by
<1>1. None \in Owner /\ {} \subseteq Row /\ {} \subseteq Owner
  BY DEF Owner
<1> QED
  BY <1>1 DEF Stmt, In, Statement

LEMMA SweepIs ==
  ASSUME NEW does \in Sweeps, NEW R, R \subseteq Row, NEW owners, owners \subseteq Owner,
         NEW t \in Text \cup {Empty}, NEW by \in Writer
  PROVE  /\ Sweep(does, R, owners, t, by) \in Statement
         /\ LET s == Sweep(does, R, owners, t, by)
            IN  s.does = does /\ s.of = R /\ s.text = t /\ s.by = by
<1>1. None \in Owner /\ does \in Does
  BY DEF Owner, Does
<1> QED
  BY <1>1 DEF Sweep, Stmt, Statement

Plain == {"find", "look", "keep", "put", "insert", "add", "bare"}

LEMMA PlainStatement ==
  ASSUME NEW does \in Plain, NEW x \in Row, NEW t \in Text \cup {Empty},
         NEW by \in Writer, NEW p \in Owner, NEW o, o \notin {"generate", "describe"}
  PROVE  /\ Stmt(does, x, t, by) \in Legal(o) /\ In(Stmt(does, x, t, by), p) \in Legal(o)
         /\ Do(does, x) \in Legal(o) /\ In(Do(does, x), p) \in Legal(o)
<1>1. does \in Does /\ does \notin Sweeps \cup {"claim"} /\ None \in Writer /\ Empty \in Text \cup {Empty}
  BY DEF Plain, Does, Sweeps, Inserts, Selects, Writer
<1>2. /\ Stmt(does, x, t, by) \in Legal(o) /\ In(Stmt(does, x, t, by), p) \in Legal(o)
  BY <1>1, StatementIs DEF Legal, Sweeps
<1>3. PICK e \in Text \cup {Empty}, b \in Writer : e = Empty /\ b = None
  BY <1>1
<1>4. /\ Stmt(does, x, e, b) \in Legal(o) /\ In(Stmt(does, x, e, b), p) \in Legal(o)
  BY <1>1, StatementIs DEF Legal, Sweeps
<1> QED
  BY <1>2, <1>3, <1>4 DEF Do

LEMMA ClaimStatement ==
  ASSUME NEW x \in Link, NEW by \in Writer, NEW o, o \notin {"generate", "describe"}
  PROVE  Stmt("claim", x, Empty, by) \in Legal(o)
<1>1. "claim" \in Does /\ "claim" \notin Sweeps /\ x \in Row /\ None \in Owner
  BY DEF Does, Sweeps, Inserts, Row, Owner
<1> QED
  BY <1>1, StatementIs DEF Legal

LEMMA DropStatement ==
  ASSUME NEW R, R \subseteq Row, NEW o, o \notin {"generate", "describe"}
  PROVE  Drop(R) \in Legal(o)
<1>1. "drop" \in Sweeps /\ Owner \subseteq Owner /\ None \in Writer /\ Empty \in Text \cup {Empty}
  BY DEF Sweeps, Writer
<1> QED
  BY <1>1, SweepIs DEF Drop, Legal

LEMMA SetStatement ==
  ASSUME NEW R, R \subseteq Table \cup Column \cup Glossary \cup Term,
         NEW owners, owners \subseteq Owner, NEW t \in Text, NEW o \in {"describe", "edit"}
  PROVE  Sweep("set", R, owners, t, "user") \in Legal(o)
<1>1. "set" \in Sweeps /\ "user" \in Writer /\ R \subseteq Row /\ t \in Text \cup {Empty}
  BY DEF Sweeps, Writer, Row
<1>2. R \cap Link = {}
  BY KindAssumption DEF Part
<1> QED
  BY <1>1, <1>2, SweepIs DEF Legal, Whole

LEMMA FillStatement ==
  ASSUME NEW R, R \subseteq Row, NEW owners, owners \subseteq Owner, NEW t \in Text
  PROVE  Sweep("fill", R, owners, t, "generated") \in Legal("generate")
<1>1. "fill" \in Sweeps /\ "generated" \in Writer /\ t \in Text \cup {Empty}
  BY DEF Sweeps, Writer
<1> QED
  BY <1>1, SweepIs DEF Legal, Whole

(* The first element of a script that starts with a known step.            *)
LEMMA StartsWith ==
  ASSUME NEW S, NEW s \in S, NEW script \in Seq(S)
  PROVE  <<s>> \o script # <<>> /\ Head(<<s>> \o script) = s /\ <<s>> \o script \in Seq(S)
<1>1. PICK one : one = <<s>>
  OBVIOUS
<1>2. one \in Seq(S) /\ Len(one) = 1 /\ one[1] = s
  BY <1>1
<1>3. /\ one \o script \in Seq(S) /\ Len(one \o script) = 1 + Len(script)
      /\ (one \o script)[1] = one[1]
  <2>1. /\ one \o script \in Seq(S) /\ Len(one \o script) = Len(one) + Len(script)
        /\ \A i \in 1..(Len(one) + Len(script)) :
             (one \o script)[i] = IF i <= Len(one) THEN one[i] ELSE script[i - Len(one)]
    BY <1>2, ConcatProperties
  <2>2. 1 \in 1..(Len(one) + Len(script)) /\ 1 <= Len(one)
    BY <1>2
  <2> HIDE <1>1
  <2> QED
    BY <1>2, <2>1, <2>2
<1>4. one \o script # <<>> /\ Head(one \o script) = s
  BY <1>2, <1>3
<1> QED
  BY <1>1, <1>3, <1>4

LEMMA ListOf ==
  ASSUME NEW S, NEW n \in Nat, NEW f, f = [i \in 1..n |-> f[i]], \A i \in 1..n : f[i] \in S
  PROVE  f \in Seq(S)
OBVIOUS

LEMMA LookUpIs ==
  ASSUME NEW d \in Ddl, NEW t \in Table
  PROVE  LookUp(d, t) \in Seq(Legal("import"))
<1> DEFINE S == Legal("import")
<1>1. t \in Row /\ None \in Owner /\ None \in Writer /\ Empty \in Text \cup {Empty} /\ "look" \in Plain
  BY DEF Row, Owner, Writer, Plain
<1>2. Do("look", t) \in S
  BY <1>1, PlainStatement
<1> HIDE DEF S
<1>3. <<Do("look", t)>> \in Seq(S) /\ <<>> \in Seq(S)
  BY <1>2
<1> QED
  BY <1>3 DEF LookUp, S

LEMMA ColumnScriptIs ==
  ASSUME NEW d \in Ddl, NEW c \in Column \X Table
  PROVE  ColumnScript(d, c) \in Seq(Legal("import"))
<1> DEFINE S == Legal("import")
           put == In(Put(d, c[1]), c[2])
           first == LookUp(d, c[2])
<1>1. /\ c[1] \in Row /\ c[2] \in Owner /\ c[2] \in Table /\ "ddl" \in Writer /\ "put" \in Plain
      /\ d.text \in Text \cup {Empty}
  BY DEF Row, Owner, Writer, Plain, Ddl
<1>2. put \in S
  BY <1>1, PlainStatement DEF Put
<1>3. first \in Seq(S)
  BY <1>1, LookUpIs
<1>4. ColumnScript(d, c) = first \o <<put>>
  BY DEF ColumnScript
<1> HIDE DEF S, put, first
<1>5. <<put>> \in Seq(S)
  BY <1>2
<1> QED
  BY <1>3, <1>4, <1>5, ConcatProperties DEF S

LEMMA KeyScriptIs ==
  ASSUME NEW d \in Ddl, NEW k \in Table \X Table
  PROVE  KeyScript(d, k) \in Seq(Legal("import"))
<1> DEFINE S == Legal("import")
           a == LookUp(d, k[1])
           b == LookUp(d, k[2])
           bare == Do("bare", k[2])
           link == <<k[1], k[2], "FK_TO_TABLE">>
           claim == Stmt("claim", link, Empty, "ddl")
<1>1. /\ k[1] \in Table /\ k[2] \in Table /\ k[2] \in Row /\ link \in Link /\ "ddl" \in Writer
      /\ None \in Owner /\ None \in Writer /\ Empty \in Text \cup {Empty} /\ "bare" \in Plain
  BY InputAssumption DEF Row, Link, Writer, Owner, Plain
<1>2. a \in Seq(S) /\ b \in Seq(S)
  BY <1>1, LookUpIs
<1>3. bare \in S
  BY <1>1, PlainStatement
<1>4. claim \in S
  BY <1>1, ClaimStatement
<1>5. KeyScript(d, k) = a \o b \o <<bare, claim>>
  BY DEF KeyScript
<1> HIDE DEF S, a, b, bare, claim
<1>6. <<bare, claim>> \in Seq(S)
  BY <1>3, <1>4
<1>7. a \o b \in Seq(S)
  BY <1>2, ConcatProperties
<1> QED
  BY <1>5, <1>6, <1>7, ConcatProperties DEF S

LEMMA TableScriptIs ==
  ASSUME NEW d \in Ddl
  PROVE  TableScript(d) \in Seq(Legal("import"))
<1> DEFINE S == Legal("import")
           tables == Each(LAMBDA t : Put(d, t), d.tables)
           columns == Each(LAMBDA c : ColumnScript(d, c), d.columns)
           keys == Each(LAMBDA k : KeyScript(d, k), d.keys)
<1>1. /\ d.tables \in Seq(Table) /\ d.columns \in Seq(Column \X Table)
      /\ d.keys \in Seq(Table \X Table) /\ d.text \in Text \cup {Empty}
  BY DEF Ddl
<1>2. /\ DOMAIN d.tables = 1..Len(d.tables) /\ Len(d.tables) \in Nat
      /\ DOMAIN d.columns = 1..Len(d.columns) /\ Len(d.columns) \in Nat
      /\ DOMAIN d.keys = 1..Len(d.keys) /\ Len(d.keys) \in Nat
  BY <1>1
<1>3. tables \in Seq(S)
  <2>1. ASSUME NEW x \in Table PROVE Put(d, x) \in S
    <3>1. x \in Row /\ None \in Owner /\ "ddl" \in Writer /\ "put" \in Plain
      BY DEF Row, Owner, Writer, Plain
    <3> QED
      BY <1>1, <3>1, PlainStatement DEF Put
  <2>2. tables = [i \in 1..Len(d.tables) |-> Put(d, d.tables[i])]
    BY <1>2 DEF Each
  <2> HIDE DEF S, tables
  <2>3. \A i \in 1..Len(d.tables) : tables[i] \in S
    BY <1>1, <2>1, <2>2
  <2>4. tables = [i \in 1..Len(d.tables) |-> tables[i]]
    BY <2>2
  <2> QED
    BY <1>2, <2>3, <2>4, ListOf
<1>4. columns \in Seq(Seq(S))
  <2>1. columns = [i \in 1..Len(d.columns) |-> ColumnScript(d, d.columns[i])]
    BY <1>2 DEF Each
  <2>2. \A i \in 1..Len(d.columns) : ColumnScript(d, d.columns[i]) \in Seq(S)
    BY <1>1, ColumnScriptIs
  <2> HIDE DEF S, columns
  <2>3. \A i \in 1..Len(d.columns) : columns[i] \in Seq(S)
    BY <2>1, <2>2
  <2>4. columns = [i \in 1..Len(d.columns) |-> columns[i]]
    BY <2>1
  <2> QED
    BY <1>2, <2>3, <2>4, ListOf
<1>5. keys \in Seq(Seq(S))
  <2>1. keys = [i \in 1..Len(d.keys) |-> KeyScript(d, d.keys[i])]
    BY <1>2 DEF Each
  <2>2. \A i \in 1..Len(d.keys) : KeyScript(d, d.keys[i]) \in Seq(S)
    BY <1>1, KeyScriptIs
  <2> HIDE DEF S, keys
  <2>3. \A i \in 1..Len(d.keys) : keys[i] \in Seq(S)
    BY <2>1, <2>2
  <2>4. keys = [i \in 1..Len(d.keys) |-> keys[i]]
    BY <2>1
  <2> QED
    BY <1>2, <2>3, <2>4, ListOf
<1>6. FlattenSeq(columns) \in Seq(S) /\ FlattenSeq(keys) \in Seq(S)
  BY <1>4, <1>5, FlattenType
<1>7. TableScript(d) = tables \o FlattenSeq(columns) \o FlattenSeq(keys)
  BY DEF TableScript
<1> HIDE DEF S, tables, columns, keys
<1>8. tables \o FlattenSeq(columns) \in Seq(S)
  BY <1>3, <1>6, ConcatProperties
<1> QED
  BY <1>6, <1>7, <1>8, ConcatProperties DEF S

LEMMA ImportScript ==
  ASSUME NEW d \in Ddl
  PROVE  /\ DdlScript(d) \in Seq(Legal("import"))
         /\ d.source # None =>
              DdlScript(d) # <<>> /\ Head(DdlScript(d)) = Do("keep", d.source)
<1> DEFINE S == Legal("import")
           schemas == Each(LAMBDA s : Do("keep", s), d.schemas)
           tables == TableScript(d)
           one == Do("keep", d.source)
<1>1. d.source \in Source \cup {None} /\ d.schemas \in Seq(SchemaRow)
  BY DEF Ddl
<1>2. ASSUME NEW x \in Row PROVE Do("keep", x) \in S
  <2>1. None \in Owner /\ None \in Writer /\ Empty \in Text \cup {Empty} /\ "keep" \in Plain
    BY DEF Owner, Writer, Plain
  <2> QED
    BY <2>1, PlainStatement
<1>3. schemas \in Seq(S)
  <2>1. DOMAIN d.schemas = 1..Len(d.schemas) /\ Len(d.schemas) \in Nat
    BY <1>1
  <2>2. schemas = [i \in 1..Len(d.schemas) |-> Do("keep", d.schemas[i])]
    BY <2>1 DEF Each
  <2>3. \A i \in 1..Len(d.schemas) : Do("keep", d.schemas[i]) \in S
    BY <1>1, <1>2 DEF Row
  <2> HIDE DEF S, schemas
  <2>4. \A i \in 1..Len(d.schemas) : schemas[i] \in S
    BY <2>2, <2>3
  <2>5. schemas = [i \in 1..Len(d.schemas) |-> schemas[i]]
    BY <2>2
  <2> QED
    BY <2>1, <2>4, <2>5, ListOf
<1>4. tables \in Seq(S)
  BY TableScriptIs
<1>5. d.source # None => one \in S
  BY <1>1, <1>2 DEF Row
<1>6. DdlScript(d) = ((IF d.source = None THEN <<>> ELSE <<one>>) \o schemas) \o tables
  BY DEF DdlScript, SourceScript
<1>7. d.source # None => one = Do("keep", d.source)
  OBVIOUS
<1> HIDE DEF S, schemas, tables, one
<1>8. schemas \o tables \in Seq(S)
  BY <1>3, <1>4, ConcatProperties
<1>9. CASE d.source = None
  <2>1. <<>> \o schemas = schemas
    BY <1>3
  <2>2. DdlScript(d) = schemas \o tables
    BY <1>6, <1>9, <2>1
  <2> QED
    BY <1>8, <1>9, <2>2 DEF S
<1>10. CASE d.source # None
  <2>1. PICK first : first = <<one>>
    OBVIOUS
  <2>2. first \in Seq(S)
    BY <1>5, <1>10, <2>1
  <2>3. (first \o schemas) \o tables = first \o (schemas \o tables)
    BY <1>3, <1>4, <2>2
  <2>4. DdlScript(d) = <<one>> \o (schemas \o tables)
    BY <1>6, <1>10, <2>1, <2>3
  <2> QED
    BY <1>5, <1>7, <1>8, <1>10, <2>4, StartsWith DEF S
<1> QED
  BY <1>9, <1>10

LEMMA LineageCall ==
  ASSUME NEW p \in Node, NEW ins \in Seq(Node), NEW outs \in Seq(Node)
  PROVE  LineageScript(p, ins, outs) \in Seq(Legal("lineage"))
<1> DEFINE S == Legal("lineage")
           first == <<Do("keep", p)>>
           reads == [i \in DOMAIN ins |->
                       <<Role(ins[i], "SOURCE"), Do("add", <<ins[i], p>>)>>]
           writes == [i \in DOMAIN outs |->
                        <<Role(outs[i], "TARGET"), Do("add", <<p, outs[i]>>)>>]
           flows == [i \in DOMAIN ins |->
                       [j \in DOMAIN outs |-> Do("add", <<ins[i], outs[j]>>)]]
<1>0. /\ "SOURCE" \in Writer /\ "TARGET" \in Writer /\ None \in Owner /\ None \in Writer
      /\ Empty \in Text \cup {Empty} /\ "keep" \in Plain /\ "put" \in Plain /\ "add" \in Plain
  BY DEF Writer, Owner, Plain
<1>1. ASSUME NEW x \in Node
      PROVE  Do("keep", x) \in S /\ Role(x, "SOURCE") \in S /\ Role(x, "TARGET") \in S
  <2>1. x \in Row
    BY <1>1 DEF Row
  <2> QED
    BY <1>0, <2>1, PlainStatement DEF Role
<1>2. ASSUME NEW x \in Node, NEW y \in Node PROVE Do("add", <<x, y>>) \in S
  <2>1. <<x, y>> \in Row
    BY <1>2 DEF Flow, Row
  <2> QED
    BY <1>0, <2>1, PlainStatement
<1> HIDE DEF S
<1>3. first \in Seq(S)
  BY <1>1
<1>4. /\ DOMAIN ins = 1..Len(ins) /\ Len(ins) \in Nat /\ \A i \in 1..Len(ins) : ins[i] \in Node
      /\ DOMAIN outs = 1..Len(outs) /\ Len(outs) \in Nat
      /\ \A j \in 1..Len(outs) : outs[j] \in Node
  OBVIOUS
<1>5. reads \in Seq(Seq(S))
  <2>1. \A i \in 1..Len(ins) : reads[i] \in Seq(S)
    BY <1>1, <1>2, <1>4
  <2>2. reads = [i \in 1..Len(ins) |-> reads[i]]
    BY <1>4
  <2> HIDE DEF reads
  <2> QED
    BY <1>4, <2>1, <2>2, ListOf
<1>6. writes \in Seq(Seq(S))
  <2>1. \A i \in 1..Len(outs) : writes[i] \in Seq(S)
    BY <1>1, <1>2, <1>4
  <2>2. writes = [i \in 1..Len(outs) |-> writes[i]]
    BY <1>4
  <2> HIDE DEF writes
  <2> QED
    BY <1>4, <2>1, <2>2, ListOf
<1>7. flows \in Seq(Seq(S))
  <2>1. ASSUME NEW i \in 1..Len(ins) PROVE flows[i] \in Seq(S)
    <3>1. flows[i] = [j \in 1..Len(outs) |-> Do("add", <<ins[i], outs[j]>>)]
      BY <1>4
    <3>2. \A j \in 1..Len(outs) : Do("add", <<ins[i], outs[j]>>) \in S
      BY <1>2, <1>4
    <3> QED
      BY <1>4, <3>1, <3>2
  <2>2. flows = [i \in 1..Len(ins) |-> flows[i]]
    BY <1>4
  <2> HIDE DEF flows
  <2> QED
    BY <1>4, <2>1, <2>2, ListOf
<1>8. FlattenSeq(reads) \in Seq(S) /\ FlattenSeq(writes) \in Seq(S) /\ FlattenSeq(flows) \in Seq(S)
  BY <1>5, <1>6, <1>7, FlattenType
<1>9. LineageScript(p, ins, outs)
        = first \o FlattenSeq(reads) \o FlattenSeq(writes) \o FlattenSeq(flows)
  BY DEF LineageScript
<1> HIDE DEF first, reads, writes, flows
<1> QED
  BY <1>3, <1>8, <1>9 DEF S

LEMMA CleanupCall == CleanupScript \in Seq(Legal("cleanup"))
<1>1. ASSUME NEW R, R \subseteq Row PROVE Drop(R) \in Legal("cleanup")
  BY <1>1, DropStatement
<1>2. /\ Column \X Column \subseteq Row /\ Table \X Table \X Kind \subseteq Row
      /\ Column \subseteq Row /\ Table \subseteq Row /\ Flow \subseteq Row /\ Node \subseteq Row
      /\ SchemaRow \subseteq Row
  BY DEF Row, Link
<1>3. /\ Drop(Column \X Column) \in Legal("cleanup")
      /\ Drop(Table \X Table \X Kind) \in Legal("cleanup")
      /\ Drop(Column) \in Legal("cleanup") /\ Drop(Table) \in Legal("cleanup")
      /\ Drop(Flow) \in Legal("cleanup") /\ Drop(Node) \in Legal("cleanup")
      /\ Drop(SchemaRow) \in Legal("cleanup")
  BY <1>1, <1>2
<1> QED
  BY <1>3 DEF CleanupScript

LEMMA SaveFkCall ==
  ASSUME NEW t \in Table, NEW u \in Table, NEW c \in Column, NEW d \in Column
  PROVE  <<Do("find", t), Do("find", u),
           Stmt("claim", <<t, u, "FK_TO_TABLE">>, Empty, "generated"),
           In(Do("keep", c), t), In(Do("keep", d), u), Do("add", <<c, d>>)>>
             \in Seq(Legal("saveFk"))
<1> DEFINE S == Legal("saveFk")
<1>1. <<t, u, "FK_TO_TABLE">> \in Link /\ <<c, d>> \in Link
  BY InputAssumption DEF Link
<1>2. t \in Row /\ u \in Row /\ c \in Row /\ d \in Row /\ <<c, d>> \in Row
  BY <1>1 DEF Row
<1>3. /\ t \in Owner /\ u \in Owner /\ None \in Owner /\ None \in Writer /\ "generated" \in Writer
      /\ Empty \in Text \cup {Empty} /\ "find" \in Plain /\ "keep" \in Plain /\ "add" \in Plain
  BY DEF Owner, Writer, Plain
<1>4. Do("find", t) \in S /\ Do("find", u) \in S
  BY <1>2, <1>3, PlainStatement
<1>5. In(Do("keep", c), t) \in S /\ In(Do("keep", d), u) \in S
  BY <1>2, <1>3, PlainStatement
<1>6. Do("add", <<c, d>>) \in S
  BY <1>2, <1>3, PlainStatement
<1>7. Stmt("claim", <<t, u, "FK_TO_TABLE">>, Empty, "generated") \in S
  BY <1>1, <1>3, ClaimStatement
<1> HIDE DEF S
<1> QED
  BY <1>4, <1>5, <1>6, <1>7 DEF S

LEMMA CreateRelCall ==
  ASSUME NEW t \in Table, NEW u \in Table, NEW k \in Kind
  PROVE  <<Do("find", t), Do("find", u), Stmt("put", <<t, u, k>>, Empty, "user")>>
           \in Seq(Legal("createRel"))
<1> DEFINE S == Legal("createRel")
<1>1. t \in Row /\ u \in Row /\ <<t, u, k>> \in Row
  BY DEF Row, Link
<1>2. /\ None \in Owner /\ None \in Writer /\ "user" \in Writer
      /\ Empty \in Text \cup {Empty} /\ "find" \in Plain /\ "put" \in Plain
  BY DEF Owner, Writer, Plain
<1>3. Do("find", t) \in S /\ Do("find", u) \in S
  BY <1>1, <1>2, PlainStatement
<1>4. Stmt("put", <<t, u, k>>, Empty, "user") \in S
  BY <1>1, <1>2, PlainStatement
<1> HIDE DEF S
<1> QED
  BY <1>3, <1>4 DEF S

LEMMA FillCall ==
  ASSUME NEW n, NEW names \in Described, NEW a \in Text
  PROVE  FillColumns(n, names, a) \in Seq(Legal("generate"))
<1> DEFINE S == Legal("generate")
           list == FillColumns(n, names, a)
<1>1. DOMAIN names = 1..Len(names) /\ Len(names) \in Nat
  BY InputAssumption
<1>2. ASSUME NEW c PROVE Sweep("fill", Columns(c), TablesOf(n), a, "generated") \in S
  <2>1. Columns(c) \subseteq Row /\ TablesOf(n) \subseteq Owner
    BY DEF Columns, TablesOf, Row, Owner
  <2> QED
    BY <2>1, FillStatement
<1>3. list = [i \in 1..Len(names) |->
                Sweep("fill", Columns(names[i]), TablesOf(n), a, "generated")]
  BY <1>1 DEF FillColumns, Each
<1> HIDE DEF S, list
<1>4. \A i \in 1..Len(names) : list[i] \in S
  BY <1>2, <1>3
<1>5. list = [i \in 1..Len(names) |-> list[i]]
  BY <1>3
<1>6. list \in Seq(S)
  BY <1>1, <1>4, <1>5, ListOf
<1> QED
  BY <1>6 DEF S, list

(* A call begins with its script.                                          *)
Starts(r, o, g, tx, script) ==
  /\ Begins(r, o, g, tx, script)
  /\ script \in Seq(Legal(o)) /\ tx \in BOOLEAN /\ (tx <=> o \in Whole)
  /\ g \in Source \cup {None}
  /\ o = "import" /\ g # None => script # <<>> /\ Head(script) = Do("keep", g)

LEMMA OneStarts ==
  ASSUME NEW r, NEW o, o \notin Whole, NEW s \in Legal(o), Begins(r, o, None, FALSE, <<s>>)
  PROVE  \E oo, g, tx, script : Starts(r, oo, g, tx, script)
<1>1. <<s>> \in Seq(Legal(o))
  OBVIOUS
<1>2. Starts(r, o, None, FALSE, <<s>>)
  BY <1>1 DEF Starts, Whole
<1> QED
  BY <1>2

LEMMA CallStarts ==
  ASSUME NEW r \in Request, Call(r)
  PROVE  \E o, g, tx, script : Starts(r, o, g, tx, script)
<1>0. /\ "edit" \notin Whole /\ "generate" \notin Whole /\ "describe" \notin Whole
      /\ "deleteRel" \notin Whole
  BY DEF Whole
<1>1. ASSUME NEW d \in Parsed, SaveDdlResults(r, d)
      PROVE  \E o, g, tx, script : Starts(r, o, g, tx, script)
  <2>1. d \in Ddl /\ d.source \in Source \cup {None}
    BY InputAssumption DEF Ddl
  <2>2. Starts(r, "import", d.source, InTransaction, DdlScript(d))
    BY <1>1, <2>1, ImportScript DEF Starts, SaveDdlResults, InTransaction, Whole
  <2> QED
    BY <2>2
<1>2. ASSUME NEW n, NEW a \in Text, UpdateTableDescription(r, n, a)
      PROVE  \E o, g, tx, script : Starts(r, o, g, tx, script)
  <2>1. TablesOf(n) \subseteq Row /\ Owner \subseteq Owner
    BY DEF TablesOf, Row
  <2>2. Sweep("fill", TablesOf(n), Owner, a, "generated") \in Legal("generate")
    BY <2>1, FillStatement
  <2> QED
    BY <1>0, <1>2, <2>2, OneStarts DEF UpdateTableDescription
<1>3. ASSUME NEW n, NEW names \in Described, NEW a \in Text,
             UpdateColumnDescriptions(r, n, names, a)
      PROVE  \E o, g, tx, script : Starts(r, o, g, tx, script)
  <2>1. Starts(r, "generate", None, FALSE, FillColumns(n, names, a))
    BY <1>3, FillCall DEF Starts, UpdateColumnDescriptions, Whole
  <2> QED
    BY <2>1
<1>4. ASSUME NEW p \in Inferred, NEW t \in Table, NEW u \in Table,
             SaveFkRelationship(r, t, u, p[1], p[2])
      PROVE  \E o, g, tx, script : Starts(r, o, g, tx, script)
  <2>1. PICK c \in Column, d \in Column : c = p[1] /\ d = p[2]
    BY InputAssumption
  <2>2. PICK script : script = <<Do("find", t), Do("find", u),
             Stmt("claim", <<t, u, "FK_TO_TABLE">>, Empty, "generated"),
             In(Do("keep", c), t), In(Do("keep", d), u), Do("add", <<c, d>>)>>
    OBVIOUS
  <2>3. script \in Seq(Legal("saveFk"))
    BY <2>2, SaveFkCall
  <2>4. Begins(r, "saveFk", None, TRUE, script)
    BY <1>4, <2>1, <2>2 DEF SaveFkRelationship
  <2>5. Starts(r, "saveFk", None, TRUE, script)
    BY <2>3, <2>4 DEF Starts, Whole
  <2> QED
    BY <2>5
<1>5. ASSUME NEW p \in Drawn, CreateSchemaRelationship(r, p[1], p[2], p[3])
      PROVE  \E o, g, tx, script : Starts(r, o, g, tx, script)
  <2>1. PICK t \in Table, u \in Table, k \in Kind : t = p[1] /\ u = p[2] /\ k = p[3]
    BY InputAssumption
  <2>2. PICK script : script = <<Do("find", t), Do("find", u),
                                 Stmt("put", <<t, u, k>>, Empty, "user")>>
    OBVIOUS
  <2>3. script \in Seq(Legal("createRel"))
    BY <2>2, CreateRelCall
  <2>4. Begins(r, "createRel", None, FALSE, script)
    BY <1>5, <2>1, <2>2 DEF CreateSchemaRelationship
  <2>5. Starts(r, "createRel", None, FALSE, script)
    BY <2>3, <2>4 DEF Starts, Whole
  <2> QED
    BY <2>5
<1>6. ASSUME NEW from, NEW to, DeleteSchemaRelationship(r, from, to)
      PROVE  \E o, g, tx, script : Starts(r, o, g, tx, script)
  <2>1. Named(from) \X Named(to) \X Kind \subseteq Row
    BY DEF Named, Row, Link
  <2>2. Drop(Named(from) \X Named(to) \X Kind) \in Legal("deleteRel")
    BY <2>1, DropStatement
  <2> QED
    BY <1>0, <1>6, <2>2, OneStarts DEF DeleteSchemaRelationship
<1>7. ASSUME NEW n, NEW a \in Text, EditTables(r, n, a)
      PROVE  \E o, g, tx, script : Starts(r, o, g, tx, script)
  <2>1. TablesOf(n) \subseteq Table \cup Column \cup Glossary \cup Term /\ Owner \subseteq Owner
    BY DEF TablesOf
  <2>2. Sweep("set", TablesOf(n), Owner, a, "user") \in Legal("describe")
    BY <2>1, SetStatement
  <2> QED
    BY <1>0, <1>7, <2>2, OneStarts DEF EditTables
<1>8. ASSUME NEW table, NEW column, NEW a \in Text, EditColumns(r, table, column, a)
      PROVE  \E o, g, tx, script : Starts(r, o, g, tx, script)
  <2>1. Columns(column) \subseteq Table \cup Column \cup Glossary \cup Term /\ Named(table) \subseteq Owner
    BY DEF Columns, Named, Owner
  <2>2. Sweep("set", Columns(column), Named(table), a, "user") \in Legal("describe")
    BY <2>1, SetStatement
  <2> QED
    BY <1>0, <1>8, <2>2, OneStarts DEF EditColumns
<1>9. ASSUME CleanupGraph(r)
      PROVE  \E o, g, tx, script : Starts(r, o, g, tx, script)
  <2>1. Starts(r, "cleanup", None, TRUE, CleanupScript)
    BY <1>9, CleanupCall DEF Starts, CleanupGraph, Whole
  <2> QED
    BY <2>1
<1>10. ASSUME NEW p \in Process, SaveLineage(r, p[1], p[2], p[3])
      PROVE  \E o, g, tx, script : Starts(r, o, g, tx, script)
  <2>1. p[1] \in Node /\ p[2] \in Seq(Node) /\ p[3] \in Seq(Node)
    BY InputAssumption
  <2>2. Starts(r, "lineage", None, TRUE, LineageScript(p[1], p[2], p[3]))
    BY <1>10, <2>1, LineageCall DEF Starts, SaveLineage, Whole
  <2> QED
    BY <2>2
<1>11. ASSUME NEW x \in Row, NEW a \in Text, NEW does \in {"insert", "put"},
              Edits(r, Inserted(does, x, a))
       PROVE  \E o, g, tx, script : Starts(r, o, g, tx, script)
  <2>1. PICK p \in Owner : p = IF x \in Part THEN OwnerOf[x] ELSE None
    BY AnalyzerAssumption DEF Owner
  <2>2. "user" \in Writer /\ does \in Plain /\ a \in Text \cup {Empty}
    BY DEF Writer, Plain
  <2>3. In(Stmt(does, x, a, "user"), p) \in Legal("edit")
    BY <2>2, PlainStatement
  <2>4. Inserted(does, x, a) = In(Stmt(does, x, a, "user"), p)
    BY <2>1 DEF Inserted
  <2>5. Inserted(does, x, a) \in Legal("edit")
    BY <2>3, <2>4
  <2> QED
    BY <1>0, <1>11, <2>5, OneStarts DEF Edits
<1>12. ASSUME NEW x \in Glossary \cup Term, NEW a \in Text, UpdateRow(r, x, a)
       PROVE  \E o, g, tx, script : Starts(r, o, g, tx, script)
  <2>1. {x} \subseteq Table \cup Column \cup Glossary \cup Term /\ Owner \subseteq Owner
    OBVIOUS
  <2>2. Sweep("set", {x}, Owner, a, "user") \in Legal("edit")
    BY <2>1, SetStatement
  <2> QED
    BY <1>0, <1>12, <2>2, OneStarts DEF UpdateRow, Edits
<1>13. ASSUME NEW x \in Row, DeleteRow(r, x)
       PROVE  \E o, g, tx, script : Starts(r, o, g, tx, script)
  <2>1. Drop({x}) \in Legal("edit")
    BY DropStatement
  <2> QED
    BY <1>0, <1>13, <2>1, OneStarts DEF DeleteRow, Edits
<1>14. Glossary \cup Term \cup Calendar \cup Day \subseteq Row
  BY DEF Row
<1>15. \A t \in Table : Home(t) \subseteq Table
  BY DEF Home
<1>16. \A c \in Column : Home(c) \subseteq Table
  BY DEF Home
<1> QED
  BY <1>1, <1>2, <1>3, <1>4, <1>5, <1>6, <1>7, <1>8, <1>9, <1>10, <1>11, <1>12, <1>13, <1>14
     DEF Call, Home, CreateRow, AddDay

---------------------------------------------------------------------------
(* What is committed, and what a transaction sees.                         *)

(* Committed, of any undo log and any rows.                                *)
Settled(U, T, x) ==
  IF \E q \in Request : x \in DOMAIN U[q]
  THEN U[CHOOSE q \in Request : x \in DOMAIN U[q]][x]
  ELSE T[x]

LEMMA SettledIs ==
  ASSUME NEW U, NEW T, NEW x
  PROVE  /\ (\A q \in Request : x \notin DOMAIN U[q]) => Settled(U, T, x) = T[x]
         /\ \A q \in Request :
              x \in DOMAIN U[q] /\ (\A p \in Request : x \in DOMAIN U[p] => p = q)
                => Settled(U, T, x) = U[q][x]
<1>1. ASSUME NEW q \in Request, x \in DOMAIN U[q], \A p \in Request : x \in DOMAIN U[p] => p = q
      PROVE  Settled(U, T, x) = U[q][x]
  <2> DEFINE c == CHOOSE p \in Request : x \in DOMAIN U[p]
  <2>1. c \in Request /\ x \in DOMAIN U[c]
    BY <1>1
  <2>2. c = q
    BY <1>1, <2>1
  <2> QED
    BY <1>1, <2>2 DEF Settled
<1> QED
  BY <1>1 DEF Settled

(* A row is changed by one transaction at a time.                          *)
LEMMA OneWriter ==
  ASSUME NEW H, NEW U,
         \A q, r \in Request : \A l \in H[q], k \in H[r] :
           q # r /\ l[1] = k[1] => ~Clash(l[2], k[2]),
         \A r \in Request : \A x \in DOMAIN U[r] :
           <<x, "write">> \in H[r] \/ <<x, "delete">> \in H[r]
  PROVE  \A q, p \in Request : \A x \in DOMAIN U[q] : x \in DOMAIN U[p] => p = q
<1> SUFFICES ASSUME NEW q \in Request, NEW p \in Request, NEW x \in DOMAIN U[q],
                    x \in DOMAIN U[p], p # q
             PROVE  FALSE
  OBVIOUS
<1>1. PICK m \in {"write", "delete"} : <<x, m>> \in H[q]
  OBVIOUS
<1>2. PICK n \in {"write", "delete"} : <<x, n>> \in H[p]
  OBVIOUS
<1>3. ~Clash(m, n)
  BY <1>1, <1>2
<1> QED
  BY <1>3 DEF Clash

LEMMA CommittedIs ==
  ASSUME LocksOK
  PROVE  /\ \A q, p \in Request : \A x \in DOMAIN undo[q] : x \in DOMAIN undo[p] => p = q
         /\ \A q \in Request : \A x \in DOMAIN undo[q] : Committed(x) = undo[q][x]
         /\ \A x : (\A q \in Request : x \notin DOMAIN undo[q]) => Committed(x) = rows[x]
<1>1. \A q, p \in Request : \A x \in DOMAIN undo[q] : x \in DOMAIN undo[p] => p = q
  BY OneWriter DEF LocksOK
<1>2. \A x : Committed(x) = Settled(undo, rows, x)
  BY DEF Committed, Settled
<1> QED
  BY <1>1, <1>2, SettledIs

(* The same after a step.                                                  *)
LEMMA CommittedNext ==
  ASSUME \A q, p \in Request : \A x \in DOMAIN undo'[q] : x \in DOMAIN undo'[p] => p = q
  PROVE  /\ \A q \in Request : \A x \in DOMAIN undo'[q] : Committed(x)' = undo'[q][x]
         /\ \A x : (\A q \in Request : x \notin DOMAIN undo'[q]) => Committed(x)' = rows'[x]
<1>1. \A x : Committed(x)' = Settled(undo', rows', x)
  BY DEF Committed, Settled
<1> QED
  BY <1>1, SettledIs

(* The rows, undo logs and locks of calls other than r stay.               *)
LEMMA ViewsStay ==
  ASSUME UNCHANGED <<rows, undo>>
  PROVE  \A x : Committed(x)' = Committed(x) /\ \A q : Visible(q, x)' = Visible(q, x)
BY DEF Committed, Visible

(* A transaction that is rolled back leaves nothing.                       *)
LEMMA RollbackViews ==
  ASSUME IInv, NEW r \in Request, Rollback(r)
  PROVE  /\ \A x \in Row : Committed(x)' = Committed(x)
         /\ \A q \in Request \ {r} : undo'[q] = undo[q] /\ \A x \in DOMAIN undo[q] : rows'[x] = rows[x]
         /\ \A q \in Request \ {r} : \A x \in Row : Visible(q, x)' = Visible(q, x)
         /\ undo'[r] = <<>> /\ DOMAIN undo'[r] = {}
         /\ \A x \in Row : Visible(r, x)' = Committed(x)
         /\ rows' \in [Row -> Value \cup {None}]
<1>1. /\ \A q, p \in Request : \A x \in DOMAIN undo[q] : x \in DOMAIN undo[p] => p = q
      /\ \A q \in Request : \A x \in DOMAIN undo[q] : Committed(x) = undo[q][x]
      /\ \A x : (\A q \in Request : x \notin DOMAIN undo[q]) => Committed(x) = rows[x]
  BY CommittedIs DEF IInv
<1>2. /\ undo' = [undo EXCEPT ![r] = <<>>]
      /\ rows' = [x \in Row |-> IF x \in DOMAIN undo[r] THEN undo[r][x] ELSE rows[x]]
  BY DEF Rollback, Leave
<1>3. undo \in [Request -> {undo[q] : q \in Request}]
  BY DEF IInv, CallsOK
<1>4. undo'[r] = <<>> /\ \A q \in Request \ {r} : undo'[q] = undo[q]
  BY <1>2, <1>3
<1>5. DOMAIN undo'[r] = {}
  <2>1. DOMAIN <<>> = {}
    OBVIOUS
  <2> QED
    BY <1>4, <2>1
<1>6. \A q, p \in Request : \A x \in DOMAIN undo'[q] : x \in DOMAIN undo'[p] => p = q
  BY <1>1, <1>4, <1>5
<1>7. /\ \A q \in Request : \A x \in DOMAIN undo'[q] : Committed(x)' = undo'[q][x]
      /\ \A x : (\A q \in Request : x \notin DOMAIN undo'[q]) => Committed(x)' = rows'[x]
  BY <1>6, CommittedNext
<1>8. \A q \in Request : DOMAIN undo[q] \subseteq Row
  BY DEF IInv, TypeOK
<1>9. \A q \in Request \ {r} : \A x \in DOMAIN undo[q] : rows'[x] = rows[x]
  BY <1>1, <1>2, <1>8
<1>10. \A x \in Row : Committed(x)' = Committed(x)
  <2> TAKE x \in Row
  <2>1. CASE x \in DOMAIN undo[r]
    <3>1. \A q \in Request : x \notin DOMAIN undo'[q]
      BY <1>1, <1>4, <1>5, <2>1
    <3> QED
      BY <1>1, <1>2, <1>7, <2>1, <3>1
  <2>2. ASSUME NEW q \in Request \ {r}, x \in DOMAIN undo[q] PROVE Committed(x)' = Committed(x)
    BY <1>1, <1>4, <1>7, <2>2
  <2>3. CASE \A q \in Request : x \notin DOMAIN undo[q]
    <3>1. \A q \in Request : x \notin DOMAIN undo'[q]
      BY <1>4, <1>5, <2>3
    <3>2. Committed(x)' = rows'[x] /\ Committed(x) = rows[x]
      BY <1>1, <1>7, <2>3, <3>1
    <3>3. rows'[x] = rows[x]
      BY <1>2, <2>3
    <3> QED
      BY <3>2, <3>3
  <2> QED
    BY <2>1, <2>2, <2>3
<1>11. \A q \in Request \ {r} : \A x \in Row : Visible(q, x)' = Visible(q, x)
  BY <1>4, <1>9, <1>10 DEF Visible
<1>12. \A x \in Row : Visible(r, x)' = Committed(x)
  BY <1>5, <1>10 DEF Visible
<1>13. rows' \in [Row -> Value \cup {None}]
  <2>1. \A x \in DOMAIN undo[r] : undo[r][x] \in Value \cup {None}
    BY DEF IInv, CallsOK
  <2>2. rows \in [Row -> Value \cup {None}]
    BY DEF IInv, TypeOK
  <2> QED
    BY <1>2, <2>1, <2>2
<1> QED
  BY <1>4, <1>5, <1>9, <1>10, <1>11, <1>12, <1>13

(* What a transaction sees is committed when it commits.                   *)
LEMMA CommitViews ==
  ASSUME IInv, NEW r \in Request, Commit(r)
  PROVE  /\ \A x \in Row : Committed(x)' = Visible(r, x)
         /\ \A q \in Request \ {r} : undo'[q] = undo[q]
         /\ undo'[r] = <<>> /\ DOMAIN undo'[r] = {}
         /\ \A q \in Request, x \in Row :
              Visible(q, x)' = IF x \in DOMAIN undo'[q] THEN rows[x] ELSE Visible(r, x)
<1>1. /\ \A q, p \in Request : \A x \in DOMAIN undo[q] : x \in DOMAIN undo[p] => p = q
      /\ \A q \in Request : \A x \in DOMAIN undo[q] : Committed(x) = undo[q][x]
      /\ \A x : (\A q \in Request : x \notin DOMAIN undo[q]) => Committed(x) = rows[x]
  BY CommittedIs DEF IInv
<1>2. undo' = [undo EXCEPT ![r] = <<>>] /\ rows' = rows
  BY DEF Commit, Leave
<1>3. undo \in [Request -> {undo[q] : q \in Request}]
  BY DEF IInv, CallsOK
<1>4. undo'[r] = <<>> /\ \A q \in Request \ {r} : undo'[q] = undo[q]
  BY <1>2, <1>3
<1>5. DOMAIN undo'[r] = {}
  <2>1. DOMAIN <<>> = {}
    OBVIOUS
  <2> QED
    BY <1>4, <2>1
<1>6. \A q, p \in Request : \A x \in DOMAIN undo'[q] : x \in DOMAIN undo'[p] => p = q
  BY <1>1, <1>4, <1>5
<1>7. /\ \A q \in Request : \A x \in DOMAIN undo'[q] : Committed(x)' = undo'[q][x]
      /\ \A x : (\A q \in Request : x \notin DOMAIN undo'[q]) => Committed(x)' = rows'[x]
  BY <1>6, CommittedNext
<1>8. \A x \in Row : Committed(x)' = Visible(r, x)
  <2> TAKE x \in Row
  <2>1. CASE x \in DOMAIN undo[r]
    <3>1. \A q \in Request : x \notin DOMAIN undo'[q]
      BY <1>1, <1>4, <1>5, <2>1
    <3> QED
      BY <1>2, <1>7, <2>1, <3>1 DEF Visible
  <2>2. ASSUME NEW q \in Request \ {r}, x \in DOMAIN undo[q] PROVE Committed(x)' = Visible(r, x)
    <3>1. x \notin DOMAIN undo[r]
      BY <1>1, <2>2
    <3> QED
      BY <1>1, <1>4, <1>7, <2>2, <3>1 DEF Visible
  <2>3. CASE \A q \in Request : x \notin DOMAIN undo[q]
    <3>1. \A q \in Request : x \notin DOMAIN undo'[q]
      BY <1>4, <1>5, <2>3
    <3> QED
      BY <1>1, <1>2, <1>7, <2>3, <3>1 DEF Visible
  <2> QED
    BY <2>1, <2>2, <2>3
<1>9. \A q \in Request, x \in Row :
        Visible(q, x)' = IF x \in DOMAIN undo'[q] THEN rows[x] ELSE Visible(r, x)
  BY <1>2, <1>8 DEF Visible
<1> QED
  BY <1>4, <1>5, <1>8, <1>9

(* What a call sees.                                                       *)
Seen(r) == [x \in Row |-> Visible(r, x)]

LEMMA SeenType ==
  ASSUME TypeOK, CallsOK, NEW r \in Request
  PROVE  /\ Seen(r) \in [Row -> Value \cup {None}]
         /\ \A x \in Row : Visible(r, x) \in Value \cup {None} /\ Committed(x) \in Value \cup {None}
<1>1. rows \in [Row -> Value \cup {None}]
  BY DEF TypeOK
<1>2. \A q \in Request : undo[q] \in [DOMAIN undo[q] -> Value \cup {None}]
  BY DEF CallsOK
<1>3. ASSUME NEW x \in Row PROVE Committed(x) \in Value \cup {None}
  <2>1. CASE \E q \in Request : x \in DOMAIN undo[q]
    <3>1. PICK c : c = CHOOSE q \in Request : x \in DOMAIN undo[q]
      OBVIOUS
    <3>2. c \in Request /\ x \in DOMAIN undo[c]
      BY <2>1, <3>1
    <3>3. Committed(x) = undo[c][x]
      BY <2>1, <3>1 DEF Committed
    <3> QED
      BY <1>2, <3>2, <3>3
  <2>2. CASE ~\E q \in Request : x \in DOMAIN undo[q]
    BY <1>1, <2>2 DEF Committed
  <2> QED
    BY <2>1, <2>2
<1>4. \A x \in Row : Visible(r, x) \in Value \cup {None}
  BY <1>1, <1>3 DEF Visible
<1> QED
  BY <1>3, <1>4 DEF Seen

---------------------------------------------------------------------------
(* The statement a call is at.                                             *)

LEMMA MeantIs ==
  ASSUME NEW r, NEW o, NEW s \in Legal(o), NEW m, m = Meant(r, s)
  PROVE  /\ m \in Legal(o) /\ m \in Statement
         /\ m.row = s.row /\ m.of = s.of /\ m.text = s.text /\ m.by = s.by
         /\ m.does \in Sweeps <=> s.does \in Sweeps
         /\ s.does \notin {"bare", "claim"} => m.does = s.does
<1>1. s \in Statement
  BY DEF Legal
<1>2. ASSUME NEW d \in {"skip", "keep"}, s.does \in {"bare", "claim"}, m = [s EXCEPT !.does = d]
      PROVE  m \in Legal(o) /\ m.row = s.row /\ m.of = s.of /\ m.text = s.text /\ m.by = s.by /\ m.does = d
  <2>1. d \in Does /\ d \notin Sweeps /\ s.does \notin Sweeps
    BY <1>2 DEF Does, Sweeps, Inserts
  <2>2. m \in Statement /\ m.does = d /\ m.row = s.row /\ m.of = s.of /\ m.text = s.text /\ m.by = s.by
    BY <1>1, <1>2, <2>1 DEF Statement
  <2> QED
    BY <1>2, <2>1, <2>2 DEF Legal
<1>3. ASSUME m = In(s, None)
      PROVE  m \in Legal(o) /\ m.row = s.row /\ m.of = s.of /\ m.text = s.text /\ m.by = s.by /\ m.does = s.does
  <2>1. None \in Owner
    BY DEF Owner
  <2>2. /\ m \in Statement /\ m.does = s.does /\ m.row = s.row /\ m.of = s.of /\ m.text = s.text
        /\ m.by = s.by
    BY <1>1, <1>3, <2>1 DEF In, Statement
  <2> QED
    BY <2>2 DEF Legal
<1>4. CASE s.does = "bare"
  <2>1. PICK d \in {"skip", "keep"} : m = [s EXCEPT !.does = d]
    BY <1>4 DEF Meant
  <2> QED
    BY <1>2, <1>4, <2>1 DEF Legal, Sweeps
<1>5. CASE s.does = "claim" /\ ~(Knows(r, s.row[1]) /\ Knows(r, s.row[2]))
  <2>1. m = [s EXCEPT !.does = "skip"]
    BY <1>5 DEF Meant
  <2> QED
    BY <1>2, <1>5, <2>1 DEF Legal, Sweeps
<1>6. CASE s.does # "bare" /\ ~(s.does = "claim" /\ ~(Knows(r, s.row[1]) /\ Knows(r, s.row[2])))
  <2>1. m = In(s, None) \/ m = s
    BY <1>6 DEF Meant
  <2> QED
    BY <1>1, <1>3, <2>1 DEF Legal
<1> QED
  BY <1>4, <1>5, <1>6

LEMMA AtStatement ==
  ASSUME CallsOK, NEW r \in Request, todo[r] # <<>>
  PROVE  /\ Head(todo[r]) \in Legal(op[r]) /\ Current(r) \in Legal(op[r])
         /\ Current(r) \in Statement
         /\ Current(r).does \in Sweeps <=> Head(todo[r]).does \in Sweeps
         /\ Tail(todo[r]) \in Seq(Legal(op[r])) /\ Tail(todo[r]) \in Seq(Statement)
<1>1. todo[r] \in Seq(Legal(op[r])) /\ todo[r] \in Seq(Statement)
  BY DEF CallsOK
<1>2. \A S : todo[r] \in Seq(S) => Head(todo[r]) \in S /\ Tail(todo[r]) \in Seq(S)
  OBVIOUS
<1>3. PICK s \in Legal(op[r]) : s = Head(todo[r])
  BY <1>1, <1>2
<1>4. PICK m : m = Meant(r, s)
  OBVIOUS
<1>5. m \in Legal(op[r]) /\ m \in Statement /\ (m.does \in Sweeps <=> s.does \in Sweeps)
  BY <1>4, MeantIs
<1> QED
  BY <1>1, <1>2, <1>3, <1>4, <1>5 DEF Current

(* What a row refers to is a row.                                          *)
LEMMA OwnersAre ==
  ASSUME NEW x \in Row, NEW v \in Value \cup {None}
  PROVE  Owners(x, v) \subseteq Row
<1>1. ASSUME v # None PROVE v.owner \in Owner /\ ({v.owner} \ {None}) \subseteq Row
  <2>1. v.owner \in Owner
    BY <1>1 DEF Value
  <2> QED
    BY <2>1 DEF Owner, Row
<1>2. ASSUME x \in Link \cup Flow PROVE x[1] \in Row /\ x[2] \in Row
  <2>1. x \in Table \X Table \X Kind \/ x \in Column \X Column \/ x \in Node \X Node
    BY <1>2 DEF Link, Flow
  <2>2. x[1] \in Table \cup Column \cup Node /\ x[2] \in Table \cup Column \cup Node
    BY <2>1
  <2> QED
    BY <2>2 DEF Row
<1> QED
  BY <1>1, <1>2 DEF Owners

LEMMA FootprintType ==
  ASSUME TypeOK, CallsOK, NEW r \in Request, NEW o, NEW s \in Legal(o)
  PROVE  Footprint(r, s) \subseteq Row \X Mode
<1>1. s \in Statement /\ s.of \subseteq Row
  BY DEF Legal, Statement
<1>2. CASE s.does \in Sweeps
  <2>1. Live(r, s) \subseteq Row /\ Cascade(r, s) \subseteq Row
    BY <1>1 DEF Live, Hits, Cascade
  <2>2. Footprint(r, s) \subseteq {<<x, "delete">> : x \in Cascade(r, s)} \cup {<<x, "write">> : x \in Live(r, s)}
    BY <1>2 DEF Footprint, Sweeps, Selects
  <2> QED
    BY <2>1, <2>2 DEF Mode
<1>3. CASE s.does \notin Sweeps
  <2>1. s.row \in Row
    BY <1>3 DEF Legal
  <2>2. PICK v \in Value \cup {None} : v = Result(r, s, Visible(r, s.row))
    BY <1>1, <2>1, SeenType, ResultType
  <2>3. Refers(r, s) \subseteq Row
    BY <2>1, <2>2, OwnersAre DEF Refers
  <2>4. Footprint(r, s) \subseteq {<<s.row, "write">>} \cup {<<p, "share">> : p \in Refers(r, s)}
    BY <1>3 DEF Footprint
  <2> QED
    BY <2>1, <2>3, <2>4 DEF Mode
<1> QED
  BY <1>2, <1>3

(* The rows a statement changes are locked for that.                       *)
LEMMA ChangesAre ==
  ASSUME TypeOK, CallsOK, NEW r \in Request, NEW o, NEW s \in Legal(o)
  PROVE  /\ Changes(r, s) \subseteq Row
         /\ \A x \in Changes(r, s) :
              <<x, "write">> \in Footprint(r, s) \/ <<x, "delete">> \in Footprint(r, s)
         /\ s.does \notin Sweeps => Changes(r, s) \subseteq {s.row}
         /\ s.does \in Sweeps \ {"drop"} => Changes(r, s) \subseteq Live(r, s)
<1> DEFINE F == Footprint(r, s)
<1>1. F \subseteq Row \X Mode
  BY FootprintType
<1>2. ASSUME NEW x \in Changes(r, s)
      PROVE  x \in Row /\ (<<x, "write">> \in F \/ <<x, "delete">> \in F)
  <2>1. PICK l \in F : l[2] # "share" /\ x = l[1]
    BY DEF Changes
  <2>2. l = <<x, l[2]>> /\ x \in Row /\ l[2] \in {"write", "delete"}
    BY <1>1, <2>1 DEF Mode
  <2> HIDE DEF F
  <2> QED
    BY <2>1, <2>2
<1>3. ASSUME s.does \notin Sweeps PROVE Changes(r, s) \subseteq {s.row}
  <2>1. F \subseteq {<<s.row, "write">>} \cup {<<p, "share">> : p \in Refers(r, s)}
    BY <1>3 DEF Footprint
  <2>2. \A l \in F : l[2] # "share" => l[1] = s.row
    BY <2>1
  <2> HIDE DEF F
  <2> QED
    BY <2>2 DEF Changes, F
<1>4. ASSUME s.does \in Sweeps \ {"drop"} PROVE Changes(r, s) \subseteq Live(r, s)
  <2>1. F \subseteq {<<x, "write">> : x \in Live(r, s)}
    BY <1>4 DEF Footprint, Sweeps, Selects
  <2>2. \A l \in F : l[1] \in Live(r, s)
    BY <2>1
  <2> HIDE DEF F
  <2> QED
    BY <2>2 DEF Changes, F
<1> HIDE DEF F
<1> QED
  BY <1>2, <1>3, <1>4 DEF F

LEMMA MadeIs ==
  ASSUME TypeOK, CallsOK, NEW r \in Request, todo[r] # <<>>, NEW s, s = Made(r)
  PROVE  /\ s \in Statement /\ s.of = Changes(r, Current(r)) /\ s.of \subseteq Row
         /\ s.does = Current(r).does /\ s.row = Current(r).row
         /\ s.text = Current(r).text /\ s.by = Current(r).by
<1>1. PICK c : c = Current(r)
  OBVIOUS
<1>2. c \in Legal(op[r]) /\ c \in Statement
  BY <1>1, AtStatement
<1>3. PICK R : R = Changes(r, c)
  OBVIOUS
<1>4. R \subseteq Row
  BY <1>2, <1>3, ChangesAre
<1>5. s = [c EXCEPT !.of = R]
  BY <1>1, <1>3 DEF Made
<1>6. s \in Statement /\ s.of = R /\ s.does = c.does /\ s.row = c.row /\ s.text = c.text /\ s.by = c.by
  BY <1>2, <1>4, <1>5 DEF Statement
<1> QED
  BY <1>1, <1>3, <1>4, <1>6

(* A statement that is ready excludes nobody.                              *)
LEMMA FreeLocks ==
  ASSUME IInv, NEW r \in Request, Ready(r), NEW l \in Footprint(r, Current(r)),
         NEW q \in Request \ {r}, NEW k \in held[q], k[1] = l[1]
  PROVE  ~Clash(l[2], k[2])
<1>0. Current(r) \in Legal(op[r])
  BY AtStatement DEF IInv, Ready, Running
<1>1. l[2] \in Mode /\ l = <<l[1], l[2]>>
  <2>1. PICK s \in Legal(op[r]) : s = Current(r)
    BY <1>0
  <2>2. Footprint(r, s) \subseteq Row \X Mode
    BY FootprintType DEF IInv
  <2> QED
    BY <2>1, <2>2
<1>2. k[2] \in Mode /\ k = <<k[1], k[2]>>
  BY DEF IInv, TypeOK
<1>3. CASE Covered(r, l)
  <2>1. PICK n \in Mode : <<l[1], n>> \in held[r] /\ (n = l[2] \/ n = "delete" \/ l[2] = "share")
    BY <1>3 DEF Covered
  <2>2. ~Clash(n, k[2])
    BY <2>1 DEF IInv, LocksOK
  <2> QED
    BY <1>1, <1>2, <2>1, <2>2 DEF Clash, Mode
<1>4. CASE ~Covered(r, l)
  <2>1. l \in Missing(r)
    BY <1>4 DEF Missing
  <2>2. q \notin Blockers(r, l)
    BY <2>1 DEF Ready
  <2> QED
    BY <1>2, <2>2 DEF Blockers
<1> QED
  BY <1>3, <1>4

LEMMA ExecuteEffect ==
  ASSUME IInv, NEW r \in Request, Execute(r), NEW s, s = Made(r)
  PROVE  /\ s \in Statement /\ todo[r] # <<>> /\ pc[r] = "run" /\ s.of \subseteq Row
         /\ \A x \in s.of : rows[x] = Visible(r, x)
         /\ \A x \in s.of : \A q \in Request \ {r} : x \notin DOMAIN undo[q]
         /\ \A x \in s.of : \/ <<x, "write">> \in Footprint(r, Current(r))
                            \/ <<x, "delete">> \in Footprint(r, Current(r))
         /\ \A x \in Row \ s.of : rows'[x] = rows[x]
         /\ Seen(r) \in [Row -> Value \cup {None}] /\ rows' \in [Row -> Value \cup {None}]
         /\ \A x \in Row : Effect(r, s, Seen(r))[x] =
                             IF x \in s.of THEN rows'[x] ELSE Visible(r, x)
<1>0. TypeOK /\ CallsOK /\ Ready(r)
  BY DEF IInv, Execute
<1>1. todo[r] # <<>> /\ pc[r] = "run"
  BY <1>0 DEF Ready, Running
<1>2. s \in Statement /\ s.of = Changes(r, Current(r)) /\ s.of \subseteq Row
  BY <1>0, <1>1, MadeIs
<1>3. /\ \A q, p \in Request : \A x \in DOMAIN undo[q] : x \in DOMAIN undo[p] => p = q
      /\ \A q \in Request : \A x \in DOMAIN undo[q] : Committed(x) = undo[q][x]
      /\ \A x : (\A q \in Request : x \notin DOMAIN undo[q]) => Committed(x) = rows[x]
  BY CommittedIs DEF IInv
<1>4. \A x \in s.of : \/ <<x, "write">> \in Footprint(r, Current(r))
                      \/ <<x, "delete">> \in Footprint(r, Current(r))
  <2>1. PICK c \in Legal(op[r]) : c = Current(r)
    BY <1>0, <1>1, AtStatement
  <2> QED
    BY <1>0, <1>2, <2>1, ChangesAre
<1>5. ASSUME NEW x \in s.of, NEW q \in Request \ {r} PROVE x \notin DOMAIN undo[q]
  <2> SUFFICES ASSUME x \in DOMAIN undo[q] PROVE FALSE
    OBVIOUS
  <2>1. PICK m \in {"write", "delete"} : <<x, m>> \in Footprint(r, Current(r))
    BY <1>4
  <2>2. PICK n \in {"write", "delete"} : <<x, n>> \in held[q]
    BY DEF IInv, LocksOK
  <2>3. ~Clash(m, n)
    BY <1>0, <2>1, <2>2, FreeLocks
  <2> QED
    BY <2>3 DEF Clash
<1>6. \A x \in s.of : rows[x] = Visible(r, x)
  <2> TAKE x \in s.of
  <2>1. x \notin DOMAIN undo[r] => Committed(x) = rows[x]
    BY <1>3, <1>5
  <2> QED
    BY <2>1 DEF Visible
<1>7. Seen(r) \in [Row -> Value \cup {None}]
  BY <1>0, SeenType
<1>8. rows' = Effect(r, s, rows)
  BY DEF Execute
<1>9. rows \in [Row -> Value \cup {None}]
  BY <1>0 DEF TypeOK
<1>10. rows' \in [Row -> Value \cup {None}]
  BY <1>2, <1>8, <1>9, EffectType
<1>11. ASSUME NEW x \in Row
       PROVE  /\ x \notin s.of => rows'[x] = rows[x]
              /\ Effect(r, s, Seen(r))[x] = IF x \in s.of THEN rows'[x] ELSE Visible(r, x)
  <2>1. rows'[x] = IF x \in s.of THEN Result(r, s, rows[x]) ELSE rows[x]
    BY <1>8, EffectAt
  <2>2. Effect(r, s, Seen(r))[x] = IF x \in s.of THEN Result(r, s, Visible(r, x)) ELSE Visible(r, x)
    <3>1. Seen(r)[x] = Visible(r, x)
      BY DEF Seen
    <3> QED
      BY <3>1, EffectAt
  <2> QED
    BY <1>6, <2>1, <2>2
<1> QED
  BY <1>1, <1>2, <1>4, <1>5, <1>6, <1>7, <1>10, <1>11

(* A statement of a transaction is seen by nobody else.                    *)
LEMMA WholeViews ==
  ASSUME IInv, NEW r \in Request, Execute(r), NEW s, s = Made(r), op[r] \in Whole
  PROVE  /\ \A q \in Request \ {r} : /\ undo'[q] = undo[q] /\ held'[q] = held[q]
                                     /\ \A x \in DOMAIN undo[q] : rows'[x] = rows[x]
         /\ DOMAIN undo'[r] = DOMAIN undo[r] \cup s.of
         /\ held'[r] = held[r] \cup Missing(r)
         /\ \A x \in DOMAIN undo'[r] : undo'[r][x] = Committed(x)
         /\ undo' \in [Request -> {undo'[q] : q \in Request}]
         /\ undo'[r] \in [DOMAIN undo'[r] -> Value \cup {None}]
         /\ \A x \in Row : Committed(x)' = Committed(x)
         /\ \A q \in Request \ {r}, x \in Row : Visible(q, x)' = Visible(q, x)
         /\ \A x \in Row : Visible(r, x)' = Effect(r, s, Seen(r))[x]
<1>1. /\ s \in Statement /\ pc[r] = "run" /\ s.of \subseteq Row
      /\ \A x \in s.of : rows[x] = Visible(r, x)
      /\ \A x \in s.of : \A q \in Request \ {r} : x \notin DOMAIN undo[q]
      /\ \A x \in Row \ s.of : rows'[x] = rows[x]
      /\ \A x \in Row : Effect(r, s, Seen(r))[x] =
                          IF x \in s.of THEN rows'[x] ELSE Visible(r, x)
  <2>1. s = Made(r)
    OBVIOUS
  <2> QED
    BY <2>1, ExecuteEffect
<1>2. atomic[r]
  BY <1>1 DEF IInv, CallsOK
<1>3. /\ undo' = [undo EXCEPT ![r] = [x \in DOMAIN @ \cup s.of |->
                                        IF x \in DOMAIN @ THEN @[x] ELSE rows[x]]]
      /\ held' = [held EXCEPT ![r] = @ \cup Missing(r)]
  BY <1>2 DEF Execute
<1>4. /\ undo \in [Request -> {undo[q] : q \in Request}]
      /\ held \in [Request -> SUBSET (Row \X Mode)]
      /\ rows \in [Row -> Value \cup {None}]
      /\ undo[r] \in [DOMAIN undo[r] -> Value \cup {None}]
      /\ \A q \in Request : DOMAIN undo[q] \subseteq Row
  BY DEF IInv, CallsOK, TypeOK
<1>5. /\ undo'[r] = [x \in DOMAIN undo[r] \cup s.of |->
                       IF x \in DOMAIN undo[r] THEN undo[r][x] ELSE rows[x]]
      /\ \A q \in Request \ {r} : undo'[q] = undo[q] /\ held'[q] = held[q]
      /\ held'[r] = held[r] \cup Missing(r)
  BY <1>3, <1>4
<1>6. /\ DOMAIN undo'[r] = DOMAIN undo[r] \cup s.of
      /\ \A x \in DOMAIN undo'[r] :
           undo'[r][x] = IF x \in DOMAIN undo[r] THEN undo[r][x] ELSE rows[x]
      /\ undo'[r] \in [DOMAIN undo'[r] -> Value \cup {None}]
  BY <1>1, <1>4, <1>5
<1>7. undo' \in [Request -> {undo'[q] : q \in Request}]
  BY <1>3, <1>4
<1>8. /\ \A q, p \in Request : \A x \in DOMAIN undo[q] : x \in DOMAIN undo[p] => p = q
      /\ \A q \in Request : \A x \in DOMAIN undo[q] : Committed(x) = undo[q][x]
      /\ \A x : (\A q \in Request : x \notin DOMAIN undo[q]) => Committed(x) = rows[x]
  BY CommittedIs DEF IInv
<1>9. \A q, p \in Request : \A x \in DOMAIN undo'[q] : x \in DOMAIN undo'[p] => p = q
  BY <1>1, <1>5, <1>6, <1>8
<1>10. /\ \A q \in Request : \A x \in DOMAIN undo'[q] : Committed(x)' = undo'[q][x]
       /\ \A x : (\A q \in Request : x \notin DOMAIN undo'[q]) => Committed(x)' = rows'[x]
  BY <1>9, CommittedNext
<1>11. \A q \in Request \ {r} : \A x \in DOMAIN undo[q] : rows'[x] = rows[x]
  BY <1>1, <1>4
<1>12. \A x \in DOMAIN undo'[r] : undo'[r][x] = Committed(x)
  <2> TAKE x \in DOMAIN undo'[r]
  <2>1. CASE x \in DOMAIN undo[r]
    BY <1>6, <1>8, <2>1
  <2>2. CASE x \notin DOMAIN undo[r]
    <3>1. \A q \in Request : x \notin DOMAIN undo[q]
      BY <1>1, <1>6, <2>2
    <3> QED
      BY <1>6, <1>8, <2>2, <3>1
  <2> QED
    BY <2>1, <2>2
<1>13. \A x \in Row : Committed(x)' = Committed(x)
  <2> TAKE x \in Row
  <2>1. CASE x \in DOMAIN undo'[r]
    BY <1>10, <1>12, <2>1
  <2>2. ASSUME NEW q \in Request \ {r}, x \in DOMAIN undo[q] PROVE Committed(x)' = Committed(x)
    BY <1>5, <1>8, <1>10, <2>2
  <2>3. CASE x \notin DOMAIN undo'[r] /\ \A q \in Request \ {r} : x \notin DOMAIN undo[q]
    <3>1. \A q \in Request : x \notin DOMAIN undo'[q] /\ x \notin DOMAIN undo[q]
      BY <1>5, <1>6, <2>3
    <3>2. rows'[x] = rows[x]
      BY <1>1, <1>6, <2>3
    <3> QED
      BY <1>8, <1>10, <3>1, <3>2
  <2> QED
    BY <2>1, <2>2, <2>3
<1>14. \A q \in Request \ {r}, x \in Row : Visible(q, x)' = Visible(q, x)
  BY <1>5, <1>11, <1>13 DEF Visible
<1>15. \A x \in Row : Visible(r, x)' = Effect(r, s, Seen(r))[x]
  <2> TAKE x \in Row
  <2>1. Visible(r, x)' = IF x \in DOMAIN undo'[r] THEN rows'[x] ELSE Committed(x)
    BY <1>13 DEF Visible
  <2>2. Visible(r, x) = IF x \in DOMAIN undo[r] THEN rows[x] ELSE Committed(x)
    BY DEF Visible
  <2> QED
    BY <1>1, <1>6, <2>1, <2>2
<1> QED
  BY <1>5, <1>6, <1>7, <1>11, <1>12, <1>13, <1>14, <1>15

(* A statement that commits on its own is seen by everyone.                *)
LEMMA SingleViews ==
  ASSUME IInv, NEW r \in Request, Execute(r), NEW s, s = Made(r), op[r] \notin Whole
  PROVE  /\ undo' = undo /\ held' = [held EXCEPT ![r] = {}] /\ DOMAIN undo[r] = {}
         /\ \A q \in Request : \A x \in DOMAIN undo[q] : rows'[x] = rows[x]
         /\ \A x \in Row : Visible(r, x) = Committed(x)
         /\ \A x \in Row : Committed(x)' = Effect(r, s, Seen(r))[x]
         /\ \A q \in Request, x \in Row :
              Visible(q, x)' = IF x \in DOMAIN undo'[q] THEN rows[x] ELSE Effect(r, s, Seen(r))[x]
<1>1. /\ s \in Statement /\ pc[r] = "run" /\ s.of \subseteq Row
      /\ \A x \in s.of : rows[x] = Visible(r, x)
      /\ \A x \in s.of : \A q \in Request \ {r} : x \notin DOMAIN undo[q]
      /\ \A x \in Row \ s.of : rows'[x] = rows[x]
      /\ \A x \in Row : Effect(r, s, Seen(r))[x] =
                          IF x \in s.of THEN rows'[x] ELSE Visible(r, x)
  <2>1. s = Made(r)
    OBVIOUS
  <2> QED
    BY <2>1, ExecuteEffect
<1>2. ~atomic[r] /\ undo[r] = <<>>
  BY <1>1 DEF IInv, CallsOK
<1>3. undo' = undo /\ held' = [held EXCEPT ![r] = {}]
  BY <1>2 DEF Execute
<1>4. DOMAIN undo[r] = {}
  <2>1. DOMAIN <<>> = {}
    OBVIOUS
  <2> QED
    BY <1>2, <2>1
<1>5. \A x \in Row : Visible(r, x) = Committed(x)
  BY <1>4 DEF Visible
<1>6. /\ \A q, p \in Request : \A x \in DOMAIN undo[q] : x \in DOMAIN undo[p] => p = q
      /\ \A q \in Request : \A x \in DOMAIN undo[q] : Committed(x) = undo[q][x]
      /\ \A x : (\A q \in Request : x \notin DOMAIN undo[q]) => Committed(x) = rows[x]
  BY CommittedIs DEF IInv
<1>7. /\ \A q \in Request : \A x \in DOMAIN undo[q] : Committed(x)' = undo[q][x]
      /\ \A x : (\A q \in Request : x \notin DOMAIN undo[q]) => Committed(x)' = rows'[x]
  BY <1>3, <1>6, CommittedNext
<1>8. \A q \in Request : DOMAIN undo[q] \subseteq Row
  BY DEF IInv, TypeOK
<1>9. \A q \in Request : \A x \in DOMAIN undo[q] : x \notin s.of /\ rows'[x] = rows[x]
  BY <1>1, <1>4, <1>8
<1>10. \A x \in Row : Committed(x)' = Effect(r, s, Seen(r))[x]
  <2> TAKE x \in Row
  <2>1. ASSUME NEW q \in Request, x \in DOMAIN undo[q]
        PROVE  Committed(x)' = Effect(r, s, Seen(r))[x]
    BY <1>1, <1>5, <1>6, <1>7, <1>9, <2>1
  <2>2. CASE \A q \in Request : x \notin DOMAIN undo[q]
    BY <1>1, <1>5, <1>6, <1>7, <2>2
  <2> QED
    BY <2>1, <2>2
<1>11. \A q \in Request, x \in Row :
         Visible(q, x)' = IF x \in DOMAIN undo'[q] THEN rows[x] ELSE Effect(r, s, Seen(r))[x]
  BY <1>3, <1>9, <1>10 DEF Visible
<1> QED
  BY <1>3, <1>4, <1>5, <1>9, <1>10, <1>11
---------------------------------------------------------------------------
(* The type of the variables, and what a call remembers.                   *)

---------------------------------------------------------------------------
(* The type of the variables, and what a call remembers.                   *)

LEMMA Updated ==
  ASSUME NEW f, f \in [Request -> {f[q] : q \in Request}], NEW r \in Request, NEW e,
         NEW g, g = [f EXCEPT ![r] = e]
  PROVE  /\ g \in [Request -> {g[q] : q \in Request}]
         /\ g[r] = e /\ \A q \in Request \ {r} : g[q] = f[q]
OBVIOUS

LEMMA LegalScripts ==
  ASSUME NEW o
  PROVE  Seq(Legal(o)) \subseteq Seq(Statement) /\ <<>> \in Seq(Legal(o))
<1>1. Legal(o) \subseteq Statement
  BY DEF Legal
<1> QED
  BY <1>1

(* A call of a whole transaction, and the others.                          *)
CallOK(r) ==
  /\ todo[r] \in Seq(Legal(op[r]))
  /\ pc[r] = "run" => (atomic[r] <=> op[r] \in Whole)
  /\ pc[r] # "run" \/ op[r] \notin Whole => done[r] = <<>> /\ undo[r] = <<>>
  /\ pc[r] # "run" => todo[r] = <<>> /\ held[r] = {} /\ aim[r] = None
  /\ aim[r] # None => todo[r] # <<>> /\ Head(todo[r]).does \in Sweeps

LEMMA CallStays ==
  ASSUME CallsOK, NEW q \in Request, pc'[q] = pc[q], op'[q] = op[q], todo'[q] = todo[q],
         done'[q] = done[q], undo'[q] = undo[q], held'[q] = held[q], aim'[q] = aim[q],
         (atomic[q] <=> atomic'[q])
  PROVE  CallOK(q)' /\ undo'[q] \in [DOMAIN undo'[q] -> Value \cup {None}]
<1>1. CallOK(q) /\ undo[q] \in [DOMAIN undo[q] -> Value \cup {None}]
  BY DEF CallsOK, CallOK
<1>2. PICK l : l = Legal(op[q])
  OBVIOUS
<1>3. Legal(op'[q]) = l
  BY <1>2
<1>4. todo'[q] \in Seq(l)
  BY <1>1, <1>2 DEF CallOK
<1>5. /\ (pc'[q] = "run" => (atomic'[q] <=> op'[q] \in Whole))
      /\ (pc'[q] # "run" \/ op'[q] \notin Whole => done'[q] = <<>> /\ undo'[q] = <<>>)
      /\ (pc'[q] # "run" => todo'[q] = <<>> /\ held'[q] = {} /\ aim'[q] = None)
      /\ (aim'[q] # None => todo'[q] # <<>> /\ Head(todo'[q]).does \in Sweeps)
  BY <1>1 DEF CallOK
<1>6. CallOK(q)'
  BY <1>3, <1>4, <1>5 DEF CallOK, Whole, Sweeps
<1> QED
  BY <1>1, <1>6

(* The rest of CallsOK.                                                    *)
CallsIn ==
  /\ undo \in [Request -> {undo[r] : r \in Request}]
  /\ op \in [Request -> {op[r] : r \in Request}]
  /\ todo \in [Request -> Seq(Statement)] /\ done \in [Request -> Seq(Statement)]
  /\ aim \in [Request -> {aim[r] : r \in Request}]
  /\ seen \in [Request -> {seen[r] : r \in Request}]

LEMMA CallsAre ==
  ASSUME CallsIn',
         \A q \in Request : CallOK(q)' /\ undo'[q] \in [DOMAIN undo'[q] -> Value \cup {None}]
  PROVE  CallsOK'
BY DEF CallsOK, CallOK, CallsIn

LEMMA CallsHave ==
  ASSUME CallsOK
  PROVE  /\ CallsIn
         /\ \A q \in Request : CallOK(q) /\ undo[q] \in [DOMAIN undo[q] -> Value \cup {None}]
BY DEF CallsOK, CallOK, CallsIn

LEMMA StartTypes ==
  ASSUME IInv, NEW r \in Request, NEW o, NEW g, NEW tx, NEW script,
         Starts(r, o, g, tx, script)
  PROVE  TypeOK' /\ CallsOK'
<1>1. TypeOK /\ CallsOK /\ pc[r] = "idle"
  BY DEF IInv, Starts, Begins
<1>2. /\ pc' = [pc EXCEPT ![r] = "run"] /\ op' = [op EXCEPT ![r] = o]
      /\ gate' = [gate EXCEPT ![r] = g] /\ atomic' = [atomic EXCEPT ![r] = tx]
      /\ todo' = [todo EXCEPT ![r] = script]
      /\ UNCHANGED <<rows, undo, held, aim, done, seen, serial, kept, faults>>
  BY DEF Starts, Begins
<1>3. tx \in BOOLEAN /\ g \in Source \cup {None} /\ script \in Seq(Legal(o)) /\ (tx <=> o \in Whole)
  BY DEF Starts
<1>4. TypeOK'
  BY <1>1, <1>2, <1>3 DEF TypeOK
<1>5. /\ op' \in [Request -> {op'[q] : q \in Request}]
      /\ op'[r] = o /\ \A q \in Request \ {r} : op'[q] = op[q]
  <2>1. op \in [Request -> {op[q] : q \in Request}]
    BY <1>1 DEF CallsOK
  <2> QED
    BY <1>2, <2>1, Updated
<1>6. script \in Seq(Statement)
  BY <1>3, LegalScripts
<1>7. /\ todo' \in [Request -> Seq(Statement)] /\ todo'[r] = script
      /\ \A q \in Request \ {r} : todo'[q] = todo[q]
  BY <1>1, <1>2, <1>6 DEF CallsOK
<1>8. /\ pc'[r] = "run" /\ (atomic'[r] <=> tx)
      /\ \A q \in Request \ {r} : pc'[q] = pc[q] /\ (atomic[q] <=> atomic'[q])
  BY <1>1, <1>2 DEF TypeOK
<1>9. CallOK(r)'
  <2>1. done'[r] = <<>> /\ undo'[r] = <<>> /\ aim'[r] = None
    BY <1>1, <1>2 DEF CallsOK
  <2> QED
    BY <1>3, <1>5, <1>7, <1>8, <2>1 DEF CallOK, Whole
<1>10. \A q \in Request \ {r} : CallOK(q)'
  BY <1>1, <1>2, <1>5, <1>7, <1>8, CallStays
<1>11. CallsOK'
  <2>1. \A q \in Request : CallOK(q)' /\ undo'[q] \in [DOMAIN undo'[q] -> Value \cup {None}]
    BY <1>1, <1>2, <1>9, <1>10 DEF CallsOK
  <2>2. CallsIn'
    <3>1. CallsIn
      BY <1>1, CallsHave
    <3>2. UNCHANGED <<undo, aim, done, seen>>
      BY <1>2
    <3>3. /\ undo' \in [Request -> {undo'[q] : q \in Request}]
          /\ aim' \in [Request -> {aim'[q] : q \in Request}]
          /\ seen' \in [Request -> {seen'[q] : q \in Request}]
          /\ done' \in [Request -> Seq(Statement)]
      BY <3>1, <3>2 DEF CallsIn
    <3> QED
      BY <1>5, <1>7, <3>3 DEF CallsIn
  <2> QED
    BY <2>1, <2>2, CallsAre
<1> QED
  BY <1>4, <1>11

LEMMA ScanTypes ==
  ASSUME IInv, NEW r \in Request, Scan(r)
  PROVE  TypeOK' /\ CallsOK'
<1>1. TypeOK /\ CallsOK /\ pc[r] = "run" /\ todo[r] # <<>> /\ Current(r).does \in Sweeps
  BY DEF IInv, Scan, Running
<1>2. UNCHANGED <<rows, undo, held, pc, op, gate, atomic, todo, done, seen, serial, kept, faults>>
  BY DEF Scan, call
<1>3. PICK found : /\ found = {<<x, Visible(r, x).maker, Visible(r, x).owner>> : x \in Hits(r, Current(r))}
                   /\ aim' = [aim EXCEPT ![r] = found]
  BY DEF Scan
<1>4. /\ aim' \in [Request -> {aim'[q] : q \in Request}]
      /\ aim'[r] = found /\ \A q \in Request \ {r} : aim'[q] = aim[q]
  <2>1. aim \in [Request -> {aim[q] : q \in Request}]
    BY <1>1 DEF CallsOK
  <2> QED
    BY <1>3, <2>1, Updated
<1>5. found \subseteq Row \X (Request \cup {None}) \X Owner
  <2>1. PICK c \in Statement : c = Current(r)
    BY <1>1, AtStatement
  <2>2. ASSUME NEW x \in Hits(r, c)
        PROVE  x \in Row /\ Visible(r, x).maker \in Request \cup {None} /\ Visible(r, x).owner \in Owner
    <3>1. x \in Row /\ Visible(r, x) # None
      BY DEF Hits, Matches, Statement
    <3>2. Visible(r, x) \in Value
      BY <1>1, <3>1, SeenType
    <3> QED
      BY <3>1, <3>2 DEF Value
  <2> QED
    BY <1>3, <2>1, <2>2
<1>6. TypeOK'
  <2>1. \A q \in Request : aim'[q] # None => aim'[q] \subseteq Row \X (Request \cup {None}) \X Owner
    BY <1>1, <1>4, <1>5 DEF TypeOK
  <2> QED
    BY <1>1, <1>2, <2>1 DEF TypeOK
<1>7. \A q \in Request \ {r} : CallOK(q)'
  BY <1>1, <1>2, <1>4, CallStays
<1>8. CallOK(r)'
  <2>1. CallOK(r) /\ Head(todo[r]).does \in Sweeps
    BY <1>1, CallsHave, AtStatement
  <2>2. PICK s : s = Legal(op[r])
    OBVIOUS
  <2>3. Legal(op'[r]) = s
    BY <1>2, <2>2
  <2> QED
    BY <1>1, <1>2, <2>1, <2>2, <2>3 DEF CallOK, Whole, Sweeps
<1>9. CallsOK'
  <2>1. \A q \in Request : CallOK(q)' /\ undo'[q] \in [DOMAIN undo'[q] -> Value \cup {None}]
    BY <1>1, <1>2, <1>7, <1>8 DEF CallsOK
  <2>2. CallsIn'
    BY <1>1, <1>2, <1>4 DEF CallsOK, CallsIn
  <2> QED
    BY <2>1, <2>2, CallsAre
<1> QED
  BY <1>6, <1>9

LEMMA AcquireTypes ==
  ASSUME IInv, NEW r \in Request, Acquire(r)
  PROVE  TypeOK' /\ CallsOK'
<1>1. TypeOK /\ CallsOK /\ pc[r] = "run" /\ todo[r] # <<>>
  BY DEF IInv, Acquire, Running
<1>2. UNCHANGED <<rows, undo, pc, op, gate, atomic, todo, aim, done, seen, serial, kept, faults>>
  BY DEF Acquire, call
<1>3. PICK l \in Missing(r) : held' = [held EXCEPT ![r] = @ \cup {l}]
  BY DEF Acquire
<1>4. l \in Row \X Mode
  <2>1. PICK c \in Legal(op[r]) : c = Current(r)
    BY <1>1, AtStatement
  <2> QED
    BY <1>1, <2>1, FootprintType DEF Missing
<1>5. /\ held' \in [Request -> SUBSET (Row \X Mode)]
      /\ \A q \in Request \ {r} : held'[q] = held[q]
  BY <1>1, <1>3, <1>4 DEF TypeOK
<1>6. TypeOK'
  BY <1>1, <1>2, <1>5 DEF TypeOK, Mode
<1>7. \A q \in Request \ {r} : CallOK(q)'
  BY <1>1, <1>2, <1>5, CallStays
<1>8. CallOK(r)'
  <2>1. CallOK(r)
    BY <1>1, CallsHave
  <2>2. PICK s : s = Legal(op[r])
    OBVIOUS
  <2>3. Legal(op'[r]) = s
    BY <1>2, <2>2
  <2> QED
    BY <1>1, <1>2, <2>1, <2>2, <2>3 DEF CallOK, Whole, Sweeps
<1>9. CallsOK'
  <2>1. \A q \in Request : CallOK(q)' /\ undo'[q] \in [DOMAIN undo'[q] -> Value \cup {None}]
    BY <1>1, <1>2, <1>7, <1>8 DEF CallsOK
  <2>2. CallsIn'
    BY <1>1, <1>2 DEF CallsOK, CallsIn
  <2> QED
    BY <2>1, <2>2, CallsAre
<1> QED
  BY <1>6, <1>9

LEMMA ExecuteTypes ==
  ASSUME IInv, NEW r \in Request, Execute(r)
  PROVE  TypeOK' /\ CallsOK'
<1>1. TypeOK /\ CallsOK
  BY DEF IInv
<1>2. PICK s : s = Made(r)
  OBVIOUS
<1>3. /\ s \in Statement /\ todo[r] # <<>> /\ pc[r] = "run" /\ s.of \subseteq Row
      /\ rows' \in [Row -> Value \cup {None}]
  BY <1>2, ExecuteEffect
<1>4. Tail(todo[r]) \in Seq(Legal(op[r])) /\ Tail(todo[r]) \in Seq(Statement)
  BY <1>1, <1>3, AtStatement
<1>5. UNCHANGED <<pc, op, gate, atomic, faults>>
  BY DEF Execute, call
<1>6. /\ todo' \in [Request -> Seq(Statement)] /\ todo'[r] \in Seq(Legal(op[r]))
      /\ \A q \in Request \ {r} : todo'[q] = todo[q]
  <2>1. todo' = [todo EXCEPT ![r] = Tail(@)]
    BY DEF Execute
  <2> QED
    BY <1>1, <1>4, <2>1 DEF CallsOK
<1>7. seen' \in [Request -> {seen'[q] : q \in Request}]
  <2>1. seen \in [Request -> {seen[q] : q \in Request}]
    BY <1>1 DEF CallsOK
  <2>2. PICK e : seen' = [seen EXCEPT ![r] = e]
    BY DEF Execute
  <2> QED
    BY <2>1, <2>2, Updated
<1>8. /\ aim' \in [Request -> {aim'[q] : q \in Request}]
      /\ aim'[r] = None /\ \A q \in Request \ {r} : aim'[q] = aim[q]
  <2>1. aim \in [Request -> {aim[q] : q \in Request}]
    BY <1>1 DEF CallsOK
  <2>2. aim' = [aim EXCEPT ![r] = None]
    BY DEF Execute
  <2> QED
    BY <2>1, <2>2, Updated
<1>9. \A q \in Request : aim'[q] # None => aim'[q] \subseteq Row \X (Request \cup {None}) \X Owner
  BY <1>1, <1>8 DEF TypeOK
<1>10. /\ serial' \in [Row -> Value \cup {None}] /\ kept' \in [Row -> Text \cup {Empty, None}]
  <2>1. CASE op[r] \in Whole
    BY <1>1, <2>1 DEF Execute, TypeOK
  <2>2. CASE op[r] \notin Whole
    <3>1. serial' = Effect(r, s, serial)
      BY <1>2, <2>2 DEF Execute
    <3>2. serial' \in [Row -> Value \cup {None}]
      BY <1>1, <1>3, <3>1, EffectType DEF TypeOK
    <3>3. kept' = [x \in Row |-> IF s.does = "set" /\ x \in s.of THEN s.text
                                 ELSE IF x \in Overwritten(s) THEN None ELSE kept[x]]
      BY <1>2, <2>2 DEF Execute
    <3>4. s.text \in Text \cup {Empty} /\ kept \in [Row -> Text \cup {Empty, None}]
      BY <1>1, <1>3 DEF Statement, TypeOK
    <3>5. kept' \in [Row -> Text \cup {Empty, None}]
      BY <3>3, <3>4
    <3> QED
      BY <3>2, <3>5
  <2> QED
    BY <2>1, <2>2
<1>11. CASE op[r] \in Whole
  <2>1. /\ \A q \in Request \ {r} : undo'[q] = undo[q] /\ held'[q] = held[q]
        /\ DOMAIN undo'[r] = DOMAIN undo[r] \cup s.of
        /\ undo' \in [Request -> {undo'[q] : q \in Request}]
        /\ undo'[r] \in [DOMAIN undo'[r] -> Value \cup {None}]
    BY <1>2, <1>11, WholeViews
  <2>2. Missing(r) \subseteq Row \X Mode
    <3>1. PICK c \in Legal(op[r]) : c = Current(r)
      BY <1>1, <1>3, AtStatement
    <3> QED
      BY <1>1, <3>1, FootprintType DEF Missing
  <2>3. held' = [held EXCEPT ![r] = @ \cup Missing(r)]
    <3>1. atomic[r]
      BY <1>1, <1>3, <1>11 DEF CallsOK
    <3> QED
      BY <3>1 DEF Execute
  <2>4. TypeOK'
    <3>1. held' \in [Request -> SUBSET (Row \X Mode)]
      BY <1>1, <2>2, <2>3 DEF TypeOK
    <3>2. \A q \in Request : DOMAIN undo'[q] \subseteq Row
      BY <1>1, <1>3, <2>1 DEF TypeOK
    <3> QED
      BY <1>1, <1>3, <1>5, <1>9, <1>10, <3>1, <3>2 DEF TypeOK, Mode
  <2>5. done' = [done EXCEPT ![r] = Append(@, s)]
    BY <1>2, <1>11 DEF Execute
  <2>6. PICK e : e = Append(done[r], s)
    OBVIOUS
  <2>7. e \in Seq(Statement)
    <3>1. done[r] \in Seq(Statement)
      BY <1>1 DEF CallsOK
    <3> QED
      BY <1>3, <2>6, <3>1
  <2>8. /\ done' \in [Request -> Seq(Statement)] /\ done'[r] = e
        /\ \A q \in Request \ {r} : done'[q] = done[q]
    BY <1>1, <2>5, <2>6, <2>7 DEF CallsOK
  <2>9. \A q \in Request \ {r} : CallOK(q)' /\ undo'[q] \in [DOMAIN undo'[q] -> Value \cup {None}]
    BY <1>1, <1>5, <1>6, <1>8, <2>1, <2>8, CallStays
  <2>10. CallOK(r)'
    <3>1. PICK l : l = Legal(op[r])
      OBVIOUS
    <3>2. Legal(op'[r]) = l
      BY <1>5, <3>1
    <3>3. todo'[r] \in Seq(l)
      BY <1>6, <3>1
    <3>4. atomic'[r] <=> op'[r] \in Whole
      BY <1>1, <1>3, <1>5 DEF CallsOK
    <3> QED
      BY <1>3, <1>5, <1>8, <1>11, <3>2, <3>3, <3>4 DEF CallOK, Whole
  <2>11. CallsOK'
    <3>1. \A q \in Request : CallOK(q)' /\ undo'[q] \in [DOMAIN undo'[q] -> Value \cup {None}]
      BY <2>1, <2>9, <2>10
    <3>2. op' \in [Request -> {op'[q] : q \in Request}]
      BY <1>1, <1>5 DEF CallsOK
    <3>3. CallsIn'
      BY <1>6, <1>7, <1>8, <2>1, <2>8, <3>2 DEF CallsIn
    <3> QED
      BY <3>1, <3>3, CallsAre
  <2> QED
    BY <2>4, <2>11
<1>12. CASE op[r] \notin Whole
  <2>1. undo' = undo /\ held' = [held EXCEPT ![r] = {}] /\ done' = done
    BY <1>2, <1>12, SingleViews DEF Execute
  <2>2. /\ held' \in [Request -> SUBSET (Row \X Mode)]
        /\ \A q \in Request \ {r} : held'[q] = held[q]
    BY <1>1, <2>1 DEF TypeOK
  <2>3. TypeOK'
    BY <1>1, <1>3, <1>5, <1>9, <1>10, <2>1, <2>2 DEF TypeOK, Mode
  <2>4. \A q \in Request \ {r} : CallOK(q)'
    BY <1>1, <1>5, <1>6, <1>8, <2>1, <2>2, CallStays
  <2>5. CallOK(r)'
    <3>1. PICK l : l = Legal(op[r])
      OBVIOUS
    <3>2. Legal(op'[r]) = l
      BY <1>5, <3>1
    <3>3. todo'[r] \in Seq(l)
      BY <1>6, <3>1
    <3>4. /\ (atomic'[r] <=> op'[r] \in Whole)
          /\ done'[r] = <<>> /\ undo'[r] = <<>>
      BY <1>1, <1>3, <1>5, <1>12, <2>1 DEF CallsOK
    <3> QED
      BY <1>3, <1>5, <1>8, <3>2, <3>3, <3>4 DEF CallOK, Whole
  <2>6. CallsOK'
    <3>1. \A q \in Request : CallOK(q)' /\ undo'[q] \in [DOMAIN undo'[q] -> Value \cup {None}]
      BY <1>1, <2>1, <2>4, <2>5 DEF CallsOK
    <3>2. /\ undo' \in [Request -> {undo'[q] : q \in Request}]
          /\ op' \in [Request -> {op'[q] : q \in Request}]
          /\ done' \in [Request -> Seq(Statement)]
      BY <1>1, <1>5, <2>1 DEF CallsOK
    <3>3. CallsIn'
      BY <1>6, <1>7, <1>8, <3>2 DEF CallsIn
    <3> QED
      BY <3>1, <3>3, CallsAre
  <2> QED
    BY <2>3, <2>6
<1> QED
  BY <1>11, <1>12

(* A call that ends remembers nothing.                                     *)
LEMMA LeaveTypes ==
  ASSUME IInv, NEW r \in Request, NEW how \in {"done", "failed"}, Leave(r, how),
         held' = [held EXCEPT ![r] = LocksAfter(r)],
         rows' \in [Row -> Value \cup {None}], serial' \in [Row -> Value \cup {None}],
         kept' \in [Row -> Text \cup {Empty, None}], faults' \in 0..MaxFaults
  PROVE  TypeOK' /\ CallsOK'
<1>1. TypeOK /\ CallsOK
  BY DEF IInv
<1>2. /\ pc' = [pc EXCEPT ![r] = how] /\ todo' = [todo EXCEPT ![r] = <<>>]
      /\ done' = [done EXCEPT ![r] = <<>>] /\ seen' = [seen EXCEPT ![r] = {}]
      /\ undo' = [undo EXCEPT ![r] = <<>>] /\ UNCHANGED <<op, gate, atomic>>
      /\ held' = [held EXCEPT ![r] = {}] /\ aim' = [aim EXCEPT ![r] = None]
  BY DEF Leave, call, LocksAfter
<1>3. PICK e : e = <<>>
  OBVIOUS
<1>4. e \in Seq(Statement) /\ DOMAIN e = {} /\ e \in [DOMAIN e -> Value \cup {None}]
  <2>1. DOMAIN <<>> = {}
    OBVIOUS
  <2>2. e \in Seq(Statement)
    BY <1>3
  <2>3. DOMAIN e = {}
    BY <1>3, <2>1
  <2>4. e = [x \in {} |-> e[x]]
    BY <1>3
  <2> QED
    BY <2>2, <2>3, <2>4
<1>5. /\ undo' \in [Request -> {undo'[q] : q \in Request}]
      /\ undo'[r] = e /\ \A q \in Request \ {r} : undo'[q] = undo[q]
  <2>1. undo \in [Request -> {undo[q] : q \in Request}]
    BY <1>1 DEF CallsOK
  <2>2. undo' = [undo EXCEPT ![r] = e]
    BY <1>2, <1>3
  <2> QED
    BY <2>1, <2>2, Updated
<1>6. seen' \in [Request -> {seen'[q] : q \in Request}]
  <2>1. seen \in [Request -> {seen[q] : q \in Request}]
    BY <1>1 DEF CallsOK
  <2> QED
    BY <1>2, <2>1, Updated
<1>7. /\ aim' \in [Request -> {aim'[q] : q \in Request}]
      /\ aim'[r] = None /\ \A q \in Request \ {r} : aim'[q] = aim[q]
  <2>1. aim \in [Request -> {aim[q] : q \in Request}]
    BY <1>1 DEF CallsOK
  <2> QED
    BY <1>2, <2>1, Updated
<1>8. /\ todo' \in [Request -> Seq(Statement)] /\ done' \in [Request -> Seq(Statement)]
      /\ todo'[r] = <<>> /\ done'[r] = <<>>
      /\ \A q \in Request \ {r} : todo'[q] = todo[q] /\ done'[q] = done[q]
  BY <1>1, <1>2, <1>3, <1>4 DEF CallsOK
<1>9. /\ held' \in [Request -> SUBSET (Row \X Mode)]
      /\ pc' \in [Request -> {"idle", "run", "done", "failed"}]
      /\ pc'[r] # "run" /\ held'[r] = {}
      /\ \A q \in Request \ {r} : held'[q] = held[q] /\ pc'[q] = pc[q]
  BY <1>1, <1>2 DEF TypeOK
<1>10. TypeOK'
  <2>1. \A q \in Request : DOMAIN undo'[q] \subseteq Row
    BY <1>1, <1>4, <1>5 DEF TypeOK
  <2>2. \A q \in Request : aim'[q] # None => aim'[q] \subseteq Row \X (Request \cup {None}) \X Owner
    BY <1>1, <1>7 DEF TypeOK
  <2> QED
    BY <1>1, <1>2, <1>9, <2>1, <2>2 DEF TypeOK, Mode
<1>11. \A q \in Request \ {r} : CallOK(q)' /\ undo'[q] \in [DOMAIN undo'[q] -> Value \cup {None}]
  BY <1>1, <1>2, <1>5, <1>7, <1>8, <1>9, CallStays
<1>12. CallOK(r)' /\ undo'[r] \in [DOMAIN undo'[r] -> Value \cup {None}]
  <2>1. todo'[r] \in Seq(Legal(op'[r]))
    BY <1>8, LegalScripts
  <2> QED
    BY <1>3, <1>4, <1>5, <1>7, <1>8, <1>9, <2>1 DEF CallOK
<1>13. CallsOK'
  <2>1. \A q \in Request : CallOK(q)' /\ undo'[q] \in [DOMAIN undo'[q] -> Value \cup {None}]
    BY <1>11, <1>12
  <2>2. op' \in [Request -> {op'[q] : q \in Request}]
    BY <1>1, <1>2 DEF CallsOK
  <2>3. CallsIn'
    BY <1>5, <1>6, <1>7, <1>8, <2>2 DEF CallsIn
  <2> QED
    BY <2>1, <2>3, CallsAre
<1> QED
  BY <1>10, <1>13

LEMMA CommitTypes ==
  ASSUME IInv, NEW r \in Request, Commit(r)
  PROVE  TypeOK' /\ CallsOK' /\ serial' = Replayed(r, serial, done[r])
<1>1. TypeOK /\ CallsOK
  BY DEF IInv
<1>2. serial' = Replayed(r, serial, done[r])
  BY DEF Commit, Replayed
<1>3. serial' \in [Row -> Value \cup {None}]
  BY <1>1, <1>2, ReplayedType DEF TypeOK, CallsOK
<1>4. kept' \in [Row -> Text \cup {Empty, None}]
  <2>1. PICK lost : kept' = [x \in Row |-> IF x \in lost THEN None ELSE kept[x]]
    BY DEF Commit
  <2> QED
    BY <1>1, <2>1 DEF TypeOK
<1>5. /\ Leave(r, "done") /\ held' = [held EXCEPT ![r] = LocksAfter(r)]
      /\ faults' = faults /\ rows' = rows
  BY DEF Commit
<1>6. TypeOK' /\ CallsOK'
  BY <1>1, <1>3, <1>4, <1>5, LeaveTypes DEF TypeOK
<1> QED
  BY <1>2, <1>6

LEMMA RollbackTypes ==
  ASSUME IInv, NEW r \in Request, Rollback(r), faults' \in 0..MaxFaults
  PROVE  TypeOK' /\ CallsOK'
<1>1. TypeOK
  BY DEF IInv
<1>2. /\ Leave(r, "failed") /\ held' = [held EXCEPT ![r] = LocksAfter(r)]
      /\ UNCHANGED <<serial, kept>>
  BY DEF Rollback
<1>3. rows' \in [Row -> Value \cup {None}]
  BY RollbackViews
<1> QED
  BY <1>1, <1>2, <1>3, LeaveTypes DEF TypeOK
---------------------------------------------------------------------------
(* Locks.                                                                  *)

LEMMA ClashBoth ==
  ASSUME NEW m, NEW n
  PROVE  Clash(m, n) <=> Clash(n, m)
<1>1. {m, n} = {n, m}
  OBVIOUS
<1> QED
  BY <1>1 DEF Clash

LEMMA LocksStep ==
  ASSUME LocksOK, NEW r \in Request,
         \A q \in Request \ {r} : held'[q] = held[q] /\ undo'[q] = undo[q],
         \A q \in Request \ {r} : \A l \in held'[r], k \in held[q] :
           k[1] = l[1] => ~Clash(l[2], k[2]),
         \A x \in DOMAIN undo'[r] : <<x, "write">> \in held'[r] \/ <<x, "delete">> \in held'[r]
  PROVE  LocksOK'
<1>1. \A q \in Request : \A x \in DOMAIN undo'[q] :
        <<x, "write">> \in held'[q] \/ <<x, "delete">> \in held'[q]
  BY DEF LocksOK
<1>2. ASSUME NEW q \in Request, NEW p \in Request, NEW l \in held'[q], NEW k \in held'[p],
             q # p, l[1] = k[1]
      PROVE  ~Clash(l[2], k[2])
  <2>1. CASE q = r
    BY <1>2, <2>1
  <2>2. CASE p = r
    BY <1>2, <2>2, ClashBoth
  <2>3. CASE q # r /\ p # r
    BY <1>2, <2>3 DEF LocksOK
  <2> QED
    BY <2>1, <2>2, <2>3
<1>3. \A q, p \in Request : \A l \in held'[q], k \in held'[p] :
        q # p /\ l[1] = k[1] => ~Clash(l[2], k[2])'
  BY <1>2 DEF Clash
<1> QED
  BY <1>1, <1>3 DEF LocksOK

LEMMA AcquireLocks ==
  ASSUME IInv, NEW r \in Request, Acquire(r)
  PROVE  LocksOK'
<1>1. TypeOK /\ LocksOK /\ undo' = undo
  BY DEF IInv, Acquire
<1>2. PICK l \in Missing(r) : Blockers(r, l) = {} /\ held' = [held EXCEPT ![r] = @ \cup {l}]
  BY DEF Acquire
<1>3. held'[r] = held[r] \cup {l} /\ \A q \in Request \ {r} : held'[q] = held[q]
  BY <1>1, <1>2 DEF TypeOK
<1>4. ASSUME NEW q \in Request \ {r}, NEW k \in held[q], k[1] = l[1]
      PROVE  ~Clash(l[2], k[2])
  <2>1. k = <<k[1], k[2]>> /\ k[2] \in Mode
    BY <1>1 DEF TypeOK
  <2> QED
    BY <1>2, <1>4, <2>1 DEF Blockers
<1>5. \A q \in Request \ {r} : \A j \in held'[r], k \in held[q] :
        k[1] = j[1] => ~Clash(j[2], k[2])
  BY <1>1, <1>3, <1>4 DEF LocksOK
<1>6. \A x \in DOMAIN undo'[r] : <<x, "write">> \in held'[r] \/ <<x, "delete">> \in held'[r]
  BY <1>1, <1>3 DEF LocksOK
<1> QED
  BY <1>1, <1>3, <1>5, <1>6, LocksStep

(* A transaction has the locks of a statement it has executed, or stronger *)
(* ones.                                                                   *)
LEMMA LocksTaken ==
  ASSUME NEW r \in Request, held'[r] = held[r] \cup Missing(r),
         NEW x, NEW m \in Mode, <<x, m>> \in Footprint(r, Current(r))
  PROVE  /\ m = "write" => <<x, "write">> \in held'[r] \/ <<x, "delete">> \in held'[r]
         /\ m = "delete" => <<x, "delete">> \in held'[r]
<1>1. CASE <<x, m>> \in Missing(r)
  BY <1>1
<1>2. CASE <<x, m>> \notin Missing(r)
  <2>1. Covered(r, <<x, m>>)
    BY <1>2 DEF Missing
  <2>2. PICK n \in Mode : <<x, n>> \in held[r] /\ (n = m \/ n = "delete" \/ m = "share")
    BY <2>1 DEF Covered
  <2> QED
    BY <2>2
<1> QED
  BY <1>1, <1>2

LEMMA ExecuteLocks ==
  ASSUME IInv, NEW r \in Request, Execute(r)
  PROVE  LocksOK'
<1>1. TypeOK /\ LocksOK /\ Ready(r)
  BY DEF IInv, Execute
<1>2. PICK s : s = Made(r)
  OBVIOUS
<1>3. \A x \in s.of : \/ <<x, "write">> \in Footprint(r, Current(r))
                      \/ <<x, "delete">> \in Footprint(r, Current(r))
  BY <1>2, ExecuteEffect
<1>4. CASE op[r] \in Whole
  <2>1. /\ \A q \in Request \ {r} : undo'[q] = undo[q] /\ held'[q] = held[q]
        /\ DOMAIN undo'[r] = DOMAIN undo[r] \cup s.of
        /\ held'[r] = held[r] \cup Missing(r)
    BY <1>2, <1>4, WholeViews
  <2>2. \A q \in Request \ {r} : \A l \in held'[r], k \in held[q] :
          k[1] = l[1] => ~Clash(l[2], k[2])
    <3>1. \A q \in Request \ {r} : \A l \in Missing(r), k \in held[q] :
            k[1] = l[1] => ~Clash(l[2], k[2])
      BY <1>1, FreeLocks DEF Missing
    <3>2. \A q \in Request \ {r} : \A l \in held[r], k \in held[q] :
            k[1] = l[1] => ~Clash(l[2], k[2])
      BY <1>1 DEF LocksOK
    <3> QED
      BY <2>1, <3>1, <3>2
  <2>3. \A x \in DOMAIN undo'[r] : <<x, "write">> \in held'[r] \/ <<x, "delete">> \in held'[r]
    <3> TAKE x \in DOMAIN undo'[r]
    <3>1. CASE x \in DOMAIN undo[r]
      BY <1>1, <2>1, <3>1 DEF LocksOK
    <3>2. CASE x \in s.of
      <4>1. PICK m \in {"write", "delete"} : <<x, m>> \in Footprint(r, Current(r))
        BY <1>3, <3>2
      <4>2. m \in Mode
        BY DEF Mode
      <4> QED
        BY <2>1, <4>1, <4>2, LocksTaken
    <3> QED
      BY <2>1, <3>1, <3>2
  <2> QED
    BY <1>1, <2>1, <2>2, <2>3, LocksStep
<1>5. CASE op[r] \notin Whole
  <2>1. undo' = undo /\ held' = [held EXCEPT ![r] = {}] /\ DOMAIN undo[r] = {}
    BY <1>2, <1>5, SingleViews
  <2>2. held'[r] = {} /\ \A q \in Request \ {r} : held'[q] = held[q] /\ undo'[q] = undo[q]
    BY <1>1, <2>1 DEF TypeOK
  <2>3. \A x \in DOMAIN undo'[r] : <<x, "write">> \in held'[r] \/ <<x, "delete">> \in held'[r]
    BY <2>1
  <2> QED
    BY <1>1, <2>2, <2>3, LocksStep
<1> QED
  BY <1>4, <1>5

LEMMA LeaveLocks ==
  ASSUME IInv, NEW r \in Request, NEW how, Leave(r, how),
         held' = [held EXCEPT ![r] = LocksAfter(r)]
  PROVE  /\ LocksOK' /\ held'[r] = {} /\ undo'[r] = <<>> /\ DOMAIN undo'[r] = {}
         /\ pc' = [pc EXCEPT ![r] = how] /\ UNCHANGED call
         /\ todo' = [todo EXCEPT ![r] = <<>>] /\ done' = [done EXCEPT ![r] = <<>>]
         /\ \A q \in Request \ {r} : held'[q] = held[q] /\ undo'[q] = undo[q]
<1>1. TypeOK /\ LocksOK
  BY DEF IInv
<1>2. held' = [held EXCEPT ![r] = {}] /\ undo' = [undo EXCEPT ![r] = <<>>]
  BY DEF Leave, LocksAfter
<1>3. undo \in [Request -> {undo[q] : q \in Request}]
  BY DEF IInv, CallsOK
<1>4. DOMAIN <<>> = {}
  OBVIOUS
<1>5. /\ held'[r] = {} /\ undo'[r] = <<>>
      /\ \A q \in Request \ {r} : held'[q] = held[q] /\ undo'[q] = undo[q]
  BY <1>1, <1>2, <1>3 DEF TypeOK
<1>6. DOMAIN undo'[r] = {}
  BY <1>4, <1>5
<1>7. \A x \in DOMAIN undo'[r] : <<x, "write">> \in held'[r] \/ <<x, "delete">> \in held'[r]
  BY <1>6
<1>8. LocksOK'
  BY <1>1, <1>5, <1>7, LocksStep
<1> QED
  BY <1>5, <1>6, <1>8 DEF Leave
---------------------------------------------------------------------------
(* Locks held between two statements.                                      *)

Several(A) == A # None /\ \E a, b \in A : a[1] # b[1]

GateHeld(r) ==
  pc[r] = "run" =>
    /\ op[r] \in {"generate", "describe"} /\ held[r] # {} => Several(aim[r])
    /\ op[r] = "import" /\ gate[r] # None =>
         \/ held[r] = {} /\ todo[r] # <<>> /\ Head(todo[r]) = Do("keep", gate[r])
         \/ <<gate[r], "write">> \in held[r]

LEMMA GateIs == GateOK <=> \A r \in Request : GateHeld(r)
BY DEF GateOK, GateHeld, Several

LEMMA GateStays ==
  ASSUME GateOK, NEW q \in Request, pc'[q] = pc[q], op'[q] = op[q], todo'[q] = todo[q],
         gate'[q] = gate[q], held'[q] = held[q], aim'[q] = aim[q]
  PROVE  GateHeld(q)'
BY GateIs DEF GateHeld, Several, Do, Stmt

LEMMA GateNext ==
  ASSUME \A q \in Request : GateHeld(q)'
  PROVE  GateOK'
BY DEF GateOK, GateHeld, Several

LEMMA StartGate ==
  ASSUME IInv, NEW r \in Request, NEW o, NEW g, NEW tx, NEW script,
         Starts(r, o, g, tx, script)
  PROVE  GateOK'
<1>1. /\ pc' = [pc EXCEPT ![r] = "run"] /\ op' = [op EXCEPT ![r] = o]
      /\ gate' = [gate EXCEPT ![r] = g]
      /\ todo' = [todo EXCEPT ![r] = script] /\ held' = held /\ aim' = aim /\ pc[r] = "idle"
      /\ (o = "import" /\ g # None => script # <<>> /\ Head(script) = Do("keep", g))
  BY DEF Starts, Begins
<1>2. op \in [Request -> {op[q] : q \in Request}] /\ TypeOK /\ CallsOK
  BY DEF IInv, CallsOK
<1>3. /\ pc'[r] = "run" /\ gate'[r] = g /\ todo'[r] = script /\ held'[r] = {}
      /\ \A q \in Request \ {r} : /\ pc'[q] = pc[q] /\ gate'[q] = gate[q]
                                  /\ todo'[q] = todo[q] /\ held'[q] = held[q]
  BY <1>1, <1>2 DEF TypeOK, CallsOK
<1>4. op'[r] = o /\ \A q \in Request \ {r} : op'[q] = op[q]
  BY <1>1, <1>2, Updated
<1>5. GateHeld(r)'
  BY <1>1, <1>3, <1>4 DEF GateHeld, Do, Stmt
<1>6. \A q \in Request \ {r} : GateHeld(q)'
  BY <1>1, <1>3, <1>4, GateStays DEF IInv
<1> QED
  BY <1>5, <1>6, GateNext

LEMMA ScanGate ==
  ASSUME IInv, NEW r \in Request, Scan(r)
  PROVE  GateOK'
<1>1. TypeOK /\ CallsOK /\ GateOK /\ pc[r] = "run" /\ aim[r] = None
  BY DEF IInv, Scan, Running
<1>2. UNCHANGED <<held, pc, op, gate, todo>>
  BY DEF Scan, call
<1>3. \A q \in Request \ {r} : aim'[q] = aim[q]
  <2>1. aim \in [Request -> {aim[q] : q \in Request}]
    BY <1>1 DEF CallsOK
  <2>2. PICK e : aim' = [aim EXCEPT ![r] = e]
    BY DEF Scan
  <2> QED
    BY <2>1, <2>2
<1>4. GateHeld(r)'
  <2>1. GateHeld(r) /\ ~Several(aim[r])
    BY <1>1, GateIs DEF Several
  <2>2. op[r] \in {"generate", "describe"} => held[r] = {}
    BY <1>1, <2>1 DEF GateHeld
  <2> QED
    BY <1>2, <2>1, <2>2 DEF GateHeld, Do, Stmt
<1>5. \A q \in Request \ {r} : GateHeld(q)'
  BY <1>1, <1>2, <1>3, GateStays
<1> QED
  BY <1>4, <1>5, GateNext

(* The row of a data source takes one lock.                                *)
LEMMA GateStatement ==
  ASSUME NEW r, NEW g \in Source, NEW s, s = Do("keep", g)
  PROVE  Meant(r, s) = s /\ Footprint(r, s) = {<<g, "write">>}
<1>1. s.does = "keep" /\ s.row = g /\ s.owner = None
  BY DEF Do, Stmt
<1>2. None \notin Table
  BY AnalyzerAssumption DEF Row
<1>3. Meant(r, s) = s
  BY <1>1, <1>2 DEF Meant
<1>4. g \notin Link \cup Flow
  BY KindAssumption
<1>5. PICK v : v = Visible(r, g)
  OBVIOUS
<1>6. PICK w : w = Result(r, s, v)
  OBVIOUS
<1>7. Owners(g, w) \subseteq Owners(g, v)
  <2>1. CASE v = None
    <3>1. w = [text |-> s.text, by |-> s.by, maker |-> r, owner |-> None]
      BY <1>1, <1>6, <2>1 DEF Result, Inserts
    <3>2. w.owner = None
      BY <3>1
    <3> QED
      BY <1>4, <3>2 DEF Owners
  <2>2. CASE v # None
    <3>1. w.owner = v.owner
      BY <1>1, <1>6, <2>2 DEF Result
    <3> QED
      BY <1>4, <2>2, <3>1 DEF Owners
  <2> QED
    BY <2>1, <2>2
<1>8. Refers(r, s) = {}
  BY <1>1, <1>5, <1>6, <1>7 DEF Refers
<1>9. {<<p, "share">> : p \in Refers(r, s)} = {}
  BY <1>8
<1>10. Footprint(r, s) = {<<s.row, "write">>} \cup {<<p, "share">> : p \in Refers(r, s)}
  BY <1>1 DEF Footprint, Selects, Sweeps
<1> QED
  BY <1>1, <1>3, <1>9, <1>10

LEMMA AcquireGate ==
  ASSUME IInv, NEW r \in Request, Acquire(r)
  PROVE  GateOK'
<1>1. TypeOK /\ CallsOK /\ GateOK /\ todo[r] # <<>> /\ pc[r] = "run"
  BY DEF IInv, Acquire, Running
<1>2. UNCHANGED <<pc, op, gate, todo, aim>>
  BY DEF Acquire, call
<1>3. PICK l \in Missing(r), k \in Missing(r) :
        l # k /\ held' = [held EXCEPT ![r] = @ \cup {l}]
  BY DEF Acquire
<1>4. held'[r] = held[r] \cup {l} /\ \A q \in Request \ {r} : held'[q] = held[q]
  BY <1>1, <1>3 DEF TypeOK
<1>5. PICK c : c = Current(r)
  OBVIOUS
<1>6. l \in Footprint(r, c) /\ k \in Footprint(r, c)
  BY <1>3, <1>5 DEF Missing
<1>7. ASSUME op[r] \in {"generate", "describe"} PROVE Several(aim[r])
  <2>1. c \in Legal(op[r])
    BY <1>1, <1>5, AtStatement
  <2>2. c.does \in {"set", "fill"}
    BY <1>7, <2>1 DEF Legal
  <2>3. aim[r] # None /\ Footprint(r, c) = {<<x, "write">> : x \in Live(r, c)}
    BY <1>6, <2>2 DEF Footprint, Selects, Sweeps
  <2>4. PICK x \in Live(r, c), y \in Live(r, c) : l = <<x, "write">> /\ k = <<y, "write">>
    BY <1>6, <2>3
  <2>5. x # y
    BY <1>3, <2>4
  <2>6. PICK a \in aim[r], b \in aim[r] : a[1] = x /\ b[1] = y
    BY DEF Live
  <2> QED
    BY <2>3, <2>5, <2>6 DEF Several
<1>8. ASSUME op[r] = "import", gate[r] # None PROVE <<gate[r], "write">> \in held[r]
  <2> SUFFICES ASSUME Head(todo[r]) = Do("keep", gate[r]) PROVE FALSE
    BY <1>1, <1>8 DEF GateOK
  <2>1. PICK g \in Source : g = gate[r]
    BY <1>1, <1>8 DEF TypeOK
  <2>2. PICK s : s = Do("keep", g)
    OBVIOUS
  <2>3. c = Meant(r, s)
    BY <1>5, <2>1, <2>2 DEF Current
  <2>4. Meant(r, s) = s /\ Footprint(r, s) = {<<g, "write">>}
    BY <2>2, GateStatement
  <2> QED
    BY <1>3, <1>6, <2>3, <2>4
<1>9. GateHeld(r)'
  BY <1>2, <1>4, <1>7, <1>8 DEF GateHeld, Several
<1>10. \A q \in Request \ {r} : GateHeld(q)'
  BY <1>1, <1>2, <1>4, GateStays
<1> QED
  BY <1>9, <1>10, GateNext

LEMMA ExecuteGate ==
  ASSUME IInv, NEW r \in Request, Execute(r)
  PROVE  GateOK'
<1>1. TypeOK /\ CallsOK /\ GateOK /\ todo[r] # <<>> /\ pc[r] = "run"
  BY DEF IInv, Execute, Ready, Running
<1>2. /\ UNCHANGED <<pc, op, gate>> /\ todo' = [todo EXCEPT ![r] = Tail(@)]
      /\ aim' = [aim EXCEPT ![r] = None]
  BY DEF Execute, call
<1>3. PICK s : s = Made(r)
  OBVIOUS
<1>4. \A q \in Request \ {r} : held'[q] = held[q] /\ todo'[q] = todo[q] /\ aim'[q] = aim[q]
  <2>1. aim \in [Request -> {aim[q] : q \in Request}] /\ todo \in [Request -> Seq(Statement)]
    BY <1>1 DEF CallsOK
  <2>2. \A q \in Request \ {r} : todo'[q] = todo[q] /\ aim'[q] = aim[q]
    BY <1>2, <2>1
  <2>3. CASE op[r] \in Whole
    BY <1>3, <2>2, <2>3, WholeViews
  <2>4. CASE op[r] \notin Whole
    <3>1. held' = [held EXCEPT ![r] = {}]
      BY <1>3, <2>4, SingleViews
    <3> QED
      BY <1>1, <2>2, <3>1 DEF TypeOK
  <2> QED
    BY <2>3, <2>4
<1>5. \A q \in Request \ {r} : GateHeld(q)'
  BY <1>1, <1>2, <1>4, GateStays
<1>6. ASSUME op[r] \in {"generate", "describe"} PROVE held'[r] = {}
  <2>1. op[r] \notin Whole
    BY <1>6 DEF Whole
  <2>2. held' = [held EXCEPT ![r] = {}]
    BY <1>3, <2>1, SingleViews
  <2> QED
    BY <1>1, <2>2 DEF TypeOK
<1>7. ASSUME op[r] = "import", gate[r] # None PROVE <<gate[r], "write">> \in held'[r]
  <2>1. op[r] \in Whole
    BY <1>7 DEF Whole
  <2>2. held'[r] = held[r] \cup Missing(r)
    BY <1>3, <2>1, WholeViews
  <2>3. CASE held[r] = {} /\ Head(todo[r]) = Do("keep", gate[r])
    <3>1. PICK g \in Source : g = gate[r]
      BY <1>1, <1>7 DEF TypeOK
    <3>2. PICK c : c = Do("keep", g)
      OBVIOUS
    <3>3. Meant(r, c) = c /\ Footprint(r, c) = {<<g, "write">>}
      BY <3>2, GateStatement
    <3>4. Current(r) = c
      BY <2>3, <3>1, <3>2, <3>3 DEF Current
    <3>5. ~Covered(r, <<g, "write">>)
      BY <2>3 DEF Covered
    <3>6. <<g, "write">> \in Missing(r)
      BY <3>3, <3>4, <3>5 DEF Missing
    <3> QED
      BY <2>2, <3>1, <3>6
  <2> QED
    BY <1>1, <1>7, <2>2, <2>3 DEF GateOK
<1>8. GateHeld(r)'
  BY <1>2, <1>6, <1>7 DEF GateHeld
<1> QED
  BY <1>5, <1>8, GateNext

LEMMA LeaveGate ==
  ASSUME IInv, NEW r \in Request, NEW how \in {"done", "failed"}, Leave(r, how),
         held' = [held EXCEPT ![r] = LocksAfter(r)]
  PROVE  GateOK'
<1>1. TypeOK /\ CallsOK /\ GateOK
  BY DEF IInv
<1>2. /\ pc' = [pc EXCEPT ![r] = how] /\ UNCHANGED <<op, gate>>
      /\ todo' = [todo EXCEPT ![r] = <<>>]
      /\ \A q \in Request \ {r} : held'[q] = held[q]
  BY LeaveLocks DEF call
<1>3. /\ pc'[r] # "run"
      /\ \A q \in Request \ {r} : pc'[q] = pc[q] /\ todo'[q] = todo[q]
  BY <1>1, <1>2 DEF TypeOK, CallsOK
<1>4. \A q \in Request \ {r} : aim'[q] = aim[q]
  <2>1. aim \in [Request -> {aim[q] : q \in Request}]
    BY <1>1 DEF CallsOK
  <2>2. aim' = [aim EXCEPT ![r] = None]
    BY DEF Leave
  <2> QED
    BY <2>1, <2>2
<1>5. GateHeld(r)'
  BY <1>3 DEF GateHeld
<1>6. \A q \in Request \ {r} : GateHeld(q)'
  BY <1>1, <1>2, <1>3, <1>4, GateStays
<1> QED
  BY <1>5, <1>6, GateNext
---------------------------------------------------------------------------
(* Texts users wrote.                                                      *)

Over(d) == UNION {Overwritten(d[i]) : i \in DOMAIN d}

LEMMA LostAppend ==
  ASSUME NEW d \in Seq(Statement), NEW s \in Statement, NEW e, e = Append(d, s)
  PROVE  Over(e) = Over(d) \cup Overwritten(s)
<1>1. /\ DOMAIN d = 1..Len(d) /\ DOMAIN e = 1..(Len(d) + 1) /\ Len(d) \in Nat
      /\ e[Len(d) + 1] = s /\ \A i \in 1..Len(d) : e[i] = d[i]
  OBVIOUS
<1>2. \A i \in DOMAIN e : i \in DOMAIN d \/ i = Len(d) + 1
  BY <1>1
<1>3. DOMAIN d \subseteq DOMAIN e /\ Len(d) + 1 \in DOMAIN e /\ \A i \in DOMAIN d : e[i] = d[i]
  BY <1>1
<1>4. e[Len(d) + 1] = s
  BY <1>1
<1>5. PICK n : n = Len(d) + 1
  OBVIOUS
<1>6. /\ \A i \in DOMAIN e : i \in DOMAIN d \/ i = n
      /\ n \in DOMAIN e /\ e[n] = s
  BY <1>2, <1>3, <1>4, <1>5
<1>7. Over(e) \subseteq Over(d) \cup Overwritten(s)
  <2>1. ASSUME NEW i \in DOMAIN e, NEW x \in Overwritten(e[i])
        PROVE  x \in Over(d) \cup Overwritten(s)
    <3>1. CASE i \in DOMAIN d
      <4>1. x \in Overwritten(d[i])
        BY <1>3, <2>1, <3>1
      <4> QED
        BY <3>1, <4>1 DEF Over
    <3>2. CASE i = n
      BY <1>6, <2>1, <3>2
    <3> QED
      BY <1>6, <2>1, <3>1, <3>2
  <2> QED
    BY <2>1 DEF Over
<1>8. Over(d) \subseteq Over(e)
  <2>1. ASSUME NEW i \in DOMAIN d, NEW x \in Overwritten(d[i])
        PROVE  x \in Over(e)
    <3>1. i \in DOMAIN e /\ e[i] = d[i]
      BY <1>3
    <3> QED
      BY <2>1, <3>1 DEF Over
  <2> QED
    BY <2>1 DEF Over
<1>9. Overwritten(s) \subseteq Over(e)
  BY <1>6 DEF Over
<1> QED
  BY <1>7, <1>8, <1>9

LEMMA LostStays ==
  ASSUME NEW q, done'[q] = done[q]
  PROVE  Lost(q)' = Lost(q)
BY DEF Lost, Overwritten

(* The text of x, where r has written.                                     *)
KeptFor(r, x) == x \in DOMAIN undo[r] \ Lost(r) => Bears(rows[x], kept[x])

LEMMA KeptForStays ==
  ASSUME KeptOK, NEW q \in Request, NEW x \in Row, kept[x] # None, kept'[x] = kept[x],
         undo'[q] = undo[q], done'[q] = done[q],
         x \in DOMAIN undo[q] => rows'[x] = rows[x]
  PROVE  KeptFor(q, x)'
<1>1. KeptFor(q, x)
  BY DEF KeptOK, KeptFor
<1>2. Lost(q)' = Lost(q)
  BY LostStays
<1> QED
  BY <1>1, <1>2 DEF KeptFor, Bears

LEMMA KeptStep ==
  ASSUME \A x \in Row : kept'[x] # None =>
           /\ kept'[x] \in Text /\ x \notin Link
           /\ Bears(Committed(x), kept[x])'
           /\ \A r \in Request : KeptFor(r, x)'
  PROVE  KeptOK'
BY DEF KeptOK, KeptFor, Link

LEMMA QuietKept ==
  ASSUME IInv, UNCHANGED <<rows, undo, done, kept>>
  PROVE  KeptOK'
<1>1. KeptOK
  BY DEF IInv
<1>2. \A x : Committed(x)' = Committed(x)
  BY ViewsStay
<1>3. ASSUME NEW x \in Row, kept'[x] # None
      PROVE  /\ kept'[x] \in Text /\ x \notin Link
             /\ Bears(Committed(x), kept[x])'
             /\ \A r \in Request : KeptFor(r, x)'
  <2>1. kept[x] # None /\ kept'[x] = kept[x]
    BY <1>3
  <2>2. /\ kept[x] \in Text /\ x \notin Link /\ Bears(Committed(x), kept[x])
    BY <1>1, <2>1 DEF KeptOK
  <2>3. Bears(Committed(x), kept[x])'
    BY <1>2, <2>1, <2>2 DEF Bears
  <2>4. \A r \in Request : KeptFor(r, x)'
    BY <1>1, <2>1, KeptForStays
  <2> QED
    BY <2>1, <2>2, <2>3, <2>4
<1> QED
  BY <1>3, KeptStep

LEMMA DoneOthers ==
  ASSUME IInv, NEW r \in Request, NEW e, done' = [done EXCEPT ![r] = e]
  PROVE  done'[r] = e /\ \A q \in Request \ {r} : done'[q] = done[q]
BY DEF IInv, CallsOK

LEMMA RollbackKept ==
  ASSUME IInv, NEW r \in Request, Rollback(r)
  PROVE  KeptOK'
<1>1. KeptOK
  BY DEF IInv
<1>2. /\ \A x \in Row : Committed(x)' = Committed(x)
      /\ \A q \in Request \ {r} : undo'[q] = undo[q] /\ \A x \in DOMAIN undo[q] : rows'[x] = rows[x]
      /\ DOMAIN undo'[r] = {}
  BY RollbackViews
<1>3. kept' = kept /\ \A q \in Request \ {r} : done'[q] = done[q]
  <2>1. kept' = kept /\ done' = [done EXCEPT ![r] = <<>>]
    BY DEF Rollback, Leave
  <2> QED
    BY <2>1, DoneOthers
<1>4. ASSUME NEW x \in Row, kept'[x] # None
      PROVE  /\ kept'[x] \in Text /\ x \notin Link
             /\ Bears(Committed(x), kept[x])'
             /\ \A q \in Request : KeptFor(q, x)'
  <2>1. kept[x] # None /\ kept'[x] = kept[x]
    BY <1>3, <1>4
  <2>2. kept[x] \in Text /\ x \notin Link /\ Bears(Committed(x), kept[x])
    BY <1>1, <2>1 DEF KeptOK
  <2>3. Bears(Committed(x), kept[x])'
    BY <1>2, <2>1, <2>2 DEF Bears
  <2>4. KeptFor(r, x)'
    BY <1>2 DEF KeptFor
  <2>5. \A q \in Request \ {r} : KeptFor(q, x)'
    BY <1>1, <1>2, <1>3, <2>1, KeptForStays
  <2> QED
    BY <2>1, <2>2, <2>3, <2>4, <2>5
<1> QED
  BY <1>4, KeptStep

LEMMA CommitKept ==
  ASSUME IInv, NEW r \in Request, Commit(r)
  PROVE  KeptOK'
<1>1. KeptOK
  BY DEF IInv
<1>2. /\ \A x \in Row : Committed(x)' = Visible(r, x)
      /\ \A q \in Request \ {r} : undo'[q] = undo[q]
      /\ DOMAIN undo'[r] = {}
  BY CommitViews
<1>3. /\ kept' = [x \in Row |-> IF x \in Lost(r) THEN None ELSE kept[x]]
      /\ rows' = rows /\ done' = [done EXCEPT ![r] = <<>>]
  BY DEF Commit, Leave, Lost
<1>4. \A q \in Request \ {r} : done'[q] = done[q]
  BY <1>3, DoneOthers
<1>5. ASSUME NEW x \in Row, kept'[x] # None
      PROVE  /\ kept'[x] \in Text /\ x \notin Link
             /\ Bears(Committed(x), kept[x])'
             /\ \A q \in Request : KeptFor(q, x)'
  <2>1. kept[x] # None /\ kept'[x] = kept[x] /\ x \notin Lost(r)
    BY <1>3, <1>5
  <2>2. /\ kept[x] \in Text /\ x \notin Link /\ Bears(Committed(x), kept[x])
        /\ KeptFor(r, x)
    BY <1>1, <2>1 DEF KeptOK, KeptFor
  <2>3. Bears(Visible(r, x), kept[x])
    BY <2>1, <2>2 DEF Visible, KeptFor
  <2>4. Bears(Committed(x), kept[x])'
    BY <1>2, <2>1, <2>3 DEF Bears
  <2>5. KeptFor(r, x)'
    BY <1>2 DEF KeptFor
  <2>6. \A q \in Request \ {r} : KeptFor(q, x)'
    BY <1>1, <1>2, <1>3, <1>4, <2>1, KeptForStays
  <2> QED
    BY <2>1, <2>2, <2>4, <2>5, <2>6
<1> QED
  BY <1>5, KeptStep

(* A row that bears a text a user wrote still does after a statement that  *)
(* changes it, unless this writes the text over.                           *)
LEMMA TextStays ==
  ASSUME NEW r \in Request, NEW s \in Statement, NEW v \in Value \cup {None}, NEW t \in Text,
         Bears(v, t), NEW x \in s.of, x \notin Link, x \notin Overwritten(s), s.does # "set",
         s.does \notin Sweeps => s.of \subseteq {s.row},
         s.does = "claim" => s.row \in Link
  PROVE  Bears(Result(r, s, v), t)
<1>1. v # None /\ v \in Value /\ v.text = t /\ v.by = "user"
  BY DEF Bears
<1>2. s.does \notin {"put", "set", "drop", "claim"}
  BY DEF Overwritten, Sweeps
<1>3. ~MayFill(v)
  BY <1>1, AnalyzerAssumption DEF MayFill
<1>4. ~Rewrites(s, v)
  BY <1>2, <1>3 DEF Rewrites
<1>5. PICK p \in {s.owner, v.owner} :
        Result(r, s, v) = [text |-> v.text, by |-> v.by, maker |-> v.maker, owner |-> p]
  BY <1>1, <1>2, <1>4 DEF Result
<1>6. p \in Owner
  BY <1>1 DEF Statement, Value
<1>7. Result(r, s, v) \in Value /\ Result(r, s, v).text = t /\ Result(r, s, v).by = "user"
  BY <1>1, <1>5, <1>6 DEF Value
<1> QED
  BY <1>7, ValueAssumption DEF Bears

(* What is known of the statement a call makes.                            *)
LEMMA MadeLegal ==
  ASSUME IInv, NEW r \in Request, todo[r] # <<>>, NEW s, s = Made(r)
  PROVE  /\ s.does \notin Sweeps => s.of \subseteq {s.row}
         /\ s.does = "claim" => s.row \in Link
         /\ op[r] \in Whole => s.does # "set"
         /\ s.does = "set" =>
              /\ s.text \in Text /\ s.by = "user"
              /\ \A x \in s.of : x \notin Link /\ Visible(r, x) # None
<1>1. TypeOK /\ CallsOK
  BY DEF IInv
<1>2. PICK c : c = Current(r)
  OBVIOUS
<1>3. c \in Legal(op[r]) /\ c \in Statement
  BY <1>1, <1>2, AtStatement
<1>4. /\ s.of = Changes(r, c) /\ s.does = c.does /\ s.row = c.row /\ s.text = c.text
      /\ s.by = c.by
  BY <1>1, <1>2, MadeIs
<1>5. PICK o : o = op[r]
  OBVIOUS
<1>6. /\ c.does \notin Sweeps => Changes(r, c) \subseteq {c.row}
      /\ c.does \in Sweeps \ {"drop"} => Changes(r, c) \subseteq Live(r, c)
  BY <1>1, <1>3, <1>5, ChangesAre
<1>7. /\ c.does = "claim" => c.row \in Link
      /\ op[r] \in Whole => c.does # "set"
      /\ c.does = "set" => c.of \cap Link = {} /\ c.text \in Text /\ c.by = "user"
  BY <1>3 DEF Legal
<1>8. ASSUME c.does = "set", NEW x \in Changes(r, c) PROVE x \notin Link /\ Visible(r, x) # None
  <2>1. x \in Live(r, c)
    BY <1>6, <1>8 DEF Sweeps
  <2>2. x \in c.of /\ Visible(r, x) # None
    BY <2>1 DEF Live, Hits, Matches
  <2> QED
    BY <1>7, <1>8, <2>2
<1> QED
  BY <1>4, <1>6, <1>7, <1>8

LEMMA WholeKept ==
  ASSUME IInv, NEW r \in Request, Execute(r), op[r] \in Whole
  PROVE  KeptOK'
<1>1. PICK s : s = Made(r)
  OBVIOUS
<1>2. PICK E : E = Effect(r, s, Seen(r))
  OBVIOUS
<1>3. /\ s \in Statement /\ todo[r] # <<>> /\ s.of \subseteq Row
      /\ Seen(r) \in [Row -> Value \cup {None}]
      /\ \A x \in Row \ s.of : rows'[x] = rows[x]
      /\ \A x \in Row : E[x] = IF x \in s.of THEN rows'[x] ELSE Visible(r, x)
  BY <1>1, <1>2, ExecuteEffect
<1>4. /\ \A q \in Request \ {r} : /\ undo'[q] = undo[q]
                                  /\ \A x \in DOMAIN undo[q] : rows'[x] = rows[x]
      /\ DOMAIN undo'[r] = DOMAIN undo[r] \cup s.of
      /\ \A x \in Row : Committed(x)' = Committed(x)
  BY <1>1, WholeViews
<1>5. KeptOK
  BY DEF IInv
<1>6. kept' = kept /\ done' = [done EXCEPT ![r] = Append(@, s)]
  BY <1>1 DEF Execute
<1>7. PICK e : e = Append(done[r], s)
  OBVIOUS
<1>8. done'[r] = e /\ \A q \in Request \ {r} : done'[q] = done[q]
  BY <1>6, <1>7, DoneOthers
<1>9. Lost(r)' = Lost(r) \cup Overwritten(s)
  <2>1. done[r] \in Seq(Statement)
    BY DEF IInv, CallsOK
  <2>2. Over(e) = Over(done[r]) \cup Overwritten(s)
    BY <1>3, <1>7, <2>1, LostAppend
  <2>3. Lost(r) = Over(done[r])
    BY DEF Lost, Over
  <2>4. Lost(r)' = Over(e)
    BY <1>8 DEF Lost, Over, Overwritten
  <2> QED
    BY <2>2, <2>3, <2>4
<1>10. ASSUME NEW x \in Row, kept'[x] # None
       PROVE  /\ kept'[x] \in Text /\ x \notin Link
              /\ Bears(Committed(x), kept[x])'
              /\ \A q \in Request : KeptFor(q, x)'
  <2>1. kept[x] # None /\ kept'[x] = kept[x]
    BY <1>6, <1>10
  <2>2. /\ kept[x] \in Text /\ x \notin Link /\ Bears(Committed(x), kept[x])
        /\ KeptFor(r, x)
    BY <1>5, <2>1 DEF KeptOK, KeptFor
  <2>3. Bears(Committed(x), kept[x])'
    BY <1>4, <2>1, <2>2 DEF Bears
  <2>4. ASSUME x \in DOMAIN undo'[r], x \notin Lost(r)' PROVE Bears(rows'[x], kept[x])
    <3>1. x \notin Lost(r) /\ x \notin Overwritten(s)
      BY <1>9, <2>4
    <3>2. Bears(Visible(r, x), kept[x])
      BY <2>2, <3>1 DEF Visible, KeptFor
    <3>3. CASE x \notin s.of
      <4>1. rows'[x] = Visible(r, x)
        BY <1>3, <1>4, <2>4, <3>3 DEF Visible
      <4> QED
        BY <3>2, <4>1
    <3>4. CASE x \in s.of
      <4>1. PICK v \in Value \cup {None} : v = Seen(r)[x]
        BY <1>3
      <4>2. PICK t \in Text : t = kept[x]
        BY <2>2
      <4>3. v = Visible(r, x)
        BY <4>1 DEF Seen
      <4>4. E[x] = Result(r, s, v)
        BY <1>2, <3>4, <4>1, EffectAt
      <4>5. /\ s.does # "set" /\ (s.does \notin Sweeps => s.of \subseteq {s.row})
            /\ (s.does = "claim" => s.row \in Link)
        BY <1>1, <1>3, MadeLegal
      <4>6. Bears(v, t)
        BY <3>2, <4>2, <4>3
      <4>7. Bears(Result(r, s, v), t)
        BY <1>3, <2>2, <3>1, <3>4, <4>5, <4>6, TextStays
      <4>8. E[x] = rows'[x]
        BY <1>3, <3>4
      <4> QED
        BY <4>2, <4>4, <4>7, <4>8
    <3> QED
      BY <3>3, <3>4
  <2>5. KeptFor(r, x)'
    BY <2>1, <2>4 DEF KeptFor, Bears
  <2>6. \A q \in Request \ {r} : KeptFor(q, x)'
    BY <1>4, <1>5, <1>8, <2>1, KeptForStays
  <2> QED
    BY <2>1, <2>2, <2>3, <2>5, <2>6
<1> QED
  BY <1>10, KeptStep

LEMMA SingleKept ==
  ASSUME IInv, NEW r \in Request, Execute(r), op[r] \notin Whole
  PROVE  KeptOK'
<1>1. PICK s : s = Made(r)
  OBVIOUS
<1>2. PICK E : E = Effect(r, s, Seen(r))
  OBVIOUS
<1>3. /\ s \in Statement /\ todo[r] # <<>> /\ s.of \subseteq Row
      /\ Seen(r) \in [Row -> Value \cup {None}]
      /\ \A x \in s.of : \A q \in Request \ {r} : x \notin DOMAIN undo[q]
      /\ \A x \in Row : E[x] = IF x \in s.of THEN rows'[x] ELSE Visible(r, x)
  BY <1>1, <1>2, ExecuteEffect
<1>4. /\ undo' = undo /\ DOMAIN undo[r] = {}
      /\ \A q \in Request : \A x \in DOMAIN undo[q] : rows'[x] = rows[x]
      /\ \A x \in Row : Visible(r, x) = Committed(x)
      /\ \A x \in Row : Committed(x)' = E[x]
  BY <1>1, <1>2, SingleViews
<1>5. KeptOK
  BY DEF IInv
<1>6. /\ kept' = [x \in Row |-> IF s.does = "set" /\ x \in s.of THEN s.text
                                ELSE IF x \in Overwritten(s) THEN None ELSE kept[x]]
      /\ done' = done
  BY <1>1 DEF Execute
<1>7. \A x \in Row : Seen(r)[x] = Committed(x)
  BY <1>4 DEF Seen
<1>8. /\ s.does \notin Sweeps => s.of \subseteq {s.row}
      /\ s.does = "claim" => s.row \in Link
      /\ s.does = "set" => s.text \in Text /\ s.by = "user"
      /\ s.does = "set" => \A x \in s.of : x \notin Link /\ Visible(r, x) # None
  BY <1>1, <1>3, MadeLegal
<1>9. ASSUME NEW x \in Row, kept'[x] # None
      PROVE  /\ kept'[x] \in Text /\ x \notin Link
             /\ Bears(Committed(x), kept[x])'
             /\ \A q \in Request : KeptFor(q, x)'
  <2>1. CASE s.does = "set" /\ x \in s.of
    <3>1. kept'[x] = s.text
      BY <1>6, <2>1
    <3>2. s.text \in Text /\ s.by = "user" /\ x \notin Link /\ Visible(r, x) # None
      BY <1>8, <2>1
    <3>3. PICK v \in Value : v = Seen(r)[x]
      BY <1>3, <1>4, <1>7, <3>2
    <3>4. E[x] = Result(r, s, v)
      BY <1>2, <2>1, <3>3, EffectAt
    <3>5. E[x] = [text |-> s.text, by |-> s.by, maker |-> v.maker, owner |-> v.owner]
      BY <2>1, <3>3, <3>4, ValueAssumption DEF Result, Rewrites
    <3>6. E[x] \in Value /\ E[x].text = s.text /\ E[x].by = "user"
      BY <1>3, <3>2, <3>3, <3>5 DEF Value, Statement
    <3>7. Bears(E[x], s.text)
      BY <3>6, ValueAssumption DEF Bears
    <3>8. Bears(Committed(x), kept[x])'
      BY <1>4, <3>1, <3>7 DEF Bears
    <3>9. \A q \in Request : KeptFor(q, x)'
      BY <1>3, <1>4, <2>1 DEF KeptFor
    <3> QED
      BY <3>1, <3>2, <3>8, <3>9
  <2>2. CASE ~(s.does = "set" /\ x \in s.of)
    <3>1. kept[x] # None /\ kept'[x] = kept[x] /\ x \notin Overwritten(s)
      BY <1>6, <1>9, <2>2
    <3>2. /\ kept[x] \in Text /\ x \notin Link /\ Bears(Committed(x), kept[x])
      BY <1>5, <3>1 DEF KeptOK
    <3>3. PICK v \in Value \cup {None} : v = Seen(r)[x]
      BY <1>3
    <3>4. PICK t \in Text : t = kept[x]
      BY <3>2
    <3>5. Bears(v, t)
      BY <1>7, <3>2, <3>3, <3>4
    <3>6. Bears(E[x], t)
      <4>1. CASE x \notin s.of
        BY <1>3, <1>4, <1>7, <3>3, <3>5, <4>1
      <4>2. CASE x \in s.of
        <5>1. E[x] = Result(r, s, v)
          BY <1>2, <3>3, <4>2, EffectAt
        <5>2. s.does # "set"
          BY <2>2, <4>2
        <5>3. Bears(Result(r, s, v), t)
          BY <1>3, <1>8, <3>1, <3>2, <3>5, <4>2, <5>2, TextStays
        <5> QED
          BY <5>1, <5>3
      <4> QED
        BY <4>1, <4>2
    <3>7. Bears(Committed(x), kept[x])'
      BY <1>4, <3>1, <3>4, <3>6 DEF Bears
    <3>8. \A q \in Request : KeptFor(q, x)'
      BY <1>4, <1>5, <1>6, <3>1, KeptForStays
    <3> QED
      BY <3>1, <3>2, <3>7, <3>8
  <2> QED
    BY <2>1, <2>2
<1> QED
  BY <1>9, KeptStep
---------------------------------------------------------------------------
(* The order of commits.                                                   *)

(* What a transaction has written so far is what it sees.                  *)
Shown(q) ==
  /\ \A i \in DOMAIN done[q] : done[q][i].of \subseteq DOMAIN undo[q]
  /\ Replayed(q, Present, done[q]) = Seen(q)

LEMMA OrderIs ==
  OrderOK <=> /\ \A x \in Row : serial[x] = Committed(x)
              /\ \A q \in Request : Shown(q)
BY DEF OrderOK, Shown, Seen

LEMMA OrderNext ==
  ASSUME \A x \in Row : serial'[x] = Committed(x)',
         \A q \in Request : Shown(q)'
  PROVE  OrderOK'
BY DEF OrderOK, Shown, Seen

LEMMA PresentType ==
  ASSUME TypeOK, CallsOK
  PROVE  /\ Present \in [Row -> Value \cup {None}]
         /\ \A x \in Row : Present[x] = Committed(x)
<1>1. ASSUME NEW r \in Request PROVE \A x \in Row : Committed(x) \in Value \cup {None}
  BY SeenType
<1>2. CASE Request = {}
  <2>1. \A x : Committed(x) = rows[x]
    BY <1>2 DEF Committed
  <2> QED
    BY <2>1 DEF TypeOK, Present
<1>3. CASE Request # {}
  <2>1. \A x \in Row : Committed(x) \in Value \cup {None}
    BY <1>1, <1>3
  <2> QED
    BY <2>1 DEF Present
<1> QED
  BY <1>2, <1>3

(* What others commit does not change what a transaction leaves.           *)
LEMMA OthersShown ==
  ASSUME IInv, rows' \in [Row -> Value \cup {None}],
         NEW Q \in [Row -> Value \cup {None}], \A x \in Row : Committed(x)' = Q[x],
         NEW q \in Request, undo'[q] = undo[q], done'[q] = done[q],
         \A x \in DOMAIN undo[q] : rows'[x] = rows[x] /\ Q[x] = Committed(x)
  PROVE  Shown(q)'
<1>1. TypeOK /\ CallsOK /\ Shown(q)
  BY OrderIs DEF IInv
<1>2. PICK d \in Seq(Statement) : d = done[q]
  BY <1>1 DEF CallsOK
<1>3. PICK U \in SUBSET Row : U = DOMAIN undo[q]
  BY <1>1 DEF TypeOK
<1>4. PICK P \in [Row -> Value \cup {None}] : P = Present /\ \A x \in Row : P[x] = Committed(x)
  BY <1>1, PresentType
<1>5. PICK S \in [Row -> Value \cup {None}] : S = Seen(q) /\ \A x \in Row : S[x] = Visible(q, x)
  BY <1>1, SeenType DEF Seen
<1>6. PICK R : R = [x \in Row |-> IF x \in U THEN rows'[x] ELSE Q[x]]
  OBVIOUS
<1>7. R \in [Row -> Value \cup {None}]
  BY <1>6
<1>8. (\A i \in DOMAIN d : d[i].of \subseteq U) /\ Replayed(q, P, d) = S
  BY <1>1, <1>2, <1>3, <1>4, <1>5 DEF Shown
<1>9. \A x \in Row : x \in U => Q[x] = P[x] /\ R[x] = S[x]
  BY <1>3, <1>4, <1>5, <1>6 DEF Visible
<1>10. \A x \in Row : x \notin U => R[x] = Q[x]
  BY <1>6
<1>11. Replayed(q, Q, d) = R
  <2>1. Replayed(q, Q, d) \in [Row -> Value \cup {None}]
    BY ReplayedType
  <2>2. ASSUME NEW x \in Row PROVE Replayed(q, Q, d)[x] = R[x]
    <3>1. CASE x \in U
      <4>1. Q[x] = P[x] /\ R[x] = S[x]
        BY <1>9, <3>1
      <4>2. Replayed(q, Q, d)[x] = Replayed(q, P, d)[x]
        BY <4>1, ReplayedAt
      <4> QED
        BY <1>8, <4>1, <4>2
    <3>2. CASE x \notin U
      <4>1. \A i \in DOMAIN d : x \notin d[i].of
        BY <1>8, <3>2
      <4>2. Replayed(q, Q, d)[x] = Q[x]
        BY <4>1, ReplayedIdle
      <4> QED
        BY <1>10, <3>2, <4>2
    <3> QED
      BY <3>1, <3>2
  <2> QED
    BY <1>7, <2>1, <2>2
<1>12. Present' = Q
  BY DEF Present
<1>13. Seen(q)' = R
  BY <1>3, <1>6 DEF Seen, Visible
<1>14. Replayed(q, Present', done'[q]) = Seen(q)'
  BY <1>2, <1>11, <1>12, <1>13
<1>15. \A i \in DOMAIN done'[q] : done'[q][i].of \subseteq DOMAIN undo'[q]
  BY <1>2, <1>3, <1>8
<1> QED
  BY <1>14, <1>15 DEF Shown

(* A call that has changed nothing sees what is committed.                 *)
LEMMA FreshShown ==
  ASSUME NEW r \in Request, DOMAIN undo'[r] = {}, done'[r] = <<>>
  PROVE  Shown(r)'
<1>1. Present' = Seen(r)'
  BY DEF Present, Seen, Visible
<1>2. PICK P : P = Present'
  OBVIOUS
<1>3. Replayed(r, P, <<>>) = P
  BY ReplayedEmpty
<1>4. Replayed(r, Present', done'[r]) = Seen(r)'
  BY <1>1, <1>2, <1>3
<1>5. DOMAIN <<>> = {}
  OBVIOUS
<1>6. \A i \in DOMAIN done'[r] : done'[r][i].of \subseteq DOMAIN undo'[r]
  BY <1>5
<1> QED
  BY <1>4, <1>6 DEF Shown

LEMMA QuietOrder ==
  ASSUME IInv, UNCHANGED <<rows, undo, done, serial>>
  PROVE  OrderOK'
<1>1. TypeOK /\ CallsOK /\ OrderOK
  BY DEF IInv
<1>2. PICK Q \in [Row -> Value \cup {None}] : \A x \in Row : Q[x] = Committed(x)
  BY <1>1, PresentType
<1>3. \A x \in Row : Committed(x)' = Q[x]
  BY <1>2, ViewsStay
<1>4. rows' \in [Row -> Value \cup {None}]
  BY <1>1 DEF TypeOK
<1>5. \A q \in Request : \A x \in DOMAIN undo[q] : rows'[x] = rows[x] /\ Q[x] = Committed(x)
  BY <1>1, <1>2 DEF TypeOK
<1>6. \A q \in Request : Shown(q)'
  BY <1>3, <1>4, <1>5, OthersShown
<1>7. \A x \in Row : serial'[x] = Committed(x)'
  BY <1>1, <1>2, <1>3 DEF OrderOK
<1> QED
  BY <1>6, <1>7, OrderNext

LEMMA RollbackOrder ==
  ASSUME IInv, NEW r \in Request, Rollback(r)
  PROVE  OrderOK'
<1>1. TypeOK /\ CallsOK /\ OrderOK
  BY DEF IInv
<1>2. /\ \A x \in Row : Committed(x)' = Committed(x)
      /\ \A q \in Request \ {r} : undo'[q] = undo[q] /\ \A x \in DOMAIN undo[q] : rows'[x] = rows[x]
      /\ DOMAIN undo'[r] = {}
      /\ rows' \in [Row -> Value \cup {None}]
  BY RollbackViews
<1>3. done'[r] = <<>> /\ \A q \in Request \ {r} : done'[q] = done[q]
  <2>1. done' = [done EXCEPT ![r] = <<>>]
    BY DEF Rollback, Leave
  <2> QED
    BY <2>1, DoneOthers
<1>4. PICK Q \in [Row -> Value \cup {None}] : \A x \in Row : Q[x] = Committed(x)
  BY <1>1, PresentType
<1>5. \A x \in Row : Committed(x)' = Q[x]
  BY <1>2, <1>4
<1>6. \A q \in Request : \A x \in DOMAIN undo[q] : Q[x] = Committed(x)
  BY <1>1, <1>4 DEF TypeOK
<1>7. \A q \in Request \ {r} : Shown(q)'
  BY <1>2, <1>3, <1>5, <1>6, OthersShown
<1>8. Shown(r)'
  BY <1>2, <1>3, FreshShown
<1>9. \A x \in Row : serial'[x] = Committed(x)'
  BY <1>1, <1>2 DEF OrderOK, Rollback
<1> QED
  BY <1>7, <1>8, <1>9, OrderNext

LEMMA CommitOrder ==
  ASSUME IInv, NEW r \in Request, Commit(r)
  PROVE  OrderOK'
<1>1. TypeOK /\ CallsOK /\ OrderOK
  BY DEF IInv
<1>2. /\ \A x \in Row : Committed(x)' = Visible(r, x)
      /\ \A q \in Request \ {r} : undo'[q] = undo[q]
      /\ DOMAIN undo'[r] = {}
  BY CommitViews
<1>3. rows' = rows /\ done'[r] = <<>> /\ \A q \in Request \ {r} : done'[q] = done[q]
  <2>1. rows' = rows /\ done' = [done EXCEPT ![r] = <<>>]
    BY DEF Commit, Leave
  <2> QED
    BY <2>1, DoneOthers
<1>4. PICK Q \in [Row -> Value \cup {None}] : Q = Seen(r) /\ \A x \in Row : Q[x] = Visible(r, x)
  BY <1>1, SeenType DEF Seen
<1>5. \A x \in Row : Committed(x)' = Q[x]
  BY <1>2, <1>4
<1>6. \A q \in Request \ {r} : \A x \in DOMAIN undo[q] : Q[x] = Committed(x)
  <2>1. \A q \in Request \ {r} : \A x \in DOMAIN undo[q] : x \notin DOMAIN undo[r] /\ x \in Row
    BY <1>1, CommittedIs DEF IInv, TypeOK
  <2> QED
    BY <1>4, <2>1 DEF Visible
<1>7. rows' \in [Row -> Value \cup {None}]
  BY <1>1, <1>3 DEF TypeOK
<1>8. \A q \in Request \ {r} : Shown(q)'
  BY <1>2, <1>3, <1>5, <1>6, <1>7, OthersShown
<1>9. Shown(r)'
  BY <1>2, <1>3, FreshShown
<1>10. \A x \in Row : serial'[x] = Committed(x)'
  <2>1. serial = Present
    BY <1>1 DEF OrderOK, Present, TypeOK
  <2>2. Replayed(r, Present, done[r]) = Seen(r)
    BY <1>1, OrderIs DEF Shown
  <2>3. serial' = Replayed(r, serial, done[r])
    BY CommitTypes
  <2> QED
    BY <1>4, <1>5, <2>1, <2>2, <2>3
<1> QED
  BY <1>8, <1>9, <1>10, OrderNext

LEMMA WholeOrder ==
  ASSUME IInv, NEW r \in Request, Execute(r), op[r] \in Whole
  PROVE  OrderOK'
<1>1. TypeOK /\ CallsOK /\ OrderOK
  BY DEF IInv
<1>2. PICK s : s = Made(r)
  OBVIOUS
<1>3. s \in Statement /\ rows' \in [Row -> Value \cup {None}]
  BY <1>2, ExecuteEffect
<1>4. /\ \A q \in Request \ {r} : undo'[q] = undo[q] /\ \A x \in DOMAIN undo[q] : rows'[x] = rows[x]
      /\ DOMAIN undo'[r] = DOMAIN undo[r] \cup s.of
      /\ \A x \in Row : Committed(x)' = Committed(x)
      /\ \A x \in Row : Visible(r, x)' = Effect(r, s, Seen(r))[x]
  BY <1>2, WholeViews
<1>5. PICK e : e = Append(done[r], s)
  OBVIOUS
<1>6. serial' = serial /\ done'[r] = e /\ \A q \in Request \ {r} : done'[q] = done[q]
  <2>1. serial' = serial /\ done' = [done EXCEPT ![r] = e]
    BY <1>2, <1>5 DEF Execute
  <2> QED
    BY <2>1, DoneOthers
<1>7. PICK Q \in [Row -> Value \cup {None}] : Q = Present /\ \A x \in Row : Q[x] = Committed(x)
  BY <1>1, PresentType
<1>8. \A x \in Row : Committed(x)' = Q[x]
  BY <1>4, <1>7
<1>9. \A q \in Request : \A x \in DOMAIN undo[q] : Q[x] = Committed(x)
  BY <1>1, <1>7 DEF TypeOK
<1>10. \A q \in Request \ {r} : Shown(q)'
  BY <1>3, <1>4, <1>6, <1>8, <1>9, OthersShown
<1>11. Shown(r)'
  <2>1. PICK d \in Seq(Statement) : d = done[r]
    BY <1>1 DEF CallsOK
  <2>2. PICK U : U = DOMAIN undo[r]
    OBVIOUS
  <2>3. (\A i \in DOMAIN d : d[i].of \subseteq U) /\ Replayed(r, Q, d) = Seen(r)
    BY <1>1, <1>7, <2>1, <2>2, OrderIs DEF Shown
  <2>4. Replayed(r, Q, e) = Effect(r, s, Seen(r))
    BY <1>3, <1>5, <2>1, <2>3, ReplayedAppend
  <2>5. Present' = Q
    BY <1>7, <1>8 DEF Present
  <2>6. Seen(r)' = Effect(r, s, Seen(r))
    <3>1. PICK E : E = Effect(r, s, Seen(r))
      OBVIOUS
    <3>2. E = [x \in Row |-> E[x]]
      BY <3>1 DEF Effect
    <3>3. Seen(r)' = [x \in Row |-> Visible(r, x)']
      BY DEF Seen
    <3> QED
      BY <1>4, <3>1, <3>2, <3>3
  <2>7. Replayed(r, Present', done'[r]) = Seen(r)'
    BY <1>6, <2>4, <2>5, <2>6
  <2>8. \A i \in DOMAIN e : e[i].of \subseteq U \cup s.of
    <3>1. \A i \in DOMAIN e : (i \in DOMAIN d /\ e[i] = d[i]) \/ e[i] = s
      BY <1>3, <1>5, <2>1
    <3> QED
      BY <2>3, <3>1
  <2>9. \A i \in DOMAIN done'[r] : done'[r][i].of \subseteq DOMAIN undo'[r]
    BY <1>4, <1>6, <2>2, <2>8
  <2> QED
    BY <2>7, <2>9 DEF Shown
<1>12. \A x \in Row : serial'[x] = Committed(x)'
  BY <1>1, <1>4, <1>6 DEF OrderOK
<1> QED
  BY <1>10, <1>11, <1>12, OrderNext

LEMMA SingleOrder ==
  ASSUME IInv, NEW r \in Request, Execute(r), op[r] \notin Whole
  PROVE  OrderOK'
<1>1. TypeOK /\ CallsOK /\ OrderOK
  BY DEF IInv
<1>2. PICK s : s = Made(r)
  OBVIOUS
<1>3. PICK Q : Q = Effect(r, s, Seen(r))
  OBVIOUS
<1>4. /\ s \in Statement /\ pc[r] = "run"
      /\ rows' \in [Row -> Value \cup {None}] /\ Seen(r) \in [Row -> Value \cup {None}]
      /\ \A x \in s.of : \A q \in Request \ {r} : x \notin DOMAIN undo[q]
      /\ \A x \in Row : Q[x] = IF x \in s.of THEN rows'[x] ELSE Visible(r, x)
  BY <1>2, <1>3, ExecuteEffect
<1>5. /\ undo' = undo /\ DOMAIN undo[r] = {}
      /\ \A q \in Request : \A x \in DOMAIN undo[q] : rows'[x] = rows[x]
      /\ \A x \in Row : Visible(r, x) = Committed(x)
      /\ \A x \in Row : Committed(x)' = Q[x]
  BY <1>2, <1>3, SingleViews
<1>6. done' = done /\ serial' = Effect(r, s, serial) /\ done[r] = <<>>
  BY <1>1, <1>2 DEF Execute, CallsOK
<1>7. Q \in [Row -> Value \cup {None}]
  BY <1>3, <1>4, EffectType
<1>8. \A q \in Request \ {r} : \A x \in DOMAIN undo[q] : Q[x] = Committed(x)
  <2>1. \A q \in Request \ {r} : \A x \in DOMAIN undo[q] : x \in Row /\ x \notin s.of
    BY <1>1, <1>4 DEF TypeOK
  <2> QED
    BY <1>4, <1>5, <2>1
<1>9. \A q \in Request \ {r} : Shown(q)'
  BY <1>4, <1>5, <1>6, <1>7, <1>8, OthersShown
<1>10. Shown(r)'
  BY <1>5, <1>6, FreshShown
<1>11. ASSUME NEW x \in Row PROVE serial'[x] = Committed(x)'
  <2>1. serial[x] = Seen(r)[x]
    BY <1>1, <1>5 DEF OrderOK, Seen
  <2>2. serial'[x] = IF x \in s.of THEN Result(r, s, serial[x]) ELSE serial[x]
    BY <1>6, EffectAt
  <2>3. Q[x] = IF x \in s.of THEN Result(r, s, Seen(r)[x]) ELSE Seen(r)[x]
    BY <1>3, EffectAt
  <2> QED
    BY <1>5, <2>1, <2>2, <2>3
<1> QED
  BY <1>9, <1>10, <1>11, OrderNext
---------------------------------------------------------------------------
(* All together.                                                           *)

LEMMA InitInv == Init => IInv
<1> SUFFICES ASSUME Init PROVE IInv
  OBVIOUS
<1>1. /\ rows = [x \in Row |-> IF x \in DOMAIN Given THEN Given[x] ELSE None]
      /\ undo = [r \in Request |-> <<>>] /\ held = [r \in Request |-> {}]
      /\ pc = [r \in Request |-> "idle"] /\ op = [r \in Request |-> None]
      /\ gate = [r \in Request |-> None] /\ atomic = [r \in Request |-> FALSE]
      /\ todo = [r \in Request |-> <<>>] /\ done = [r \in Request |-> <<>>]
      /\ seen = [r \in Request |-> {}] /\ serial = rows
      /\ kept = [x \in Row |-> None] /\ faults = 0 /\ aim = [r \in Request |-> None]
  BY DEF Init
<1>2. DOMAIN <<>> = {}
  OBVIOUS
<1>3. \A r \in Request : DOMAIN undo[r] = {} /\ DOMAIN done[r] = {}
  BY <1>1, <1>2
<1>4. rows \in [Row -> Value \cup {None}]
  BY <1>1, GivenAssumption
<1>5. TypeOK
  <2>1. 0 \in 0..MaxFaults
    BY AnalyzerAssumption
  <2> QED
    BY <1>1, <1>3, <1>4, <2>1 DEF TypeOK
<1>6. CallsOK
  <2>1. PICK e : e = <<>>
    OBVIOUS
  <2>2. DOMAIN e = {} /\ e \in [DOMAIN e -> Value \cup {None}] /\ e \in Seq(Statement)
    <3>1. DOMAIN e = {}
      BY <1>2, <2>1
    <3>2. e = [x \in {} |-> e[x]]
      BY <2>1
    <3>3. e \in Seq(Statement)
      BY <2>1
    <3> QED
      BY <3>1, <3>2, <3>3
  <2>3. \A r \in Request : undo[r] = e /\ todo[r] = e /\ done[r] = e
    BY <1>1, <2>1
  <2>4. /\ undo = [r \in Request |-> e] /\ todo = [r \in Request |-> e]
        /\ done = [r \in Request |-> e]
    BY <1>1, <2>1
  <2>5. \A r \in Request : CallOK(r)
    <3>1. \A o : e \in Seq(Legal(o))
      BY <2>1, LegalScripts
    <3> QED
      BY <1>1, <2>1, <2>3, <3>1 DEF CallOK
  <2>6. /\ undo \in [Request -> {undo[r] : r \in Request}]
        /\ op \in [Request -> {op[r] : r \in Request}]
        /\ seen \in [Request -> {seen[r] : r \in Request}]
        /\ aim \in [Request -> {aim[r] : r \in Request}]
    BY <1>1, <2>4
  <2>7. /\ todo \in [Request -> Seq(Statement)] /\ done \in [Request -> Seq(Statement)]
        /\ \A r \in Request : undo[r] \in [DOMAIN undo[r] -> Value \cup {None}]
    BY <2>2, <2>3, <2>4
  <2> QED
    BY <2>5, <2>6, <2>7 DEF CallsOK, CallOK
<1>7. LocksOK
  BY <1>1, <1>3 DEF LocksOK
<1>8. \A x : Committed(x) = rows[x] /\ \A r \in Request : Visible(r, x) = rows[x]
  BY <1>3 DEF Committed, Visible
<1>10. GateOK
  BY <1>1 DEF GateOK
<1>11. KeptOK
  BY <1>1 DEF KeptOK
<1>12. OrderOK
  <2>1. \A x \in Row : serial[x] = Committed(x)
    BY <1>1, <1>8
  <2>2. ASSUME NEW r \in Request PROVE Shown(r)
    <3>1. Present = Seen(r)
      BY <1>8 DEF Present, Seen
    <3>2. PICK P : P = Present
      OBVIOUS
    <3>3. Replayed(r, P, <<>>) = P
      BY ReplayedEmpty
    <3>4. done[r] = <<>>
      BY <1>1
    <3> QED
      BY <1>3, <3>1, <3>2, <3>3, <3>4 DEF Shown
  <2> QED
    BY <2>1, <2>2, OrderIs
<1> QED
  BY <1>5, <1>6, <1>7, <1>10, <1>11, <1>12 DEF IInv

LEMMA StartInv ==
  ASSUME IInv, NEW r \in Request, Call(r)
  PROVE  IInv'
<1>1. PICK o, g, tx, script : Starts(r, o, g, tx, script)
  BY CallStarts
<1>2. UNCHANGED <<rows, undo, held, done, serial, kept>>
  BY <1>1 DEF Starts, Begins
<1>3. TypeOK' /\ CallsOK'
  BY <1>1, StartTypes
<1>4. LocksOK'
  BY <1>2 DEF IInv, LocksOK, Clash
<1>5. GateOK'
  BY <1>1, StartGate
<1>6. KeptOK' /\ OrderOK'
  BY <1>2, QuietKept, QuietOrder
<1> QED
  BY <1>3, <1>4, <1>5, <1>6 DEF IInv

LEMMA ScanInv ==
  ASSUME IInv, NEW r \in Request, Scan(r)
  PROVE  IInv'
<1>1. UNCHANGED <<rows, undo, held, done, serial, kept>>
  BY DEF Scan
<1>2. LocksOK'
  BY <1>1 DEF IInv, LocksOK, Clash
<1>3. KeptOK' /\ OrderOK'
  BY <1>1, QuietKept, QuietOrder
<1> QED
  BY <1>2, <1>3, ScanTypes, ScanGate DEF IInv

LEMMA AcquireInv ==
  ASSUME IInv, NEW r \in Request, Acquire(r)
  PROVE  IInv'
<1>1. UNCHANGED <<rows, undo, done, serial, kept>>
  BY DEF Acquire
<1>2. KeptOK' /\ OrderOK'
  BY <1>1, QuietKept, QuietOrder
<1> QED
  BY <1>2, AcquireTypes, AcquireLocks, AcquireGate DEF IInv

LEMMA ExecuteInv ==
  ASSUME IInv, NEW r \in Request, Execute(r)
  PROVE  IInv'
<1>1. KeptOK' /\ OrderOK'
  <2>1. CASE op[r] \in Whole
    BY <2>1, WholeKept, WholeOrder
  <2>2. CASE op[r] \notin Whole
    BY <2>2, SingleKept, SingleOrder
  <2> QED
    BY <2>1, <2>2
<1> QED
  BY <1>1, ExecuteTypes, ExecuteLocks, ExecuteGate DEF IInv

LEMMA CommitInv ==
  ASSUME IInv, NEW r \in Request, Commit(r)
  PROVE  IInv'
<1>1. Leave(r, "done") /\ held' = [held EXCEPT ![r] = LocksAfter(r)]
  BY DEF Commit
<1>2. LocksOK' /\ GateOK'
  BY <1>1, LeaveLocks, LeaveGate
<1> QED
  BY <1>2, CommitTypes, CommitKept, CommitOrder DEF IInv

LEMMA RollbackInv ==
  ASSUME IInv, NEW r \in Request, Rollback(r), faults' \in 0..MaxFaults
  PROVE  IInv'
<1>1. Leave(r, "failed") /\ held' = [held EXCEPT ![r] = LocksAfter(r)]
  BY DEF Rollback
<1>2. LocksOK' /\ GateOK'
  BY <1>1, LeaveLocks, LeaveGate
<1> QED
  BY <1>2, RollbackTypes, RollbackKept, RollbackOrder DEF IInv

LEMMA NextInv == IInv /\ [Next]_vars => IInv'
<1> SUFFICES ASSUME IInv, [Next]_vars PROVE IInv'
  OBVIOUS
<1>1. CASE UNCHANGED vars
  <2>1. UNCHANGED <<rows, undo, held, pc, op, gate, atomic, todo, aim, done, seen, serial,
                    kept, faults>>
    BY <1>1 DEF vars, call
  <2>2. TypeOK'
    BY <2>1 DEF IInv, TypeOK
  <2>3. CallsOK'
    <3>1. \A q \in Request : CallOK(q)' /\ undo'[q] \in [DOMAIN undo'[q] -> Value \cup {None}]
      BY <2>1, CallStays DEF IInv
    <3>2. CallsIn'
      <4>1. CallsIn
        BY CallsHave DEF IInv
      <4> QED
        BY <2>1, <4>1 DEF CallsIn
    <3> QED
      BY <3>1, <3>2, CallsAre
  <2>4. LocksOK'
    BY <2>1 DEF IInv, LocksOK, Clash
  <2>5. GateOK'
    <3>1. \A q \in Request : GateHeld(q)'
      BY <2>1, GateStays DEF IInv
    <3> QED
      BY <3>1, GateNext
  <2>6. KeptOK' /\ OrderOK'
    BY <2>1, QuietKept, QuietOrder
  <2> QED
    BY <2>2, <2>3, <2>4, <2>5, <2>6 DEF IInv
<1>2. ASSUME NEW r \in Request, Call(r) PROVE IInv'
  BY <1>2, StartInv
<1>9. ASSUME NEW r \in Request, Scan(r) PROVE IInv'
  BY <1>9, ScanInv
<1>3. ASSUME NEW r \in Request, Acquire(r) PROVE IInv'
  BY <1>3, AcquireInv
<1>4. ASSUME NEW r \in Request, Execute(r) PROVE IInv'
  BY <1>4, ExecuteInv
<1>5. ASSUME NEW r \in Request, Commit(r) PROVE IInv'
  BY <1>5, CommitInv
<1>6. faults \in 0..MaxFaults /\ MaxFaults \in Nat
  BY AnalyzerAssumption DEF IInv, TypeOK
<1>7. ASSUME NEW r \in Request, Refuse(r) \/ Victim(r) PROVE IInv'
  <2>1. Rollback(r) /\ faults' = faults
    BY <1>7 DEF Refuse, Victim
  <2> QED
    BY <1>6, <2>1, RollbackInv
<1>8. ASSUME NEW r \in Request, Fails(r) PROVE IInv'
  <2>1. Rollback(r) /\ faults < MaxFaults /\ faults' = faults + 1
    BY <1>8 DEF Fails
  <2>2. faults' \in 0..MaxFaults
    BY <1>6, <2>1
  <2> QED
    BY <2>1, <2>2, RollbackInv
<1> QED
  BY <1>1, <1>2, <1>3, <1>4, <1>5, <1>7, <1>8, <1>9 DEF Next, Step

(* The parts of IInv - types, what a call remembers, exclusive locks, what *)
(* is held between statements, texts of users and the order of commits -   *)
(* hold initially, and each step of the event loop, of the database and of *)
(* a client preserves them all, statements on many rows included.          *)
THEOREM InductiveInvariant == Spec => []IInv
<1>1. Init => IInv
  BY InitInv
<1>2. IInv /\ [Next]_vars => IInv'
  BY NextInv
<1> QED
  BY <1>1, <1>2, PTL DEF Spec

(* The variables stay within their types.                                  *)
THEOREM TypeCorrect == Spec => []TypeOK
<1>1. IInv => TypeOK
  BY DEF IInv
<1> QED
  BY <1>1, InductiveInvariant, PTL

(* Whatever the rows, the files imported, the calls, the faults and the    *)
(* interleaving, clean-ups and edits of many rows in company included: the *)
(* committed rows are those the calls leave that make all their writes, to *)
(* the rows their statements found, at the moment of their commit.         *)
THEOREM CommittedInOrderHolds == Spec => []CommittedInOrder
<1>1. IInv => CommittedInOrder
  BY DEF IInv, OrderOK, CommittedInOrder
<1> QED
  BY <1>1, InductiveInvariant, PTL

(* Nothing that is generated replaces what a user has written, in any of   *)
(* the rows that bear the names the user gave.                             *)
THEOREM UserTextKeptHolds == Spec => []UserTextKept
<1>1. IInv => UserTextKept
  BY DEF IInv, KeptOK, Bears, UserTextKept
<1> QED
  BY <1>1, InductiveInvariant, PTL

(* Who holds no lock is waited for by nobody.                              *)
LEMMA NobodyWaits ==
  ASSUME NEW q \in Request, NEW r \in Request, held[q] = {}
  PROVE  ~Waits(r, q)
BY DEF Waits, Blockers

(* However many imports of a data source run, whatever else runs: no two   *)
(* of them wait for each other, and a call that writes descriptions, which *)
(* commits each of its statements, is in a circle of two only with one     *)
(* that found several rows.                                                *)
THEOREM NoNeedlessDeadlockHolds == Spec => []NoNeedlessDeadlock
<1>1. ASSUME IInv PROVE NoNeedlessDeadlock
  <2> SUFFICES ASSUME NEW q \in Request, NEW r \in Request, Waits(q, r), Waits(r, q)
               PROVE  /\ ~SameSource(q, r)
                      /\ op[q] \in {"generate", "describe"} => \E a, b \in aim[q] : a[1] # b[1]
    BY DEF NoNeedlessDeadlock
  <2>1. held[q] # {} /\ held[r] # {}
    BY NobodyWaits
  <2>2. pc[q] = "run" /\ pc[r] = "run" /\ q # r
    BY DEF Waits, Running, Blockers
  <2>3. op[q] \in {"generate", "describe"} => \E a, b \in aim[q] : a[1] # b[1]
    BY <1>1, <2>1, <2>2 DEF IInv, GateOK
  <2>4. ASSUME SameSource(q, r) PROVE FALSE
    <3>1. <<gate[q], "write">> \in held[q] /\ <<gate[q], "write">> \in held[r]
      BY <1>1, <2>1, <2>2, <2>4 DEF IInv, GateOK, SameSource
    <3>2. ~Clash("write", "write")
      BY <1>1, <2>2, <3>1 DEF IInv, LocksOK
    <3> QED
      BY <3>2 DEF Clash
  <2> QED
    BY <2>3, <2>4
<1> QED
  BY <1>1, InductiveInvariant, PTL
=============================================================================
