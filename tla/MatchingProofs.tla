---------------------------- MODULE MatchingProofs ----------------------------
(***************************************************************************)
(* Theorems on the order book: for every incoming order and every book,     *)
(* fills follow price and time, and all that can trade does.                *)
(***************************************************************************)
EXTENDS Matching, TradeProofs

-----------------------------------------------------------------------------
(* Loops.  FoldLeft walks a sequence by way of the subsets of its domain.   *)

\* What holds at 0 and is handed on by each number below n holds up to n.
LEMMA Climb ==
    ASSUME NEW n \in Nat, NEW S, 0 \in S, \A k \in 0..n : (k < n /\ k \in S) => k + 1 \in S
    PROVE  \A k \in 0..n : k \in S
<1> DEFINE Bad == {k \in 0..n : k \notin S}
<1> SUFFICES ASSUME Bad # {} PROVE FALSE
  OBVIOUS
<1>1. IsWellFoundedOn(OpToRel(<, Nat), Nat)
  BY NatLessThanWellFounded
<1>2. Bad \subseteq Nat
  OBVIOUS
<1>3. PICK x \in Bad : \A y \in Bad : <<y, x>> \notin OpToRel(<, Nat)
  <2> HIDE DEF Bad
  <2> QED
    BY <1>1, <1>2, WFMin, Zenon
<1>4. x \in 0..n /\ x \notin S /\ x # 0
  OBVIOUS
<1>5. x - 1 \in 0..n /\ x - 1 < n /\ x - 1 < x
  BY <1>4
<1>6. x - 1 \in S
  <2> SUFFICES ASSUME x - 1 \notin S PROVE FALSE
    OBVIOUS
  <2>1. x - 1 \in Bad
    BY <1>5
  <2>2. <<x - 1, x>> \in OpToRel(<, Nat)
    BY <1>4, <1>5 DEF OpToRel
  <2> QED
    BY <1>3, <2>1, <2>2
<1>7. (x - 1) + 1 \in S
  BY <1>5, <1>6
<1> QED
  BY <1>4, <1>7

LEMMA MaxIn ==
    ASSUME NEW n \in Nat, NEW s \in SUBSET (1..n), s # {}
    PROVE  Max(s) \in s /\ \A y \in s : Max(s) >= y
<1> DEFINE S == {k \in 0..n : \A t \in SUBSET (1..k) : t # {} => \E x \in t : \A y \in t : x >= y}
<1>1. 0 \in S
  <2>1. \A t \in SUBSET (1..0) : t = {}
    OBVIOUS
  <2>2. \A t \in SUBSET (1..0) : t # {} => \E x \in t : \A y \in t : x >= y
    BY <2>1, Zenon
  <2> QED
    BY <2>2
<1>2. ASSUME NEW k \in 0..n, k < n, k \in S PROVE k + 1 \in S
  <2> SUFFICES ASSUME NEW t \in SUBSET (1..(k + 1)), t # {}
               PROVE  \E x \in t : \A y \in t : x >= y
    BY <1>2
  <2>1. CASE k + 1 \in t
    BY <2>1
  <2>2. CASE k + 1 \notin t
    <3>1. t \in SUBSET (1..k)
      BY <2>2
    <3> QED
      BY <3>1, <1>2
  <2> QED
    BY <2>1, <2>2
<1>3. n \in S
  <2> HIDE DEF S
  <2> QED
    BY <1>1, <1>2, Climb
<1>4. \E x \in s : \A y \in s : x >= y
  BY <1>3
<1> QED
  BY <1>4 DEF Max

LEMMA MaxOf ==
    ASSUME NEW n \in Nat, n # 0
    PROVE  Max(1..n) = n /\ (1..n) \ {n} = 1..(n - 1) /\ n \in 1..n
<1>1. 1..n # {} /\ n \in 1..n
  OBVIOUS
<1>2. Max(1..n) \in 1..n /\ \A y \in 1..n : Max(1..n) >= y
  BY <1>1, MaxIn
<1> QED
  BY <1>1, <1>2

\* A walk with step h over the elements f[x], greatest x last: g is one if it is
\* the walk of itself.
Walk(h, base, f, S, g) ==
    [s \in SUBSET S |-> IF s = {} THEN base ELSE h[<<g[s \ {Max(s)}], f[Max(s)]>>]]

HasSmallest(U) == \E x \in U : \A y \in U : ~(y \subseteq x /\ y # x)
Subfamilies(V) == {U \in SUBSET (SUBSET V) : U # {}}

LEMMA SmallestAny == \A V : IsFiniteSet(V) => \A U \in Subfamilies(V) : HasSmallest(U)
BY Smallest DEF HasSmallest, Subfamilies

LEMMA SmallestPart == ASSUME NEW n \in Nat PROVE \A U \in Subfamilies(1..n) : HasSmallest(U)
<1>1. IsFiniteSet(1..n)
  BY FS_Interval
<1> QED
  BY <1>1, SmallestAny

\* Two walks agree where both are defined and see the same.
LEMMA WalkEnds ==
    ASSUME NEW h, NEW base, NEW f1, NEW f2, NEW n \in Nat, NEW m \in Nat, n <= m,
           \A x \in 1..n : f1[x] = f2[x],
           NEW g, g = Walk(h, base, f1, 1..m, g), NEW k, k = Walk(h, base, f2, 1..n, k)
    PROVE  g[1..n] = k[1..n]
<1> DEFINE Bad == {s \in SUBSET (1..n) : g[s] # k[s]}
<1> SUFFICES ASSUME Bad # {} PROVE FALSE
  <2>1. 1..n \in SUBSET (1..n)
    OBVIOUS
  <2> QED
    BY <2>1
<1>1. PICK s \in Bad : \A y \in Bad : ~(y \subseteq s /\ y # s)
  <2>1. Bad \in Subfamilies(1..n)
    BY DEF Subfamilies
  <2> HIDE DEF Bad
  <2>2. HasSmallest(Bad)
    BY <2>1, SmallestPart
  <2> QED
    BY <2>2 DEF HasSmallest
<1>2. s \in SUBSET (1..n) /\ s \in SUBSET (1..m) /\ g[s] # k[s]
  OBVIOUS
<1>3. /\ g[s] = IF s = {} THEN base ELSE h[<<g[s \ {Max(s)}], f1[Max(s)]>>]
      /\ k[s] = IF s = {} THEN base ELSE h[<<k[s \ {Max(s)}], f2[Max(s)]>>]
  BY <1>2 DEF Walk
<1>4. s # {}
  BY <1>2, <1>3
<1>5. Max(s) \in s
  BY <1>2, <1>4, MaxIn
<1>6. s \ {Max(s)} \notin Bad
  BY <1>1, <1>5
<1>7. g[s \ {Max(s)}] = k[s \ {Max(s)}]
  BY <1>2, <1>6
<1>8. f1[Max(s)] = f2[Max(s)]
  BY <1>2, <1>5
<1> QED
  BY <1>2, <1>3, <1>4, <1>7, <1>8

\* There is a walk.
LEMMA WalkExists ==
    ASSUME NEW h, NEW base, NEW f, NEW n \in Nat
    PROVE  \E g : g = Walk(h, base, f, 1..n, g)
<1> DEFINE S == {m \in 0..n : \E g : g = Walk(h, base, f, 1..m, g)}
<1>1. 0 \in S
  <2> DEFINE G == [s \in SUBSET (1..0) |-> base]
  <2>1. \A s \in SUBSET (1..0) : s = {}
    OBVIOUS
  <2>2. G = Walk(h, base, f, 1..0, G)
    BY <2>1 DEF Walk
  <2> QED
    BY <2>2
<1>2. ASSUME NEW m \in 0..n, m < n, m \in S PROVE m + 1 \in S
  <2>1. PICK k : k = Walk(h, base, f, 1..m, k)
    BY <1>2
  <2> DEFINE G == [s \in SUBSET (1..(m + 1)) |->
                      IF m + 1 \in s THEN h[<<k[s \ {m + 1}], f[m + 1]>>] ELSE k[s]]
             W == Walk(h, base, f, 1..(m + 1), G)
  <2>2. ASSUME NEW s \in SUBSET (1..(m + 1)) PROVE G[s] = W[s]
    <3>1. CASE s = {}
      <4>1. {} \in SUBSET (1..m) /\ m + 1 \notin {}
        OBVIOUS
      <4>2. k[{}] = base
        BY <2>1, <4>1 DEF Walk
      <4>3. G[{}] = k[{}]
        BY <3>1
      <4> QED
        BY <3>1, <4>2, <4>3 DEF Walk
    <3>2. CASE s # {} /\ m + 1 \in s
      <4>1. Max(s) \in s /\ \A y \in s : Max(s) >= y
        BY <3>2, MaxIn
      <4>2. Max(s) = m + 1
        <5>1. Max(s) \in 1..(m + 1) /\ Max(s) >= m + 1
          BY <3>2, <4>1
        <5> QED
          BY <5>1
      <4>3. s \ {m + 1} \in SUBSET (1..(m + 1)) /\ m + 1 \notin s \ {m + 1}
        OBVIOUS
      <4>4. G[s \ {m + 1}] = k[s \ {m + 1}]
        BY <4>3
      <4>5. W[s] = h[<<G[s \ {m + 1}], f[m + 1]>>]
        <5> HIDE DEF G
        <5>1. W[s] = h[<<G[s \ {Max(s)}], f[Max(s)]>>]
          BY <3>2 DEF Walk
        <5> QED
          BY <4>2, <5>1
      <4>6. G[s] = h[<<k[s \ {m + 1}], f[m + 1]>>]
        BY <3>2
      <4> QED
        BY <4>4, <4>5, <4>6
    <3>3. CASE s # {} /\ m + 1 \notin s
      <4>1. s \in SUBSET (1..m)
        BY <3>3
      <4>2. Max(s) \in s
        <5>1. m \in Nat /\ s # {}
          BY <3>3
        <5> QED
          BY <4>1, <5>1, MaxIn
      <4> DEFINE r == s \ {Max(s)}
      <4>3. r \in SUBSET (1..(m + 1)) /\ m + 1 \notin r
        <5> HIDE DEF G, W, S
        <5>1. r \subseteq s
          OBVIOUS
        <5> QED
          BY <3>3, <5>1
      <4>4. G[s \ {Max(s)}] = k[s \ {Max(s)}]
        <5> HIDE DEF r
        <5>1. G[r] = k[r]
          BY <4>3
        <5> QED
          BY <5>1 DEF r
      <4>5. W[s] = h[<<G[s \ {Max(s)}], f[Max(s)]>>]
        <5> HIDE DEF G
        <5>1. s # {}
          BY <3>3
        <5> QED
          BY <5>1 DEF Walk
      <4>6. k[s] = h[<<k[s \ {Max(s)}], f[Max(s)]>>]
        BY <2>1, <3>3, <4>1 DEF Walk
      <4>7. G[s] = k[s]
        BY <3>3
      <4> QED
        BY <4>4, <4>5, <4>6, <4>7
    <3> QED
      BY <3>1, <3>2, <3>3
  <2>3. G = W
    <3>1. W = [s \in SUBSET (1..(m + 1)) |-> W[s]]
      <4> HIDE DEF G
      <4> QED
        BY DEF Walk
    <3>2. G = [s \in SUBSET (1..(m + 1)) |-> G[s]]
      OBVIOUS
    <3> HIDE DEF G, W
    <3> QED
      BY <2>2, <3>1, <3>2
  <2>4. \E g : g = Walk(h, base, f, 1..(m + 1), g)
    <3> HIDE DEF G
    <3> QED
      BY <2>3
  <2> QED
    BY <1>2, <2>4
<1>3. n \in S
  <2> HIDE DEF S
  <2> QED
    BY <1>1, <1>2, Climb
<1> QED
  BY <1>3

LEMMA WalkTyped ==
    ASSUME NEW V, NEW X, NEW h \in [V \X X -> V], NEW base \in V,
           NEW n \in Nat, NEW f, \A x \in 1..n : f[x] \in X,
           NEW g, g = Walk(h, base, f, 1..n, g)
    PROVE  \A s \in SUBSET (1..n) : g[s] \in V
<1> DEFINE Bad == {s \in SUBSET (1..n) : g[s] \notin V}
<1> SUFFICES ASSUME Bad # {} PROVE FALSE
  OBVIOUS
<1>1. PICK s \in Bad : \A y \in Bad : ~(y \subseteq s /\ y # s)
  <2>1. Bad \in Subfamilies(1..n)
    BY DEF Subfamilies
  <2> HIDE DEF Bad
  <2>2. HasSmallest(Bad)
    BY <2>1, SmallestPart
  <2> QED
    BY <2>2 DEF HasSmallest
<1>2. s \in SUBSET (1..n) /\ g[s] \notin V
  OBVIOUS
<1>3. g[s] = IF s = {} THEN base ELSE h[<<g[s \ {Max(s)}], f[Max(s)]>>]
  BY <1>2 DEF Walk
<1>4. s # {}
  BY <1>2, <1>3
<1>5. Max(s) \in s
  BY <1>2, <1>4, MaxIn
<1>6. g[s \ {Max(s)}] \in V
  BY <1>1, <1>2, <1>5
<1>7. f[Max(s)] \in X
  BY <1>2, <1>5
<1> HIDE DEF Bad
<1>8. h[<<g[s \ {Max(s)}], f[Max(s)]>>] \in V
  BY <1>6, <1>7
<1> QED
  BY <1>2, <1>3, <1>4, <1>8

\* Where a walk over the first n elements ends.
Ran(h, base, f, n) == (CHOOSE g : g = Walk(h, base, f, 1..n, g))[1..n]

LEMMA RanIs ==
    ASSUME NEW h, NEW base, NEW f, NEW n \in Nat, NEW g, g = Walk(h, base, f, 1..n, g)
    PROVE  Ran(h, base, f, n) = g[1..n]
<1> DEFINE c == CHOOSE k : k = Walk(h, base, f, 1..n, k)
<1>1. c = Walk(h, base, f, 1..n, c)
  BY WalkExists
<1>2. Ran(h, base, f, n) = c[1..n]
  BY DEF Ran
<1> HIDE DEF c
<1>3. c[1..n] = g[1..n]
  BY <1>1, WalkEnds
<1> QED
  BY <1>2, <1>3

LEMMA RanSame ==
    ASSUME NEW h, NEW base, NEW f1, NEW f2, NEW n \in Nat, \A x \in 1..n : f1[x] = f2[x]
    PROVE  Ran(h, base, f1, n) = Ran(h, base, f2, n)
<1>1. PICK g : g = Walk(h, base, f1, 1..n, g)
  BY WalkExists
<1>2. PICK k : k = Walk(h, base, f2, 1..n, k)
  BY WalkExists
<1>3. g[1..n] = k[1..n]
  BY <1>1, <1>2, WalkEnds
<1> QED
  BY <1>1, <1>2, <1>3, RanIs

LEMMA RanStep ==
    ASSUME NEW h, NEW base, NEW f, NEW n \in Nat
    PROVE  /\ Ran(h, base, f, 0) = base
           /\ Ran(h, base, f, n + 1) = h[<<Ran(h, base, f, n), f[n + 1]>>]
<1>1. Ran(h, base, f, 0) = base
  <2>1. PICK g : g = Walk(h, base, f, 1..0, g)
    BY WalkExists
  <2>2. 1..0 = {} /\ 1..0 \in SUBSET (1..0)
    OBVIOUS
  <2>3. g[1..0] = base
    BY <2>1, <2>2 DEF Walk
  <2> QED
    BY <2>1, <2>3, RanIs
<1>2. Ran(h, base, f, n + 1) = h[<<Ran(h, base, f, n), f[n + 1]>>]
  <2> DEFINE N == n + 1
  <2>1. N \in Nat /\ N # 0 /\ N - 1 = n /\ n <= N
    OBVIOUS
  <2>2. PICK g : g = Walk(h, base, f, 1..N, g)
    BY <2>1, WalkExists
  <2>3. PICK k : k = Walk(h, base, f, 1..n, k)
    BY WalkExists
  <2>4. 1..N \in SUBSET (1..N)
    OBVIOUS
  <2> HIDE DEF N
  <2>5. g[1..n] = k[1..n]
    BY <2>1, <2>2, <2>3, WalkEnds
  <2>6. Max(1..N) = N /\ (1..N) \ {N} = 1..n /\ 1..N # {}
    BY <2>1, MaxOf
  <2>7. g[1..N] = h[<<g[(1..N) \ {Max(1..N)}], f[Max(1..N)]>>]
    BY <2>2, <2>4, <2>6 DEF Walk
  <2>8. Ran(h, base, f, N) = g[1..N] /\ Ran(h, base, f, n) = k[1..n]
    BY <2>1, <2>2, <2>3, RanIs
  <2>9. Ran(h, base, f, N) = h[<<Ran(h, base, f, n), f[N]>>]
    BY <2>5, <2>6, <2>7, <2>8
  <2> QED
    BY <2>9 DEF N
<1> QED
  BY <1>1, <1>2

LEMMA RanTyped ==
    ASSUME NEW V, NEW X, NEW h \in [V \X X -> V], NEW base \in V,
           NEW n \in Nat, NEW f, \A x \in 1..n : f[x] \in X
    PROVE  Ran(h, base, f, n) \in V
<1>1. PICK g : g = Walk(h, base, f, 1..n, g)
  BY WalkExists
<1>2. 1..n \in SUBSET (1..n)
  OBVIOUS
<1>3. \A s \in SUBSET (1..n) : g[s] \in V
  BY <1>1, WalkTyped
<1> QED
  BY <1>1, <1>2, <1>3, RanIs

-----------------------------------------------------------------------------
(* The loops of matchOrder, as walks.                                       *)

TotalOf(seq) == FoldLeft(LAMBDA v, m : v + m.remaining, 0, seq)
FillsOf(taker, seq) ==
    FoldLeft(LAMBDA done, maker : Take(taker, done, maker),
             [fills |-> <<>>, left |-> taker.remaining], seq)

FillRows == [maker : Nat, volume : Nat, price : Int, rest : Int]
States == [fills : Seq(FillRows), left : Nat]
Untouched(taker) == [fills |-> <<>>, left |-> taker.remaining]

Adding == [z \in Int \X BookOrders |-> z[1] + z[2].remaining]
Counting(i) == [z \in Int \X FillRows |-> IF z[2].maker = i THEN z[1] + z[2].volume ELSE z[1]]
Taking(taker) == [z \in States \X BookOrders |-> Take(taker, z[1], z[2])]

LEMMA AddingType == Adding \in [Int \X BookOrders -> Int] /\ 0 \in Int
BY DEF Adding, BookOrders

LEMMA CountingType ==
    ASSUME NEW i PROVE Counting(i) \in [Int \X FillRows -> Int] /\ 0 \in Int
BY DEF Counting, FillRows

\* What a maker gives: its volume and what it leaves of the taker's.
Given(done, maker) == IF done.left < maker.remaining THEN done.left ELSE maker.remaining

LEMMA TakeIs ==
    ASSUME NEW taker \in BookOrders, NEW done \in States, NEW maker \in BookOrders
    PROVE  /\ Take(taker, done, maker) \in States
           /\ Given(done, maker) = 0 => Take(taker, done, maker) = done
           /\ Given(done, maker) # 0 =>
                 /\ Take(taker, done, maker).left = done.left - Given(done, maker)
                 /\ \E row \in FillRows :
                       /\ row.maker = maker.id /\ row.volume = Given(done, maker)
                       /\ Take(taker, done, maker).fills = Append(done.fills, row)
           /\ Given(done, maker) \in Nat /\ Given(done, maker) <= done.left
           /\ Given(done, maker) <= maker.remaining
<1> DEFINE v == Given(done, maker)
           row == [maker |-> maker.id, volume |-> v, price |-> FillPrice(taker, maker),
                   rest |-> maker.remaining - v]
<1>1. done.left \in Nat /\ done.fills \in Seq(FillRows)
  BY DEF States
<1>2. /\ maker.remaining \in Nat /\ maker.id \in Nat
      /\ maker.price \in Int \cup {Null} /\ taker.price \in Int \cup {Null}
  BY DEF BookOrders
<1>3. v \in Nat /\ v <= done.left /\ v <= maker.remaining
  BY <1>1, <1>2 DEF Given
<1>4. FillPrice(taker, maker) \in Int
  BY <1>2 DEF FillPrice
<1>5. Take(taker, done, maker) =
         IF v <= 0 THEN done ELSE [fills |-> Append(done.fills, row), left |-> done.left - v]
  BY DEF Take, Given
<1> HIDE DEF v
<1>6. row \in FillRows /\ row.maker = maker.id /\ row.volume = v
  BY <1>2, <1>3, <1>4 DEF FillRows
<1>7. CASE v = 0
  BY <1>3, <1>5, <1>7 DEF v
<1>8. CASE v # 0
  <2>1. ~(v <= 0)
    BY <1>3, <1>8
  <2> HIDE DEF row
  <2>2. Append(done.fills, row) \in Seq(FillRows) /\ done.left - v \in Nat
    BY <1>1, <1>3, <1>6
  <2>3. Take(taker, done, maker) = [fills |-> Append(done.fills, row), left |-> done.left - v]
    BY <1>5, <2>1
  <2> QED
    BY <1>3, <1>6, <1>8, <2>2, <2>3 DEF States, v
<1> QED
  BY <1>7, <1>8

LEMMA TakingType ==
    ASSUME NEW taker \in BookOrders
    PROVE  Taking(taker) \in [States \X BookOrders -> States] /\ Untouched(taker) \in States
<1>1. Untouched(taker) \in States
  BY DEF Untouched, States, BookOrders
<1>2. \A z \in States \X BookOrders : Take(taker, z[1], z[2]) \in States
  BY TakeIs
<1> QED
  BY <1>1, <1>2 DEF Taking

\* What an order and a book hold in sum.
LEMMA TotalIs ==
    ASSUME NEW seq \in Seq(BookOrders)
    PROVE  TotalOf(seq) = Ran(Adding, 0, seq, Len(seq))
<1> DEFINE n == Len(seq)
           Step(g) == [s \in SUBSET (1..n) |->
                          IF s = {} THEN 0 ELSE g[s \ {Max(s)}] + seq[Max(s)].remaining]
           c == CHOOSE g : g = Step(g)
<1>1. n \in Nat /\ DOMAIN seq = 1..n /\ \A x \in 1..n : seq[x] \in BookOrders
  OBVIOUS
<1>2. TotalOf(seq) = c[1..n]
  BY <1>1 DEF TotalOf, FoldLeft, MapThenFoldSet
<1>3. Adding \in [Int \X BookOrders -> Int] /\ 0 \in Int
  BY AddingType
<1>4. PICK g : g = Walk(Adding, 0, seq, 1..n, g)
  BY <1>1, WalkExists
<1>5. \A s \in SUBSET (1..n) : g[s] \in Int
  BY <1>1, <1>3, <1>4, WalkTyped
<1>6. ASSUME NEW s \in SUBSET (1..n), s # {}
      PROVE  s \ {Max(s)} \in SUBSET (1..n) /\ Max(s) \in 1..n
  BY <1>1, <1>6, MaxIn
<1>7. g = Step(g)
  <2>1. ASSUME NEW s \in SUBSET (1..n) PROVE g[s] = Step(g)[s]
    <3>1. g[s] = IF s = {} THEN 0 ELSE Adding[<<g[s \ {Max(s)}], seq[Max(s)]>>]
      BY <1>4 DEF Walk
    <3>2. CASE s # {}
      <4>1. g[s \ {Max(s)}] \in Int /\ seq[Max(s)] \in BookOrders
        BY <1>1, <1>5, <1>6, <3>2
      <4> QED
        BY <3>1, <3>2, <4>1 DEF Adding
    <3> QED
      BY <3>1, <3>2
  <2>2. g = [s \in SUBSET (1..n) |-> g[s]]
    BY <1>4 DEF Walk
  <2> QED
    BY <2>1, <2>2
<1>8. c = Step(c)
  BY <1>7
<1> DEFINE W == Int \cup {c[s] : s \in SUBSET (1..n)}
           k == [z \in W \X BookOrders |-> z[1] + z[2].remaining]
<1>9. ASSUME NEW f, f = Step(f), \A s \in SUBSET (1..n) : f[s] \in W
      PROVE  f = Walk(k, 0, seq, 1..n, f)
  <2>1. ASSUME NEW s \in SUBSET (1..n) PROVE f[s] = Walk(k, 0, seq, 1..n, f)[s]
    <3>1. CASE s # {}
      <4>1. f[s \ {Max(s)}] \in W /\ seq[Max(s)] \in BookOrders
        BY <1>1, <1>6, <1>9, <3>1
      <4>2. k[<<f[s \ {Max(s)}], seq[Max(s)]>>] = f[s \ {Max(s)}] + seq[Max(s)].remaining
        BY <4>1
      <4>3. f[s] = f[s \ {Max(s)}] + seq[Max(s)].remaining
        BY <1>9, <3>1
      <4> HIDE DEF k
      <4> QED
        BY <3>1, <4>2, <4>3 DEF Walk
    <3>2. CASE s = {}
      <4> HIDE DEF k
      <4> QED
        BY <1>9, <3>2 DEF Walk
    <3> QED
      BY <3>1, <3>2
  <2>2. f = [s \in SUBSET (1..n) |-> f[s]]
    BY <1>9
  <2>3. Walk(k, 0, seq, 1..n, f) = [s \in SUBSET (1..n) |-> Walk(k, 0, seq, 1..n, f)[s]]
    <3> HIDE DEF k
    <3> QED
      BY DEF Walk
  <2> HIDE DEF k
  <2> QED
    BY <2>1, <2>2, <2>3
<1>10. g = Walk(k, 0, seq, 1..n, g) /\ c = Walk(k, 0, seq, 1..n, c)
  <2>1. (\A s \in SUBSET (1..n) : g[s] \in W) /\ \A s \in SUBSET (1..n) : c[s] \in W
    BY <1>5
  <2> HIDE DEF k, W, c, Step
  <2> QED
    BY <1>7, <1>8, <1>9, <2>1
<1> HIDE DEF k, c, Step
<1>11. g[1..n] = c[1..n]
  BY <1>1, <1>10, WalkEnds
<1> QED
  BY <1>1, <1>2, <1>4, <1>11, RanIs

\* What one maker gave.
LEMMA FilledOfIs ==
    ASSUME NEW i, NEW seq \in Seq(FillRows)
    PROVE  FilledOf(seq, i) = Ran(Counting(i), 0, seq, Len(seq))
<1> DEFINE n == Len(seq)
           Step(g) == [s \in SUBSET (1..n) |->
                          IF s = {} THEN 0 ELSE (IF seq[Max(s)].maker = i THEN g[s \ {Max(s)}] + seq[Max(s)].volume ELSE g[s \ {Max(s)}])]
           c == CHOOSE g : g = Step(g)
<1>1. n \in Nat /\ DOMAIN seq = 1..n /\ \A x \in 1..n : seq[x] \in FillRows
  OBVIOUS
<1>2. FilledOf(seq, i) = c[1..n]
  BY <1>1 DEF FilledOf, FoldLeft, MapThenFoldSet
<1>3. Counting(i) \in [Int \X FillRows -> Int] /\ 0 \in Int
  BY CountingType
<1>4. PICK g : g = Walk(Counting(i), 0, seq, 1..n, g)
  BY <1>1, WalkExists
<1>5. \A s \in SUBSET (1..n) : g[s] \in Int
  BY <1>1, <1>3, <1>4, WalkTyped
<1>6. ASSUME NEW s \in SUBSET (1..n), s # {}
      PROVE  s \ {Max(s)} \in SUBSET (1..n) /\ Max(s) \in 1..n
  BY <1>1, <1>6, MaxIn
<1>7. g = Step(g)
  <2>1. ASSUME NEW s \in SUBSET (1..n) PROVE g[s] = Step(g)[s]
    <3>1. g[s] = IF s = {} THEN 0 ELSE Counting(i)[<<g[s \ {Max(s)}], seq[Max(s)]>>]
      BY <1>4 DEF Walk
    <3>2. CASE s # {}
      <4>1. g[s \ {Max(s)}] \in Int /\ seq[Max(s)] \in FillRows
        BY <1>1, <1>5, <1>6, <3>2
      <4> QED
        BY <3>1, <3>2, <4>1 DEF Counting
    <3> QED
      BY <3>1, <3>2
  <2>2. g = [s \in SUBSET (1..n) |-> g[s]]
    BY <1>4 DEF Walk
  <2> QED
    BY <2>1, <2>2
<1>8. c = Step(c)
  BY <1>7
<1> DEFINE W == Int \cup {c[s] : s \in SUBSET (1..n)}
           k == [z \in W \X FillRows |-> IF z[2].maker = i THEN z[1] + z[2].volume ELSE z[1]]
<1>9. ASSUME NEW f, f = Step(f), \A s \in SUBSET (1..n) : f[s] \in W
      PROVE  f = Walk(k, 0, seq, 1..n, f)
  <2>1. ASSUME NEW s \in SUBSET (1..n) PROVE f[s] = Walk(k, 0, seq, 1..n, f)[s]
    <3>1. CASE s # {}
      <4>1. f[s \ {Max(s)}] \in W /\ seq[Max(s)] \in FillRows
        BY <1>1, <1>6, <1>9, <3>1
      <4>2. k[<<f[s \ {Max(s)}], seq[Max(s)]>>] = (IF seq[Max(s)].maker = i THEN f[s \ {Max(s)}] + seq[Max(s)].volume ELSE f[s \ {Max(s)}])
        BY <4>1
      <4>3. f[s] = (IF seq[Max(s)].maker = i THEN f[s \ {Max(s)}] + seq[Max(s)].volume ELSE f[s \ {Max(s)}])
        BY <1>9, <3>1
      <4> HIDE DEF k
      <4> QED
        BY <3>1, <4>2, <4>3 DEF Walk
    <3>2. CASE s = {}
      <4> HIDE DEF k
      <4> QED
        BY <1>9, <3>2 DEF Walk
    <3> QED
      BY <3>1, <3>2
  <2>2. f = [s \in SUBSET (1..n) |-> f[s]]
    BY <1>9
  <2>3. Walk(k, 0, seq, 1..n, f) = [s \in SUBSET (1..n) |-> Walk(k, 0, seq, 1..n, f)[s]]
    <3> HIDE DEF k
    <3> QED
      BY DEF Walk
  <2> HIDE DEF k
  <2> QED
    BY <2>1, <2>2, <2>3
<1>10. g = Walk(k, 0, seq, 1..n, g) /\ c = Walk(k, 0, seq, 1..n, c)
  <2>1. (\A s \in SUBSET (1..n) : g[s] \in W) /\ \A s \in SUBSET (1..n) : c[s] \in W
    BY <1>5
  <2> HIDE DEF k, W, c, Step
  <2> QED
    BY <1>7, <1>8, <1>9, <2>1
<1> HIDE DEF k, c, Step
<1>11. g[1..n] = c[1..n]
  BY <1>1, <1>10, WalkEnds
<1> QED
  BY <1>1, <1>2, <1>4, <1>11, RanIs

\* The fills.
LEMMA FillsAre ==
    ASSUME NEW taker \in BookOrders, NEW seq \in Seq(BookOrders)
    PROVE  FillsOf(taker, seq) = Ran(Taking(taker), Untouched(taker), seq, Len(seq))
<1> DEFINE n == Len(seq)
           Step(g) == [s \in SUBSET (1..n) |->
                          IF s = {} THEN Untouched(taker) ELSE Take(taker, g[s \ {Max(s)}], seq[Max(s)])]
           c == CHOOSE g : g = Step(g)
<1>1. n \in Nat /\ DOMAIN seq = 1..n /\ \A x \in 1..n : seq[x] \in BookOrders
  OBVIOUS
<1>2. FillsOf(taker, seq) = c[1..n]
  BY <1>1 DEF FillsOf, Untouched, FoldLeft, MapThenFoldSet
<1>3. Taking(taker) \in [States \X BookOrders -> States] /\ Untouched(taker) \in States
  BY TakingType
<1>4. PICK g : g = Walk(Taking(taker), Untouched(taker), seq, 1..n, g)
  BY <1>1, WalkExists
<1>5. \A s \in SUBSET (1..n) : g[s] \in States
  BY <1>1, <1>3, <1>4, WalkTyped
<1>6. ASSUME NEW s \in SUBSET (1..n), s # {}
      PROVE  s \ {Max(s)} \in SUBSET (1..n) /\ Max(s) \in 1..n
  BY <1>1, <1>6, MaxIn
<1>7. g = Step(g)
  <2>1. ASSUME NEW s \in SUBSET (1..n) PROVE g[s] = Step(g)[s]
    <3>1. g[s] = IF s = {} THEN Untouched(taker) ELSE Taking(taker)[<<g[s \ {Max(s)}], seq[Max(s)]>>]
      BY <1>4 DEF Walk
    <3>2. CASE s # {}
      <4>1. g[s \ {Max(s)}] \in States /\ seq[Max(s)] \in BookOrders
        BY <1>1, <1>5, <1>6, <3>2
      <4> QED
        BY <3>1, <3>2, <4>1 DEF Taking
    <3> QED
      BY <3>1, <3>2
  <2>2. g = [s \in SUBSET (1..n) |-> g[s]]
    BY <1>4 DEF Walk
  <2> QED
    BY <2>1, <2>2
<1>8. c = Step(c)
  BY <1>7
<1> DEFINE W == States \cup {c[s] : s \in SUBSET (1..n)}
           k == [z \in W \X BookOrders |-> Take(taker, z[1], z[2])]
<1>9. ASSUME NEW f, f = Step(f), \A s \in SUBSET (1..n) : f[s] \in W
      PROVE  f = Walk(k, Untouched(taker), seq, 1..n, f)
  <2>1. ASSUME NEW s \in SUBSET (1..n) PROVE f[s] = Walk(k, Untouched(taker), seq, 1..n, f)[s]
    <3>1. CASE s # {}
      <4>1. f[s \ {Max(s)}] \in W /\ seq[Max(s)] \in BookOrders
        BY <1>1, <1>6, <1>9, <3>1
      <4>2. k[<<f[s \ {Max(s)}], seq[Max(s)]>>] = Take(taker, f[s \ {Max(s)}], seq[Max(s)])
        BY <4>1
      <4>3. f[s] = Take(taker, f[s \ {Max(s)}], seq[Max(s)])
        BY <1>9, <3>1
      <4> HIDE DEF k
      <4> QED
        BY <3>1, <4>2, <4>3 DEF Walk
    <3>2. CASE s = {}
      <4> HIDE DEF k
      <4> QED
        BY <1>9, <3>2 DEF Walk
    <3> QED
      BY <3>1, <3>2
  <2>2. f = [s \in SUBSET (1..n) |-> f[s]]
    BY <1>9
  <2>3. Walk(k, Untouched(taker), seq, 1..n, f) = [s \in SUBSET (1..n) |-> Walk(k, Untouched(taker), seq, 1..n, f)[s]]
    <3> HIDE DEF k
    <3> QED
      BY DEF Walk
  <2> HIDE DEF k
  <2> QED
    BY <2>1, <2>2, <2>3
<1>10. g = Walk(k, Untouched(taker), seq, 1..n, g) /\ c = Walk(k, Untouched(taker), seq, 1..n, c)
  <2>1. (\A s \in SUBSET (1..n) : g[s] \in W) /\ \A s \in SUBSET (1..n) : c[s] \in W
    BY <1>5
  <2> HIDE DEF k, W, c, Step
  <2> QED
    BY <1>7, <1>8, <1>9, <2>1
<1> HIDE DEF k, c, Step
<1>11. g[1..n] = c[1..n]
  BY <1>1, <1>10, WalkEnds
<1> QED
  BY <1>1, <1>2, <1>4, <1>11, RanIs

-----------------------------------------------------------------------------
(* The sort.  Priority is a strict weak order of orders; with the places in *)
(* the book to break ties it is total, and ranks number the candidates.     *)

LEMMA PreferredOrder ==
    ASSUME NEW side \in {"buy", "sell"}, NEW a \in BookOrders, NEW b \in BookOrders,
           NEW c \in BookOrders
    PROVE  /\ Preferred(side, a, b) => ~Preferred(side, b, a)
           /\ (Preferred(side, a, b) /\ Preferred(side, b, c)) => Preferred(side, a, c)
           /\ (~Preferred(side, a, b) /\ ~Preferred(side, b, c)) => ~Preferred(side, a, c)
<1>1. /\ a.price \in Int \cup {Null} /\ b.price \in Int \cup {Null}
      /\ c.price \in Int \cup {Null}
      /\ a.posted \in Int /\ b.posted \in Int /\ c.posted \in Int /\ Null \notin Int
  BY MatchingAssumption DEF BookOrders
<1>2. CASE side = "buy"
  BY <1>1, <1>2 DEF Preferred, BetterPrice
<1>3. CASE side = "sell"
  BY <1>1, <1>3 DEF Preferred, BetterPrice
<1> QED
  BY <1>2, <1>3

Books == {book \in Seq(BookOrders) : \A i \in DOMAIN book : book[i].id = i}

LEMMA AheadOrder ==
    ASSUME NEW side \in {"buy", "sell"}, NEW book \in Seq(BookOrders),
           NEW i \in DOMAIN book, NEW j \in DOMAIN book, NEW k \in DOMAIN book
    PROVE  /\ ~Ahead(side, book, i, i)
           /\ (Ahead(side, book, i, j) /\ Ahead(side, book, j, k)) => Ahead(side, book, i, k)
           /\ i # j => Ahead(side, book, i, j) \/ Ahead(side, book, j, i)
<1> DEFINE P(x, y) == Preferred(side, book[x], book[y])
<1>1. /\ book[i] \in BookOrders /\ book[j] \in BookOrders /\ book[k] \in BookOrders
      /\ i \in Int /\ j \in Int /\ k \in Int
  OBVIOUS
<1>2. ~P(i, i) /\ (P(i, j) => ~P(j, i)) /\ (P(i, k) => ~P(k, i)) /\ (P(j, k) => ~P(k, j))
  BY <1>1, PreferredOrder
<1>3. /\ (P(i, j) /\ P(j, k)) => P(i, k)
      /\ (~P(k, j) /\ ~P(j, i)) => ~P(k, i)
  BY <1>1, PreferredOrder
<1>4. /\ (P(k, j) /\ P(j, i)) => P(k, i)
      /\ (~P(i, k) /\ ~P(k, j)) => ~P(i, j)
      /\ (~P(j, i) /\ ~P(i, k)) => ~P(j, k)
  BY <1>1, PreferredOrder
<1> HIDE DEF P
<1>5. \A x, y : Ahead(side, book, x, y) <=> P(x, y) \/ (~P(y, x) /\ x < y)
  BY DEF Ahead, P
<1> QED
  BY <1>1, <1>2, <1>3, <1>4, <1>5

LEMMA EligibleFinite ==
    ASSUME NEW taker, NEW book \in Seq(BookOrders)
    PROVE  /\ EligibleIn(taker, book) \subseteq DOMAIN book
           /\ IsFiniteSet(DOMAIN book) /\ IsFiniteSet(EligibleIn(taker, book))
           /\ Cardinality(EligibleIn(taker, book)) \in Nat
<1>1. DOMAIN book = 1..Len(book) /\ Len(book) \in Int /\ 1 \in Int
  OBVIOUS
<1>2. IsFiniteSet(DOMAIN book)
  BY <1>1, FS_Interval
<1>3. EligibleIn(taker, book) \subseteq DOMAIN book
  BY DEF EligibleIn
<1>4. IsFiniteSet(EligibleIn(taker, book))
  BY <1>2, <1>3, FS_Subset
<1> QED
  BY <1>2, <1>3, <1>4, FS_CardinalityType

\* Ranks follow priority and number the candidates without a gap.
LEMMA Ranks ==
    ASSUME NEW taker \in BookOrders, NEW book \in Seq(BookOrders)
    PROVE  LET E == EligibleIn(taker, book) IN
           /\ \A i \in E : Rank(taker, book, i) \in 1..Cardinality(E)
           /\ \A i, j \in E : Ahead(taker.side, book, i, j)
                                  => Rank(taker, book, i) < Rank(taker, book, j)
           /\ \A i, j \in E : Rank(taker, book, i) = Rank(taker, book, j) => i = j
           /\ \A n \in 1..Cardinality(E) : \E i \in E : Rank(taker, book, i) = n
<1> DEFINE E == EligibleIn(taker, book)
           N == Cardinality(E)
           A(i, j) == Ahead(taker.side, book, i, j)
           B(i) == {j \in E : A(j, i)}
           R(i) == Rank(taker, book, i)
<1>1. taker.side \in {"buy", "sell"}
  BY DEF BookOrders
<1>2. E \subseteq DOMAIN book /\ IsFiniteSet(E) /\ N \in Nat
  BY EligibleFinite
<1>3. \A i \in E : ~A(i, i)
  BY <1>1, <1>2, AheadOrder
<1>4. \A i, j, k \in E : (A(i, j) /\ A(j, k)) => A(i, k)
  BY <1>1, <1>2, AheadOrder
<1>5. \A i, j \in E : i # j => A(i, j) \/ A(j, i)
  BY <1>1, <1>2, AheadOrder
<1>6. \A i : R(i) = Cardinality(B(i)) + 1
  BY DEF Rank
<1> HIDE DEF E, N, A, R
<1>7. ASSUME NEW i \in E PROVE IsFiniteSet(B(i)) /\ Cardinality(B(i)) \in Nat
  <2>1. B(i) \subseteq E
    OBVIOUS
  <2> HIDE DEF B
  <2>2. IsFiniteSet(B(i))
    BY <1>2, <2>1, FS_Subset
  <2> QED
    BY <2>2, FS_CardinalityType
<1>8. ASSUME NEW i \in E PROVE R(i) \in 1..N
  <2>1. B(i) \subseteq E \ {i}
    BY <1>3
  <2> HIDE DEF B
  <2>2. IsFiniteSet(E \ {i}) /\ Cardinality(E \ {i}) = N - 1
    BY <1>2, FS_RemoveElement DEF N
  <2>3. Cardinality(B(i)) <= N - 1
    BY <2>1, <2>2, FS_Subset
  <2>4. /\ Cardinality(B(i)) \in Nat /\ N \in Nat
        /\ R(i) = Cardinality(B(i)) + 1
    BY <1>2, <1>6, <1>7
  <2> QED
    BY <2>3, <2>4
<1>9. ASSUME NEW i \in E, NEW j \in E, A(i, j) PROVE R(i) < R(j)
  <2>1. B(i) \cup {i} \subseteq B(j)
    BY <1>4, <1>9
  <2>2. i \notin B(i)
    BY <1>3
  <2>3. IsFiniteSet(B(i)) /\ IsFiniteSet(B(j)) /\ Cardinality(B(i)) \in Nat
        /\ Cardinality(B(j)) \in Nat
    BY <1>7
  <2> HIDE DEF B
  <2>4. Cardinality(B(i) \cup {i}) = Cardinality(B(i)) + 1
    BY <2>2, <2>3, FS_AddElement
  <2>5. Cardinality(B(i) \cup {i}) <= Cardinality(B(j))
    BY <2>1, <2>3, FS_Subset
  <2> QED
    BY <1>6, <2>3, <2>4, <2>5
<1>10. ASSUME NEW i \in E, NEW j \in E, R(i) = R(j) PROVE i = j
  <2> SUFFICES ASSUME i # j PROVE FALSE
    OBVIOUS
  <2>1. R(i) < R(j) \/ R(j) < R(i)
    BY <1>5, <1>9
  <2>2. R(i) \in 1..N /\ R(j) \in 1..N
    BY <1>8
  <2> QED
    BY <1>10, <2>1, <2>2
<1>11. ASSUME NEW n \in 1..N PROVE \E i \in E : R(i) = n
  <2> DEFINE f == [i \in E |-> R(i)]
             T == 1..N
  <2>1. f \in Injection(E, T)
    <3>1. f \in [E -> T]
      BY <1>8
    <3>2. \A i, j \in E : f[i] = f[j] => i = j
      BY <1>10
    <3> HIDE DEF f, T
    <3> QED
      BY <3>1, <3>2 DEF Injection, IsInjective
  <2>2. IsFiniteSet(T) /\ Cardinality(T) = N
    <3>1. 1 \in Int /\ N \in Int
      BY <1>2
    <3>2. IsFiniteSet(1..N) /\ Cardinality(1..N) = IF 1 > N THEN 0 ELSE N - 1 + 1
      BY <3>1, FS_Interval
    <3> QED
      BY <1>2, <3>2
  <2> HIDE DEF f, T
  <2>3. f \in Surjection(E, T)
    BY <2>1, <2>2, FS_Injection DEF N
  <2>4. PICK i \in E : f[i] = n
    BY <2>3 DEF Surjection, T
  <2>5. f[i] = R(i)
    BY DEF f
  <2> QED
    BY <2>4, <2>5
<1> QED
  BY <1>8, <1>9, <1>10, <1>11 DEF E, N, A, R

-----------------------------------------------------------------------------
(* What the loops walk over: the candidates, up to the first that does not  *)
(* cross.                                                                   *)

LEMMA IsSequence ==
    ASSUME NEW V, NEW n \in Nat, NEW f \in [1..n -> V]
    PROVE  f \in Seq(V) /\ Len(f) = n
OBVIOUS

LEMMA CandidatesAre ==
    ASSUME NEW taker \in BookOrders, NEW book \in Seq(BookOrders)
    PROVE  LET E == EligibleIn(taker, book)
               c == Candidates(taker, book)
           IN  /\ c \in Seq(BookOrders) /\ Len(c) = Cardinality(E)
               /\ \A i \in E : c[Rank(taker, book, i)] = book[i]
               /\ \A n \in 1..Len(c) : \E i \in E : Rank(taker, book, i) = n /\ c[n] = book[i]
<1> DEFINE E == EligibleIn(taker, book)
           N == Cardinality(E)
           c == Candidates(taker, book)
           R(i) == Rank(taker, book, i)
           Placed(n) == CHOOSE i \in E : R(i) = n
<1>1. E \subseteq DOMAIN book /\ N \in Nat
  BY EligibleFinite
<1>2. c = [n \in 1..N |-> book[Placed(n)]]
  BY DEF Candidates
<1>3. /\ \A i \in E : R(i) \in 1..N
      /\ \A i, j \in E : R(i) = R(j) => i = j
      /\ \A n \in 1..N : \E i \in E : R(i) = n
  BY Ranks
<1>4. \A i \in DOMAIN book : book[i] \in BookOrders
  OBVIOUS
<1> HIDE DEF E, N, c, R
<1>5. ASSUME NEW n \in 1..N PROVE Placed(n) \in E /\ R(Placed(n)) = n
  BY <1>3
<1>6. ASSUME NEW i \in E PROVE Placed(R(i)) = i
  BY <1>3, <1>5
<1> HIDE DEF Placed
<1>7. c \in [1..N -> BookOrders]
  BY <1>1, <1>2, <1>4, <1>5
<1>8. c \in Seq(BookOrders) /\ Len(c) = N
  BY <1>1, <1>7, IsSequence
<1>9. \A i \in E : c[R(i)] = book[i]
  BY <1>2, <1>3, <1>6
<1>10. \A n \in 1..Len(c) : \E i \in E : R(i) = n /\ c[n] = book[i]
  BY <1>2, <1>5, <1>8
<1> QED
  BY <1>8, <1>9, <1>10 DEF E, N, c, R

LEMMA MinIn ==
    ASSUME NEW n \in Nat, NEW s \in SUBSET (1..n), s # {}
    PROVE  Min(s) \in s /\ \A y \in s : Min(s) <= y
<1>1. IsWellFoundedOn(OpToRel(<, Nat), Nat)
  BY NatLessThanWellFounded
<1>2. s \subseteq Nat
  OBVIOUS
<1>3. PICK x \in s : \A y \in s : <<y, x>> \notin OpToRel(<, Nat)
  BY <1>1, <1>2, WFMin, Zenon
<1>4. \A y \in s : x <= y
  <2> SUFFICES ASSUME NEW y \in s, ~(x <= y) PROVE FALSE
    OBVIOUS
  <2>1. y \in Nat /\ x \in Nat /\ y < x
    BY <1>2
  <2>2. <<y, x>> \in OpToRel(<, Nat)
    BY <2>1 DEF OpToRel
  <2> QED
    BY <1>3, <2>2
<1> QED
  BY <1>4 DEF Min

LEMMA ReachIs ==
    ASSUME NEW taker \in BookOrders, NEW c \in Seq(BookOrders)
    PROVE  /\ Reach(taker, c) \in 0..Len(c)
           /\ \A n \in 1..Reach(taker, c) : Crosses(taker, c[n])
           /\ Reach(taker, c) < Len(c) => ~Crosses(taker, c[Reach(taker, c) + 1])
<1> DEFINE s == c \o <<Null>>
           m == Len(c)
           I == {i \in 1..Len(s) : s[i] = Null \/ ~Crosses(taker, s[i])}
           r == Reach(taker, c)
<1>1. /\ m \in Nat /\ Len(s) = m + 1 /\ s[m + 1] = Null
      /\ \A i \in 1..m : s[i] = c[i] /\ c[i] \in BookOrders
  OBVIOUS
<1>2. r = (IF I # {} THEN Min(I) ELSE 0) - 1
  BY DEF Reach, SelectInSeq
<1>3. m + 1 \in I
  BY <1>1
<1>4. I \in SUBSET (1..(m + 1)) /\ I # {} /\ m + 1 \in Nat
  BY <1>1, <1>3
<1>5. Min(I) \in I /\ \A y \in I : Min(I) <= y
  BY <1>4, MinIn
<1>6. Min(I) \in 1..(m + 1) /\ r = Min(I) - 1
  BY <1>2, <1>4, <1>5
<1> HIDE DEF I, s, m, r
<1>7. r \in 0..m /\ r + 1 = Min(I)
  BY <1>1, <1>6
<1>8. ASSUME NEW n \in 1..r PROVE Crosses(taker, c[n])
  <2>1. n \in 1..m /\ n < Min(I) /\ n \in 1..Len(s)
    BY <1>1, <1>7
  <2>2. n \notin I
    BY <1>5, <1>6, <2>1
  <2> QED
    BY <1>1, <2>1, <2>2 DEF I
<1>9. ASSUME r < m PROVE ~Crosses(taker, c[r + 1])
  <2>1. r + 1 \in 1..m /\ r + 1 \in I
    BY <1>1, <1>5, <1>7, <1>9
  <2>2. c[r + 1] # Null
    BY <1>1, <2>1, MatchingAssumption
  <2> QED
    BY <1>1, <2>1, <2>2 DEF I
<1> QED
  BY <1>7, <1>8, <1>9 DEF m, r

LEMMA FilledSteps ==
    ASSUME NEW fills \in Seq(FillRows), NEW i
    PROVE  /\ FilledOf(<<>>, i) = 0
           /\ FilledOf(fills, i) \in Int
           /\ \A row \in FillRows :
                 FilledOf(Append(fills, row), i)
                     = FilledOf(fills, i) + (IF row.maker = i THEN row.volume ELSE 0)
<1> DEFINE h == Counting(i)
<1>0. h \in [Int \X FillRows -> Int] /\ 0 \in Int
  BY CountingType
<1>1. FilledOf(<<>>, i) = 0
  <2>1. <<>> \in Seq(FillRows) /\ Len(<<>>) = 0
    OBVIOUS
  <2>2. FilledOf(<<>>, i) = Ran(h, 0, <<>>, 0)
    BY <2>1, FilledOfIs
  <2> QED
    BY <2>2, RanStep
<1>2. Len(fills) \in Nat /\ \A x \in 1..Len(fills) : fills[x] \in FillRows
  OBVIOUS
<1>3. FilledOf(fills, i) = Ran(h, 0, fills, Len(fills))
  BY FilledOfIs
<1> HIDE DEF h
<1>4. FilledOf(fills, i) \in Int
  <2> DEFINE n == Len(fills)
  <2>1. n \in Nat /\ \A x \in 1..n : fills[x] \in FillRows
    BY <1>2
  <2> HIDE DEF n
  <2>2. Ran(h, 0, fills, n) \in Int
    BY <1>0, <2>1, RanTyped
  <2> QED
    BY <1>3, <2>2 DEF n
<1>5. ASSUME NEW row \in FillRows
      PROVE  FilledOf(Append(fills, row), i)
                 = FilledOf(fills, i) + (IF row.maker = i THEN row.volume ELSE 0)
  <2> DEFINE s == Append(fills, row)
             n == Len(fills)
  <2>1. /\ s \in Seq(FillRows) /\ Len(s) = n + 1 /\ s[n + 1] = row
        /\ \A x \in 1..n : s[x] = fills[x]
    BY <1>2
  <2> HIDE DEF s, n
  <2>2. FilledOf(s, i) = Ran(h, 0, s, n + 1)
    BY <2>1, FilledOfIs DEF h
  <2>3. n \in Nat
    BY <1>2 DEF n
  <2>4. Ran(h, 0, s, n + 1) = h[<<Ran(h, 0, s, n), s[n + 1]>>]
    BY <2>3, RanStep
  <2>5. Ran(h, 0, s, n) = Ran(h, 0, fills, n)
    BY <2>1, <2>3, RanSame
  <2>6. FilledOf(s, i) = h[<<FilledOf(fills, i), row>>]
    BY <1>3, <2>1, <2>2, <2>4, <2>5 DEF n
  <2>7. h[<<FilledOf(fills, i), row>>]
            = IF row.maker = i THEN FilledOf(fills, i) + row.volume ELSE FilledOf(fills, i)
    BY <1>4 DEF h, Counting
  <2> QED
    BY <1>4, <2>6, <2>7 DEF s
<1> QED
  BY <1>1, <1>4, <1>5

LEMMA SumZero ==
    ASSUME NEW f, NEW S, IsFiniteSet(S), \A x \in S : f[x] = 0
    PROVE  SumOf(f, S) = 0
<1> DEFINE g == [s \in SUBSET S |-> 0]
<1>1. g = Fold(f, S, g)
  <2>1. ASSUME NEW s \in SUBSET S PROVE g[s] = Fold(f, S, g)[s]
    <3>1. CASE s # {}
      <4>1. Pick(s) \in s
        BY <3>1 DEF Pick
      <4>2. f[Pick(s)] = 0 /\ g[s \ {Pick(s)}] = 0
        BY <4>1
      <4> QED
        BY <3>1, <4>2 DEF Fold
    <3>2. CASE s = {}
      BY <3>2 DEF Fold
    <3> QED
      BY <3>1, <3>2
  <2>2. Fold(f, S, g) = [s \in SUBSET S |-> Fold(f, S, g)[s]]
    <3> HIDE DEF g
    <3> QED
      BY DEF Fold
  <2>3. g = [s \in SUBSET S |-> g[s]]
    OBVIOUS
  <2> HIDE DEF g
  <2> QED
    BY <2>1, <2>2, <2>3
<1>2. g[S] = 0
  OBVIOUS
<1> HIDE DEF g
<1> QED
  BY <1>1, <1>2, SumIs

\* One summand grows.
LEMMA SumBump ==
    ASSUME NEW f, NEW h, NEW S, IsFiniteSet(S), NEW x \in S, NEW v \in Int,
           \A y \in S : f[y] \in Int, \A y \in S : y # x => h[y] = f[y], h[x] = f[x] + v
    PROVE  SumOf(h, S) = SumOf(f, S) + v
<1>1. f[x] \in Int /\ h[x] \in Int /\ \A y \in S : h[y] \in Int
  OBVIOUS
<1>2. SumOf(f, S) = f[x] + SumOf(f, S \ {x})
  BY SumTakes
<1>3. SumOf(h, S) = h[x] + SumOf(h, S \ {x})
  BY <1>1, SumTakes
<1>4. IsFiniteSet(S \ {x})
  BY FS_Subset
<1>5. SumOf(f, S \ {x}) \in Int
  BY <1>4, SumType
<1>6. SumOf(h, S \ {x}) = SumOf(f, S \ {x})
  <2> DEFINE T == S \ {x}
  <2>1. \A y \in T : h[y] = f[y]
    OBVIOUS
  <2>2. IsFiniteSet(T)
    BY <1>4
  <2> HIDE DEF T
  <2>3. SumOf(h, T) = SumOf(f, T)
    BY <2>1, <2>2, SumAgrees
  <2> QED
    BY <2>3 DEF T
<1> DEFINE rest == SumOf(f, S \ {x})
<1>7. rest \in Int /\ SumOf(f, S) = f[x] + rest /\ SumOf(h, S) = h[x] + rest
  BY <1>2, <1>3, <1>5, <1>6
<1> HIDE DEF rest
<1> QED
  BY <1>1, <1>7

-----------------------------------------------------------------------------
(* The loop.  After k candidates: what the taker still lacks, what each     *)
(* resting order gave, and that nobody gave before those ahead were empty.  *)

Reached(taker, book, k) == {i \in EligibleIn(taker, book) : Rank(taker, book, i) <= k}
StateAt(taker, book, k) == Ran(Taking(taker), Untouched(taker), Candidates(taker, book), k)
TotalAt(taker, book, k) == Ran(Adding, 0, Candidates(taker, book), k)
GotAt(taker, book, k) == [i \in DOMAIN book |-> FilledOf(StateAt(taker, book, k).fills, i)]
OfferedAt(taker, book, k) ==
    [i \in DOMAIN book |-> IF i \in Reached(taker, book, k) THEN book[i].remaining ELSE 0]

LoopOK(taker, book, k) ==
    LET state == StateAt(taker, book, k)
        total == TotalAt(taker, book, k)
        got == GotAt(taker, book, k)
        reached == Reached(taker, book, k)
    IN  /\ state \in States /\ total \in Nat
        /\ state.left = IF total <= taker.remaining THEN taker.remaining - total ELSE 0
        /\ \A i \in DOMAIN book : got[i] \in Nat /\ (i \notin reached => got[i] = 0)
        /\ \A i \in reached : /\ got[i] <= book[i].remaining
                              /\ state.left > 0 => got[i] = book[i].remaining
        /\ \A i, j \in reached :
              (Rank(taker, book, i) < Rank(taker, book, j) /\ got[j] > 0)
                  => got[i] = book[i].remaining
        /\ taker.remaining = state.left + SumOf(got, DOMAIN book)
        /\ total = SumOf(OfferedAt(taker, book, k), DOMAIN book)

LEMMA LoopStarts ==
    ASSUME NEW taker \in BookOrders, NEW book \in Books
    PROVE  LoopOK(taker, book, 0)
<1> DEFINE state == StateAt(taker, book, 0)
           total == TotalAt(taker, book, 0)
           got == GotAt(taker, book, 0)
           offered == OfferedAt(taker, book, 0)
           D == DOMAIN book
<1>1. book \in Seq(BookOrders)
  BY DEF Books
<1>2. state = Untouched(taker) /\ total = 0
  BY RanStep DEF StateAt, TotalAt
<1>3. /\ state \in States /\ state.fills = <<>> /\ state.left = taker.remaining
      /\ taker.remaining \in Nat
  <2>1. taker.remaining \in Nat
    BY DEF BookOrders
  <2>2. <<>> \in Seq(FillRows)
    OBVIOUS
  <2>3. state = [fills |-> <<>>, left |-> taker.remaining]
    BY <1>2 DEF Untouched
  <2> HIDE DEF state
  <2> QED
    BY <2>1, <2>2, <2>3 DEF States
<1>4. Reached(taker, book, 0) = {}
  BY <1>1, Ranks DEF Reached
<1>5. \A i \in D : got[i] = 0
  <2>1. ASSUME NEW i \in D PROVE got[i] = 0
    <3>1. got[i] = FilledOf(state.fills, i)
      BY DEF GotAt
    <3>2. <<>> \in Seq(FillRows)
      OBVIOUS
    <3> HIDE DEF state, got
    <3>3. FilledOf(<<>>, i) = 0
      BY <3>2, FilledSteps
    <3> QED
      BY <1>3, <3>1, <3>3
  <2> QED
    BY <2>1
<1>6. \A i \in D : offered[i] = 0
  BY <1>4 DEF OfferedAt
<1>7. IsFiniteSet(D)
  BY <1>1, EligibleFinite
<1> HIDE DEF D, got, offered, state, total
<1>8. SumOf(got, D) = 0 /\ SumOf(offered, D) = 0
  BY <1>5, <1>6, <1>7, SumZero
<1>9. /\ state.left = IF total <= taker.remaining THEN taker.remaining - total ELSE 0
      /\ taker.remaining = state.left + SumOf(got, D)
      /\ total = SumOf(offered, D) /\ total \in Nat
      /\ \A i \in D : got[i] \in Nat
  BY <1>2, <1>3, <1>5, <1>8
<1> QED
  BY <1>3, <1>4, <1>5, <1>9 DEF LoopOK, D, got, offered, state, total

LEMMA LeftStep ==
    ASSUME NEW asked \in Nat, NEW left \in Nat, NEW total \in Nat, NEW more \in Nat, NEW v,
           left = IF total <= asked THEN asked - total ELSE 0,
           v = IF left < more THEN left ELSE more
    PROVE  left - v = IF total + more <= asked THEN asked - (total + more) ELSE 0
OBVIOUS

LEMMA LoopSteps ==
    ASSUME NEW taker \in BookOrders, NEW book \in Books, NEW k \in Nat,
           k < Len(Candidates(taker, book)), LoopOK(taker, book, k)
    PROVE  LoopOK(taker, book, k + 1)
<1> DEFINE c == Candidates(taker, book)
           E == EligibleIn(taker, book)
           R(i) == Rank(taker, book, i)
           state == StateAt(taker, book, k)
           total == TotalAt(taker, book, k)
           got == GotAt(taker, book, k)
           offered == OfferedAt(taker, book, k)
           reached == Reached(taker, book, k)
           state2 == StateAt(taker, book, k + 1)
           total2 == TotalAt(taker, book, k + 1)
           got2 == GotAt(taker, book, k + 1)
           offered2 == OfferedAt(taker, book, k + 1)
           reached2 == Reached(taker, book, k + 1)
           D == DOMAIN book
<1>1. book \in Seq(BookOrders) /\ \A i \in D : book[i].id = i /\ book[i] \in BookOrders
  BY DEF Books
<1>2. PICK x \in E : R(x) = k + 1 /\ c[k + 1] = book[x]
  <2>1. k + 1 \in 1..Len(c)
    <3>1. Len(c) \in Nat
      BY <1>1, CandidatesAre
    <3> HIDE DEF c
    <3> QED
      BY <3>1 DEF c
  <2> QED
    BY <1>1, <2>1, CandidatesAre
<1>3. x \in D /\ book[x].remaining \in Nat /\ book[x].remaining > 0 /\ taker.remaining \in Nat
  BY <1>1 DEF EligibleIn, Eligible, BookOrders
<1>4. \A i \in E : R(i) \in Nat /\ (R(i) = R(x) => i = x)
  BY <1>1, Ranks
<1>5. reached2 = reached \cup {x} /\ x \notin reached /\ \A i \in reached : R(i) < R(x) /\ i \in E
  BY <1>2, <1>4 DEF Reached
<1>6. /\ state \in States /\ total \in Nat
      /\ state.left = IF total <= taker.remaining THEN taker.remaining - total ELSE 0
      /\ \A i \in D : got[i] \in Nat /\ (i \notin reached => got[i] = 0)
      /\ \A i \in reached : /\ got[i] <= book[i].remaining
                            /\ state.left > 0 => got[i] = book[i].remaining
      /\ \A i, j \in reached : (R(i) < R(j) /\ got[j] > 0) => got[i] = book[i].remaining
      /\ taker.remaining = state.left + SumOf(got, D)
      /\ total = SumOf(offered, D)
  BY DEF LoopOK
<1>7. state2 = Take(taker, state, book[x])
  <2>1. state2 = Taking(taker)[<<state, c[k + 1]>>]
    BY RanStep DEF StateAt
  <2> HIDE DEF state, c, state2
  <2> QED
    BY <1>1, <1>2, <1>3, <1>6, <2>1 DEF Taking
<1>8. total2 = total + book[x].remaining
  <2>1. total2 = Adding[<<total, c[k + 1]>>]
    BY RanStep DEF TotalAt
  <2> HIDE DEF total, c, total2
  <2> QED
    BY <1>1, <1>2, <1>3, <1>6, <2>1 DEF Adding
<1> DEFINE v == Given(state, book[x])
<1>9. /\ state2 \in States /\ v \in Nat
      /\ v = IF state.left < book[x].remaining THEN state.left ELSE book[x].remaining
      /\ state2.left = state.left - v
      /\ v = 0 => state2 = state
      /\ v # 0 => \E row \in FillRows : /\ row.maker = x /\ row.volume = v
                                        /\ state2.fills = Append(state.fills, row)
  <2> HIDE DEF state, state2
  <2>1. state.left \in Nat /\ v = IF state.left < book[x].remaining THEN state.left ELSE book[x].remaining
    BY <1>6 DEF States, Given
  <2>2. book[x] \in BookOrders /\ book[x].id = x
    BY <1>1, <1>3
  <2> HIDE DEF v
  <2> QED
    <3>1. state \in States /\ state2 = Take(taker, state, book[x])
      BY <1>6, <1>7
    <3>2. /\ Take(taker, state, book[x]) \in States
          /\ Given(state, book[x]) = 0 => Take(taker, state, book[x]) = state
          /\ Given(state, book[x]) # 0 =>
                /\ Take(taker, state, book[x]).left = state.left - Given(state, book[x])
                /\ \E row \in FillRows :
                      /\ row.maker = book[x].id /\ row.volume = Given(state, book[x])
                      /\ Take(taker, state, book[x]).fills = Append(state.fills, row)
          /\ Given(state, book[x]) \in Nat
      BY <2>2, <3>1, TakeIs
    <3>3. v = Given(state, book[x])
      BY DEF v
    <3>4. v \in Nat /\ state2 \in States /\ (v = 0 => state2 = state)
      BY <3>1, <3>2, <3>3
    <3>5. v # 0 => /\ state2.left = state.left - v
                   /\ \E row \in FillRows : /\ row.maker = x /\ row.volume = v
                                            /\ state2.fills = Append(state.fills, row)
      BY <2>2, <3>1, <3>2, <3>3
    <3>6. state2.left = state.left - v
      BY <2>1, <3>4, <3>5
    <3> QED
      BY <2>1, <3>4, <3>5, <3>6
<1>10. ASSUME NEW i \in D PROVE got2[i] = got[i] + (IF i = x THEN v ELSE 0)
  <2>1. got[i] = FilledOf(state.fills, i) /\ got2[i] = FilledOf(state2.fills, i)
    BY DEF GotAt
  <2>2. state.fills \in Seq(FillRows) /\ got[i] \in Nat
    BY <1>6 DEF States
  <2> HIDE DEF state, state2, got, got2, v, D
  <2>3. CASE v = 0
    BY <1>9, <2>1, <2>2, <2>3
  <2>4. CASE v # 0
    <3>1. PICK row \in FillRows : /\ row.maker = x /\ row.volume = v
                                  /\ state2.fills = Append(state.fills, row)
      BY <1>9, <2>4
    <3>2. got2[i] = got[i] + (IF row.maker = i THEN row.volume ELSE 0)
      BY <2>1, <2>2, <3>1, FilledSteps
    <3> QED
      BY <3>1, <3>2
  <2> QED
    BY <2>3, <2>4
<1>11. /\ \A i \in D : i # x => offered2[i] = offered[i]
       /\ offered[x] = 0 /\ offered2[x] = book[x].remaining
       /\ \A i \in D : offered[i] \in Int
  <2> HIDE DEF reached, reached2
  <2>1. \A i \in D : book[i].remaining \in Int
    BY <1>1 DEF BookOrders
  <2> QED
    BY <1>3, <1>5, <2>1 DEF OfferedAt, reached, reached2
<1>12. IsFiniteSet(D)
  BY <1>1, EligibleFinite
<1> HIDE DEF c, E, R, state, total, got, offered, reached, state2, total2, got2, offered2,
             reached2, D, v
<1>13. SumOf(offered2, D) = SumOf(offered, D) + book[x].remaining
  BY <1>3, <1>11, <1>12, SumBump
<1>14. SumOf(got2, D) = SumOf(got, D) + v
  <2>1. /\ \A i \in D : got[i] \in Int
        /\ \A i \in D : i # x => got2[i] = got[i]
        /\ got2[x] = got[x] + v /\ v \in Int
    BY <1>3, <1>6, <1>9, <1>10
  <2> QED
    BY <1>3, <1>12, <2>1, SumBump
<1>15. SumOf(got, D) \in Int /\ state.left \in Nat
  <2>1. \A i \in D : got[i] \in Int
    BY <1>6
  <2> QED
    BY <1>6, <1>12, <2>1, SumType DEF States
<1>16. /\ total2 \in Nat
       /\ state2.left = IF total2 <= taker.remaining THEN taker.remaining - total2 ELSE 0
       /\ total2 = SumOf(offered2, D)
  <2>1. /\ taker.remaining \in Nat /\ book[x].remaining \in Nat /\ total \in Nat
        /\ state.left \in Nat
        /\ state.left = IF total <= taker.remaining THEN taker.remaining - total ELSE 0
        /\ v = IF state.left < book[x].remaining THEN state.left ELSE book[x].remaining
    BY <1>3, <1>6, <1>9, <1>15
  <2>2. state.left - v = IF total + book[x].remaining <= taker.remaining
                         THEN taker.remaining - (total + book[x].remaining) ELSE 0
    BY <2>1, LeftStep
  <2>3. total + book[x].remaining \in Nat /\ total = SumOf(offered, D)
    BY <1>6, <2>1
  <2> QED
    BY <1>8, <1>9, <1>13, <2>2, <2>3
<1>17. taker.remaining = state2.left + SumOf(got2, D)
  <2>1. /\ SumOf(got, D) \in Int /\ state.left \in Int /\ v \in Int
        /\ taker.remaining = state.left + SumOf(got, D)
        /\ state2.left = state.left - v /\ SumOf(got2, D) = SumOf(got, D) + v
    <3>1. v \in Int /\ state2.left = state.left - v
      BY <1>9
    <3>2. taker.remaining = state.left + SumOf(got, D)
      BY <1>6
    <3> QED
      BY <1>14, <1>15, <3>1, <3>2
  <2> QED
    BY <2>1
<1>18. \A i \in D : got2[i] \in Nat /\ (i \notin reached2 => got2[i] = 0)
  BY <1>5, <1>6, <1>9, <1>10
<1>19. got[x] = 0 /\ got2[x] = v /\ \A i \in reached : i \in D /\ i # x /\ got2[i] = got[i]
  <2>1. \A i \in reached : i \in D /\ i # x
    BY <1>1, <1>5, EligibleFinite DEF E, D
  <2> QED
    BY <1>3, <1>5, <1>6, <1>9, <1>10, <2>1
<1>20. \A i \in reached2 : /\ got2[i] <= book[i].remaining
                           /\ state2.left > 0 => got2[i] = book[i].remaining
  <2>1. /\ state.left \in Nat /\ book[x].remaining \in Nat /\ v \in Nat
        /\ v = IF state.left < book[x].remaining THEN state.left ELSE book[x].remaining
        /\ state2.left = state.left - v /\ got2[x] = v
    BY <1>3, <1>9, <1>15, <1>19
  <2>2. v <= book[x].remaining /\ (state2.left > 0 => v = book[x].remaining)
    BY <2>1
  <2>3. state2.left > 0 => state.left > 0
    BY <2>1
  <2>4. \A i \in reached : got[i] <= book[i].remaining
    BY <1>6
  <2>5. \A i \in reached : state.left > 0 => got[i] = book[i].remaining
    BY <1>6
  <2>6. \A i \in reached : got2[i] = got[i]
    BY <1>19
  <2>7. \A i \in reached : got2[i] <= book[i].remaining
    BY <2>4, <2>6
  <2>8. \A i \in reached : state2.left > 0 => got2[i] = book[i].remaining
    BY <2>3, <2>5, <2>6
  <2> QED
    BY <1>5, <2>1, <2>2, <2>7, <2>8
<1>21. \A i, j \in reached2 : (R(i) < R(j) /\ got2[j] > 0) => got2[i] = book[i].remaining
  <2> SUFFICES ASSUME NEW i \in reached2, NEW j \in reached2, R(i) < R(j), got2[j] > 0
               PROVE  got2[i] = book[i].remaining
    OBVIOUS
  <2>1. i \in reached
    <3>1. \A y \in reached : R(y) < R(x) /\ R(y) \in Nat
      BY <1>4, <1>5
    <3>2. R(x) \in Nat
      BY <1>4
    <3> QED
      BY <1>5, <3>1, <3>2
  <2>2. CASE j = x
    <3>1. v > 0 /\ state.left \in Nat /\ book[x].remaining \in Nat
      BY <1>3, <1>15, <1>19, <2>2
    <3>2. v = IF state.left < book[x].remaining THEN state.left ELSE book[x].remaining
      BY <1>9
    <3>3. state.left > 0
      BY <1>3, <3>1, <3>2
    <3>4. got2[i] = got[i] /\ got[i] = book[i].remaining
      BY <1>6, <1>19, <2>1, <3>3
    <3> QED
      BY <3>4
  <2>3. CASE j \in reached
    BY <1>6, <1>19, <2>1, <2>3
  <2> QED
    BY <1>5, <2>2, <2>3
<1> QED
  BY <1>9, <1>16, <1>17, <1>18, <1>20, <1>21
     DEF LoopOK, c, E, R, state, total, got, offered, reached, state2, total2, got2, offered2,
         reached2, D

LEMMA LoopHolds ==
    ASSUME NEW taker \in BookOrders, NEW book \in Books,
           NEW n \in 0..Len(Candidates(taker, book))
    PROVE  LoopOK(taker, book, n)
<1> DEFINE N == Len(Candidates(taker, book))
           S == {k \in 0..N : LoopOK(taker, book, k)}
<1>1. N \in Nat
  BY CandidatesAre DEF Books
<1>2. 0 \in S
  BY <1>1, LoopStarts
<1>3. ASSUME NEW k \in 0..N, k < N, k \in S PROVE k + 1 \in S
  <2>1. LoopOK(taker, book, k + 1)
    BY <1>1, <1>3, LoopSteps
  <2> HIDE DEF N
  <2> QED
    BY <1>1, <1>3, <2>1
<1>4. \A k \in 0..N : k \in S
  <2> HIDE DEF S, N
  <2> QED
    BY <1>1, <1>2, <1>3, Climb
<1> QED
  BY <1>4

-----------------------------------------------------------------------------
(* The call.                                                                *)

LEMMA LoopsAre ==
    ASSUME NEW taker \in BookOrders, NEW book \in Books
    PROVE  LET c == Candidates(taker, book)
               n == Reach(taker, c)
           IN  /\ n \in 0..Len(c)
               /\ Fills(taker, c) = StateAt(taker, book, n)
               /\ Killed(taker, c) <=> /\ taker.type = "fok"
                                       /\ TotalAt(taker, book, n) < taker.remaining
<1> DEFINE c == Candidates(taker, book)
           n == Reach(taker, c)
           s == SubSeq(c, 1, n)
<1>1. c \in Seq(BookOrders)
  BY CandidatesAre DEF Books
<1>2. n \in 0..Len(c)
  <2> HIDE DEF c
  <2> QED
    BY <1>1, ReachIs
<1> HIDE DEF c, n
<1>3. s \in Seq(BookOrders) /\ Len(s) = n /\ n \in Nat /\ \A x \in 1..n : s[x] = c[x]
  BY <1>1, <1>2
<1> HIDE DEF s
<1>4. FillsOf(taker, s) = StateAt(taker, book, n)
  <2>1. FillsOf(taker, s) = Ran(Taking(taker), Untouched(taker), s, n)
    BY <1>3, FillsAre
  <2> QED
    BY <1>3, <2>1, RanSame DEF StateAt, c
<1>5. TotalOf(s) = TotalAt(taker, book, n)
  <2>1. TotalOf(s) = Ran(Adding, 0, s, n)
    BY <1>3, TotalIs
  <2> QED
    BY <1>3, <2>1, RanSame DEF TotalAt, c
<1>6. Fills(taker, c) = FillsOf(taker, s)
  BY DEF Fills, FillsOf, s, n
<1>7. Killed(taker, c) <=> taker.type = "fok" /\ TotalOf(s) < taker.remaining
  BY DEF Killed, TotalOf, s, n
<1> QED
  BY <1>2, <1>4, <1>5, <1>6, <1>7 DEF c, n

\* The book with its places as ids: the same orders otherwise.
LEMMA NumberedIs ==
    ASSUME NEW taker, NEW book \in Seq(BookOrders)
    PROVE  /\ Numbered(book) \in Books /\ DOMAIN Numbered(book) = DOMAIN book
           /\ \A i \in DOMAIN book :
                 /\ Numbered(book)[i] \in BookOrders
                 /\ Numbered(book)[i].price = book[i].price
                 /\ Numbered(book)[i].posted = book[i].posted
                 /\ Numbered(book)[i].remaining = book[i].remaining
                 /\ Eligible(taker, Numbered(book)[i]) <=> Eligible(taker, book[i])
                 /\ Within(taker, Numbered(book)[i]) <=> Within(taker, book[i])
<1> DEFINE b == Numbered(book)
           m == Len(book)
<1>1. /\ m \in Nat /\ DOMAIN book = 1..m
      /\ \A i \in DOMAIN book : book[i] \in BookOrders
  OBVIOUS
<1>2. b = [i \in DOMAIN book |-> [book[i] EXCEPT !.id = i]]
  BY DEF Numbered
<1>3. ASSUME NEW i \in DOMAIN book
      PROVE  /\ b[i] \in BookOrders /\ b[i].id = i /\ b[i].price = book[i].price
             /\ b[i].posted = book[i].posted /\ b[i].remaining = book[i].remaining
             /\ b[i].side = book[i].side /\ b[i].shard = book[i].shard
             /\ b[i].owner = book[i].owner
  <2>1. b[i] = [book[i] EXCEPT !.id = i] /\ i \in Nat /\ book[i] \in BookOrders
    BY <1>1, <1>2
  <2> HIDE DEF b
  <2> QED
    BY <2>1 DEF BookOrders
<1> HIDE DEF b, m
<1>4. b \in Books
  <2>1. b \in [1..m -> BookOrders]
    BY <1>1, <1>2, <1>3
  <2>2. b \in Seq(BookOrders)
    BY <1>1, <2>1, IsSequence
  <2> QED
    BY <1>1, <1>2, <1>3, <2>2 DEF Books
<1>5. DOMAIN b = DOMAIN book
  BY <1>2
<1>6. ASSUME NEW i \in DOMAIN book
      PROVE  /\ Eligible(taker, b[i]) <=> Eligible(taker, book[i])
             /\ Within(taker, b[i]) <=> Within(taker, book[i])
  BY <1>3 DEF Eligible, Within
<1> QED
  BY <1>3, <1>4, <1>5, <1>6 DEF b

\* What a call returns.
LEMMA ResultIs ==
    ASSUME snapshot \in Calls, snapshot # Null
    PROVE  LET taker == snapshot.taker
               book == snapshot.book
               b == Numbered(book)
               n == Reach(taker, Candidates(taker, b))
               killed == taker.type = "fok" /\ TotalAt(taker, b, n) < taker.remaining
           IN  /\ taker \in BookOrders /\ book \in Seq(BookOrders)
               /\ n \in 0..Len(Candidates(taker, b)) /\ LoopOK(taker, b, n)
               /\ Result = IF killed THEN Untouched(taker) ELSE StateAt(taker, b, n)
<1> DEFINE taker == snapshot.taker
           book == snapshot.book
           b == Numbered(book)
           n == Reach(taker, Candidates(taker, b))
<1>1. taker \in BookOrders /\ book \in Seq(BookOrders)
  <2>1. /\ snapshot.taker \in Takers
        /\ snapshot.book \in UNION {[1..k -> Makers] : k \in 0..MaxBook}
    BY DEF Calls
  <2>2. PICK k \in 0..MaxBook : snapshot.book \in [1..k -> Makers]
    BY <2>1
  <2>3. Makers \subseteq BookOrders /\ Takers \subseteq BookOrders /\ k \in Nat
    BY MatchingAssumption
  <2>4. snapshot.book \in [1..k -> BookOrders]
    BY <2>2, <2>3
  <2>5. snapshot.book \in Seq(BookOrders)
    BY <2>3, <2>4, IsSequence
  <2> QED
    BY <2>1, <2>3, <2>5
<1> HIDE DEF taker, book
<1>2. b \in Books
  BY <1>1, NumberedIs
<1> HIDE DEF b
<1>3. /\ n \in 0..Len(Candidates(taker, b))
      /\ Fills(taker, Candidates(taker, b)) = StateAt(taker, b, n)
      /\ Killed(taker, Candidates(taker, b)) <=> /\ taker.type = "fok"
                                                 /\ TotalAt(taker, b, n) < taker.remaining
  BY <1>1, <1>2, LoopsAre
<1>4. LoopOK(taker, b, n)
  <2> HIDE DEF n
  <2> QED
    BY <1>1, <1>2, <1>3, LoopHolds
<1>5. Result = IF Killed(taker, Candidates(taker, b))
               THEN [fills |-> <<>>, left |-> taker.remaining]
               ELSE Fills(taker, Candidates(taker, b))
  BY DEF Result, matchOrder, taker, b, book
<1>6. Untouched(taker) = [fills |-> <<>>, left |-> taker.remaining]
  BY DEF Untouched
<1> QED
  BY <1>1, <1>3, <1>4, <1>5, <1>6 DEF taker, b, book

LEMMA Priority ==
    ASSUME snapshot \in Calls
    PROVE  PriceTimePriority
<1> DEFINE taker == snapshot.taker
           book == snapshot.book
           b == Numbered(book)
           n == Reach(taker, Candidates(taker, b))
           killed == taker.type = "fok" /\ TotalAt(taker, b, n) < taker.remaining
           fills == Result.fills
           Better(x, y) == \/ taker.side = "buy" /\ x.price < y.price
                           \/ taker.side = "sell" /\ x.price > y.price
                           \/ x.price = y.price /\ x.posted < y.posted
           D == DOMAIN book
<1> SUFFICES ASSUME snapshot # Null,
                    NEW i \in D, NEW j \in D,
                    Eligible(taker, book[i]), book[i].price # Null,
                    IF book[j].price = Null THEN Within(taker, book[i])
                    ELSE Better(book[i], book[j]),
                    FilledOf(fills, j) > 0
             PROVE  FilledOf(fills, i) = book[i].remaining
  BY DEF PriceTimePriority
<1>1. /\ taker \in BookOrders /\ book \in Seq(BookOrders)
      /\ n \in 0..Len(Candidates(taker, b)) /\ LoopOK(taker, b, n)
      /\ Result = IF killed THEN Untouched(taker) ELSE StateAt(taker, b, n)
  BY ResultIs
<1>2. /\ b \in Books /\ DOMAIN b = D
      /\ b[i] \in BookOrders /\ b[j] \in BookOrders
      /\ b[i].price = book[i].price /\ b[j].price = book[j].price
      /\ b[i].posted = book[i].posted /\ b[j].posted = book[j].posted
      /\ b[i].remaining = book[i].remaining
      /\ Eligible(taker, b[i])
  BY <1>1, NumberedIs
<1> HIDE DEF taker, book, b, n, D
<1>3. ~killed
  <2> SUFFICES ASSUME killed PROVE FALSE
    OBVIOUS
  <2>1. fills = <<>>
    BY <1>1 DEF Untouched
  <2>2. <<>> \in Seq(FillRows)
    OBVIOUS
  <2>3. FilledOf(<<>>, j) = 0
    BY <2>2, FilledSteps
  <2> HIDE DEF fills
  <2> QED
    BY <2>1, <2>3
<1> DEFINE got == GotAt(taker, b, n)
           reached == Reached(taker, b, n)
           R(x) == Rank(taker, b, x)
<1>4. got[i] = FilledOf(fills, i) /\ got[j] = FilledOf(fills, j)
  <2>1. fills = StateAt(taker, b, n).fills
    BY <1>1, <1>3
  <2> HIDE DEF fills
  <2> QED
    BY <1>2, <2>1 DEF GotAt
<1> HIDE DEF fills, killed
<1>5. /\ j \notin reached => got[j] = 0
      /\ \A x, y \in reached : (R(x) < R(y) /\ got[y] > 0) => got[x] = b[x].remaining
  BY <1>1, <1>2 DEF LoopOK
<1>6. got[j] > 0 /\ j \in reached
  BY <1>4, <1>5
<1>7. j \in EligibleIn(taker, b) /\ R(j) <= n /\ i \in EligibleIn(taker, b)
  BY <1>2, <1>6 DEF Reached, EligibleIn
<1>8. Preferred(taker.side, b[i], b[j])
  <2>1. /\ book[i].price \in Int \cup {Null} /\ book[j].price \in Int \cup {Null}
        /\ taker.side \in {"buy", "sell"}
    BY <1>1, <1>2 DEF BookOrders
  <2>2. CASE book[j].price = Null
    BY <1>2, <2>2 DEF Preferred, BetterPrice
  <2>3. CASE book[j].price # Null
    BY <1>2, <2>1, <2>3 DEF Preferred, BetterPrice
  <2> QED
    BY <2>2, <2>3
<1>9. R(i) < R(j)
  <2>1. Ahead(taker.side, b, i, j)
    BY <1>8 DEF Ahead
  <2>2. b \in Seq(BookOrders)
    BY <1>2 DEF Books
  <2> QED
    BY <1>1, <1>7, <2>1, <2>2, Ranks
<1>10. R(i) \in Int /\ R(j) \in Int /\ n \in Int
  <2>1. b \in Seq(BookOrders)
    BY <1>2 DEF Books
  <2>2. /\ R(i) \in 1..Cardinality(EligibleIn(taker, b))
        /\ R(j) \in 1..Cardinality(EligibleIn(taker, b))
    BY <1>1, <1>7, <2>1, Ranks
  <2> QED
    BY <1>1, <2>2
<1>11. i \in reached
  BY <1>7, <1>9, <1>10 DEF Reached
<1> QED
  BY <1>2, <1>4, <1>5, <1>6, <1>9, <1>11

-----------------------------------------------------------------------------
(* What is offered and what is filled, in sum.                              *)

OfferTo(taker, book, i) ==
    IF Eligible(taker, book[i]) /\ Within(taker, book[i]) THEN book[i].remaining ELSE 0
OfferedBy(taker, book, S) == MapThenSumSet(LAMBDA i : OfferTo(taker, book, i), S)
FilledBy(fills, S) == MapThenSumSet(LAMBDA i : FilledOf(fills, i), S)

LEMMA OfferedSum ==
    ASSUME NEW taker, NEW book, NEW S, IsFiniteSet(S)
    PROVE  OfferedBy(taker, book, S) = SumOf([i \in S |-> OfferTo(taker, book, i)], S)
<1> DEFINE f == [i \in S |-> OfferTo(taker, book, i)]
           Own(g) == [s \in SUBSET S |-> IF s = {} THEN 0
                                         ELSE OfferTo(taker, book, Pick(s)) + g[s \ {Pick(s)}]]
           c == CHOOSE g : g = Own(g)
<1>1. OfferedBy(taker, book, S) = c[S]
  BY Zenon DEF OfferedBy, MapThenSumSet, MapThenFoldSet, Pick
<1>2. ASSUME NEW g PROVE Own(g) = Fold(f, S, g)
  <2>1. \A s \in SUBSET S : s # {} => f[Pick(s)] = OfferTo(taker, book, Pick(s))
    BY DEF Pick
  <2> HIDE DEF f
  <2> QED
    BY <2>1 DEF Fold
<1>3. PICK g : g = Fold(f, S, g)
  BY FoldExists
<1>4. c = Own(c)
  <2>1. \E k : k = Own(k)
    BY <1>2, <1>3
  <2> QED
    BY <2>1
<1> HIDE DEF c, f, Own
<1>5. c = Fold(f, S, c)
  BY <1>2, <1>4
<1>6. SumOf(f, S) = c[S]
  BY <1>5, SumIs
<1> QED
  BY <1>1, <1>6 DEF f

LEMMA FilledSum ==
    ASSUME NEW fills, NEW S, IsFiniteSet(S)
    PROVE  FilledBy(fills, S) = SumOf([i \in S |-> FilledOf(fills, i)], S)
<1> DEFINE f == [i \in S |-> FilledOf(fills, i)]
           Own(g) == [s \in SUBSET S |-> IF s = {} THEN 0
                                         ELSE FilledOf(fills, Pick(s)) + g[s \ {Pick(s)}]]
           c == CHOOSE g : g = Own(g)
<1>1. FilledBy(fills, S) = c[S]
  BY Zenon DEF FilledBy, MapThenSumSet, MapThenFoldSet, Pick
<1>2. ASSUME NEW g PROVE Own(g) = Fold(f, S, g)
  <2>1. \A s \in SUBSET S : s # {} => f[Pick(s)] = FilledOf(fills, Pick(s))
    BY DEF Pick
  <2> HIDE DEF f
  <2> QED
    BY <2>1 DEF Fold
<1>3. PICK g : g = Fold(f, S, g)
  BY FoldExists
<1>4. c = Own(c)
  <2>1. \E k : k = Own(k)
    BY <1>2, <1>3
  <2> QED
    BY <2>1
<1> HIDE DEF c, f, Own
<1>5. c = Fold(f, S, c)
  BY <1>2, <1>4
<1>6. SumOf(f, S) = c[S]
  BY <1>5, SumIs
<1> QED
  BY <1>1, <1>6 DEF f

\* An order within the limit is one that crosses; and in a book of priced ones
\* who does not cross has none that cross behind it.
LEMMA CrossesIs ==
    ASSUME NEW taker \in BookOrders, NEW x \in BookOrders, NEW y \in BookOrders,
           x.price # Null, y.price # Null
    PROVE  /\ Crosses(taker, x) <=> Within(taker, x)
           /\ (Crosses(taker, x) /\ ~Crosses(taker, y)) => Preferred(taker.side, x, y)
<1>1. /\ taker.price \in Int \cup {Null} /\ x.price \in Int /\ y.price \in Int
      /\ taker.side \in {"buy", "sell"}
  BY DEF BookOrders
<1>2. CASE taker.side = "buy"
  BY <1>1, <1>2 DEF Crosses, Within, Preferred, BetterPrice
<1>3. CASE taker.side = "sell"
  BY <1>1, <1>3 DEF Crosses, Within, Preferred, BetterPrice
<1> QED
  BY <1>1, <1>2, <1>3

\* In a book of priced orders the loop reaches just those that cross.
LEMMA ReachedIs ==
    ASSUME NEW taker \in BookOrders, NEW book \in Seq(BookOrders),
           \A i \in DOMAIN book : book[i].price # Null
    PROVE  Reached(taker, book, Reach(taker, Candidates(taker, book)))
               = {i \in EligibleIn(taker, book) : Within(taker, book[i])}
<1> DEFINE E == EligibleIn(taker, book)
           c == Candidates(taker, book)
           n == Reach(taker, c)
           R(i) == Rank(taker, book, i)
<1>1. E \subseteq DOMAIN book /\ \A i \in DOMAIN book : book[i] \in BookOrders
  BY EligibleFinite
<1>2. /\ c \in Seq(BookOrders) /\ Len(c) = Cardinality(E)
      /\ \A i \in E : c[R(i)] = book[i]
      /\ \A m \in 1..Len(c) : \E i \in E : R(i) = m /\ c[m] = book[i]
  BY CandidatesAre
<1>3. /\ \A i \in E : R(i) \in 1..Cardinality(E)
      /\ \A i, j \in E : Ahead(taker.side, book, i, j) => R(i) < R(j)
  BY Ranks
<1>4. /\ n \in 0..Len(c)
      /\ \A m \in 1..n : Crosses(taker, c[m])
      /\ n < Len(c) => ~Crosses(taker, c[n + 1])
  <2> HIDE DEF c
  <2> QED
    BY <1>2, ReachIs
<1> HIDE DEF E, c, n, R
<1>5. Len(c) \in Nat
  BY <1>2
<1>6. ASSUME NEW i \in E, R(i) <= n PROVE Within(taker, book[i])
  <2>1. R(i) \in 1..n
    BY <1>2, <1>3, <1>4, <1>5, <1>6
  <2>2. Crosses(taker, book[i])
    BY <1>2, <1>4, <2>1
  <2>3. book[i] \in BookOrders /\ book[i].price # Null
    BY <1>1
  <2> QED
    BY <2>2, <2>3, CrossesIs
<1>7. ASSUME NEW i \in E, Within(taker, book[i]) PROVE R(i) <= n
  <2> SUFFICES ASSUME ~(R(i) <= n) PROVE FALSE
    OBVIOUS
  <2>1. R(i) \in 1..Len(c) /\ n < R(i) /\ n < Len(c) /\ n + 1 \in 1..Len(c)
    BY <1>2, <1>3, <1>4, <1>5
  <2>2. PICK x \in E : R(x) = n + 1 /\ c[n + 1] = book[x]
    BY <1>2, <2>1
  <2>3. ~Crosses(taker, book[x])
    BY <1>4, <2>1, <2>2
  <2>4. /\ book[i] \in BookOrders /\ book[i].price # Null
        /\ book[x] \in BookOrders /\ book[x].price # Null
    BY <1>1
  <2>5. Preferred(taker.side, book[i], book[x])
    BY <1>7, <2>3, <2>4, CrossesIs
  <2>6. R(i) < R(x)
    BY <1>3, <2>5 DEF Ahead
  <2> QED
    BY <1>4, <1>5, <2>1, <2>2, <2>6
<1> QED
  BY <1>6, <1>7 DEF Reached, E, n, c, R

LEMMA AllTraded ==
    ASSUME snapshot \in Calls
    PROVE  AllThatCanTrades
<1> DEFINE taker == snapshot.taker
           book == snapshot.book
           b == Numbered(book)
           n == Reach(taker, Candidates(taker, b))
           total == TotalAt(taker, b, n)
           state == StateAt(taker, b, n)
           killed == taker.type = "fok" /\ total < taker.remaining
           D == DOMAIN book
           Offer(i) == OfferTo(taker, book, i)
           offered == OfferedBy(taker, book, D)
           given == FilledBy(Result.fills, D)
           due == IF taker.type = "fok" /\ offered < taker.remaining THEN 0
                  ELSE IF offered < taker.remaining THEN offered ELSE taker.remaining
<1> SUFFICES ASSUME snapshot # Null, \A i \in D : book[i].price # Null
             PROVE  /\ Result.left = taker.remaining - due
                    /\ due = given
                    /\ \A i \in D : FilledOf(Result.fills, i) <= Offer(i)
  BY Zenon DEF AllThatCanTrades, OfferedBy, OfferTo, FilledBy
<1>1. /\ taker \in BookOrders /\ book \in Seq(BookOrders)
      /\ n \in 0..Len(Candidates(taker, b)) /\ LoopOK(taker, b, n)
      /\ Result = IF killed THEN Untouched(taker) ELSE state
  BY ResultIs
<1>2. /\ b \in Books /\ DOMAIN b = D
      /\ \A i \in D : /\ b[i] \in BookOrders /\ b[i].price = book[i].price
                      /\ b[i].remaining = book[i].remaining
                      /\ Eligible(taker, b[i]) <=> Eligible(taker, book[i])
                      /\ Within(taker, b[i]) <=> Within(taker, book[i])
  BY <1>1, NumberedIs
<1>3. IsFiniteSet(D) /\ taker.remaining \in Nat /\ b \in Seq(BookOrders)
  BY <1>1, <1>2, EligibleFinite DEF BookOrders, Books
<1> DEFINE got == GotAt(taker, b, n)
           reached == Reached(taker, b, n)
<1> HIDE DEF taker, book, b, D
<1>4. reached = {i \in EligibleIn(taker, b) : Within(taker, b[i])}
  <2>1. \A i \in DOMAIN b : b[i].price # Null
    BY <1>2 DEF D
  <2> QED
    BY <1>1, <1>3, <2>1, ReachedIs
<1>5. ASSUME NEW i \in D
      PROVE  /\ i \in reached => Offer(i) = b[i].remaining
             /\ i \notin reached => Offer(i) = 0
             /\ Offer(i) \in Nat
  <2>1. b[i].remaining \in Nat /\ i \in DOMAIN b
    BY <1>2 DEF BookOrders
  <2> HIDE DEF reached
  <2> QED
    BY <1>2, <1>4, <2>1 DEF OfferTo, EligibleIn
<1> HIDE DEF n, reached
<1>6. /\ state \in States /\ total \in Nat
      /\ state.left = IF total <= taker.remaining THEN taker.remaining - total ELSE 0
      /\ \A i \in D : got[i] \in Nat /\ (i \notin reached => got[i] = 0)
      /\ \A i \in reached : got[i] <= b[i].remaining
      /\ taker.remaining = state.left + SumOf(got, D)
      /\ total = SumOf(OfferedAt(taker, b, n), D)
  BY <1>1, <1>2 DEF LoopOK, reached
<1>7. \A i \in D : got[i] = FilledOf(state.fills, i)
  BY <1>2 DEF GotAt
<1>8. offered = total
  <2> DEFINE f == [i \in D |-> OfferTo(taker, book, i)]
             h == OfferedAt(taker, b, n)
  <2>1. offered = SumOf(f, D)
    BY <1>3, OfferedSum
  <2>2. ASSUME NEW i \in D PROVE f[i] = h[i]
    <3>1. h[i] = IF i \in reached THEN b[i].remaining ELSE 0
      BY <1>2 DEF OfferedAt, reached
    <3>2. f[i] = Offer(i)
      OBVIOUS
    <3> HIDE DEF f, h, Offer
    <3> QED
      BY <1>5, <3>1, <3>2
  <2> HIDE DEF f, h
  <2>3. SumOf(f, D) = SumOf(h, D)
    BY <1>3, <2>2, SumAgrees
  <2> QED
    BY <1>6, <2>1, <2>3 DEF h
<1> HIDE DEF offered, total, state, got, Offer
<1>9. CASE killed
  <2>1. Result.fills = <<>> /\ Result.left = taker.remaining
    BY <1>1, <1>9 DEF Untouched
  <2>2. \A i : FilledOf(<<>>, i) = 0
    <3>1. <<>> \in Seq(FillRows)
      OBVIOUS
    <3> QED
      BY <3>1, FilledSteps
  <2>3. given = 0
    <3> DEFINE f == [i \in D |-> FilledOf(<<>>, i)]
    <3>1. given = SumOf(f, D)
      BY <1>3, <2>1, FilledSum
    <3>2. \A i \in D : f[i] = 0
      BY <2>2
    <3> HIDE DEF f
    <3>3. SumOf(f, D) = 0
      BY <1>3, <3>2, SumZero
    <3> QED
      BY <3>1, <3>3
  <2>4. due = 0
    BY <1>8, <1>9
  <2>5. \A i \in D : FilledOf(Result.fills, i) <= Offer(i)
    BY <1>5, <2>1, <2>2
  <2> QED
    BY <1>3, <2>1, <2>3, <2>4, <2>5
<1>10. CASE ~killed
  <2>1. Result = state
    BY <1>1, <1>10
  <2>2. given = SumOf(got, D)
    <3> DEFINE f == [i \in D |-> FilledOf(state.fills, i)]
    <3>1. given = SumOf(f, D)
      BY <1>3, <2>1, FilledSum
    <3>2. \A i \in D : f[i] = got[i]
      BY <1>7
    <3> HIDE DEF f
    <3>3. SumOf(f, D) = SumOf(got, D)
      BY <1>3, <3>2, SumAgrees
    <3> QED
      BY <3>1, <3>3
  <2>3. SumOf(got, D) \in Int
    <3>1. \A i \in D : got[i] \in Int
      BY <1>6
    <3> QED
      BY <1>3, <3>1, SumType
  <2>4. due = IF total <= taker.remaining THEN total ELSE taker.remaining
    BY <1>3, <1>6, <1>8, <1>10
  <2>5. /\ taker.remaining \in Nat /\ total \in Nat
        /\ state.left = IF total <= taker.remaining THEN taker.remaining - total ELSE 0
        /\ taker.remaining = state.left + SumOf(got, D)
    BY <1>3, <1>6
  <2> HIDE DEF due, given
  <2>6. state.left = taker.remaining - due /\ due = SumOf(got, D)
    BY <2>3, <2>4, <2>5
  <2>7. ASSUME NEW i \in D PROVE FilledOf(state.fills, i) <= Offer(i)
    BY <1>5, <1>6, <1>7
  <2> QED
    BY <2>1, <2>2, <2>6, <2>7
<1> QED
  BY <1>9, <1>10

-----------------------------------------------------------------------------
(* The theorems.                                                            *)

\* A call: any incoming order and any book, which nothing changes under it.
CallSpec == snapshot \in Calls /\ [][UNCHANGED snapshot]_snapshot

\* Price-time priority: a resting order gets nothing while one that comes before
\* it, at a better price or at the same price and earlier, has anything left
\* (compareBookPriority, and the loop of matchOrder).
THEOREM PriceTimePriorityHolds == CallSpec => []PriceTimePriority
<1>1. snapshot \in Calls /\ [UNCHANGED snapshot]_snapshot => (snapshot \in Calls)'
  OBVIOUS
<1> QED
  BY <1>1, Priority, PTL DEF CallSpec

\* In a book of priced orders the taker gets what crosses, up to its volume, or
\* nothing at all if it is fill-or-kill and that is too little; no order gives
\* more than it has, and what the taker lost is what they gave.
THEOREM AllThatCanTradesHolds == CallSpec => []AllThatCanTrades
<1>1. snapshot \in Calls /\ [UNCHANGED snapshot]_snapshot => (snapshot \in Calls)'
  OBVIOUS
<1> QED
  BY <1>1, AllTraded, PTL DEF CallSpec
===============================================================================
