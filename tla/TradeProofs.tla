----------------------------- MODULE TradeProofs -----------------------------
(***************************************************************************)
(* Theorems on the orders: what their pair's lock keeps of volume and       *)
(* margin while matches and edits run, and that an ended order holds none.  *)
(***************************************************************************)
EXTENDS TradeOrders, LockProofs, FiniteSetTheorems

-----------------------------------------------------------------------------
(* Sums.  The fold behind MapThenSumSet takes elements in an order of its   *)
(* own; what it adds up does not depend on it.                              *)

Pick(s) == CHOOSE x \in s : TRUE

\* What a fold over the subsets of S is made of: g is one if it is the fold of
\* itself.
Fold(f, S, g) ==
    [s \in SUBSET S |-> IF s = {} THEN 0 ELSE f[Pick(s)] + g[s \ {Pick(s)}]]

SumOf(f, S) == (CHOOSE g : g = Fold(f, S, g))[S]

\* A family of finite sets with a member has a smallest one.
LEMMA Smallest ==
    ASSUME NEW S, IsFiniteSet(S), NEW T \in SUBSET (SUBSET S), T # {}
    PROVE  \E x \in T : \A y \in T : ~(y \subseteq x /\ y # x)
<1>1. IsWellFoundedOn(StrictSubsetOrdering(S), FiniteSubsetsOf(S))
  BY FS_StrictSubsetOrderingWellFounded
<1>2. T \subseteq FiniteSubsetsOf(S)
  BY FS_FiniteSubsetsOfFinite
<1>3. PICK x \in T : \A y \in T : <<y, x>> \notin StrictSubsetOrdering(S)
  BY <1>1, <1>2, WFMin, Zenon
<1>4. ASSUME NEW y \in T, y \subseteq x, y # x PROVE FALSE
  <2>1. <<y, x>> \in StrictSubsetOrdering(S)
    BY <1>4 DEF StrictSubsetOrdering
  <2> QED
    BY <1>3, <2>1
<1> QED
  BY <1>4

\* Two folds agree where both are defined and add up the same.
LEMMA FoldsAgree ==
    ASSUME NEW f, NEW h, NEW S, NEW T, IsFiniteSet(T), T \subseteq S,
           \A x \in T : f[x] = h[x],
           NEW g, g = Fold(f, S, g), NEW k, k = Fold(h, T, k)
    PROVE  \A s \in SUBSET T : g[s] = k[s]
<1> DEFINE Bad == {s \in SUBSET T : g[s] # k[s]}
<1> SUFFICES ASSUME Bad # {} PROVE FALSE
  OBVIOUS
<1>1. PICK s \in Bad : \A y \in Bad : ~(y \subseteq s /\ y # s)
  <2>1. Bad \in SUBSET (SUBSET T)
    OBVIOUS
  <2> HIDE DEF Bad
  <2> QED
    BY <2>1, Smallest
<1>2. s \in SUBSET T /\ s \in SUBSET S /\ g[s] # k[s]
  OBVIOUS
<1>3. /\ g[s] = IF s = {} THEN 0 ELSE f[Pick(s)] + g[s \ {Pick(s)}]
      /\ k[s] = IF s = {} THEN 0 ELSE h[Pick(s)] + k[s \ {Pick(s)}]
  BY <1>2 DEF Fold
<1>4. s # {}
  BY <1>2, <1>3
<1>5. Pick(s) \in s
  BY <1>4 DEF Pick
<1>6. s \ {Pick(s)} \notin Bad
  BY <1>1, <1>5
<1>7. g[s \ {Pick(s)}] = k[s \ {Pick(s)}]
  BY <1>2, <1>6
<1>8. f[Pick(s)] = h[Pick(s)]
  BY <1>2, <1>5
<1> QED
  BY <1>2, <1>3, <1>4, <1>7, <1>8

\* There is a fold.
LEMMA FoldExists ==
    ASSUME NEW f, NEW S, IsFiniteSet(S)
    PROVE  \E g : g = Fold(f, S, g)
<1> DEFINE Bad == {T \in SUBSET S : ~\E g : g = Fold(f, T, g)}
<1> SUFFICES ASSUME Bad # {} PROVE FALSE
  OBVIOUS
<1>1. PICK T \in Bad : \A U \in Bad : ~(U \subseteq T /\ U # T)
  <2>1. Bad \in SUBSET (SUBSET S)
    OBVIOUS
  <2> HIDE DEF Bad
  <2> QED
    BY <2>1, Smallest
<1>2. T \in SUBSET S /\ ~\E g : g = Fold(f, T, g)
  OBVIOUS
<1> DEFINE H == [U \in SUBSET T |-> CHOOSE g : g = Fold(f, U, g)]
           G == [s \in SUBSET T |-> IF s = {} THEN 0
                                    ELSE f[Pick(s)] + H[s \ {Pick(s)}][s \ {Pick(s)}]]
<1>3. ASSUME NEW U \in SUBSET T, U # T PROVE H[U] = Fold(f, U, H[U])
  <2>1. U \in SUBSET S /\ U \notin Bad
    BY <1>1, <1>2, <1>3
  <2>2. \E g : g = Fold(f, U, g)
    BY <2>1
  <2>3. H[U] = CHOOSE g : g = Fold(f, U, g)
    OBVIOUS
  <2> QED
    BY <2>2, <2>3
<1>4. ASSUME NEW U \in SUBSET T, U # T PROVE G[U] = H[U][U]
  <2>1. H[U] = Fold(f, U, H[U])
    BY <1>3, <1>4
  <2>2. H[U][U] = IF U = {} THEN 0 ELSE f[Pick(U)] + H[U][U \ {Pick(U)}]
    <3> HIDE DEF H
    <3> QED
      BY <2>1 DEF Fold
  <2>3. G[U] = IF U = {} THEN 0 ELSE f[Pick(U)] + H[U \ {Pick(U)}][U \ {Pick(U)}]
    OBVIOUS
  <2>4. CASE U = {}
    BY <2>2, <2>3, <2>4
  <2>5. CASE U # {}
    <3> DEFINE V == U \ {Pick(U)}
    <3>1. V \in SUBSET T /\ V # T /\ V \subseteq U
      BY <1>4
    <3>2. H[V] = Fold(f, V, H[V])
      BY <1>3, <3>1
    <3>3. IsFiniteSet(V)
      BY <1>2, <3>1, FS_Subset
    <3>4. H[U][V] = H[V][V]
      <4> HIDE DEF H, V
      <4> QED
        BY <2>1, <3>1, <3>2, <3>3, FoldsAgree
    <3> QED
      BY <2>2, <2>3, <2>5, <3>4
  <2> QED
    BY <2>4, <2>5
<1>5. ASSUME NEW s \in SUBSET T, s # {} PROVE G[s] = f[Pick(s)] + G[s \ {Pick(s)}]
  <2>1. Pick(s) \in s
    BY <1>5 DEF Pick
  <2>2. s \ {Pick(s)} \in SUBSET T /\ s \ {Pick(s)} # T
    BY <2>1
  <2>3. G[s \ {Pick(s)}] = H[s \ {Pick(s)}][s \ {Pick(s)}]
    BY <1>4, <2>2
  <2>4. G[s] = f[Pick(s)] + H[s \ {Pick(s)}][s \ {Pick(s)}]
    BY <1>5
  <2> QED
    BY <2>3, <2>4
<1>6. G[{}] = 0 /\ DOMAIN G = SUBSET T
  OBVIOUS
<1>7. G = [s \in SUBSET T |-> G[s]]
  OBVIOUS
<1>8. G = Fold(f, T, G)
  <2> HIDE DEF G
  <2> QED
    BY <1>5, <1>6, <1>7 DEF Fold
<1> QED
  BY <1>2, <1>8

\* Whatever folds S adds up to its sum.
LEMMA SumIs ==
    ASSUME NEW f, NEW S, IsFiniteSet(S), NEW g, g = Fold(f, S, g)
    PROVE  SumOf(f, S) = g[S]
<1> DEFINE c == CHOOSE k : k = Fold(f, S, k)
<1>1. c = Fold(f, S, c)
  BY FoldExists
<1>2. SumOf(f, S) = c[S]
  BY DEF SumOf
<1> HIDE DEF c
<1>3. c[S] = g[S]
  BY <1>1, FoldsAgree
<1> QED
  BY <1>2, <1>3

\* What is added up decides the sum.
LEMMA SumAgrees ==
    ASSUME NEW f, NEW h, NEW S, IsFiniteSet(S), \A x \in S : f[x] = h[x]
    PROVE  SumOf(f, S) = SumOf(h, S)
<1>1. PICK g : g = Fold(f, S, g)
  BY FoldExists
<1>2. PICK k : k = Fold(h, S, k)
  BY FoldExists
<1>3. g[S] = k[S]
  BY <1>1, <1>2, FoldsAgree
<1> QED
  BY <1>1, <1>2, <1>3, SumIs

\* A set's sum is that of the rest and the element taken first.
LEMMA SumPick ==
    ASSUME NEW f, NEW S, IsFiniteSet(S)
    PROVE  /\ SumOf(f, {}) = 0
           /\ S # {} => SumOf(f, S) = f[Pick(S)] + SumOf(f, S \ {Pick(S)})
<1>1. SumOf(f, {}) = 0
  <2>1. IsFiniteSet({})
    BY FS_EmptySet
  <2>2. PICK g : g = Fold(f, {}, g)
    BY <2>1, FoldExists
  <2>3. g[{}] = 0
    BY <2>2 DEF Fold
  <2> QED
    BY <2>1, <2>2, <2>3, SumIs
<1>2. ASSUME S # {} PROVE SumOf(f, S) = f[Pick(S)] + SumOf(f, S \ {Pick(S)})
  <2> DEFINE U == S \ {Pick(S)}
  <2>1. PICK g : g = Fold(f, S, g)
    BY FoldExists
  <2>2. IsFiniteSet(U) /\ U \subseteq S
    BY FS_Subset
  <2>3. PICK k : k = Fold(f, U, k)
    BY <2>2, FoldExists
  <2>4. g[U] = k[U]
    <3> HIDE DEF U
    <3>1. \A s \in SUBSET U : g[s] = k[s]
      BY <2>1, <2>2, <2>3, FoldsAgree
    <3> QED
      BY <3>1
  <2>5. g[S] = f[Pick(S)] + g[U]
    BY <1>2, <2>1 DEF Fold
  <2>6. SumOf(f, S) = g[S] /\ SumOf(f, U) = k[U]
    <3> HIDE DEF U
    <3> QED
      BY <2>1, <2>2, <2>3, SumIs
  <2> QED
    BY <2>4, <2>5, <2>6
<1> QED
  BY <1>1, <1>2

\* Sums of integers are integers, and any element may be taken first.
LEMMA SumTypeIn ==
    ASSUME NEW N \in {Int, Nat}, NEW f, NEW S, IsFiniteSet(S), \A x \in S : f[x] \in N
    PROVE  SumOf(f, S) \in N
<1> DEFINE Bad == {T \in SUBSET S : SumOf(f, T) \notin N}
<1> SUFFICES ASSUME Bad # {} PROVE FALSE
  OBVIOUS
<1>1. PICK T \in Bad : \A U \in Bad : ~(U \subseteq T /\ U # T)
  <2>1. Bad \in SUBSET (SUBSET S)
    OBVIOUS
  <2> HIDE DEF Bad
  <2> QED
    BY <2>1, Smallest
<1>2. T \in SUBSET S /\ SumOf(f, T) \notin N /\ IsFiniteSet(T)
  BY FS_Subset
<1>3. T # {}
  <2> SUFFICES ASSUME T = {} PROVE FALSE
    OBVIOUS
  <2>1. SumOf(f, {}) = 0
    BY SumPick
  <2>2. 0 \in N
    OBVIOUS
  <2> QED
    BY <1>2, <2>1, <2>2
<1>4. Pick(T) \in T
  BY <1>3 DEF Pick
<1>5. SumOf(f, T \ {Pick(T)}) \in N
  BY <1>1, <1>2, <1>4
<1>6. SumOf(f, T) = f[Pick(T)] + SumOf(f, T \ {Pick(T)})
  BY <1>2, <1>3, SumPick
<1>7. 0 \in N /\ \A y \in N, z \in N : y + z \in N
  OBVIOUS
<1> QED
  BY <1>2, <1>4, <1>5, <1>6, <1>7

LEMMA SumType ==
    ASSUME NEW f, NEW S, IsFiniteSet(S), \A x \in S : f[x] \in Int
    PROVE  SumOf(f, S) \in Int
BY SumTypeIn

LEMMA SumTakes ==
    ASSUME NEW f, NEW S, IsFiniteSet(S), \A x \in S : f[x] \in Int, NEW x \in S
    PROVE  SumOf(f, S) = f[x] + SumOf(f, S \ {x})
<1> DEFINE Bad == {T \in SUBSET S : \E y \in T : SumOf(f, T) # f[y] + SumOf(f, T \ {y})}
<1> SUFFICES ASSUME Bad # {} PROVE FALSE
  OBVIOUS
<1>1. PICK T \in Bad : \A U \in Bad : ~(U \subseteq T /\ U # T)
  <2>1. Bad \in SUBSET (SUBSET S)
    OBVIOUS
  <2> HIDE DEF Bad
  <2> QED
    BY <2>1, Smallest
<1>2. T \in SUBSET S /\ IsFiniteSet(T)
  BY FS_Subset
<1>3. PICK y \in T : SumOf(f, T) # f[y] + SumOf(f, T \ {y})
  BY <1>1
<1> DEFINE c == Pick(T)
<1>4. c \in T
  BY <1>3 DEF Pick
<1>5. SumOf(f, T) = f[c] + SumOf(f, T \ {c})
  BY <1>2, <1>3, SumPick
<1>6. c # y
  BY <1>3, <1>5
<1>7. SumOf(f, T \ {c}) = f[y] + SumOf(f, (T \ {c}) \ {y})
  <2>1. T \ {c} \in SUBSET S /\ T \ {c} \notin Bad
    BY <1>1, <1>2, <1>4
  <2>2. y \in T \ {c}
    BY <1>3, <1>6
  <2> QED
    BY <2>1, <2>2
<1>8. SumOf(f, T \ {y}) = f[c] + SumOf(f, (T \ {y}) \ {c})
  <2>1. T \ {y} \in SUBSET S /\ T \ {y} \notin Bad
    BY <1>1, <1>2, <1>3
  <2>2. c \in T \ {y}
    BY <1>4, <1>6
  <2> QED
    BY <2>1, <2>2
<1>9. (T \ {c}) \ {y} = (T \ {y}) \ {c} /\ IsFiniteSet((T \ {c}) \ {y})
  BY <1>2, FS_Subset
<1>10. SumOf(f, (T \ {c}) \ {y}) \in Int
  BY <1>2, <1>9, SumType
<1>11. f[c] \in Int /\ f[y] \in Int
  BY <1>2, <1>3, <1>4
<1>12. /\ SumOf(f, T) = f[c] + (f[y] + SumOf(f, (T \ {c}) \ {y}))
       /\ SumOf(f, T \ {y}) = f[c] + SumOf(f, (T \ {c}) \ {y})
  BY <1>5, <1>7, <1>8, <1>9
<1> HIDE DEF Bad, c
<1>13. SumOf(f, T) = f[y] + SumOf(f, T \ {y})
  <2> DEFINE rest == SumOf(f, (T \ {c}) \ {y})
  <2>1. rest \in Int
    BY <1>10
  <2>2. SumOf(f, T) = f[c] + (f[y] + rest) /\ SumOf(f, T \ {y}) = f[c] + rest
    BY <1>12
  <2> HIDE DEF rest
  <2> QED
    BY <1>11, <2>1, <2>2
<1> QED
  BY <1>3, <1>13

\* One more element.
LEMMA SumAdds ==
    ASSUME NEW f, NEW S, IsFiniteSet(S), NEW x, x \notin S, \A y \in S \cup {x} : f[y] \in Int
    PROVE  SumOf(f, S \cup {x}) = SumOf(f, S) + f[x] /\ SumOf(f, S) \in Int
<1>1. IsFiniteSet(S \cup {x})
  BY FS_AddElement
<1>2. (S \cup {x}) \ {x} = S
  OBVIOUS
<1>3. SumOf(f, S \cup {x}) = f[x] + SumOf(f, (S \cup {x}) \ {x})
  BY <1>1, SumTakes
<1>4. SumOf(f, S) \in Int
  BY SumType
<1>5. f[x] \in Int /\ SumOf(f, S \cup {x}) = f[x] + SumOf(f, S)
  BY <1>2, <1>3
<1> HIDE DEF SumOf
<1> QED
  BY <1>4, <1>5

-----------------------------------------------------------------------------
(* What matches fill of an order, and its reservations.                     *)

VolumeOf(ms, S) == MapThenSumSet(LAMBDA i : ms[i].volume, S)
AmountOf(rs, S) == MapThenSumSet(LAMBDA i : rs[i].amount, S)
Amounts(rs) == AmountOf(rs, DOMAIN rs)

LEMMA VolumeSum ==
    ASSUME NEW ms, NEW S, IsFiniteSet(S)
    PROVE  VolumeOf(ms, S) = SumOf([i \in S |-> ms[i].volume], S)
<1> DEFINE f == [i \in S |-> ms[i].volume]
           Own(g) == [s \in SUBSET S |-> IF s = {} THEN 0
                                         ELSE ms[Pick(s)].volume + g[s \ {Pick(s)}]]
           c == CHOOSE g : g = Own(g)
<1>1. VolumeOf(ms, S) = c[S]
  BY Zenon DEF VolumeOf, MapThenSumSet, MapThenFoldSet, Pick
<1>2. ASSUME NEW g PROVE Own(g) = Fold(f, S, g)
  <2>1. \A s \in SUBSET S : s # {} => f[Pick(s)] = ms[Pick(s)].volume
    BY DEF Pick
  <2> HIDE DEF f
  <2> QED
    BY <2>1 DEF Fold
<1>3. PICK g : g = Fold(f, S, g)
  BY FoldExists
<1>4. c = Own(c)
  <2>1. \E k : k = Own(k)
    BY <1>2, <1>3
  <2> QED
    BY <2>1
<1> HIDE DEF c, f, Own
<1>5. c = Fold(f, S, c)
  BY <1>2, <1>4
<1>6. SumOf(f, S) = c[S]
  BY <1>5, SumIs
<1> QED
  BY <1>1, <1>6 DEF f

LEMMA AmountSum ==
    ASSUME NEW rs, NEW S, IsFiniteSet(S)
    PROVE  AmountOf(rs, S) = SumOf([i \in S |-> rs[i].amount], S)
<1> DEFINE f == [i \in S |-> rs[i].amount]
           Own(g) == [s \in SUBSET S |-> IF s = {} THEN 0
                                         ELSE rs[Pick(s)].amount + g[s \ {Pick(s)}]]
           c == CHOOSE g : g = Own(g)
<1>1. AmountOf(rs, S) = c[S]
  BY Zenon DEF AmountOf, MapThenSumSet, MapThenFoldSet, Pick
<1>2. ASSUME NEW g PROVE Own(g) = Fold(f, S, g)
  <2>1. \A s \in SUBSET S : s # {} => f[Pick(s)] = rs[Pick(s)].amount
    BY DEF Pick
  <2> HIDE DEF f
  <2> QED
    BY <2>1 DEF Fold
<1>3. PICK g : g = Fold(f, S, g)
  BY FoldExists
<1>4. c = Own(c)
  <2>1. \E k : k = Own(k)
    BY <1>2, <1>3
  <2> QED
    BY <2>1
<1> HIDE DEF c, f, Own
<1>5. c = Fold(f, S, c)
  BY <1>2, <1>4
<1>6. SumOf(f, S) = c[S]
  BY <1>5, SumIs
<1> QED
  BY <1>1, <1>6 DEF f

Match == [buy : Orders, sell : Orders, volume : Nat]
ReservationRow == [amount : Int, status : {"reserved", "consumed", "released"}]

LEMMA FilledIs ==
    ASSUME NEW o
    PROVE  /\ Filled(o) = VolumeOf(matches, MatchesOf(o))
           /\ Filled(o)' = VolumeOf(matches', MatchesOf(o)')
BY Zenon DEF Filled, VolumeOf, MapThenSumSet, MapThenFoldSet

LEMMA MatchesFinite ==
    ASSUME matches \in Seq(Match), NEW o
    PROVE  /\ IsFiniteSet(MatchesOf(o)) /\ MatchesOf(o) \subseteq 1..Len(matches)
           /\ \A i \in MatchesOf(o) : matches[i] \in Match
           /\ Filled(o) \in Nat
<1>1. MatchesOf(o) \subseteq 1..Len(matches) /\ \A i \in MatchesOf(o) : matches[i] \in Match
  BY DEF MatchesOf
<1>2. IsFiniteSet(MatchesOf(o))
  BY <1>1, FS_Interval, FS_Subset, 1 \in Int, Len(matches) \in Int
<1>3. Filled(o) = SumOf([i \in MatchesOf(o) |-> matches[i].volume], MatchesOf(o))
  BY <1>2, FilledIs, VolumeSum
<1>4. \A i \in MatchesOf(o) : [j \in MatchesOf(o) |-> matches[j].volume][i] \in Nat
  BY <1>1 DEF Match
<1>5. SumOf([i \in MatchesOf(o) |-> matches[i].volume], MatchesOf(o)) \in Nat
  BY <1>2, <1>4, SumTypeIn
<1> QED
  BY <1>1, <1>2, <1>3, <1>5

\* A new match fills its two orders, and no other.
LEMMA FilledAppend ==
    ASSUME matches \in Seq(Match), NEW x \in Match, matches' = Append(matches, x), NEW o
    PROVE  /\ o \in {x.buy, x.sell} => /\ Filled(o)' = Filled(o) + x.volume
                                       /\ Partners(o)' = Partners(o) \cup ({x.buy, x.sell} \ {o})
           /\ o \notin {x.buy, x.sell} => /\ Filled(o)' = Filled(o)
                                          /\ MatchesOf(o)' = MatchesOf(o)
                                          /\ Partners(o)' = Partners(o)
<1> DEFINE n == Len(matches) + 1
           M == MatchesOf(o)
           f == [i \in M |-> matches[i].volume]
           N == MatchesOf(o)'
           g == [i \in N |-> matches'[i].volume]
<1>1. /\ M \subseteq 1..Len(matches) /\ IsFiniteSet(M) /\ \A i \in M : matches[i] \in Match
      /\ n \notin M
  BY MatchesFinite
<1>2. /\ DOMAIN matches' = 1..n /\ matches'[n] = x
      /\ \A i \in 1..Len(matches) : matches'[i] = matches[i]
  OBVIOUS
<1>3. /\ DOMAIN matches = 1..Len(matches) /\ 1..n = (1..Len(matches)) \cup {n}
  OBVIOUS
<1>4. N = {i \in DOMAIN matches' : o \in {matches'[i].buy, matches'[i].sell}}
  BY DEF MatchesOf
<1>5. /\ o \in {x.buy, x.sell} => N = M \cup {n}
      /\ o \notin {x.buy, x.sell} => N = M
  BY <1>1, <1>2, <1>3, <1>4 DEF MatchesOf
<1>6. Filled(o) = SumOf(f, M)
  BY <1>1, FilledIs, VolumeSum
<1>7. IsFiniteSet(N)
  BY <1>1, <1>5, FS_AddElement
<1>8. Filled(o)' = SumOf(g, N)
  BY <1>7, FilledIs, VolumeSum
<1>9. \A i \in M : f[i] = g[i] /\ g[i] \in Int
  BY <1>1, <1>2, <1>5 DEF Match
<1>p. /\ Partners(o) = UNION {{matches[i].buy, matches[i].sell} \ {o} : i \in M}
      /\ Partners(o)' = UNION {{matches'[i].buy, matches'[i].sell} \ {o} : i \in N}
  BY DEF Partners
<1> HIDE DEF M, N
<1>10. SumOf(f, M) = SumOf(g, M)
  <2> HIDE DEF f, g
  <2> QED
    BY <1>1, <1>9, SumAgrees
<1>11. CASE o \in {x.buy, x.sell}
  <2>1. N = M \cup {n}
    BY <1>5, <1>11
  <2>2. g[n] = x.volume /\ x.volume \in Int
    BY <1>2, <2>1 DEF Match
  <2>3. \A i \in M \cup {n} : g[i] \in Int
    BY <1>9, <2>2
  <2>4. SumOf(g, M \cup {n}) = SumOf(g, M) + g[n]
    <3> HIDE DEF f, g, n
    <3> QED
      BY <1>1, <2>3, SumAdds
  <2>5. Partners(o)' = Partners(o) \cup ({x.buy, x.sell} \ {o})
    <3> DEFINE Both(i) == {matches[i].buy, matches[i].sell} \ {o}
               Then(i) == {matches'[i].buy, matches'[i].sell} \ {o}
    <3>1. (\A i \in M : Then(i) = Both(i)) /\ Then(n) = {x.buy, x.sell} \ {o}
      BY <1>1, <1>2
    <3>2. Partners(o) = UNION {Both(i) : i \in M} /\ Partners(o)' = UNION {Then(i) : i \in N}
      BY <1>p
    <3> HIDE DEF Both, Then, n
    <3> QED
      BY <2>1, <3>1, <3>2
  <2> QED
    BY <1>6, <1>8, <1>10, <1>11, <2>1, <2>2, <2>4, <2>5
<1>12. CASE o \notin {x.buy, x.sell}
  <2>1. N = M
    BY <1>5, <1>12
  <2>3. MatchesOf(o)' = MatchesOf(o)
    BY <2>1 DEF M, N
  <2>2. Partners(o)' = Partners(o)
    BY <1>1, <1>2, <1>p, <2>1
  <2> QED
    BY <1>6, <1>8, <1>10, <1>12, <2>1, <2>2, <2>3
<1> QED
  BY <1>11, <1>12

\* What a reservation of an order is, and what it is to write over them.
LEMMA RowsTyped ==
    ASSUME NEW rs \in Seq(ReservationRow)
    PROVE  /\ DOMAIN rs = 1..Len(rs) /\ Len(rs) \in Nat
           /\ \A i \in DOMAIN rs : /\ rs[i] \in ReservationRow /\ rs[i].amount \in Int
                                   /\ DOMAIN rs[i] = {"amount", "status"}
<1>1. \A i \in DOMAIN rs : rs[i] \in ReservationRow
  OBVIOUS
<1>2. \A r \in ReservationRow : r.amount \in Int /\ DOMAIN r = {"amount", "status"}
  BY DEF ReservationRow
<1> QED
  BY <1>1, <1>2

LEMMA RowsWritten ==
    ASSUME NEW rs \in Seq(ReservationRow), NEW F, F = [i \in DOMAIN rs |-> F[i]],
           \A i \in DOMAIN rs : F[i] \in ReservationRow
    PROVE  F \in Seq(ReservationRow) /\ DOMAIN F = DOMAIN rs
<1>1. DOMAIN rs = 1..Len(rs) /\ Len(rs) \in Nat
  BY RowsTyped
<1>2. F \in [1..Len(rs) -> ReservationRow]
  BY <1>1
<1> QED
  BY <1>1, <1>2

\* Statuses are no part of the sum.
LEMMA AmountsSame ==
    ASSUME NEW rs \in Seq(ReservationRow), NEW ss \in Seq(ReservationRow),
           DOMAIN ss = DOMAIN rs, \A i \in DOMAIN rs : ss[i].amount = rs[i].amount
    PROVE  Amounts(ss) = Amounts(rs)
<1> DEFINE D == DOMAIN rs
           f == [i \in D |-> rs[i].amount]
           g == [i \in D |-> ss[i].amount]
<1>1. IsFiniteSet(D) /\ DOMAIN ss = D
  BY FS_Interval, Len(rs) \in Int, 1 \in Int, DOMAIN rs = 1..Len(rs)
<1>2. f = g
  OBVIOUS
<1>3. Amounts(rs) = SumOf(f, D) /\ Amounts(ss) = SumOf(g, D)
  BY <1>1, AmountSum DEF Amounts
<1> QED
  BY <1>2, <1>3

LEMMA AmountsType ==
    ASSUME NEW rs \in Seq(ReservationRow)
    PROVE  Amounts(rs) \in Int /\ IsFiniteSet(DOMAIN rs)
<1> DEFINE D == DOMAIN rs
           f == [i \in D |-> rs[i].amount]
<1>1. IsFiniteSet(D)
  BY FS_Interval, Len(rs) \in Int, 1 \in Int, DOMAIN rs = 1..Len(rs)
<1>2. \A i \in D : f[i] \in Int
  BY RowsTyped
<1>3. Amounts(rs) = SumOf(f, D)
  BY <1>1, AmountSum DEF Amounts
<1> HIDE DEF f
<1> QED
  BY <1>1, <1>2, <1>3, SumType

\* No reservation, no margin.
LEMMA AmountsEmpty == Amounts(<<>>) = 0
<1>1. DOMAIN <<>> = {} /\ IsFiniteSet(DOMAIN <<>>)
  BY FS_EmptySet
<1>2. Amounts(<<>>) = SumOf([i \in {} |-> <<>>[i].amount], {})
  BY <1>1, AmountSum DEF Amounts
<1>3. SumOf([i \in {} |-> <<>>[i].amount], {}) = 0
  BY <1>1, SumPick
<1> QED
  BY <1>2, <1>3

\* One more reservation.
LEMMA AmountsAppend ==
    ASSUME NEW rs \in Seq(ReservationRow), NEW x \in ReservationRow
    PROVE  Amounts(Append(rs, x)) = Amounts(rs) + x.amount
<1> DEFINE ss == Append(rs, x)
           n == Len(rs) + 1
           D == DOMAIN rs
           f == [i \in D |-> rs[i].amount]
           g == [i \in DOMAIN ss |-> ss[i].amount]
<1>1. ss \in Seq(ReservationRow) /\ DOMAIN ss = D \cup {n} /\ n \notin D
  OBVIOUS
<1>2. (\A i \in D : ss[i] = rs[i]) /\ ss[n] = x
  OBVIOUS
<1>3. IsFiniteSet(D) /\ IsFiniteSet(DOMAIN ss)
  BY <1>1, AmountsType
<1>4. Amounts(rs) = SumOf(f, D) /\ Amounts(ss) = SumOf(g, DOMAIN ss)
  <2> HIDE DEF ss
  <2> QED
    BY <1>3, AmountSum DEF Amounts
<1>5. \A i \in D \cup {n} : g[i] \in Int
  <2> HIDE DEF ss, n
  <2> QED
    BY <1>1, RowsTyped
<1>6. (\A i \in D : f[i] = g[i]) /\ g[n] = x.amount
  BY <1>1, <1>2
<1> HIDE DEF ss, n, f, g, D
<1>7. SumOf(f, D) = SumOf(g, D)
  BY <1>3, <1>6, SumAgrees
<1>8. SumOf(g, D \cup {n}) = SumOf(g, D) + g[n]
  BY <1>1, <1>3, <1>5, SumAdds
<1> QED
  BY <1>1, <1>4, <1>6, <1>7, <1>8 DEF ss

\* Another amount in one of them.
LEMMA AmountsReplace ==
    ASSUME NEW rs \in Seq(ReservationRow), NEW ss \in Seq(ReservationRow),
           DOMAIN ss = DOMAIN rs, NEW k \in DOMAIN rs,
           \A i \in DOMAIN rs \ {k} : ss[i].amount = rs[i].amount
    PROVE  Amounts(ss) = Amounts(rs) - rs[k].amount + ss[k].amount
<1> DEFINE D == DOMAIN rs
           f == [i \in D |-> rs[i].amount]
           g == [i \in D |-> ss[i].amount]
           R == D \ {k}
<1>1. IsFiniteSet(D) /\ DOMAIN ss = D /\ IsFiniteSet(R)
  BY AmountsType, FS_RemoveElement
<1>2. Amounts(rs) = SumOf(f, D) /\ Amounts(ss) = SumOf(g, D)
  BY <1>1, AmountSum DEF Amounts
<1>3. /\ \A i \in D : f[i] \in Int /\ g[i] \in Int
      /\ \A i \in R : f[i] = g[i]
      /\ f[k] = rs[k].amount /\ g[k] = ss[k].amount
  BY RowsTyped
<1>4. k \in D /\ R \subseteq D
  OBVIOUS
<1> HIDE DEF f, g, D
<1>5. SumOf(f, D) = f[k] + SumOf(f, R) /\ SumOf(g, D) = g[k] + SumOf(g, R)
  BY <1>1, <1>3, <1>4, SumTakes
<1>6. SumOf(f, R) = SumOf(g, R) /\ SumOf(f, R) \in Int
  <2> HIDE DEF R, D
  <2> QED
    BY <1>1, <1>3, <1>4, SumAgrees, SumType
<1>7. f[k] \in Int /\ g[k] \in Int
  BY <1>3, <1>4
<1> QED
  BY <1>2, <1>3, <1>5, <1>6, <1>7

\* A fill splits the reservation that was read: what it consumes and what it
\* reserves again make it up.
LEMMA ConsumeSplits ==
    ASSUME NEW rs \in Seq(ReservationRow), NEW margin \in Margin, NEW row \in Row,
           NEW fill \in Nat, 0 < fill, fill <= row.remaining,
           margin # NoMargin => margin.id \in DOMAIN rs
    PROVE  LET ss == Consume(rs, margin, row, fill) IN
           /\ ss \in Seq(ReservationRow) /\ DOMAIN rs \subseteq DOMAIN ss
           /\ (margin # NoMargin => rs[margin.id].amount = margin.amount)
                 => Amounts(ss) = Amounts(rs)
<1> DEFINE k == margin.id
           part == (margin.amount * fill) \div row.remaining
           ss == [rs EXCEPT ![k].status = "consumed"]
           ts == [rs EXCEPT ![k].amount = part, ![k].status = "consumed"]
           x == Reservation(margin.amount - part)
<1>1. row.remaining \in Nat /\ margin.amount \in Int
  BY DEF Row, Margin
<1>2. CASE margin = NoMargin
  BY <1>2 DEF Consume
<1>3. CASE margin # NoMargin /\ row.remaining = fill
  <2>1. k \in DOMAIN rs
    BY <1>3
  <2>2. /\ ss \in Seq(ReservationRow) /\ DOMAIN ss = DOMAIN rs
        /\ \A i \in DOMAIN rs : ss[i].amount = rs[i].amount
    <3>1. \A i \in DOMAIN rs : /\ ss[i] \in ReservationRow
                               /\ ss[i].amount = rs[i].amount
      <4>1. \A i \in DOMAIN rs : ss[i] = IF i = k THEN [rs[k] EXCEPT !.status = "consumed"]
                                         ELSE rs[i]
        BY <2>1
      <4>2. \A r \in ReservationRow : /\ [r EXCEPT !.status = "consumed"] \in ReservationRow
                                      /\ [r EXCEPT !.status = "consumed"].amount = r.amount
        BY DEF ReservationRow
      <4> QED
        BY <4>1, <4>2, RowsTyped
    <3>2. ss = [i \in DOMAIN rs |-> ss[i]]
      OBVIOUS
    <3> HIDE DEF ss
    <3> QED
      BY <3>1, <3>2, RowsWritten
  <2>3. Amounts(ss) = Amounts(rs)
    <3> HIDE DEF ss
    <3> QED
      BY <2>2, AmountsSame
  <2>4. Consume(rs, margin, row, fill) = ss
    BY <1>3 DEF Consume
  <2> QED
    BY <2>2, <2>3, <2>4
<1>4. CASE margin # NoMargin /\ row.remaining # fill
  <2>1. k \in DOMAIN rs
    BY <1>4
  <2>2. part \in Int
    <3>1. margin.amount * fill \in Int
      BY <1>1
    <3>2. row.remaining \in Nat /\ row.remaining > 0
      BY <1>1
    <3> DEFINE y == margin.amount * fill
    <3> HIDE DEF y
    <3>3. y \in Int
      BY <3>1 DEF y
    <3>4. y \div row.remaining \in Int
      BY <3>2, <3>3
    <3> QED
      BY <3>4 DEF y
  <2> HIDE DEF part
  <2>3. /\ ts \in Seq(ReservationRow) /\ DOMAIN ts = DOMAIN rs
        /\ \A i \in DOMAIN rs \ {k} : ts[i].amount = rs[i].amount
        /\ ts[k].amount = part
    <3>1. \A i \in DOMAIN rs : ts[i] = IF i = k
                                       THEN [rs[k] EXCEPT !.amount = part, !.status = "consumed"]
                                       ELSE rs[i]
      BY <2>1
    <3>2. \A r \in ReservationRow :
             /\ [r EXCEPT !.amount = part, !.status = "consumed"] \in ReservationRow
             /\ [r EXCEPT !.amount = part, !.status = "consumed"].amount = part
      BY <2>2 DEF ReservationRow
    <3>3. \A i \in DOMAIN rs : ts[i] \in ReservationRow
      BY <3>1, <3>2, RowsTyped
    <3>4. ts = [i \in DOMAIN rs |-> ts[i]]
      OBVIOUS
    <3>5. (\A i \in DOMAIN rs \ {k} : ts[i].amount = rs[i].amount) /\ ts[k].amount = part
      BY <2>1, <3>1, <3>2, RowsTyped
    <3> HIDE DEF ts
    <3> QED
      BY <3>3, <3>4, <3>5, RowsWritten
  <2>4. x \in ReservationRow /\ x.amount = margin.amount - part
    BY <1>1, <2>2 DEF ReservationRow, Reservation
  <2>5. Consume(rs, margin, row, fill) = Append(ts, x)
    BY <1>4 DEF Consume, part
  <2> HIDE DEF ts, x
  <2>6. Append(ts, x) \in Seq(ReservationRow) /\ DOMAIN rs \subseteq DOMAIN Append(ts, x)
    BY <2>3, <2>4
  <2>7. ASSUME rs[k].amount = margin.amount PROVE Amounts(Append(ts, x)) = Amounts(rs)
    <3>1. Amounts(Append(ts, x)) = Amounts(ts) + x.amount
      BY <2>3, <2>4, AmountsAppend
    <3>2. Amounts(ts) = Amounts(rs) - rs[k].amount + ts[k].amount
      BY <2>1, <2>3, AmountsReplace
    <3>3. Amounts(rs) \in Int
      BY AmountsType
    <3> QED
      BY <1>1, <2>2, <2>3, <2>4, <2>7, <3>1, <3>2, <3>3
  <2> QED
    BY <1>4, <2>5, <2>6, <2>7
<1> QED
  BY <1>2, <1>3, <1>4

\* Releasing writes statuses only, and leaves nothing reserved.
LEMMA ReleasedRows ==
    ASSUME NEW rs \in Seq(ReservationRow)
    PROVE  /\ Released(rs) \in Seq(ReservationRow) /\ DOMAIN Released(rs) = DOMAIN rs
           /\ \A i \in DOMAIN rs : /\ Released(rs)[i].amount = rs[i].amount
                                   /\ Released(rs)[i].status # "reserved"
           /\ Amounts(Released(rs)) = Amounts(rs)
<1>1. /\ DOMAIN Released(rs) = DOMAIN rs
      /\ \A i \in DOMAIN rs : /\ Released(rs)[i] \in ReservationRow
                              /\ Released(rs)[i].amount = rs[i].amount
                              /\ Released(rs)[i].status # "reserved"
  <2>1. \A r \in ReservationRow : /\ [r EXCEPT !.status = "released"] \in ReservationRow
                                  /\ [r EXCEPT !.status = "released"].amount = r.amount
                                  /\ [r EXCEPT !.status = "released"].status = "released"
    BY DEF ReservationRow
  <2> QED
    BY <2>1, RowsTyped DEF Released
<1>2. Released(rs) \in Seq(ReservationRow)
  <2>1. Released(rs) = [i \in DOMAIN rs |-> Released(rs)[i]]
    BY DEF Released
  <2> QED
    BY <1>1, <2>1, RowsWritten
<1> QED
  BY <1>1, <1>2, AmountsSame

-----------------------------------------------------------------------------
(* The parts of the invariant.                                              *)

Freed(o) == Ended(o) /\ o \notin amended

Conserved(o) ==
    /\ OrderOK(o)
    /\ Guarded(o) => /\ Filled(o) + orders[o].remaining = orders[o].volume
                     /\ orders[o].remaining >= 0
                     /\ Amounts(reservations[o]) = Rate * Terms[o].volume
    /\ Freed(o) => Reserved(o) = {}

MatchesInv == \A p \in Callers : match[p] # None => MatchOK(p)
EditsInv == \A e \in Editors : edit[e] # None => EditOK(e)
OrdersInv == \A o \in Orders : Conserved(o)

LEMMA MarginIs ==
    /\ MarginConserved <=> \A o \in Orders :
          Guarded(o) => Amounts(reservations[o]) = Rate * Terms[o].volume
    /\ MarginConserved' <=> \A o \in Orders :
          Guarded(o)' => Amounts(reservations'[o]) = Rate * Terms[o].volume
BY Zenon DEF MarginConserved, Amounts, AmountOf, MapThenSumSet, MapThenFoldSet

LEMMA Parts ==
    TradeInv <=> LocksInv /\ TradeTypeOK /\ MatchesInv /\ EditsInv /\ OrdersInv
BY MarginIs, Zenon DEF TradeInv, MatchesInv, EditsInv, OrdersInv, Conserved, Freed, PairConserves,
   EndedFreesMargin

LEMMA PartsAfter ==
    ASSUME LocksInv', TradeTypeOK', MatchesInv', EditsInv', OrdersInv'
    PROVE  TradeInv'
BY MarginIs, Zenon DEF TradeInv, MatchesInv, EditsInv, OrdersInv, Conserved, Freed, PairConserves,
   EndedFreesMargin

\* What the parts of the state are made of.
LEMMA Typed ==
    ASSUME TradeTypeOK
    PROVE  /\ \A o \in Orders : /\ orders[o] \in Row
                                /\ orders[o].status \in Statuses
                                /\ orders[o].volume \in Nat /\ orders[o].remaining \in Nat
                                /\ reservations[o] \in Seq(ReservationRow)
           /\ matches \in Seq(Match)
           /\ \A p \in Callers : match[p] # None => match[p] \in Reading
           /\ \A e \in Editors : edit[e] # None => edit[e] \in Edit
BY DEF TradeTypeOK, Row, Match, ReservationRow

LEMMA Asked ==
    ASSUME NEW a \in MatchAsks
    PROVE  /\ a.buy \in Orders /\ a.sell \in Orders /\ a.volume \in Nat /\ a.by \in Holders
           /\ Pair(a.buy, a.sell) \in LockKeys
BY TradeAssumption

-----------------------------------------------------------------------------
(* What a step that is not its own leaves of a request, and of an order.    *)

LEMMA SameFills ==
    ASSUME matches' = matches, NEW o
    PROVE  MatchesOf(o)' = MatchesOf(o) /\ Partners(o)' = Partners(o) /\ Filled(o)' = Filled(o)
<1>1. MatchesOf(o)' = MatchesOf(o)
  BY DEF MatchesOf
<1>2. Partners(o)' = Partners(o)
  BY <1>1 DEF Partners
<1>3. Filled(o)' = Filled(o)
  BY <1>1, FilledIs
<1> QED
  BY <1>1, <1>2, <1>3

\* A key that was overrun stays so, and a match keeps its partners.
LEMMA SameAlone ==
    ASSUME matches' = matches, amended \subseteq amended', overrun \subseteq overrun',
           NEW q, lease'[q] = lease[q], NEW o
    PROVE  Alone(q, o)' => Alone(q, o)
BY SameFills DEF Alone

\* What q relies on of order o.
Kept(q, o) ==
    /\ orders'[o].status # "none"
    /\ DOMAIN reservations[o] \subseteq DOMAIN reservations'[o]
    /\ Alone(q, o)' =>
          /\ Alone(q, o) /\ orders'[o].remaining = orders[o].remaining
          /\ \A i \in DOMAIN reservations[o] :
                reservations'[o][i].amount = reservations[o][i].amount

\* A match that holds m.
MatchHolds(q, m) ==
    /\ lease[q].key = Pair(m.ask.buy, m.ask.sell)
    /\ orders[m.ask.buy].status # "none" /\ orders[m.ask.sell].status # "none"
    /\ ~Working(q) => m.at = "buy"
    /\ phase[q] = "inside" =>
          /\ m.at # "buy" => RowRead(q, m.ask.buy, m.buy)
          /\ m.at \notin {"buy", "sell"} =>
                /\ RowRead(q, m.ask.sell, m.sell)
                /\ Matchable(m.ask, m.buy, m.sell) /\ Filling(m.ask, m.buy, m.sell) > 0
          /\ m.at \in {"sell_margin", "batch"} => MarginRead(q, m.ask.buy, m.buy_margin)
          /\ m.at = "batch" => MarginRead(q, m.ask.sell, m.sell_margin)

LEMMA MatchHeld ==
    ASSUME NEW q, NEW m
    PROVE  /\ match[q] = m => (MatchOK(q) <=> MatchHolds(q, m))
           /\ match'[q] = m => (MatchOK(q)' <=> MatchHolds(q, m)')
<1>1. match[q] = m => (MatchOK(q) <=> MatchHolds(q, m))
  BY DEF MatchOK, MatchHolds
<1>2. ASSUME match'[q] = m PROVE MatchOK(q)' <=> MatchHolds(q, m)'
  BY <1>2 DEF MatchOK, MatchHolds, RowRead, MarginRead, Alone
<1> QED
  BY <1>1, <1>2

LEMMA MatchStays ==
    ASSUME NEW q, NEW m, match[q] = m, MatchOK(q), match'[q] = match[q], lease'[q] = lease[q],
           phase'[q] = phase[q], Kept(q, m.ask.buy), Kept(q, m.ask.sell)
    PROVE  MatchOK(q)'
<1>1. ASSUME NEW o, Kept(q, o), NEW row, RowRead(q, o, row) PROVE RowRead(q, o, row)'
  BY <1>1 DEF Kept, RowRead
<1>2. ASSUME NEW o, Kept(q, o), NEW margin, MarginRead(q, o, margin)
      PROVE  MarginRead(q, o, margin)'
  BY <1>2 DEF Kept, MarginRead
<1>3. ASSUME NEW o, Kept(q, o) PROVE orders'[o].status # "none"
  BY <1>3 DEF Kept
<1>4. MatchHolds(q, m)
  BY MatchHeld
<1>5. Working(q)' <=> Working(q)
  BY DEF Working
<1>6. MatchHolds(q, m)'
  BY <1>1, <1>2, <1>3, <1>4, <1>5 DEF MatchHolds
<1> QED
  BY <1>6, MatchHeld

\* An order that a step leaves alone.
LEMMA OrderStays ==
    ASSUME NEW o, Conserved(o), orders'[o] = orders[o], reservations'[o] = reservations[o],
           Filled(o)' = Filled(o), MatchesOf(o)' = MatchesOf(o), Partners(o)' = Partners(o),
           o \in amended' <=> o \in amended, booked'[o] = booked[o], overrun \subseteq overrun'
    PROVE  Conserved(o)'
<1>1. OrderOK(o)'
  BY DEF Conserved, OrderOK
<1>2. Guarded(o)' => Guarded(o)
  BY DEF Guarded
<1>3. Reserved(o)' = Reserved(o) /\ (Freed(o)' <=> Freed(o))
  BY DEF Reserved, Freed, Ended
<1> QED
  BY <1>1, <1>2, <1>3 DEF Conserved

\* A step outside the tables: it may overrun a key.
LEMMA TablesStay ==
    ASSUME UNCHANGED tables, overrun \subseteq overrun'
    PROVE  /\ OrdersInv => OrdersInv'
           /\ \A e : (edit'[e] = edit[e] /\ EditOK(e)) => EditOK(e)'
           /\ \A q \in Callers :
                 (TradeTypeOK /\ MatchesInv /\ match'[q] = match[q] /\ lease'[q] = lease[q]
                    /\ phase'[q] = phase[q] /\ match[q] # None)
                 => MatchOK(q)'
<1>1. \A o : MatchesOf(o)' = MatchesOf(o) /\ Partners(o)' = Partners(o) /\ Filled(o)' = Filled(o)
  BY SameFills DEF tables
<1>2. OrdersInv => OrdersInv'
  BY <1>1, OrderStays DEF OrdersInv, tables
<1>3. \A e : (edit'[e] = edit[e] /\ EditOK(e)) => EditOK(e)'
  BY DEF EditOK, tables
<1>4. ASSUME NEW q \in Callers, TradeTypeOK, MatchesInv, match'[q] = match[q],
             lease'[q] = lease[q], phase'[q] = phase[q], match[q] # None
      PROVE  MatchOK(q)'
  <2>1. PICK m : match[q] = m
    OBVIOUS
  <2>2. MatchHolds(q, m)
    BY <1>4, <2>1, MatchHeld DEF MatchesInv
  <2>3. \A o : orders[o].status # "none" => Kept(q, o)
    BY <1>4, SameAlone DEF Kept, tables
  <2>4. Kept(q, m.ask.buy) /\ Kept(q, m.ask.sell)
    BY <2>2, <2>3 DEF MatchHolds
  <2> QED
    BY <1>4, <2>1, <2>4, MatchStays DEF MatchesInv
<1> QED
  BY <1>2, <1>3, <1>4

LEMMA StatusesDiffer ==
    /\ "none" \in Statuses /\ "open" \in Statuses /\ "partial" \in Statuses
    /\ "matched" \in Statuses /\ "cancelled" \in Statuses /\ "expired" \in Statuses
BY DEF Statuses

\* What does not get a match request going leaves the requests' types alone.
LEMMA SameMatchTypes ==
    ASSUME TradeTypeOK, match' = match, phase' = phase
    PROVE  /\ match' \in [Callers -> Reading \cup {None}]
           /\ \A q \in Callers : match'[q] = None <=> phase'[q] = "out"
BY DEF TradeTypeOK

-----------------------------------------------------------------------------
(* A request that enters, waits for its lock, has it and leaves.            *)

LEMMA AskMatchInv ==
    ASSUME LocksInv, TradeTypeOK, MatchesInv, EditsInv, OrdersInv, NEW p \in Callers, AskMatch(p)
    PROVE  LocksInv' /\ TradeTypeOK' /\ MatchesInv' /\ EditsInv' /\ OrdersInv'
<1>1. PICK a \in MatchAsks :
          /\ orders[a.buy].status # "none" /\ orders[a.sell].status # "none"
          /\ Call(p, Pair(a.buy, a.sell), a.by)
          /\ Goto(p, [at |-> "buy", ask |-> a, buy |-> None, sell |-> None,
                      buy_margin |-> NoMargin, sell_margin |-> NoMargin])
  BY DEF AskMatch
<1> DEFINE k == Pair(a.buy, a.sell)
           m == [at |-> "buy", ask |-> a, buy |-> None, sell |-> None,
                 buy_margin |-> NoMargin, sell_margin |-> NoMargin]
<1>2. a.by \in Holders /\ k \in LockKeys
  BY Asked
<1>3. UNCHANGED tables /\ edit' = edit
  BY DEF AskMatch
<1>4. LocksInv'
  BY <1>1, <1>2, CallKeepsLocks
<1>5. /\ LocksTypeOK
      /\ phase' = [phase EXCEPT ![p] = "insert"] /\ overrun' = overrun
      /\ lease' = [lease EXCEPT ![p] = [key |-> k, holder |-> a.by, expires |-> clock + Ttl]]
      /\ match' = [match EXCEPT ![p] = m]
  BY <1>1 DEF LocksInv, Call, Go, Goto
<1>6. /\ \A q \in Callers \ {p} : phase'[q] = phase[q] /\ lease'[q] = lease[q]
      /\ phase'[p] = "insert" /\ lease'[p].key = k
  BY <1>5 DEF LocksTypeOK
<1>7. /\ \A q \in Callers \ {p} : match'[q] = match[q]
      /\ match'[p] = m
  BY <1>5 DEF TradeTypeOK
<1>8. m \in Reading /\ m # None
  <2>1. NoMargin \in Margin
    BY DEF NoMargin, Margin
  <2>2. m \in Reading
    BY <2>1 DEF Reading
  <2> QED
    BY <2>2, TradeNoneAssumption
<1>9. TradeTypeOK'
  <2>1. match' \in [Callers -> Reading \cup {None}]
    BY <1>5, <1>8 DEF TradeTypeOK
  <2>2. \A q \in Callers : match'[q] = None <=> phase'[q] = "out"
    BY <1>6, <1>7, <1>8 DEF TradeTypeOK
  <2> QED
    BY <1>3, <2>1, <2>2 DEF TradeTypeOK, tables
<1>10. ASSUME NEW q \in Callers, match'[q] # None PROVE MatchOK(q)'
  <2>1. CASE q = p
    <3> HIDE DEF m, k
    <3>1. m.at = "buy" /\ m.ask = a
      BY DEF m
    <3>2. /\ orders'[a.buy].status # "none" /\ orders'[a.sell].status # "none"
          /\ lease'[p].key = Pair(a.buy, a.sell)
      BY <1>1, <1>3, <1>6 DEF k, tables
    <3>3. MatchHolds(p, m)'
      BY <1>6, <3>1, <3>2 DEF MatchHolds
    <3> QED
      BY <1>7, <2>1, <3>3, MatchHeld
  <2>2. CASE q # p
    BY <1>3, <1>5, <1>6, <1>7, <1>10, <2>2, TablesStay
  <2> QED
    BY <2>1, <2>2
<1>11. EditsInv'
  BY <1>3, <1>5, TablesStay DEF EditsInv
<1>12. OrdersInv'
  BY <1>3, <1>5, TablesStay
<1> QED
  BY <1>4, <1>9, <1>10, <1>11, <1>12 DEF MatchesInv

\* The lock's own steps.
LEMMA LockMoves ==
    ASSUME LocksTypeOK, NEW p \in Callers, Insert(p) \/ Steal(p) \/ Release(p) \/ Abandon(p)
    PROVE  /\ overrun \subseteq overrun'
           /\ \A q \in Callers \ {p} : phase'[q] = phase[q] /\ lease'[q] = lease[q]
           /\ phase[p] # "out"
           /\ phase'[p] # "out" =>
                 /\ lease'[p] = lease[p] /\ phase[p] \in {"insert", "steal"}
                 /\ phase'[p] \in {"inside", "steal"}
<1> USE DEF LocksTypeOK, Go, Leave, NoteOverrun
<1>1. CASE Insert(p)
  BY <1>1 DEF Insert
<1>2. CASE Steal(p)
  BY <1>2 DEF Steal
<1>3. CASE Release(p)
  BY <1>3 DEF Release
<1>4. CASE Abandon(p)
  BY <1>4 DEF Abandon, Working
<1> QED
  BY <1>1, <1>2, <1>3, <1>4

LEMMA LockInv ==
    ASSUME LocksInv, TradeTypeOK, MatchesInv, EditsInv, OrdersInv, NEW p \in Callers, Lock(p)
    PROVE  LocksInv' /\ TradeTypeOK' /\ MatchesInv' /\ EditsInv' /\ OrdersInv'
<1>1. Insert(p) \/ Steal(p) \/ Release(p) \/ Abandon(p)
  BY DEF Lock
<1>2. UNCHANGED tables /\ edit' = edit
  BY DEF Lock
<1>3. LocksInv'
  BY <1>1, InsertKeepsLocks, StealKeepsLocks, ReleaseKeepsLocks, AbandonKeepsLocks
<1>4. /\ overrun \subseteq overrun'
      /\ \A q \in Callers \ {p} : phase'[q] = phase[q] /\ lease'[q] = lease[q]
      /\ phase[p] # "out"
      /\ phase'[p] # "out" => /\ lease'[p] = lease[p] /\ phase[p] \in {"insert", "steal"}
                              /\ phase'[p] \in {"inside", "steal"}
  BY <1>1, LockMoves DEF LocksInv
<1>5. match' = IF phase'[p] = "out" THEN [match EXCEPT ![p] = None] ELSE match
  BY DEF Lock
<1>6. /\ \A q \in Callers \ {p} : match'[q] = match[q]
      /\ phase'[p] = "out" => match'[p] = None
      /\ phase'[p] # "out" => match'[p] = match[p] /\ match[p] # None
      /\ match' \in [Callers -> Reading \cup {None}]
  BY <1>4, <1>5 DEF TradeTypeOK
<1>7. TradeTypeOK'
  <2>1. \A q \in Callers : match'[q] = None <=> phase'[q] = "out"
    BY <1>4, <1>6 DEF TradeTypeOK
  <2> QED
    BY <1>2, <1>6, <2>1 DEF TradeTypeOK, tables
<1>8. ASSUME NEW q \in Callers, match'[q] # None PROVE MatchOK(q)'
  <2>1. CASE q = p
    <3>1. PICK m : match[p] = m
      OBVIOUS
    <3>2. phase'[p] # "out" /\ match'[p] = m /\ m # None
      BY <1>6, <1>8, <2>1, <3>1
    <3>3. MatchHolds(p, m)
      BY <3>1, <3>2, MatchHeld DEF MatchesInv
    <3>4. m.at = "buy"
      BY <1>4, <3>2, <3>3 DEF MatchHolds, Working
    <3>5. MatchHolds(p, m)'
      BY <1>2, <1>4, <3>2, <3>3, <3>4 DEF MatchHolds, tables
    <3> QED
      BY <2>1, <3>2, <3>5, MatchHeld
  <2>2. CASE q # p
    BY <1>2, <1>4, <1>6, <1>8, <2>2, TablesStay
  <2> QED
    BY <2>1, <2>2
<1>9. EditsInv'
  BY <1>2, <1>4, TablesStay DEF EditsInv
<1>10. OrdersInv'
  BY <1>2, <1>4, TablesStay
<1> QED
  BY <1>3, <1>7, <1>8, <1>9, <1>10 DEF MatchesInv

LEMMA TickInv ==
    ASSUME LocksInv, TradeTypeOK, MatchesInv, EditsInv, OrdersInv, Tick,
           UNCHANGED <<tables, match, edit>>
    PROVE  LocksInv' /\ TradeTypeOK' /\ MatchesInv' /\ EditsInv' /\ OrdersInv'
<1>1. LocksInv' /\ overrun \subseteq overrun' /\ UNCHANGED <<lease, phase>>
  BY TickKeepsLocks DEF Tick, NoteOverrun
<1>2. UNCHANGED tables
  OBVIOUS
<1>3. TradeTypeOK'
  BY <1>1, <1>2 DEF TradeTypeOK, tables
<1>4. OrdersInv' /\ EditsInv'
  BY <1>1, <1>2, TablesStay DEF EditsInv
<1>5. MatchesInv'
  BY <1>1, <1>2, TablesStay DEF MatchesInv
<1> QED
  BY <1>1, <1>3, <1>4, <1>5

-----------------------------------------------------------------------------
(* The reads of a match.                                                    *)

\* A read moves its own request on.
LEMMA ReadingOn ==
    ASSUME TradeTypeOK, MatchesInv, EditsInv, OrdersInv, NEW p \in Callers,
           UNCHANGED <<tables, edit, lease, overrun>>,
           NEW m \in Reading, match' = [match EXCEPT ![p] = m],
           \A q \in Callers \ {p} : phase'[q] = phase[q], phase'[p] # "out",
           MatchHolds(p, m)'
    PROVE  TradeTypeOK' /\ MatchesInv' /\ EditsInv' /\ OrdersInv'
<1>1. /\ \A q \in Callers \ {p} : match'[q] = match[q]
      /\ match'[p] = m /\ m # None
  BY TradeNoneAssumption DEF TradeTypeOK
<1>2. TradeTypeOK'
  <2>1. \A q \in Callers : match'[q] = None <=> phase'[q] = "out"
    BY <1>1 DEF TradeTypeOK
  <2>2. match' \in [Callers -> Reading \cup {None}]
    BY DEF TradeTypeOK
  <2> QED
    BY <2>1, <2>2 DEF TradeTypeOK, tables
<1>3. UNCHANGED tables /\ overrun \subseteq overrun'
  OBVIOUS
<1>4. ASSUME NEW q \in Callers, match'[q] # None PROVE MatchOK(q)'
  <2>1. CASE q = p
    BY <1>1, <2>1, MatchHeld
  <2>2. CASE q # p
    BY <1>1, <1>3, <1>4, <2>2, TablesStay
  <2> QED
    BY <2>1, <2>2
<1>5. OrdersInv' /\ EditsInv'
  BY <1>3, TablesStay DEF EditsInv
<1> QED
  BY <1>2, <1>4, <1>5 DEF MatchesInv

\* What holds of a request at work.
LEMMA Inside ==
    ASSUME TradeTypeOK, MatchesInv, NEW p \in Callers, phase[p] = "inside", NEW m, match[p] = m
    PROVE  /\ m \in Reading /\ MatchHolds(p, m) /\ m.ask \in MatchAsks
           /\ m.ask.buy \in Orders /\ m.ask.sell \in Orders /\ m.ask.volume \in Nat
<1>1. m # None
  BY DEF TradeTypeOK
<1>2. m \in Reading
  BY <1>1, Typed
<1>3. m.ask \in MatchAsks
  BY <1>2 DEF Reading
<1>4. MatchHolds(p, m)
  BY <1>1, MatchHeld DEF MatchesInv
<1> QED
  BY <1>2, <1>3, <1>4, Asked

LEMMA ReadBuyInv ==
    ASSUME TradeTypeOK, MatchesInv, EditsInv, OrdersInv, NEW p \in Callers, ReadBuy(p)
    PROVE  TradeTypeOK' /\ MatchesInv' /\ EditsInv' /\ OrdersInv'
<1>1. PICK m : match[p] = m
  OBVIOUS
<1>2. phase[p] = "inside" /\ m.at = "buy"
  BY <1>1 DEF ReadBuy, At
<1>3. m \in Reading /\ MatchHolds(p, m) /\ m.ask.buy \in Orders
  BY <1>1, <1>2, Inside
<1> DEFINE n == [m EXCEPT !.at = "sell", !.buy = orders[m.ask.buy]]
<1>4. /\ match' = [match EXCEPT ![p] = n]
      /\ UNCHANGED <<lock_vars, tables, edit>>
  BY <1>1 DEF ReadBuy, Goto
<1>5. orders[m.ask.buy] \in Row
  BY <1>3, Typed
<1>6. n \in Reading /\ n.at = "sell" /\ n.ask = m.ask /\ n.buy = orders[m.ask.buy]
  BY <1>3, <1>5 DEF Reading
<1> HIDE DEF n
<1>7. PICK r : r = n
  OBVIOUS
<1>8. RowRead(p, r.ask.buy, r.buy)'
  BY <1>4, <1>5, <1>6, <1>7 DEF RowRead, tables
<1>9. MatchHolds(p, r)'
  BY <1>2, <1>3, <1>4, <1>6, <1>7, <1>8 DEF MatchHolds, lock_vars, tables, Working
<1> QED
  BY <1>2, <1>4, <1>6, <1>7, <1>9, ReadingOn DEF lock_vars

LEMMA ReadMarginInv ==
    ASSUME TradeTypeOK, MatchesInv, EditsInv, OrdersInv, NEW p \in Callers, ReadMargin(p)
    PROVE  TradeTypeOK' /\ MatchesInv' /\ EditsInv' /\ OrdersInv'
<1>1. PICK m : match[p] = m
  OBVIOUS
<1>2. phase[p] = "inside" /\ m.at \in {"buy_margin", "sell_margin"}
  BY <1>1 DEF ReadMargin, At
<1>3. m \in Reading /\ MatchHolds(p, m) /\ m.ask.buy \in Orders /\ m.ask.sell \in Orders
  BY <1>1, <1>2, Inside
<1>4. UNCHANGED <<lock_vars, tables, edit>>
  BY DEF ReadMargin
<1>5. ASSUME NEW o \in Orders, NEW r \in MarginOf(o) PROVE r \in Margin /\ MarginRead(p, o, r)'
  <2>1. reservations[o] \in Seq(ReservationRow)
    BY Typed
  <2>2. CASE r = NoMargin
    BY <2>2 DEF NoMargin, Margin, MarginRead
  <2>3. CASE r # NoMargin
    <3>1. PICK i \in Reserved(o) : r = [id |-> i, amount |-> reservations[o][i].amount]
      BY <1>5, <2>3 DEF MarginOf
    <3>2. i \in DOMAIN reservations[o] /\ i \in Nat /\ reservations[o][i].amount \in Int
      BY <2>1, <3>1, RowsTyped DEF Reserved
    <3>3. r \in Margin
      BY <3>1, <3>2 DEF Margin
    <3> QED
      BY <1>4, <3>1, <3>2, <3>3 DEF MarginRead, tables
  <2> QED
    BY <2>2, <2>3
<1>6. CASE m.at = "buy_margin"
  <2>1. PICK r \in MarginOf(m.ask.buy) :
            match' = [match EXCEPT ![p] = [m EXCEPT !.at = "sell_margin", !.buy_margin = r]]
    BY <1>1, <1>6 DEF ReadMargin, At, Goto
  <2>2. r \in Margin /\ MarginRead(p, m.ask.buy, r)'
    BY <1>3, <1>5, <2>1
  <2> DEFINE n == [m EXCEPT !.at = "sell_margin", !.buy_margin = r]
  <2>3. /\ n \in Reading /\ n.at = "sell_margin" /\ n.ask = m.ask /\ n.buy = m.buy
        /\ n.sell = m.sell /\ n.buy_margin = r
    BY <1>3, <2>2 DEF Reading
  <2> HIDE DEF n
  <2>4. PICK nn : nn = n
    OBVIOUS
  <2>5. MatchHolds(p, nn)'
    <3>1. \A o, row : RowRead(p, o, row)' <=> RowRead(p, o, row)
      BY <1>4, SameFills DEF RowRead, Alone, tables, lock_vars
    <3> QED
      BY <1>2, <1>3, <1>4, <1>6, <2>2, <2>3, <2>4, <3>1 DEF MatchHolds, lock_vars, tables, Working
  <2> QED
    BY <1>2, <1>4, <2>1, <2>3, <2>4, <2>5, ReadingOn DEF lock_vars, n
<1>7. CASE m.at = "sell_margin"
  <2>1. PICK r \in MarginOf(m.ask.sell) :
            match' = [match EXCEPT ![p] = [m EXCEPT !.at = "batch", !.sell_margin = r]]
    BY <1>1, <1>7 DEF ReadMargin, At, Goto
  <2>2. r \in Margin /\ MarginRead(p, m.ask.sell, r)'
    BY <1>3, <1>5, <2>1
  <2> DEFINE n == [m EXCEPT !.at = "batch", !.sell_margin = r]
  <2>3. /\ n \in Reading /\ n.at = "batch" /\ n.ask = m.ask /\ n.buy = m.buy
        /\ n.sell = m.sell /\ n.buy_margin = m.buy_margin /\ n.sell_margin = r
    BY <1>3, <2>2 DEF Reading
  <2> HIDE DEF n
  <2>4. PICK nn : nn = n
    OBVIOUS
  <2>5. MatchHolds(p, nn)'
    <3>1. /\ \A o, row : RowRead(p, o, row)' <=> RowRead(p, o, row)
          /\ \A o, r0 : MarginRead(p, o, r0)' <=> MarginRead(p, o, r0)
      BY <1>4, SameFills DEF RowRead, MarginRead, Alone, tables, lock_vars
    <3> QED
      BY <1>2, <1>3, <1>4, <1>7, <2>2, <2>3, <2>4, <3>1 DEF MatchHolds, lock_vars, tables, Working
  <2> QED
    BY <1>2, <1>4, <2>1, <2>3, <2>4, <2>5, ReadingOn DEF lock_vars, n
<1> QED
  BY <1>2, <1>6, <1>7

LEMMA ReadSellInv ==
    ASSUME LocksInv, TradeTypeOK, MatchesInv, EditsInv, OrdersInv, NEW p \in Callers, ReadSell(p)
    PROVE  LocksInv' /\ TradeTypeOK' /\ MatchesInv' /\ EditsInv' /\ OrdersInv'
<1>1. PICK m : match[p] = m
  OBVIOUS
<1>2. phase[p] = "inside" /\ m.at = "sell"
  BY <1>1 DEF ReadSell, At
<1>3. m \in Reading /\ MatchHolds(p, m) /\ m.ask.buy \in Orders /\ m.ask.sell \in Orders
  BY <1>1, <1>2, Inside
<1>4. UNCHANGED <<clock, locks, lease, overrun>> /\ UNCHANGED <<tables, edit>>
  BY DEF ReadSell
<1> DEFINE sell == orders[m.ask.sell]
           n == [m EXCEPT !.at = "buy_margin", !.sell = sell]
<1>5. CASE Matchable(m.ask, m.buy, sell) /\ Filling(m.ask, m.buy, sell) > 0
  <2>1. match' = [match EXCEPT ![p] = n] /\ phase' = phase
    BY <1>1, <1>5 DEF ReadSell, Goto
  <2>2. sell \in Row
    BY <1>3, Typed
  <2>3. /\ n \in Reading /\ n.at = "buy_margin" /\ n.ask = m.ask /\ n.buy = m.buy
        /\ n.sell = sell
    BY <1>3, <2>2 DEF Reading
  <2>4. Matchable(n.ask, n.buy, n.sell) /\ Filling(n.ask, n.buy, n.sell) > 0
    BY <1>5, <2>3
  <2>5. sell = orders'[m.ask.sell]
    BY <1>4 DEF tables
  <2> HIDE DEF n, sell
  <2>6. PICK nn : nn = n
    OBVIOUS
  <2>7. MatchHolds(p, nn)'
    <3>1. RowRead(p, m.ask.buy, m.buy)' <=> RowRead(p, m.ask.buy, m.buy)
      <4>1. \A o, row : RowRead(p, o, row)' <=> RowRead(p, o, row)
        BY <1>4, SameFills DEF RowRead, Alone, tables
      <4> QED
        BY <4>1
    <3>2. RowRead(p, nn.ask.sell, nn.sell)'
      BY <2>2, <2>3, <2>5, <2>6 DEF RowRead
    <3> QED
      BY <1>2, <1>3, <1>4, <2>1, <2>3, <2>4, <2>6, <3>1, <3>2 DEF MatchHolds, tables, Working
  <2>8. LocksInv'
    BY <1>4, <2>1, SameLocks DEF lock_vars
  <2> QED
    BY <1>2, <1>4, <2>1, <2>3, <2>6, <2>7, <2>8, ReadingOn DEF n
<1>6. CASE ~(Matchable(m.ask, m.buy, sell) /\ Filling(m.ask, m.buy, sell) > 0)
  <2>1. Go(p, "release") /\ match' = match
    BY <1>1, <1>6 DEF ReadSell
  <2>2. LocksInv'
    BY <1>2, <1>4, <2>1, WorkKeepsLocks
  <2>3. phase' = [phase EXCEPT ![p] = "release"] /\ LocksTypeOK
    BY <2>1 DEF Go, LocksInv
  <2>4. phase'[p] = "release" /\ \A q \in Callers \ {p} : phase'[q] = phase[q]
    BY <2>3 DEF LocksTypeOK
  <2>5. match' = [match EXCEPT ![p] = m]
    BY <1>1, <2>1 DEF TradeTypeOK
  <2>6. MatchHolds(p, m)'
    BY <1>3, <1>4, <2>4 DEF MatchHolds, tables, Working
  <2> QED
    BY <1>3, <1>4, <2>2, <2>4, <2>5, <2>6, ReadingOn
<1> QED
  BY <1>5, <1>6

-----------------------------------------------------------------------------
(* The batch of a match.                                                    *)

\* What an order row reads after a fill.
LEMMA AfterRow ==
    ASSUME NEW row \in Row, NEW fill \in Nat, fill <= row.remaining, NEW v \in Nat
    PROVE  LET r == [After(row, fill) EXCEPT !.volume = v] IN
           /\ r \in Row /\ r.volume = v /\ r.remaining = row.remaining - fill
           /\ r.status \in {"matched", "partial"}
<1>1. row.remaining \in Nat /\ row.remaining - fill \in Nat
  BY DEF Row
<1> QED
  BY <1>1, StatusesDiffer DEF After, Row

\* A set that has at most one element.
LEMMA OnlyOne ==
    ASSUME NEW S, IsFiniteSet(S), Cardinality(S) <= 1, NEW x \in S
    PROVE  S = {x}
<1>1. IsFiniteSet({x}) /\ Cardinality({x}) = 1
  BY FS_Singleton
<1>2. {x} \in SUBSET S /\ Cardinality(S) \in Nat
  BY FS_CardinalityType
<1>3. Cardinality({x}) <= Cardinality(S) /\ (Cardinality(S) = Cardinality({x}) => S = {x})
  BY <1>2, FS_Subset
<1> QED
  BY <1>1, <1>2, <1>3

\* One of the two orders of a match, by what was read of it: as long as nobody
\* else touches it, this is what the row says.
LEMMA FilledOrder ==
    ASSUME TradeTypeOK, NEW p, NEW o \in Orders, NEW other, other # o, NEW row \in Row,
           NEW margin \in Margin, NEW fill \in Nat, 0 < fill, fill <= row.remaining,
           Conserved(o), RowRead(p, o, row), MarginRead(p, o, margin),
           lease[p].key = {o, other}, orders[o].status # "none",
           orders'[o] = [After(row, fill) EXCEPT !.volume = orders[o].volume],
           reservations'[o] = Consume(reservations[o], margin, row, fill),
           Filled(o) \in Int, Filled(o)' = Filled(o) + fill,
           Partners(o)' = Partners(o) \cup {other},
           amended' = amended, overrun' = overrun
    PROVE  /\ Conserved(o)'
           /\ orders'[o] \in Row /\ orders'[o].status # "none"
           /\ reservations'[o] \in Seq(ReservationRow)
           /\ DOMAIN reservations[o] \subseteq DOMAIN reservations'[o]
<1>1. orders[o].volume \in Nat /\ orders[o].remaining \in Nat
      /\ reservations[o] \in Seq(ReservationRow) /\ row.remaining \in Nat
  BY Typed DEF Row
<1>2. /\ orders'[o] \in Row /\ orders'[o].volume = orders[o].volume
      /\ orders'[o].remaining = row.remaining - fill
      /\ orders'[o].status \in {"matched", "partial"}
  BY <1>1, AfterRow
<1>3. margin # NoMargin => margin.id \in DOMAIN reservations[o]
  BY DEF MarginRead
<1>4. /\ reservations'[o] \in Seq(ReservationRow)
      /\ DOMAIN reservations[o] \subseteq DOMAIN reservations'[o]
      /\ (margin # NoMargin => reservations[o][margin.id].amount = margin.amount)
            => Amounts(reservations'[o]) = Amounts(reservations[o])
  BY <1>1, <1>3, ConsumeSplits
<1>5. IsFiniteSet(Partners(o)) /\ IsFiniteSet(Partners(o)')
  BY FS_AddElement DEF Conserved, OrderOK
<1>6. OrderOK(o)'
  BY <1>2, <1>5 DEF Conserved, OrderOK
<1>7. ASSUME Guarded(o)'
      PROVE  /\ Filled(o)' + orders'[o].remaining = orders'[o].volume
             /\ orders'[o].remaining >= 0
             /\ Amounts(reservations'[o]) = Rate * Terms[o].volume
  <2>1. Partners(o)' = {other}
    BY <1>5, <1>7, OnlyOne DEF Guarded
  <2>2. Partners(o) \subseteq {other} /\ Cardinality(Partners(o)) <= 1
    <3>1. Partners(o) \in SUBSET (Partners(o)')
      OBVIOUS
    <3>2. Cardinality(Partners(o)) <= Cardinality(Partners(o)')
      BY <1>5, <3>1, FS_Subset
    <3>3. Cardinality(Partners(o)') <= 1 /\ Cardinality(Partners(o)') \in Nat
          /\ Cardinality(Partners(o)) \in Nat
      BY <1>5, <1>7, FS_CardinalityType DEF Guarded
    <3> QED
      BY <2>1, <3>2, <3>3
  <2>3. Alone(p, o) /\ Guarded(o)
    BY <1>7, <2>2 DEF Alone, Guarded
  <2>4. /\ row.remaining = orders[o].remaining
        /\ margin # NoMargin => reservations[o][margin.id].amount = margin.amount
    BY <2>3 DEF RowRead, MarginRead
  <2>5. /\ Filled(o) + orders[o].remaining = orders[o].volume
        /\ Amounts(reservations[o]) = Rate * Terms[o].volume
    BY <2>3 DEF Conserved
  <2> QED
    BY <1>1, <1>2, <1>4, <2>4, <2>5
<1>8. ~Freed(o)'
  BY <1>2 DEF Freed, Ended
<1>9. Conserved(o)'
  BY <1>6, <1>7, <1>8 DEF Conserved
<1> QED
  BY <1>2, <1>4, <1>9

LEMMA FillInv ==
    ASSUME LocksInv, TradeTypeOK, MatchesInv, EditsInv, OrdersInv, NEW p \in Callers, Fill(p)
    PROVE  LocksInv' /\ TradeTypeOK' /\ MatchesInv' /\ EditsInv' /\ OrdersInv'
<1>1. PICK m : match[p] = m
  OBVIOUS
<1>2. phase[p] = "inside" /\ m.at = "batch"
  BY <1>1 DEF Fill, At
<1>3. /\ m \in Reading /\ MatchHolds(p, m) /\ m.ask \in MatchAsks
      /\ m.ask.buy \in Orders /\ m.ask.sell \in Orders /\ m.ask.volume \in Nat
  BY <1>1, <1>2, Inside
<1>b. PICK b \in Orders, s \in Orders : b = m.ask.buy /\ s = m.ask.sell
  BY <1>3
<1> DEFINE fill == Filling(m.ask, m.buy, m.sell)
           x == [buy |-> b, sell |-> s, volume |-> fill]
<1>4. /\ RowRead(p, b, m.buy) /\ RowRead(p, s, m.sell)
      /\ MarginRead(p, b, m.buy_margin) /\ MarginRead(p, s, m.sell_margin)
      /\ Matchable(m.ask, m.buy, m.sell) /\ fill > 0
      /\ lease[p].key = {b, s} /\ orders[b].status # "none" /\ orders[s].status # "none"
  BY <1>2, <1>3, <1>b DEF MatchHolds, Pair
<1>5. b # s
  BY <1>4, <1>b DEF Matchable
<1>6. m.buy \in Row /\ m.sell \in Row /\ m.buy_margin \in Margin /\ m.sell_margin \in Margin
  BY <1>3, <1>4 DEF RowRead, Reading
<1>7. fill \in Nat /\ fill <= m.buy.remaining /\ fill <= m.sell.remaining
  <2>1. m.buy.remaining \in Nat /\ m.sell.remaining \in Nat
    BY <1>6 DEF Row
  <2> QED
    BY <1>3, <2>1 DEF Filling, Minimum
<1>8. /\ matches' = Append(matches, x)
      /\ orders' = [orders EXCEPT
            ![b] = [After(m.buy, fill) EXCEPT !.volume = orders[b].volume],
            ![s] = [After(m.sell, fill) EXCEPT !.volume = orders[s].volume]]
      /\ reservations' = [reservations EXCEPT
            ![b] = Consume(@, m.buy_margin, m.buy, fill),
            ![s] = Consume(@, m.sell_margin, m.sell, fill)]
      /\ Go(p, "release")
      /\ UNCHANGED <<clock, locks, lease, overrun, amended, booked, match, edit>>
  BY <1>1, <1>b DEF Fill
<1>9. x \in Match /\ matches \in Seq(Match) /\ x.buy = b /\ x.sell = s /\ x.volume = fill
  BY <1>3, <1>7, Typed DEF Match
<1> HIDE DEF fill, x
<1>10. /\ orders'[b] = [After(m.buy, fill) EXCEPT !.volume = orders[b].volume]
       /\ orders'[s] = [After(m.sell, fill) EXCEPT !.volume = orders[s].volume]
       /\ \A o \in Orders \ {b, s} : orders'[o] = orders[o]
  BY <1>3, <1>5, <1>8 DEF TradeTypeOK
<1>11. /\ reservations'[b] = Consume(reservations[b], m.buy_margin, m.buy, fill)
       /\ reservations'[s] = Consume(reservations[s], m.sell_margin, m.sell, fill)
       /\ \A o \in Orders \ {b, s} : reservations'[o] = reservations[o]
  BY <1>3, <1>5, <1>8 DEF TradeTypeOK
<1>12. /\ \A o \in {b, s} : /\ Filled(o)' = Filled(o) + fill
                            /\ Partners(o)' = Partners(o) \cup ({b, s} \ {o})
       /\ \A o : o \notin {b, s} => /\ Filled(o)' = Filled(o) /\ MatchesOf(o)' = MatchesOf(o)
                                    /\ Partners(o)' = Partners(o)
       /\ \A o : Filled(o) \in Int
  BY <1>8, <1>9, FilledAppend, MatchesFinite
<1>13. {b, s} \ {b} = {s} /\ {b, s} \ {s} = {b}
  BY <1>5
<1>14. Conserved(b) /\ Conserved(s)
  BY <1>3 DEF OrdersInv
<1>l. LocksTypeOK
  BY DEF LocksInv
<1>15. /\ Conserved(b)' /\ orders'[b] \in Row /\ orders'[b].status # "none"
       /\ reservations'[b] \in Seq(ReservationRow)
       /\ DOMAIN reservations[b] \subseteq DOMAIN reservations'[b]
  <2>1. b \in Orders /\ s # b /\ amended' = amended /\ overrun' = overrun
    BY <1>3, <1>5, <1>8
  <2>2. Filled(b)' = Filled(b) + fill /\ Partners(b)' = Partners(b) \cup {s} /\ Filled(b) \in Int
    BY <1>12, <1>13
  <2>3. /\ 0 < fill /\ fill \in Nat /\ fill <= m.buy.remaining
        /\ m.buy \in Row /\ m.buy_margin \in Margin
        /\ RowRead(p, b, m.buy) /\ MarginRead(p, b, m.buy_margin)
    BY <1>4, <1>6, <1>7
  <2>4. /\ lease[p].key = {b, s} /\ orders[b].status # "none"
        /\ orders'[b] = [After(m.buy, fill) EXCEPT !.volume = orders[b].volume]
        /\ reservations'[b] = Consume(reservations[b], m.buy_margin, m.buy, fill)
    BY <1>4, <1>10, <1>11, <2>1
  <2> QED
    BY <1>14, <2>1, <2>2, <2>3, <2>4, FilledOrder
<1>16. /\ Conserved(s)' /\ orders'[s] \in Row /\ orders'[s].status # "none"
       /\ reservations'[s] \in Seq(ReservationRow)
       /\ DOMAIN reservations[s] \subseteq DOMAIN reservations'[s]
  <2>1. /\ s \in Orders /\ s # b /\ amended' = amended /\ overrun' = overrun
        /\ lease[p].key = {s, b}
    BY <1>3, <1>4, <1>5, <1>8
  <2>2. Filled(s)' = Filled(s) + fill /\ Partners(s)' = Partners(s) \cup {b} /\ Filled(s) \in Int
    BY <1>12, <1>13
  <2>3. /\ 0 < fill /\ fill \in Nat /\ fill <= m.sell.remaining
        /\ m.sell \in Row /\ m.sell_margin \in Margin
        /\ RowRead(p, s, m.sell) /\ MarginRead(p, s, m.sell_margin)
    BY <1>4, <1>6, <1>7
  <2>4. /\ lease[p].key = {s, b} /\ orders[s].status # "none"
        /\ orders'[s] = [After(m.sell, fill) EXCEPT !.volume = orders[s].volume]
        /\ reservations'[s] = Consume(reservations[s], m.sell_margin, m.sell, fill)
    BY <1>4, <1>10, <1>11, <2>1
  <2> QED
    BY <1>14, <2>1, <2>2, <2>3, <2>4, FilledOrder
<1>17. OrdersInv'
  <2> SUFFICES ASSUME NEW o \in Orders PROVE Conserved(o)'
    BY DEF OrdersInv
  <2>1. CASE o \in {b, s}
    BY <1>15, <1>16, <2>1
  <2>2. CASE o \notin {b, s}
    <3>1. Conserved(o) /\ o \in Orders \ {b, s}
      BY <2>2 DEF OrdersInv
    <3>2. amended' = amended /\ booked' = booked /\ overrun \subseteq overrun'
      BY <1>8
    <3> QED
      BY <1>10, <1>11, <1>12, <2>2, <3>1, <3>2, OrderStays
  <2> QED
    BY <2>1, <2>2
<1>18. LocksInv'
  BY <1>2, <1>8, WorkKeepsLocks
<1>19. phase'[p] = "release" /\ \A q \in Callers \ {p} : phase'[q] = phase[q]
  BY <1>8, <1>l DEF Go, LocksTypeOK
<1>20. TradeTypeOK'
  <2>1. orders' \in [Orders -> Row]
    <3>1. \A o \in Orders : orders'[o] \in Row
      BY <1>10, <1>15, <1>16, Typed
    <3>2. orders' = [o \in Orders |-> orders'[o]]
      BY <1>8 DEF TradeTypeOK
    <3> QED
      BY <3>1, <3>2
  <2>2. reservations' \in [Orders -> Seq(ReservationRow)]
    <3>1. \A o \in Orders : reservations'[o] \in Seq(ReservationRow)
      BY <1>11, <1>15, <1>16, Typed
    <3>2. reservations' = [o \in Orders |-> reservations'[o]]
      BY <1>8 DEF TradeTypeOK
    <3> QED
      BY <3>1, <3>2
  <2>3. matches' \in Seq(Match)
    BY <1>8, <1>9
  <2>4. \A q \in Callers : match'[q] = None <=> phase'[q] = "out"
    BY <1>2, <1>8, <1>19 DEF TradeTypeOK
  <2>5. amended' = amended /\ booked' = booked /\ match' = match /\ edit' = edit
    BY <1>8
  <2> QED
    BY <2>1, <2>2, <2>3, <2>4, <2>5 DEF TradeTypeOK, ReservationRow, Match
<1>21. \A o \in Orders : orders[o].status # "none" => orders'[o].status # "none"
  BY <1>10, <1>15, <1>16
<1>22. EditsInv'
  <2> SUFFICES ASSUME NEW e \in Editors, edit'[e] # None PROVE EditOK(e)'
    BY DEF EditsInv
  <2>1. edit'[e] = edit[e] /\ EditOK(e) /\ edit[e] \in Edit
    BY <1>8, Typed DEF EditsInv
  <2>2. \A o \in edit[e].on : o \in Orders
    BY <2>1 DEF Edit
  <2> QED
    BY <1>21, <2>1, <2>2 DEF EditOK
<1>23. ASSUME NEW q \in Callers, match'[q] # None PROVE MatchOK(q)'
  <2>1. PICK n : match[q] = n
    OBVIOUS
  <2>2. match'[q] = n /\ n # None /\ match[q] = n /\ lease'[q] = lease[q]
    BY <1>8, <1>23, <2>1
  <2>3. /\ MatchHolds(q, n) /\ n \in Reading /\ n.ask \in MatchAsks
        /\ n.ask.buy \in Orders /\ n.ask.sell \in Orders
    BY <2>2, MatchHeld, Typed, Asked DEF MatchesInv, Reading
  <2>4. /\ lease'[q].key = Pair(n.ask.buy, n.ask.sell)
        /\ orders'[n.ask.buy].status # "none" /\ orders'[n.ask.sell].status # "none"
    BY <1>21, <2>2, <2>3 DEF MatchHolds
  <2>5. CASE q = p
    <3>1. MatchHolds(q, n)'
      BY <1>19, <2>4, <2>5 DEF MatchHolds, Working
    <3> QED
      BY <2>2, <3>1, MatchHeld
  <2>6. CASE q # p /\ phase[q] # "inside"
    <3>1. MatchHolds(q, n)'
      BY <1>19, <2>3, <2>4, <2>6 DEF MatchHolds, Working
    <3> QED
      BY <2>2, <3>1, MatchHeld
  <2>7. CASE q # p /\ phase[q] = "inside"
    <3>1. ASSUME NEW o \in {n.ask.buy, n.ask.sell} PROVE Kept(q, o)
      <4>1. o \in Orders /\ orders'[o].status # "none"
        BY <2>3, <2>4
      <4>2. CASE o \in {b, s}
        <5>1. ASSUME Alone(q, o)' PROVE FALSE
          <6>1. {b, s} \ {o} \subseteq lease[q].key /\ o \in lease[q].key
            BY <1>12, <2>2, <2>4, <4>2, <5>1 DEF Alone, Pair
          <6>2. lease[q].key = {n.ask.buy, n.ask.sell}
            BY <2>2, <2>4 DEF Pair
          <6>3. lease[q].key = lease[p].key
            BY <1>4, <1>5, <4>2, <6>1, <6>2
          <6>4. lease[p].key \in overrun
            BY <1>2, <2>7, <6>3, LocksExclude DEF Exclusive, Working
          <6> QED
            BY <1>4, <1>8, <4>2, <5>1, <6>4 DEF Alone
        <5>2. DOMAIN reservations[o] \subseteq DOMAIN reservations'[o]
          BY <1>15, <1>16, <4>2
        <5> QED
          BY <4>1, <5>1, <5>2 DEF Kept
      <4>3. CASE o \notin {b, s}
        <5>1. orders'[o] = orders[o] /\ reservations'[o] = reservations[o]
          BY <1>10, <1>11, <4>1, <4>3
        <5>2. Alone(q, o)' => Alone(q, o)
          BY <1>8, <1>12, <4>3 DEF Alone
        <5> QED
          BY <4>1, <5>1, <5>2 DEF Kept
      <4> QED
        BY <4>2, <4>3
    <3> QED
      BY <1>8, <1>19, <1>23, <2>1, <2>2, <2>7, <3>1, MatchStays DEF MatchesInv
  <2> QED
    BY <2>5, <2>6, <2>7
<1> QED
  BY <1>17, <1>18, <1>20, <1>22, <1>23 DEF MatchesInv

-----------------------------------------------------------------------------
(* What writes orders without matching them.                                *)

\* No match relies on more of an order than what such a step keeps.
LEMMA WrittenUnmatched ==
    ASSUME TradeTypeOK, MatchesInv, UNCHANGED <<lock_vars, match>>,
           \A q \in Callers, o \in Orders, r \in Orders :
              (orders[o].status # "none" /\ lease[q].key = Pair(o, r)) => Kept(q, o)
    PROVE  MatchesInv'
<1> SUFFICES ASSUME NEW q \in Callers, match'[q] # None PROVE MatchOK(q)'
  BY DEF MatchesInv
<1>1. PICK m : match[q] = m
  OBVIOUS
<1>2. /\ MatchHolds(q, m) /\ m \in Reading /\ m.ask \in MatchAsks
      /\ m.ask.buy \in Orders /\ m.ask.sell \in Orders
  BY <1>1, MatchHeld, Typed, Asked DEF MatchesInv, Reading
<1>3. Kept(q, m.ask.buy) /\ Kept(q, m.ask.sell)
  <2>1. Pair(m.ask.buy, m.ask.sell) = Pair(m.ask.sell, m.ask.buy)
    BY DEF Pair
  <2> QED
    BY <1>2, <2>1 DEF MatchHolds
<1>4. lease'[q] = lease[q] /\ phase'[q] = phase[q] /\ MatchOK(q) /\ match'[q] = match[q]
  BY DEF lock_vars, MatchesInv
<1> QED
  BY <1>1, <1>3, <1>4, MatchStays

LEMMA PlaceInv ==
    ASSUME LocksInv, TradeTypeOK, MatchesInv, EditsInv, OrdersInv, NEW o \in Orders, Place(o)
    PROVE  LocksInv' /\ TradeTypeOK' /\ MatchesInv' /\ EditsInv' /\ OrdersInv'
<1> DEFINE v == Terms[o].volume
           x == Reservation(Rate * v)
<1>1. /\ orders[o].status = "none"
      /\ orders' = [orders EXCEPT ![o] = [status |-> "open", volume |-> v, remaining |-> v]]
      /\ reservations' = [reservations EXCEPT ![o] = Append(@, x)]
      /\ UNCHANGED <<lock_vars, matches, amended, booked, match, edit>>
  BY DEF Place
<1>2. v \in Nat /\ Rate * v \in Nat
  <2>1. v \in Nat /\ Rate \in Nat
    BY TradeAssumption
  <2> QED
    BY <2>1
<1>3. x \in ReservationRow /\ x.amount = Rate * v
  BY <1>2 DEF Reservation, ReservationRow
<1> HIDE DEF v, x
<1>4. reservations[o] = <<>> /\ MatchesOf(o) = {} /\ o \notin amended
  BY <1>1 DEF OrdersInv, Conserved, OrderOK
<1>5. /\ orders'[o] = [status |-> "open", volume |-> v, remaining |-> v]
      /\ reservations'[o] = Append(<<>>, x)
      /\ \A q \in Orders \ {o} : orders'[q] = orders[q] /\ reservations'[q] = reservations[q]
  BY <1>1, <1>4 DEF TradeTypeOK
<1>6. <<>> \in Seq(ReservationRow) /\ Append(<<>>, x) \in Seq(ReservationRow)
  BY <1>3
<1>7. orders'[o] \in Row
  BY <1>2, <1>5, StatusesDiffer DEF Row
<1>8. TradeTypeOK'
  <2>1. orders' \in [Orders -> Row]
    BY <1>1, <1>5, <1>7 DEF TradeTypeOK
  <2>2. reservations' \in [Orders -> Seq(ReservationRow)]
    <3>1. \A q \in Orders : reservations'[q] \in Seq(ReservationRow)
      BY <1>5, <1>6, Typed
    <3>2. reservations' = [q \in Orders |-> reservations'[q]]
      BY <1>1 DEF TradeTypeOK
    <3> QED
      BY <3>1, <3>2
  <2> QED
    BY <1>1, <2>1, <2>2 DEF TradeTypeOK, ReservationRow, lock_vars
<1>9. LocksInv'
  BY <1>1, SameLocks
<1>10. MatchesInv'
  <2>1. ASSUME NEW q \in Callers, NEW r \in Orders, orders[r].status # "none" PROVE Kept(q, r)
    <3>1. orders'[r] = orders[r] /\ reservations'[r] = reservations[r]
      BY <1>1, <1>5, <2>1
    <3>2. Alone(q, r)' => Alone(q, r)
      BY <1>1, SameAlone DEF lock_vars
    <3> QED
      BY <2>1, <3>1, <3>2 DEF Kept
  <2> QED
    BY <1>1, <2>1, WrittenUnmatched
<1>11. EditsInv'
  <2> SUFFICES ASSUME NEW e \in Editors, edit'[e] # None PROVE EditOK(e)'
    BY DEF EditsInv
  <2>1. edit'[e] = edit[e] /\ EditOK(e) /\ edit[e] \in Edit
    BY <1>1, Typed DEF EditsInv
  <2>2. \A q \in edit[e].on : q \in Orders /\ orders'[q].status # "none"
    BY <1>1, <1>5, <2>1 DEF Edit, EditOK
  <2> QED
    BY <2>1, <2>2 DEF EditOK
<1>12. \A q : MatchesOf(q)' = MatchesOf(q) /\ Partners(q)' = Partners(q) /\ Filled(q)' = Filled(q)
  BY <1>1, SameFills
<1>13. Conserved(o)'
  <2>1. IsFiniteSet(Partners(o))
    BY DEF OrdersInv, Conserved, OrderOK
  <2>2. OrderOK(o)'
    BY <1>1, <1>5, <1>12, <2>1 DEF OrderOK, v
  <2>3. Filled(o)' = 0
    <3>1. IsFiniteSet({})
      BY FS_EmptySet
    <3>2. VolumeOf(matches, {}) = SumOf([i \in {} |-> matches[i].volume], {})
      BY <3>1, VolumeSum
    <3>3. SumOf([i \in {} |-> matches[i].volume], {}) = 0
      BY <3>1, SumPick
    <3> QED
      BY <1>4, <1>12, <3>2, <3>3, FilledIs
  <2>4. Amounts(reservations'[o]) = Rate * Terms[o].volume
    <3>1. Amounts(Append(<<>>, x)) = Amounts(<<>>) + x.amount
      BY <1>3, <1>6, AmountsAppend
    <3> QED
      BY <1>2, <1>3, <1>5, <3>1, AmountsEmpty DEF v
  <2>5. ~Freed(o)'
    BY <1>5 DEF Freed, Ended
  <2>6. 0 + v = v /\ v >= 0
    BY <1>2
  <2> QED
    BY <1>5, <2>2, <2>3, <2>4, <2>5, <2>6 DEF Conserved
<1>14. OrdersInv'
  <2> SUFFICES ASSUME NEW q \in Orders PROVE Conserved(q)'
    BY DEF OrdersInv
  <2>1. CASE q # o
    <3>1. Conserved(q) /\ orders'[q] = orders[q] /\ reservations'[q] = reservations[q]
      BY <1>5, <2>1 DEF OrdersInv
    <3> QED
      BY <1>1, <1>12, <3>1, OrderStays DEF lock_vars
  <2> QED
    BY <1>13, <2>1
<1> QED
  BY <1>8, <1>9, <1>10, <1>11, <1>14

\* An order that the order book has dealt with: its row may be open again, or
\* cancelled with its margin reserved, and what is left of it is as it was as
\* long as one pair's lock guards it.
LEMMA PostInv ==
    ASSUME LocksInv, TradeTypeOK, MatchesInv, EditsInv, OrdersInv, NEW o \in Orders,
           Rest(o) \/ CancelUnfilled(o) \/ FailToPost(o)
    PROVE  LocksInv' /\ TradeTypeOK' /\ MatchesInv' /\ EditsInv' /\ OrdersInv'
<1>1. /\ orders[o] \in Row /\ orders[o].status \in Statuses /\ orders[o].volume \in Nat
      /\ orders[o].remaining \in Nat /\ Terms[o].volume \in Nat
  BY Typed, TradeAssumption
<1>2. Conserved(o) /\ Filled(o) \in Nat
  BY Typed, MatchesFinite DEF OrdersInv
<1>3. PICK row, outcome :
          /\ row \in Row /\ outcome \in {"done", "cancelled"}
          /\ Post(o, outcome) /\ orders' = [orders EXCEPT ![o] = row]
          /\ row.status # "none" /\ row.volume = orders[o].volume
          /\ Guarded(o) => row.remaining = orders[o].remaining
          /\ (row.status \in {"cancelled", "expired"} /\ outcome # "cancelled")
                => row.status = orders[o].status
  <2>1. CASE Rest(o)
    <3> DEFINE row == [orders[o] EXCEPT !.status = "open", !.remaining = Terms[o].volume]
    <3>1. Post(o, "done") /\ orders[o].remaining >= orders[o].volume /\ orders' = [orders EXCEPT ![o] = row]
      BY <2>1 DEF Rest, TradeTypeOK
    <3>2. row \in Row /\ row.status = "open" /\ row.volume = orders[o].volume
          /\ row.remaining = Terms[o].volume
      BY <1>1, StatusesDiffer DEF Row
    <3>3. ASSUME Guarded(o) PROVE Terms[o].volume = orders[o].remaining
      <4>1. orders[o].volume = Terms[o].volume /\ Filled(o) + orders[o].remaining = orders[o].volume
        BY <1>2, <3>3 DEF Conserved, OrderOK, Guarded
      <4> QED
        BY <1>1, <1>2, <3>1, <4>1
    <3> HIDE DEF row
    <3> QED
      BY <3>1, <3>2, <3>3
  <2>2. CASE CancelUnfilled(o)
    <3> DEFINE row == [orders[o] EXCEPT !.status = "cancelled"]
    <3>1. Post(o, "cancelled") /\ orders' = [orders EXCEPT ![o] = row]
      BY <2>2 DEF CancelUnfilled, TradeTypeOK
    <3>2. row \in Row /\ row.status = "cancelled" /\ row.volume = orders[o].volume
          /\ row.remaining = orders[o].remaining
      BY <1>1, StatusesDiffer DEF Row
    <3> HIDE DEF row
    <3> QED
      BY <3>1, <3>2
  <2>3. CASE FailToPost(o)
    <3>1. Post(o, "done") /\ orders' = orders /\ orders[o].status # "none"
      BY <2>3 DEF FailToPost, Post
    <3>2. orders' = [orders EXCEPT ![o] = orders[o]]
      BY <3>1 DEF TradeTypeOK
    <3> QED
      BY <1>1, <3>1, <3>2
  <2> QED
    BY <2>1, <2>2, <2>3
<1>4. /\ orders[o].status # "none" /\ booked[o] = "no"
      /\ booked' = [booked EXCEPT ![o] = outcome]
      /\ UNCHANGED <<lock_vars, matches, reservations, amended, match, edit>>
  BY <1>3 DEF Post
<1>5. /\ orders'[o] = row /\ booked'[o] = outcome
      /\ \A q \in Orders \ {o} : orders'[q] = orders[q] /\ booked'[q] = booked[q]
      /\ \A q \in Orders : orders[q].status # "none" => orders'[q].status # "none"
  BY <1>3, <1>4 DEF TradeTypeOK
<1>6. TradeTypeOK'
  <2>1. /\ orders' \in [Orders -> Row]
        /\ booked' \in [Orders -> {"no", "done", "cancelled"}]
    BY <1>3, <1>4 DEF TradeTypeOK
  <2> QED
    BY <1>4, <2>1 DEF TradeTypeOK, lock_vars
<1>7. LocksInv'
  BY <1>4, SameLocks
<1>8. MatchesInv'
  <2>1. ASSUME NEW q \in Callers, NEW u \in Orders, NEW r \in Orders,
               orders[u].status # "none", lease[q].key = Pair(u, r)
        PROVE  Kept(q, u)
    <3>1. Alone(q, u)' => Alone(q, u)
      BY <1>4, SameAlone DEF lock_vars
    <3>2. CASE u # o
      BY <1>4, <1>5, <2>1, <3>1, <3>2 DEF Kept
    <3>3. CASE u = o
      <4>1. ASSUME Alone(q, o) PROVE Guarded(o)
        <5>1. o \notin Partners(o) /\ Partners(o) \subseteq {o, r}
          BY <2>1, <3>3, <4>1 DEF Alone, Partners, Pair
        <5>2. Partners(o) \in SUBSET {r} /\ IsFiniteSet({r}) /\ Cardinality({r}) = 1
          BY <5>1, FS_Singleton
        <5>3. Cardinality(Partners(o)) <= 1
          BY <5>2, FS_Subset
        <5> QED
          BY <1>4, <4>1, <5>3 DEF Alone, Guarded
      <4> QED
        BY <1>3, <1>4, <1>5, <3>1, <3>3, <4>1 DEF Kept
    <3> QED
      BY <3>2, <3>3
  <2> QED
    BY <1>4, <2>1, WrittenUnmatched
<1>9. EditsInv'
  <2> SUFFICES ASSUME NEW e \in Editors, edit'[e] # None PROVE EditOK(e)'
    BY DEF EditsInv
  <2>1. edit'[e] = edit[e] /\ EditOK(e) /\ edit[e] \in Edit
    BY <1>4, Typed DEF EditsInv
  <2>2. \A q \in edit[e].on : q \in Orders /\ orders'[q].status # "none"
    BY <1>5, <2>1 DEF Edit, EditOK
  <2> QED
    BY <2>1, <2>2 DEF EditOK
<1>10. \A q : MatchesOf(q)' = MatchesOf(q) /\ Partners(q)' = Partners(q) /\ Filled(q)' = Filled(q)
  BY <1>4, SameFills
<1>11. Conserved(o)'
  <2>1. OrderOK(o)'
    BY <1>2, <1>3, <1>4, <1>5, <1>10 DEF Conserved, OrderOK
  <2>2. Guarded(o)' => Guarded(o)
    BY <1>4, <1>10 DEF Guarded, lock_vars
  <2>3. Freed(o)' => Freed(o)
    BY <1>3, <1>4, <1>5 DEF Freed, Ended
  <2>4. Reserved(o)' = Reserved(o) /\ reservations'[o] = reservations[o]
    BY <1>4 DEF Reserved
  <2> QED
    BY <1>2, <1>3, <1>5, <1>10, <2>1, <2>2, <2>3, <2>4 DEF Conserved
<1>12. OrdersInv'
  <2> SUFFICES ASSUME NEW q \in Orders PROVE Conserved(q)'
    BY DEF OrdersInv
  <2>1. CASE q # o
    <3>1. /\ Conserved(q) /\ orders'[q] = orders[q] /\ reservations'[q] = reservations[q]
          /\ booked'[q] = booked[q]
      BY <1>4, <1>5, <2>1 DEF OrdersInv
    <3> QED
      BY <1>4, <1>10, <3>1, OrderStays DEF lock_vars
  <2> QED
    BY <1>11, <2>1
<1> QED
  BY <1>6, <1>7, <1>8, <1>9, <1>12

\* The reads of an edit.
LEMMA ReadEditInv ==
    ASSUME LocksInv, TradeTypeOK, MatchesInv, EditsInv, OrdersInv, NEW e \in Editors,
           ReadCancel(e) \/ ReadExpired(e) \/ ReadAmend(e)
    PROVE  LocksInv' /\ TradeTypeOK' /\ MatchesInv' /\ EditsInv' /\ OrdersInv'
<1>1. PICK x \in Edit :
          /\ edit' = [edit EXCEPT ![e] = x]
          /\ \A o \in x.on : orders[o].status # "none"
          /\ x.op = "amend" => x.row \in Row /\ x.volume > x.row.volume - x.row.remaining
  <2>1. CASE ReadCancel(e)
    <3>1. PICK o \in Orders :
              /\ orders[o].status = "open"
              /\ Editing(e, [op |-> "cancel", on |-> {o}, row |-> None, volume |-> 0])
      BY <2>1 DEF ReadCancel
    <3> DEFINE x == [op |-> "cancel", on |-> {o}, row |-> None, volume |-> 0]
    <3>2. x \in Edit /\ x.op = "cancel" /\ x.on = {o}
      BY DEF Edit
    <3> QED
      BY <3>1, <3>2 DEF Editing
  <2>2. CASE ReadExpired(e)
    <3> DEFINE lapsed == {o \in Orders : /\ Live(orders[o]) /\ Terms[o].good_till # None
                                         /\ Terms[o].good_till <= clock}
               x == [op |-> "expire", on |-> lapsed, row |-> None, volume |-> 0]
    <3>1. edit' = [edit EXCEPT ![e] = x]
      BY <2>2 DEF ReadExpired, Editing
    <3>2. x \in Edit /\ x.op = "expire" /\ x.on = lapsed
      BY DEF Edit
    <3>3. \A o \in lapsed : orders[o].status # "none"
      BY DEF Live
    <3> QED
      BY <3>1, <3>2, <3>3
  <2>3. CASE ReadAmend(e)
    <3>1. PICK o \in Orders, v \in NewVolumes :
              /\ Live(orders[o]) /\ v > orders[o].volume - orders[o].remaining
              /\ Editing(e, [op |-> "amend", on |-> {o}, row |-> orders[o], volume |-> v])
      BY <2>3, TradeAssumption DEF ReadAmend
    <3> DEFINE x == [op |-> "amend", on |-> {o}, row |-> orders[o], volume |-> v]
    <3>2. v \in Nat /\ orders[o] \in Row
      BY TradeAssumption, Typed
    <3>3. x \in Edit /\ x.on = {o} /\ x.row = orders[o] /\ x.volume = v
      BY <3>2 DEF Edit
    <3> QED
      BY <3>1, <3>2, <3>3 DEF Editing, Live
  <2> QED
    BY <2>1, <2>2, <2>3
<1>2. UNCHANGED <<lock_vars, tables, match>>
  BY DEF ReadCancel, ReadExpired, ReadAmend
<1>3. UNCHANGED tables /\ overrun \subseteq overrun' /\ UNCHANGED <<lease, phase>>
  BY <1>2 DEF lock_vars
<1>4. edit'[e] = x /\ \A d \in Editors \ {e} : edit'[d] = edit[d]
  BY <1>1 DEF TradeTypeOK
<1>5. TradeTypeOK'
  <2>1. edit' \in [Editors -> Edit \cup {None}]
    BY <1>1 DEF TradeTypeOK
  <2> QED
    BY <1>2, <1>3, <2>1 DEF TradeTypeOK, tables
<1>6. EditsInv'
  <2> SUFFICES ASSUME NEW d \in Editors, edit'[d] # None PROVE EditOK(d)'
    BY DEF EditsInv
  <2>1. CASE d = e
    BY <1>1, <1>3, <1>4, <2>1 DEF EditOK, tables
  <2>2. CASE d # e
    BY <1>3, <1>4, <2>2, TablesStay DEF EditsInv
  <2> QED
    BY <2>1, <2>2
<1>7. MatchesInv'
  BY <1>2, <1>3, TablesStay DEF MatchesInv
<1>8. LocksInv' /\ OrdersInv'
  BY <1>2, <1>3, SameLocks, TablesStay
<1> QED
  BY <1>5, <1>6, <1>7, <1>8

\* An edit that has written is gone, and the others see orders that were placed.
LEMMA EditsAfter ==
    ASSUME TradeTypeOK, EditsInv, NEW e \in Editors, Editing(e, None),
           \A o \in Orders : orders[o].status # "none" => orders'[o].status # "none"
    PROVE  EditsInv' /\ edit' \in [Editors -> Edit \cup {None}]
<1>1. /\ edit' \in [Editors -> Edit \cup {None}] /\ edit'[e] = None
      /\ \A d \in Editors \ {e} : edit'[d] = edit[d]
  BY DEF Editing, TradeTypeOK
<1> SUFFICES ASSUME NEW d \in Editors, edit'[d] # None PROVE EditOK(d)'
  BY <1>1 DEF EditsInv
<1>2. edit'[d] = edit[d] /\ EditOK(d) /\ edit[d] \in Edit
  BY <1>1, Typed DEF EditsInv
<1>3. \A o \in edit[d].on : o \in Orders /\ orders'[o].status # "none"
  BY <1>2 DEF Edit, EditOK
<1> QED
  BY <1>2, <1>3 DEF EditOK

LEMMA EndOrdersInv ==
    ASSUME LocksInv, TradeTypeOK, MatchesInv, EditsInv, OrdersInv, NEW e \in Editors, EndOrders(e)
    PROVE  LocksInv' /\ TradeTypeOK' /\ MatchesInv' /\ EditsInv' /\ OrdersInv'
<1>1. PICK os, st :
          /\ os = edit[e].on /\ st \in {"cancelled", "expired"}
          /\ orders' = WithStatus(os, st)
          /\ reservations' = [o \in Orders |-> IF o \in os THEN Released(reservations[o])
                                              ELSE reservations[o]]
  BY DEF EndOrders
<1>2. Editing(e, None) /\ UNCHANGED <<lock_vars, matches, amended, booked, match>> /\ edit[e] # None
  BY DEF EndOrders
<1>3. \A o \in os : orders[o].status # "none"
  BY <1>1, <1>2 DEF EditsInv, EditOK
<1>4. /\ \A o \in Orders \cap os : /\ orders'[o] = [orders[o] EXCEPT !.status = st]
                                   /\ reservations'[o] = Released(reservations[o])
      /\ \A o \in Orders \ os : orders'[o] = orders[o] /\ reservations'[o] = reservations[o]
  BY <1>1 DEF WithStatus
<1>5. ASSUME NEW o \in Orders
      PROVE  /\ orders'[o] \in Row /\ reservations'[o] \in Seq(ReservationRow)
             /\ orders'[o].volume = orders[o].volume /\ orders'[o].remaining = orders[o].remaining
             /\ o \in os => orders'[o].status = st
             /\ DOMAIN reservations'[o] = DOMAIN reservations[o]
             /\ \A i \in DOMAIN reservations[o] :
                   /\ reservations'[o][i].amount = reservations[o][i].amount
                   /\ o \in os => reservations'[o][i].status # "reserved"
             /\ Amounts(reservations'[o]) = Amounts(reservations[o])
  <2>1. orders[o] \in Row /\ reservations[o] \in Seq(ReservationRow) /\ st \in Statuses
    BY <1>1, Typed, StatusesDiffer
  <2>2. CASE o \in os
    <3>1. /\ [orders[o] EXCEPT !.status = st] \in Row
          /\ [orders[o] EXCEPT !.status = st].volume = orders[o].volume
          /\ [orders[o] EXCEPT !.status = st].remaining = orders[o].remaining
          /\ [orders[o] EXCEPT !.status = st].status = st
      BY <2>1 DEF Row
    <3>2. orders'[o] = [orders[o] EXCEPT !.status = st] /\ reservations'[o] = Released(reservations[o])
      BY <1>4, <2>2
    <3>3. /\ reservations'[o] \in Seq(ReservationRow)
          /\ DOMAIN reservations'[o] = DOMAIN reservations[o]
          /\ \A i \in DOMAIN reservations[o] :
                /\ reservations'[o][i].amount = reservations[o][i].amount
                /\ reservations'[o][i].status # "reserved"
          /\ Amounts(reservations'[o]) = Amounts(reservations[o])
      BY <2>1, <3>2, ReleasedRows
    <3> QED
      BY <2>2, <3>1, <3>2, <3>3
  <2>3. CASE o \notin os
    BY <1>4, <2>1, <2>3
  <2> QED
    BY <2>2, <2>3
<1>6. \A o \in Orders : orders'[o].status = orders[o].status \/ (o \in os /\ orders'[o].status = st)
  BY <1>4, <1>5
<1>7. EditsInv' /\ edit' \in [Editors -> Edit \cup {None}]
  <2>1. \A o \in Orders : orders[o].status # "none" => orders'[o].status # "none"
    BY <1>1, <1>6
  <2> QED
    BY <1>2, <2>1, EditsAfter
<1>8. TradeTypeOK'
  <2>1. orders' \in [Orders -> Row] /\ reservations' \in [Orders -> Seq(ReservationRow)]
    <3>1. /\ orders' = [o \in Orders |-> orders'[o]]
          /\ reservations' = [o \in Orders |-> reservations'[o]]
      BY <1>1 DEF WithStatus
    <3> QED
      BY <1>5, <3>1
  <2>2. UNCHANGED <<matches, amended, booked, match, phase>>
    BY <1>2 DEF lock_vars
  <2> QED
    BY <1>7, <2>1, <2>2 DEF TradeTypeOK, ReservationRow
<1>9. LocksInv'
  BY <1>2, SameLocks
<1>10. MatchesInv'
  <2>1. ASSUME NEW q \in Callers, NEW o \in Orders, orders[o].status # "none" PROVE Kept(q, o)
    <3>1. Alone(q, o)' => Alone(q, o)
      BY <1>2, SameAlone DEF lock_vars
    <3> QED
      BY <1>1, <1>5, <1>6, <2>1, <3>1 DEF Kept
  <2> QED
    BY <1>2, <2>1, WrittenUnmatched
<1>11. OrdersInv'
  <2> SUFFICES ASSUME NEW o \in Orders PROVE Conserved(o)'
    BY DEF OrdersInv
  <2>1. Conserved(o)
    BY DEF OrdersInv
  <2>2. /\ MatchesOf(o)' = MatchesOf(o) /\ Partners(o)' = Partners(o) /\ Filled(o)' = Filled(o)
        /\ amended' = amended /\ booked' = booked /\ overrun' = overrun
    BY <1>2, SameFills DEF lock_vars
  <2>3. CASE o \in os
    <3>1. orders[o].status # "none" /\ orders'[o].status = st
      BY <1>3, <1>5, <2>3
    <3>2. OrderOK(o)'
      BY <1>1, <1>5, <2>1, <2>2, <3>1 DEF Conserved, OrderOK
    <3>3. Guarded(o)' => Guarded(o)
      BY <2>2, <3>1 DEF Guarded
    <3>4. Reserved(o)' = {}
      BY <1>5, <2>3 DEF Reserved
    <3> QED
      BY <1>5, <2>1, <2>2, <3>2, <3>3, <3>4 DEF Conserved
  <2>4. CASE o \notin os
    <3>1. orders'[o] = orders[o] /\ reservations'[o] = reservations[o]
      BY <1>4, <2>4
    <3> QED
      BY <2>1, <2>2, <3>1, OrderStays
  <2> QED
    BY <2>3, <2>4
<1> QED
  BY <1>7, <1>8, <1>9, <1>10, <1>11

LEMMA AmendInv ==
    ASSUME LocksInv, TradeTypeOK, MatchesInv, EditsInv, OrdersInv, NEW e \in Editors, Amend(e)
    PROVE  LocksInv' /\ TradeTypeOK' /\ MatchesInv' /\ EditsInv' /\ OrdersInv'
<1>1. PICK x : x = edit[e]
  OBVIOUS
<1>2. x \in Edit /\ EditOK(e) /\ x.op = "amend"
  BY <1>1, Typed DEF Amend, EditsInv
<1> DEFINE rest == x.volume - (x.row.volume - x.row.remaining)
<1>3. PICK o \in x.on :
          /\ orders' = [orders EXCEPT ![o].volume = x.volume, ![o].remaining = rest]
          /\ reservations' = [reservations EXCEPT ![o] =
                                 Append(Released(@), Reservation(Rate * rest))]
          /\ amended' = amended \cup {o}
  BY <1>1 DEF Amend
<1>4. Editing(e, None) /\ UNCHANGED <<lock_vars, matches, booked, match>>
  BY DEF Amend
<1>5. rest \in Nat /\ x.volume \in Nat /\ Rate * rest \in Int
  <2>1. x.row \in Row /\ x.volume > x.row.volume - x.row.remaining
    BY <1>1, <1>2 DEF EditOK
  <2>2. x.row.volume \in Nat /\ x.row.remaining \in Nat /\ x.volume \in Nat
    BY <1>2, <2>1 DEF Row, Edit
  <2>3. rest \in Nat
    BY <2>1, <2>2
  <2>4. Rate \in Nat
    BY TradeAssumption
  <2> HIDE DEF rest
  <2> QED
    BY <2>2, <2>3, <2>4
<1> HIDE DEF rest
<1>6. o \in Orders /\ orders[o].status # "none"
  BY <1>1, <1>2 DEF EditOK, Edit
<1>7. /\ orders'[o] = [orders[o] EXCEPT !.volume = x.volume, !.remaining = rest]
      /\ reservations'[o] = Append(Released(reservations[o]), Reservation(Rate * rest))
      /\ \A q \in Orders \ {o} : orders'[q] = orders[q] /\ reservations'[q] = reservations[q]
  BY <1>3, <1>6 DEF TradeTypeOK
<1>8. orders'[o] \in Row /\ orders'[o].status = orders[o].status
  BY <1>5, <1>6, <1>7, Typed DEF Row
<1>9. /\ reservations'[o] \in Seq(ReservationRow)
      /\ DOMAIN reservations[o] \subseteq DOMAIN reservations'[o]
  <2>1. /\ Released(reservations[o]) \in Seq(ReservationRow)
        /\ DOMAIN Released(reservations[o]) = DOMAIN reservations[o]
    BY <1>6, Typed, ReleasedRows
  <2>2. Reservation(Rate * rest) \in ReservationRow
    BY <1>5 DEF Reservation, ReservationRow
  <2> DEFINE rs == Released(reservations[o])  r == Reservation(Rate * rest)
  <2> HIDE DEF rs, r
  <2>3. rs \in Seq(ReservationRow) /\ r \in ReservationRow /\ DOMAIN rs = DOMAIN reservations[o]
    BY <2>1, <2>2 DEF rs, r
  <2>4. Append(rs, r) \in Seq(ReservationRow) /\ DOMAIN rs \subseteq DOMAIN Append(rs, r)
    BY <2>3
  <2> QED
    BY <1>7, <2>3, <2>4 DEF rs, r
<1>10. EditsInv' /\ edit' \in [Editors -> Edit \cup {None}]
  <2>1. \A q \in Orders : orders[q].status # "none" => orders'[q].status # "none"
    BY <1>7, <1>8
  <2> QED
    BY <1>4, <2>1, EditsAfter
<1>11. TradeTypeOK'
  <2>1. orders' \in [Orders -> Row] /\ reservations' \in [Orders -> Seq(ReservationRow)]
    <3>1. \A q \in Orders : orders'[q] \in Row /\ reservations'[q] \in Seq(ReservationRow)
      BY <1>7, <1>8, <1>9, Typed
    <3>2. /\ orders' = [q \in Orders |-> orders'[q]]
          /\ reservations' = [q \in Orders |-> reservations'[q]]
      BY <1>3 DEF TradeTypeOK
    <3> QED
      BY <3>1, <3>2
  <2>2. UNCHANGED <<matches, booked, match, phase>> /\ amended' \subseteq Orders
    BY <1>3, <1>4, <1>6 DEF lock_vars, TradeTypeOK
  <2> QED
    BY <1>10, <2>1, <2>2 DEF TradeTypeOK, ReservationRow
<1>12. LocksInv'
  BY <1>4, SameLocks
<1>13. MatchesInv'
  <2>1. ASSUME NEW q \in Callers, NEW r \in Orders, orders[r].status # "none" PROVE Kept(q, r)
    <3>1. Alone(q, r)' => Alone(q, r) /\ r # o
      BY <1>3, <1>4, SameAlone DEF lock_vars, Alone
    <3> QED
      BY <1>7, <1>8, <1>9, <2>1, <3>1 DEF Kept
  <2> QED
    BY <1>4, <2>1, WrittenUnmatched
<1>14. OrdersInv'
  <2> SUFFICES ASSUME NEW r \in Orders PROVE Conserved(r)'
    BY DEF OrdersInv
  <2>1. Conserved(r)
    BY DEF OrdersInv
  <2>2. /\ MatchesOf(r)' = MatchesOf(r) /\ Partners(r)' = Partners(r) /\ Filled(r)' = Filled(r)
        /\ booked' = booked /\ overrun' = overrun
    BY <1>4, SameFills DEF lock_vars
  <2>3. CASE r = o
    <3>1. r \in amended'
      BY <1>3, <2>3
    <3> QED
      BY <1>6, <1>8, <2>1, <2>2, <2>3, <3>1 DEF Conserved, OrderOK, Guarded, Freed, Ended
  <2>4. CASE r # o
    <3>1. /\ orders'[r] = orders[r] /\ reservations'[r] = reservations[r]
          /\ r \in amended' <=> r \in amended
      BY <1>3, <1>7, <2>4
    <3> QED
      BY <2>1, <2>2, <3>1, OrderStays
  <2> QED
    BY <2>3, <2>4
<1> QED
  BY <1>10, <1>11, <1>12, <1>13, <1>14

-----------------------------------------------------------------------------
(* The theorems.                                                            *)

LEMMA InitInv == Init => TradeInv
<1> SUFFICES ASSUME Init PROVE TradeInv
  OBVIOUS
<1> USE DEF Init
<1>1. LocksInv
  BY InitLocks
<1>2. TradeTypeOK
  <2>1. [status |-> "none", volume |-> 0, remaining |-> 0] \in Row
    BY StatusesDiffer DEF Row
  <2>2. /\ orders \in [Orders -> Row] /\ amended \subseteq Orders
        /\ booked \in [Orders -> {"no", "done", "cancelled"}]
    BY <2>1
  <2>3. /\ matches \in Seq(Match) /\ reservations \in [Orders -> Seq(ReservationRow)]
    OBVIOUS
  <2>4. /\ match \in [Callers -> Reading \cup {None}] /\ edit \in [Editors -> Edit \cup {None}]
        /\ \A p \in Callers : match[p] = None <=> phase[p] = "out"
    BY DEF LocksInit
  <2> QED
    BY <2>2, <2>3, <2>4 DEF TradeTypeOK, Match, ReservationRow
<1>3. MatchesInv /\ EditsInv
  BY DEF MatchesInv, EditsInv
<1>4. OrdersInv
  <2> SUFFICES ASSUME NEW o \in Orders PROVE Conserved(o)
    BY DEF OrdersInv
  <2>1. orders[o].status = "none" /\ reservations[o] = <<>> /\ o \notin amended
    OBVIOUS
  <2>2. MatchesOf(o) = {}
    BY DEF MatchesOf
  <2>3. Partners(o) = {}
    BY <2>2 DEF Partners
  <2>4. IsFiniteSet(Partners(o))
    BY <2>3, FS_EmptySet
  <2> QED
    BY <2>1, <2>2, <2>4 DEF Conserved, OrderOK, Guarded, Freed, Ended
<1> QED
  BY <1>1, <1>2, <1>3, <1>4, Parts

LEMMA StepInv == TradeInv /\ [Next]_vars => TradeInv'
<1> SUFFICES ASSUME TradeInv, [Next]_vars PROVE TradeInv'
  OBVIOUS
<1>p. LocksInv /\ TradeTypeOK /\ MatchesInv /\ EditsInv /\ OrdersInv
  BY Parts
<1>1. ASSUME NEW o \in Orders, PlaceOrder(o) PROVE TradeInv'
  <2>1. CASE Place(o)
    BY <1>p, <2>1, PlaceInv, PartsAfter
  <2>2. CASE Rest(o) \/ CancelUnfilled(o) \/ FailToPost(o)
    BY <1>p, <2>2, PostInv, PartsAfter
  <2> QED
    BY <1>1, <2>1, <2>2 DEF PlaceOrder
<1>2. ASSUME NEW p \in Callers, MatchOrders(p) PROVE TradeInv'
  <2>1. CASE AskMatch(p)
    BY <1>p, <2>1, AskMatchInv, PartsAfter
  <2>2. CASE Lock(p)
    BY <1>p, <2>2, LockInv, PartsAfter
  <2>3. CASE ReadBuy(p)
    <3>1. LocksInv'
      BY <1>p, <2>3, SameLocks DEF ReadBuy
    <3> QED
      BY <1>p, <2>3, <3>1, ReadBuyInv, PartsAfter
  <2>4. CASE ReadSell(p)
    BY <1>p, <2>4, ReadSellInv, PartsAfter
  <2>5. CASE ReadMargin(p)
    <3>1. LocksInv'
      BY <1>p, <2>5, SameLocks DEF ReadMargin
    <3> QED
      BY <1>p, <2>5, <3>1, ReadMarginInv, PartsAfter
  <2>6. CASE Fill(p)
    BY <1>p, <2>6, FillInv, PartsAfter
  <2> QED
    BY <1>2, <2>1, <2>2, <2>3, <2>4, <2>5, <2>6 DEF MatchOrders
<1>3. ASSUME NEW e \in Editors, EditOrder(e) PROVE TradeInv'
  <2>1. CASE ReadCancel(e) \/ ReadExpired(e) \/ ReadAmend(e)
    BY <1>p, <2>1, ReadEditInv, PartsAfter
  <2>2. CASE EndOrders(e)
    BY <1>p, <2>2, EndOrdersInv, PartsAfter
  <2>3. CASE Amend(e)
    BY <1>p, <2>3, AmendInv, PartsAfter
  <2> QED
    BY <1>3, <2>1, <2>2, <2>3 DEF EditOrder
<1>4. CASE Tick /\ UNCHANGED <<tables, match, edit>>
  BY <1>p, <1>4, TickInv, PartsAfter
<1>5. CASE UNCHANGED vars
  <2>1. UNCHANGED <<lock_vars, tables, match, edit>>
    BY <1>5 DEF vars, tables
  <2>2. LocksInv'
    BY <1>p, <2>1, SameLocks
  <2>3. UNCHANGED tables /\ overrun \subseteq overrun' /\ UNCHANGED <<lease, phase, match, edit>>
    BY <2>1 DEF lock_vars
  <2>4. TradeTypeOK'
    BY <1>p, <2>3 DEF TradeTypeOK, tables
  <2>5. OrdersInv' /\ EditsInv' /\ MatchesInv'
    BY <1>p, <2>3, TablesStay DEF EditsInv, MatchesInv
  <2> QED
    BY <2>2, <2>4, <2>5, PartsAfter
<1> QED
  BY <1>1, <1>2, <1>3, <1>4, <1>5 DEF Next

\* What matches, edits and the lock keep of the orders, for any number of
\* orders, requests and edits.
THEOREM TradeInductive == Spec => []TradeInv
<1> QED
  BY InitInv, StepInv, PTL DEF Spec

\* An order that one pair's lock guards is filled by what its row says, and
\* never beyond its volume.
THEOREM PairConservesHolds == Spec => []PairConserves
<1>1. TradeInv => PairConserves
  BY DEF TradeInv
<1> QED
  BY <1>1, TradeInductive, PTL

\* Its margin is split and consumed without loss, whatever a cancel or an
\* expiry released in between.
THEOREM MarginConservedHolds == Spec => []MarginConserved
<1>1. TradeInv => MarginConserved
  BY DEF TradeInv
<1> QED
  BY <1>1, TradeInductive, PTL

\* An order that reads cancelled or expired holds no margin, whatever matches
\* were under way when it was ended, but for one that the order book cancelled.
THEOREM EndedFreesMarginHolds == Spec => []EndedFreesMargin
<1>1. TradeInv => EndedFreesMargin
  BY DEF TradeInv
<1> QED
  BY <1>1, TradeInductive, PTL
=============================================================================
