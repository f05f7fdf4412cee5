----------------------------- MODULE SealProofs -----------------------------
(***************************************************************************)
(* Theorems on the merkle seal and the export: however seals, exports and   *)
(* commits interleave, every sealed root recomputes, no event is skipped,   *)
(* and a pack whose query cuts no txn verifies.                             *)
(***************************************************************************)
EXTENDS MerkleSeal, TLAPS

\* What the provers must know of records and sequences beyond SealTypeOK,
\* which TLC evaluates: the shape of roots, seals and packs.
RootSet == {MerkleRoot(l) : l \in Seq(Hash)} \cup {<<>>}
RootRow == [from : Nat, to : Nat, root : RootSet]
Shape ==
    /\ roots \in Seq(RootRow)
    /\ seal \in [Sealers -> RootRow]
    /\ pack \in [Exporters -> [events : SUBSET Event, roots : Seq(RootRow)]]

RootsOK == \A i \in DOMAIN roots : RootOK(roots[i])
SealsOK == \A p \in Sealers : SealOK(p)
PacksOK == \A x \in Exporters : PackOK(x)

FullInv == Shape /\ SealInv

\* The hashes of a window of the log are a sequence of hashes.
LEMMA LeavesType ==
    ASSUME log \in Seq(Event), NEW from \in Nat, NEW to \in Nat, from <= to, to <= Len(log)
    PROVE  Leaves(from, to) \in Seq(Hash)
<1>1. to - from \in Nat
  OBVIOUS
<1>2. ASSUME NEW k \in 1..(to - from) PROVE HashOf(log[from + k]) \in Hash
  <2>1. from + k \in 1..Len(log)
    OBVIOUS
  <2>2. log[from + k] \in Event
    BY <2>1
  <2> QED
    BY <2>2 DEF HashOf, Hash, Event
<1> QED
  BY <1>1, <1>2 DEF Leaves

\* A window of the log stays as it is when the log grows.
LEMMA LeavesKept ==
    ASSUME log \in Seq(Event), NEW e \in Event, log' = Append(log, e),
           NEW from \in Nat, NEW to \in Nat, to <= Len(log)
    PROVE  Leaves(from, to)' = Leaves(from, to)
<1>1. ASSUME NEW k \in 1..(to - from) PROVE log'[from + k] = log[from + k]
  <2>1. from + k \in 1..Len(log)
    OBVIOUS
  <2> QED
    BY <2>1
<1> QED
  BY <1>1 DEF Leaves, HashOf

\* A pack is what it was while log and exporter stay as they are.
LEMMA PackKept ==
    ASSUME NEW x \in Exporters, PackOK(x), log' = log, pc'[x] = pc[x],
           pack'[x] = pack[x], query'[x] = query[x], left'[x] = left[x]
    PROVE  PackOK(x)'
<1>1. \A i \in DOMAIN pack'[x].roots : RootOK(pack[x].roots[i])'
  BY DEF PackOK, RootOK, Leaves
<1>2. \A e \in pack'[x].events : \E i \in DOMAIN log' : log'[i] = e
  BY DEF PackOK
<1>3. WithEarlier(query[x], pack[x].events)'
  BY DEF PackOK, WithEarlier, Uncut
<1>4. /\ pc'[x] \in {"idle", "events", "roots", "exported"}
      /\ pc'[x] = "idle" => pack'[x].events = {}
      /\ (pc'[x] = "events" /\ Cardinality(query'[x].chains) <= BindChunk) => left'[x] = query'[x].chains
  BY DEF PackOK
<1> QED
  BY <1>1, <1>2, <1>3, <1>4 DEF PackOK

LEMMA InitInv == Init => FullInv
<1> SUFFICES ASSUME Init PROVE FullInv
  OBVIOUS
<1> USE LogAssumption, QueriesAssumption, SealBoundsAssumption, JobsAssumption
<1>1. Shape
  BY DEF Init, Shape, RootRow, RootSet, NoSeal, NoPack
<1>2. SealTypeOK
  BY DEF Init, SealTypeOK, Jobs, NoSeal, NoPack, NoQuery
<1>3. LogOK
  BY DEF Init, LogOK
<1>4. RootsOK /\ NothingSkipped
  BY DEF Init, RootsOK, NothingSkipped
<1>5. SealsOK
  BY DEF Init, SealsOK, SealOK, Jobs
<1>6. PacksOK
  BY DEF Init, PacksOK, PackOK, WithEarlier, Jobs, NoPack
<1> QED
  BY <1>1, <1>2, <1>3, <1>4, <1>5, <1>6 DEF FullInv, SealInv, RootsOK, SealsOK, PacksOK

-----------------------------------------------------------------------------
(* A commit.                                                                *)

\* The event a commit appends continues its txn's log.
LEMMA LandLog ==
    ASSUME FullInv, NEW t \in Txns, Land(t)
    PROVE  /\ LogOK'
           /\ \E e \in Event : log' = Append(log, e)
           /\ heads' \in [Txns -> Nat]
<1> USE LogAssumption, SealBoundsAssumption
<1>t. log \in Seq(Event) /\ heads \in [Txns -> Nat] /\ now \in 0..MaxTime
  BY DEF FullInv, SealInv, SealTypeOK
<1>l. LogOK
  BY DEF FullInv, SealInv
<1>1. PICK at \in 0..now, c \in Chains :
         /\ \A i \in DOMAIN log : log[i].txn = t => log[i].at <= at
         /\ log' = Append(log, [txn |-> t, chain |-> c, seq |-> heads[t] + 1, at |-> at,
                                prev |-> IF heads[t] = 0 THEN Genesis(c) ELSE <<t, heads[t]>>,
                                gseq |-> Len(log) + 1])
  BY DEF Land
<1> DEFINE e == [txn |-> t, chain |-> c, seq |-> heads[t] + 1, at |-> at,
                 prev |-> IF heads[t] = 0 THEN Genesis(c) ELSE <<t, heads[t]>>,
                 gseq |-> Len(log) + 1]
<1>2. e \in Event
  <2>1. e.prev \in Hash
    BY <1>t DEF Hash, Genesis
  <2> QED
    BY <1>t, <2>1 DEF Event
<1>3. log' = Append(log, e)
  BY <1>1
<1>4. heads' = [heads EXCEPT ![t] = @ + 1]
  BY DEF Land
<1>5. e.txn = t /\ e.chain = c /\ e.seq = heads[t] + 1 /\ e.at = at /\ e.gseq = Len(log) + 1
      /\ e.prev = IF heads[t] = 0 THEN Genesis(c) ELSE <<t, heads[t]>>
  OBVIOUS
<1> HIDE DEF e
<1>6. DOMAIN log' = 1..(Len(log) + 1) /\ log'[Len(log) + 1] = e
      /\ \A i \in DOMAIN log : log'[i] = log[i]
  BY <1>t, <1>2, <1>3
<1>7. \A i \in DOMAIN log : log[i] \in Event
  BY <1>t
<1>8. heads'[t] = heads[t] + 1 /\ \A u \in Txns : heads[u] <= heads'[u] /\ heads'[u] \in Nat
  BY <1>t, <1>4
<1>9. ASSUME NEW i \in DOMAIN log'
      PROVE  /\ log'[i].gseq = i
             /\ log'[i].seq <= heads'[log'[i].txn]
             /\ log'[i].prev = IF log'[i].seq = 1 THEN Genesis(log'[i].chain)
                               ELSE <<log'[i].txn, log'[i].seq - 1>>
  <2>1. CASE i \in DOMAIN log
    <3>1. log'[i] = log[i] /\ log[i].txn \in Txns /\ log[i].seq \in Nat
      BY <2>1, <1>6, <1>7 DEF Event
    <3>2. log[i].seq <= heads[log[i].txn]
      BY <2>1, <1>l DEF LogOK
    <3>3. log'[i].seq <= heads'[log'[i].txn]
      BY <3>1, <3>2, <1>8, <1>t
    <3> QED
      BY <2>1, <3>1, <3>3, <1>l DEF LogOK
  <2>2. CASE i = Len(log) + 1
    <3>1. log'[i] = e /\ heads[t] \in Nat /\ heads'[t] = heads[t] + 1
      BY <2>2, <1>t, <1>6, <1>8
    <3>2. (e.seq = 1 <=> heads[t] = 0) /\ e.seq - 1 = heads[t]
      BY <3>1, <1>5
    <3>3. e.prev = IF e.seq = 1 THEN Genesis(e.chain) ELSE <<e.txn, e.seq - 1>>
      BY <3>2, <1>5
    <3> QED
      BY <2>2, <3>1, <3>3, <1>5
  <2> QED
    BY <1>t, <1>6, <2>1, <2>2
<1>10. ASSUME NEW i \in DOMAIN log', NEW j \in DOMAIN log', log'[i].txn = log'[j].txn, i < j
       PROVE  log'[i].seq < log'[j].seq /\ log'[i].at <= log'[j].at
  <2>1. i \in DOMAIN log /\ log'[i] = log[i]
    BY <1>t, <1>6, <1>10
  <2>2. CASE j \in DOMAIN log
    BY <2>1, <2>2, <1>l, <1>6, <1>10 DEF LogOK
  <2>3. CASE j = Len(log) + 1
    <3>1. log[i].txn = t /\ log'[j] = e
      BY <2>1, <2>3, <1>5, <1>6, <1>10
    <3>2. log[i].seq <= heads[t] /\ log[i].seq \in Nat
      BY <2>1, <3>1, <1>l, <1>7 DEF LogOK, Event
    <3> QED
      BY <2>1, <3>1, <3>2, <1>1, <1>5, <1>t
  <2> QED
    BY <1>t, <1>6, <2>2, <2>3
<1>11. ASSUME NEW u \in Txns, NEW s \in 1..heads'[u]
       PROVE  \E i \in DOMAIN log' : log'[i].txn = u /\ log'[i].seq = s
  <2>1. CASE s \in 1..heads[u]
    <3>1. PICK i \in DOMAIN log : log[i].txn = u /\ log[i].seq = s
      BY <2>1, <1>l DEF LogOK
    <3> QED
      BY <3>1, <1>6, <1>t
  <2>2. CASE s \notin 1..heads[u]
    <3>1. u = t /\ s = heads[t] + 1
      BY <2>2, <1>t, <1>4, <1>8
    <3> QED
      BY <3>1, <1>5, <1>6, <1>t
  <2> QED
    BY <2>1, <2>2
<1>12. LogOK'
  BY <1>9, <1>10, <1>11 DEF LogOK
<1> QED
  BY <1>2, <1>3, <1>4, <1>8, <1>12, <1>t

LEMMA LandStep == ASSUME FullInv, NEW t \in Txns, Land(t) PROVE FullInv'
<1>t. log \in Seq(Event) /\ Shape
  BY DEF FullInv, SealInv, SealTypeOK
<1>u. UNCHANGED <<roots, now, pc, seal, query, left, pack, crashes>>
  BY DEF Land, export_vars
<1>1. LogOK' /\ heads' \in [Txns -> Nat]
  BY LandLog
<1>2. PICK e \in Event : log' = Append(log, e)
  BY LandLog
<1>3. Shape'
  BY <1>u, <1>t DEF Shape
<1>4. Len(log') = Len(log) + 1 /\ \A i \in DOMAIN log : i \in DOMAIN log' /\ log'[i] = log[i]
  BY <1>t, <1>2
<1>5. SealTypeOK'
  <2>1. log' \in Seq(Event)
    BY <1>t, <1>2
  <2> QED
    BY <1>1, <1>u, <2>1 DEF FullInv, SealInv, SealTypeOK, Jobs
<1>6. \A from, to \in Nat : to <= Len(log) => Leaves(from, to)' = Leaves(from, to)
  BY <1>t, <1>2, LeavesKept
<1>7. \A r \in RootRow : RootOK(r) =>
         /\ r.from \in 1..r.to /\ r.to <= Len(log')
         /\ r.root = MerkleRoot(Leaves(r.from - 1, r.to)')
  <2> SUFFICES ASSUME NEW r \in RootRow, RootOK(r)
               PROVE  /\ r.from \in 1..r.to /\ r.to <= Len(log')
                      /\ r.root = MerkleRoot(Leaves(r.from - 1, r.to)')
    OBVIOUS
  <2>1. r.from - 1 \in Nat /\ r.to \in Nat /\ r.to <= Len(log) /\ Len(log) \in Nat
    BY <1>t DEF RootOK, RootRow
  <2> QED
    BY <1>4, <1>6, <2>1 DEF RootOK
<1>8. RootsOK'
  <2>1. \A i \in DOMAIN roots : roots[i] \in RootRow /\ RootOK(roots[i])
    BY <1>t DEF Shape, FullInv, SealInv
  <2> QED
    BY <1>7, <1>u, <2>1 DEF RootsOK, RootOK
<1>9. NothingSkipped'
  BY <1>u DEF FullInv, SealInv, NothingSkipped
<1>10. SealsOK'
  <2> SUFFICES ASSUME NEW p \in Sealers PROVE SealOK(p)'
    BY DEF SealsOK
  <2>1. SealOK(p) /\ seal[p] \in RootRow /\ Len(log) \in Nat
    BY <1>t DEF FullInv, SealInv, Shape
  <2>2. seal[p].from \in Nat /\ seal[p].to \in Nat
    BY <2>1 DEF RootRow
  <2>3. pc[p] \in {"window", "append"} => seal[p].to <= Len(log')
    BY <2>1, <2>2, <1>4 DEF SealOK
  <2>4. pc[p] = "append" => seal[p].root = MerkleRoot(Leaves(seal[p].from, seal[p].to)')
    BY <2>1, <2>2, <1>6, <1>u DEF SealOK
  <2> QED
    BY <2>1, <2>3, <2>4, <1>u DEF SealOK, Ends
<1>11. PacksOK'
  <2> SUFFICES ASSUME NEW x \in Exporters PROVE PackOK(x)'
    BY DEF PacksOK
  <2>1. PackOK(x) /\ pack[x].roots \in Seq(RootRow)
    BY <1>t DEF FullInv, SealInv, Shape
  <2>2. \A i \in DOMAIN pack[x].roots : RootOK(pack[x].roots[i])'
    <3>1. \A i \in DOMAIN pack[x].roots : pack[x].roots[i] \in RootRow /\ RootOK(pack[x].roots[i])
      BY <2>1 DEF PackOK
    <3> QED
      BY <1>7, <1>u, <3>1 DEF RootOK
  <2>3. \A d \in pack[x].events : \E i \in DOMAIN log' : log'[i] = d
    BY <2>1, <1>4 DEF PackOK
  <2>4. ASSUME query[x].from = 0, NEW i \in DOMAIN log', NEW j \in DOMAIN log',
               log'[i].txn = log'[j].txn, i < j, log'[j] \in pack[x].events,
               Uncut(query[x], log[j])'
        PROVE  log'[i] \in pack[x].events
    <3>1. PICK k \in DOMAIN log : log'[j] = log[k]
      BY <2>1, <2>4 DEF PackOK
    <3>2. log'[j].gseq = j /\ log[k].gseq = k
      BY <1>1 DEF LogOK, FullInv, SealInv
    <3>3. j = k
      BY <3>1, <3>2
    <3>4. i \in DOMAIN log /\ log'[i] = log[i]
      BY <3>3, <2>4, <1>t, <1>2, <1>4
    <3>5. Uncut(query[x], log[j])
      <4>1. Uncut(query[x], log[j])' /\ query'[x] = query[x] /\ log'[j] = log[j]
        BY <2>4, <3>1, <3>3, <1>u
      <4> QED
        BY <4>1, <1>4 DEF Uncut
    <3> QED
      BY <3>1, <3>3, <3>4, <3>5, <2>1, <2>4 DEF PackOK, WithEarlier
  <2>5. PackOK(x)'
    <3>1. WithEarlier(query[x], pack[x].events)'
      BY <2>4, <1>u DEF WithEarlier
    <3> QED
      BY <2>1, <2>2, <2>3, <3>1, <1>u DEF PackOK
  <2> QED
    BY <2>5
<1> QED
  BY <1>1, <1>3, <1>5, <1>8, <1>9, <1>10, <1>11 DEF FullInv, SealInv, RootsOK, SealsOK, PacksOK

-----------------------------------------------------------------------------
(* The seal: the log stays as it is.                                        *)

\* A step of one sealer that keeps log, roots and exporters is judged by that
\* sealer alone.
LEMMA SealerMoves ==
    ASSUME FullInv, NEW p \in Sealers, NEW w \in RootRow, NEW c \in {"idle", "count", "window", "append"},
           pc' = [pc EXCEPT ![p] = c], seal' = [seal EXCEPT ![p] = w],
           log' = log, heads' = heads, roots' = roots, now' = now,
           query' = query, left' = left, pack' = pack, crashes' \in 0..MaxCrashes,
           c # "idle" => w.from \in Ends,
           c \in {"window", "append"} => w.from < w.to /\ w.to <= Len(log),
           c = "append" => w.root = MerkleRoot(Leaves(w.from, w.to))
    PROVE  FullInv'
<1>1. Shape /\ SealTypeOK /\ LogOK /\ NothingSkipped
  BY DEF FullInv, SealInv
<1>2. Shape'
  BY <1>1 DEF Shape
<1>3. \A q \in Sealers : seal'[q] = IF q = p THEN w ELSE seal[q]
  BY <1>1 DEF Shape
<1>4. \A q \in Jobs : pc'[q] = IF q = p THEN c ELSE pc[q]
  BY <1>1 DEF SealTypeOK, Jobs
<1>5. SealTypeOK'
  <2>1. w.from \in Nat /\ w.to \in Nat
    BY DEF RootRow
  <2>2. pc' \in [Jobs -> {"idle", "count", "window", "append", "events", "roots", "exported"}]
    BY <1>1 DEF SealTypeOK, Jobs
  <2> QED
    BY <1>1, <1>3, <2>1, <2>2 DEF SealTypeOK
<1>6. LogOK' /\ NothingSkipped'
  BY <1>1 DEF LogOK, NothingSkipped, Genesis
<1>7. RootsOK'
  BY DEF FullInv, SealInv, RootsOK, RootOK, Leaves
<1>8. SealsOK'
  <2>1. ASSUME NEW q \in Sealers PROVE SealOK(q)'
    <3>1. CASE q = p
      BY <3>1, <1>3, <1>4 DEF SealOK, Ends, Leaves, Jobs
    <3>2. CASE q # p
      BY <3>2, <1>3, <1>4 DEF FullInv, SealInv, SealOK, Ends, Leaves, Jobs
    <3> QED
      BY <3>1, <3>2
  <2> QED
    BY <2>1 DEF SealsOK
<1>9. PacksOK'
  <2>1. ASSUME NEW x \in Exporters PROVE PackOK(x)'
    <3>1. pc'[x] = pc[x]
      BY <1>4, JobsAssumption DEF Jobs
    <3> QED
      BY <3>1, PackKept DEF FullInv, SealInv
  <2> QED
    BY <2>1 DEF PacksOK
<1> QED
  BY <1>2, <1>5, <1>6, <1>7, <1>8, <1>9 DEF FullInv, SealInv, RootsOK, SealsOK, PacksOK

\* The locals of a call that is over.
LEMMA NoSealRow == NoSeal \in RootRow
BY DEF NoSeal, RootRow, RootSet

LEMMA ReadSealedStep == ASSUME FullInv, NEW p \in Sealers, ReadSealed(p) PROVE FullInv'
<1>1. PICK m \in Ends : seal' = [seal EXCEPT ![p] = [NoSeal EXCEPT !.from = m]]
  BY DEF ReadSealed
<1>2. m \in Nat
  BY DEF Ends, FullInv, SealInv, SealTypeOK
<1> DEFINE w == [NoSeal EXCEPT !.from = m]
<1>3. w \in RootRow /\ w.from = m
  BY <1>2 DEF NoSeal, RootRow, RootSet
<1> HIDE DEF w
<1>4. crashes' \in 0..MaxCrashes
  BY DEF ReadSealed, FullInv, SealInv, SealTypeOK
<1>5. seal' = [seal EXCEPT ![p] = w]
  BY <1>1 DEF w
<1> QED
  BY <1>3, <1>4, <1>5, SealerMoves DEF ReadSealed, Goto, store, export_vars

LEMMA DoneStep ==
    ASSUME FullInv, NEW p \in Sealers, Done(p),
           UNCHANGED <<log, heads, roots, now, query, left, pack>>, crashes' \in 0..MaxCrashes
    PROVE  FullInv'
BY NoSealRow, SealerMoves DEF Done, Goto

LEMMA ReadCountStep == ASSUME FullInv, NEW p \in Sealers, ReadCount(p) PROVE FullInv'
<1>1. crashes' \in 0..MaxCrashes /\ UNCHANGED <<log, heads, roots, now, query, left, pack>>
  BY DEF ReadCount, FullInv, SealInv, SealTypeOK, store, export_vars
<1>2. CASE Len(log) <= seal[p].from
  BY <1>1, <1>2, DoneStep DEF ReadCount
<1>3. CASE ~(Len(log) <= seal[p].from)
  <2> DEFINE w == [seal[p] EXCEPT !.to = Len(log)]
  <2>1. seal \in [Sealers -> RootRow] /\ Len(log) \in Nat /\ SealOK(p)
    BY DEF FullInv, SealInv, Shape, SealTypeOK
  <2>2. w \in RootRow /\ w.from = seal[p].from /\ w.to = Len(log)
    BY <2>1 DEF RootRow
  <2>3. seal' = [seal EXCEPT ![p] = w] /\ pc' = [pc EXCEPT ![p] = "window"]
    BY <1>3, <2>1 DEF ReadCount, Goto
  <2>4. w.from \in Ends /\ w.from < w.to /\ w.to <= Len(log)
    BY <1>3, <2>1, <2>2 DEF ReadCount, SealOK, RootRow
  <2> HIDE DEF w
  <2> QED
    BY <1>1, <2>2, <2>3, <2>4, SealerMoves
<1> QED
  BY <1>2, <1>3

LEMMA ReadWindowStep == ASSUME FullInv, NEW p \in Sealers, ReadWindow(p) PROVE FullInv'
<1>1. crashes' \in 0..MaxCrashes /\ UNCHANGED <<log, heads, roots, now, query, left, pack>>
  BY DEF ReadWindow, FullInv, SealInv, SealTypeOK, store, export_vars
<1> DEFINE root == MerkleRoot(Leaves(seal[p].from, seal[p].to))
           w == [seal[p] EXCEPT !.root = root]
<1>2. seal \in [Sealers -> RootRow] /\ log \in Seq(Event) /\ SealOK(p)
  BY DEF FullInv, SealInv, Shape, SealTypeOK
<1>3. seal[p].from \in Nat /\ seal[p].to \in Nat
  BY <1>2 DEF RootRow
<1>4. seal[p].from \in Ends /\ seal[p].from < seal[p].to /\ seal[p].to <= Len(log)
  BY <1>2 DEF ReadWindow, SealOK
<1>5. Leaves(seal[p].from, seal[p].to) \in Seq(Hash)
  BY <1>2, <1>3, <1>4, LeavesType
<1>6. root \in RootSet
  BY <1>5 DEF RootSet
<1>7. seal' = [seal EXCEPT ![p] = w] /\ pc' = [pc EXCEPT ![p] = "append"]
  BY <1>2 DEF ReadWindow, Goto
<1> HIDE DEF root
<1>8. w \in RootRow /\ w.from = seal[p].from /\ w.to = seal[p].to /\ w.root = root
  BY <1>2, <1>6 DEF RootRow
<1> HIDE DEF w
<1>9. w.root = MerkleRoot(Leaves(w.from, w.to))
  BY <1>8 DEF root
<1> QED
  BY <1>1, <1>4, <1>7, <1>8, <1>9, SealerMoves

LEMMA CrashStep == ASSUME FullInv, NEW p \in Sealers, Crash(p) PROVE FullInv'
<1>1. crashes' \in 0..MaxCrashes
  BY SealBoundsAssumption DEF Crash, FullInv, SealInv, SealTypeOK
<1> QED
  BY <1>1, DoneStep DEF Crash, store, export_vars

LEMMA AppendRootStep == ASSUME FullInv, NEW p \in Sealers, AppendRoot(p) PROVE FullInv'
<1> DEFINE r == [from |-> seal[p].from + 1, to |-> seal[p].to, root |-> seal[p].root]
<1>0. SealTypeOK /\ Shape /\ SealOK(p)
  BY DEF FullInv, SealInv
<1>1. /\ seal \in [Sealers -> RootRow] /\ roots \in Seq(RootRow) /\ log \in Seq(Event)
      /\ pack \in [Exporters -> [events : SUBSET Event, roots : Seq(RootRow)]]
      /\ SealOK(p) /\ SealTypeOK
  BY <1>0 DEF Shape, SealTypeOK
<1>2. r \in RootRow /\ r.from = seal[p].from + 1 /\ r.to = seal[p].to /\ r.root = seal[p].root
  BY <1>1 DEF RootRow
<1>3. roots' = Append(roots, r) /\ UNCHANGED <<log, heads, now, query, left, pack, crashes>>
  BY DEF AppendRoot, export_vars
<1>4. pc' = [pc EXCEPT ![p] = "idle"] /\ seal' = [seal EXCEPT ![p] = NoSeal]
  BY DEF AppendRoot, Done, Goto
<1> HIDE DEF r
<1>5. /\ DOMAIN roots' = 1..(Len(roots) + 1) /\ roots'[Len(roots) + 1] = r
      /\ DOMAIN roots = 1..Len(roots) /\ Len(roots) \in Nat
      /\ \A i \in DOMAIN roots : roots'[i] = roots[i]
  BY <1>1, <1>2, <1>3
<1>6. seal[p].from \in Nat /\ seal[p].to \in Nat
  BY <1>1 DEF RootRow
<1>7. /\ seal[p].from \in Ends /\ seal[p].from < seal[p].to /\ seal[p].to <= Len(log)
      /\ seal[p].root = MerkleRoot(Leaves(seal[p].from, seal[p].to))
  BY <1>1 DEF AppendRoot, SealOK
<1>8. RootOK(r)
  <2>1. r.from - 1 = seal[p].from /\ r.from \in 1..r.to
    BY <1>2, <1>6, <1>7
  <2> QED
    BY <2>1, <1>2, <1>7 DEF RootOK
<1>9. RootsOK'
  <2>1. \A q \in RootRow : RootOK(q) => RootOK(q)'
    BY <1>3 DEF RootOK, Leaves
  <2>2. \A i \in DOMAIN roots' : roots'[i] \in RootRow /\ RootOK(roots'[i])
    BY <1>1, <1>2, <1>5, <1>8 DEF FullInv, SealInv
  <2> QED
    BY <2>2, <1>3 DEF RootsOK, RootOK, Leaves
<1>10. NothingSkipped'
  <2> SUFFICES ASSUME NEW i \in DOMAIN roots', NEW g \in 1..roots'[i].to
               PROVE  \E j \in DOMAIN roots' : roots'[j].from <= g /\ g <= roots'[j].to
    BY DEF NothingSkipped
  <2>1. ASSUME NEW k \in DOMAIN roots, g \in 1..roots[k].to
        PROVE  \E j \in DOMAIN roots' : roots'[j].from <= g /\ g <= roots'[j].to
    <3>1. PICK j \in DOMAIN roots : roots[j].from <= g /\ g <= roots[j].to
      BY <2>1 DEF FullInv, SealInv, NothingSkipped
    <3> QED
      BY <3>1, <1>5
  <2>2. CASE i \in DOMAIN roots
    BY <2>1, <2>2, <1>5
  <2>3. CASE i = Len(roots) + 1 /\ g <= seal[p].from
    <3>1. PICK k \in DOMAIN roots : roots[k].to = seal[p].from
      BY <2>3, <1>6, <1>7 DEF Ends
    <3> QED
      BY <2>1, <2>3, <3>1, <1>6
  <2>4. CASE i = Len(roots) + 1 /\ ~(g <= seal[p].from)
    BY <2>4, <1>2, <1>5, <1>6
  <2> QED
    BY <1>5, <2>2, <2>3, <2>4
<1>11. Shape'
  BY <1>1, <1>2, <1>3, <1>4, NoSealRow DEF Shape
<1>12. \A q \in Sealers : seal'[q] = IF q = p THEN NoSeal ELSE seal[q]
  BY <1>1, <1>4
<1>13. \A q \in Jobs : pc'[q] = IF q = p THEN "idle" ELSE pc[q]
  BY <1>1, <1>4 DEF SealTypeOK, Jobs
<1>14. SealTypeOK'
  <2>1. \A i \in DOMAIN roots' : roots'[i].from \in Nat \ {0} /\ roots'[i].to \in Nat
    BY <1>1, <1>2, <1>5, <1>6 DEF SealTypeOK
  <2>2. pc' \in [Jobs -> {"idle", "count", "window", "append", "events", "roots", "exported"}]
    BY <1>1, <1>4 DEF SealTypeOK, Jobs
  <2>3. \A q \in Sealers : seal'[q].from \in Nat /\ seal'[q].to \in Nat
    <3>1. \A q \in Sealers : seal'[q] \in RootRow
      BY <1>1, <1>12, NoSealRow
    <3> QED
      BY <3>1 DEF RootRow
  <2> QED
    BY <1>1, <1>3, <2>1, <2>2, <2>3 DEF SealTypeOK
<1>15. LogOK'
  BY <1>3 DEF FullInv, SealInv, LogOK, Genesis
<1>16. SealsOK'
  <2>1. Ends \subseteq Ends'
    BY <1>5 DEF Ends
  <2>2. ASSUME NEW q \in Sealers PROVE SealOK(q)'
    <3>1. CASE q = p
      BY <3>1, <1>13 DEF SealOK, Jobs
    <3>2. CASE q # p
      BY <3>2, <2>1, <1>3, <1>12, <1>13 DEF FullInv, SealInv, SealOK, Leaves, Jobs
    <3> QED
      BY <3>1, <3>2
  <2> QED
    BY <2>2 DEF SealsOK
<1>17. PacksOK'
  <2>1. ASSUME NEW x \in Exporters PROVE PackOK(x)'
    <3>1. pc'[x] = pc[x]
      BY <1>13, JobsAssumption DEF Jobs
    <3>2. UNCHANGED <<log, query, left, pack>>
      BY <1>3
    <3> QED
      BY <3>1, <3>2, PackKept DEF FullInv, SealInv
  <2> QED
    BY <2>1 DEF PacksOK
<1> QED
  BY <1>9, <1>10, <1>11, <1>14, <1>15, <1>16, <1>17
     DEF FullInv, SealInv, RootsOK, SealsOK, PacksOK

-----------------------------------------------------------------------------
(* The export: log and roots stay as they are.                              *)

PackRow == [events : SUBSET Event, roots : Seq(RootRow)]

\* A step of one exporter is judged by its own pack alone.
LEMMA ExporterMoves ==
    ASSUME FullInv, NEW x \in Exporters, NEW c \in {"idle", "events", "roots", "exported"},
           NEW q \in Queries \cup {NoQuery}, NEW l \in SUBSET Chains, NEW pk \in PackRow,
           pc' = [pc EXCEPT ![x] = c], query' = [query EXCEPT ![x] = q],
           left' = [left EXCEPT ![x] = l], pack' = [pack EXCEPT ![x] = pk],
           UNCHANGED <<log, heads, roots, now, seal, crashes>>,
           c = "idle" => pk.events = {},
           (c = "events" /\ Cardinality(q.chains) <= BindChunk) => l = q.chains,
           \A e \in pk.events : \E i \in DOMAIN log : log[i] = e,
           WithEarlier(q, pk.events),
           \A i \in DOMAIN pk.roots : RootOK(pk.roots[i])
    PROVE  FullInv'
<1>1. Shape /\ SealTypeOK /\ LogOK /\ NothingSkipped
  BY DEF FullInv, SealInv
<1>2. Shape'
  BY <1>1 DEF Shape, PackRow
<1>3. \A y \in Exporters : /\ pack'[y] = IF y = x THEN pk ELSE pack[y]
                           /\ query'[y] = IF y = x THEN q ELSE query[y]
                           /\ left'[y] = IF y = x THEN l ELSE left[y]
  BY <1>1 DEF Shape, SealTypeOK
<1>4. \A y \in Jobs : pc'[y] = IF y = x THEN c ELSE pc[y]
  BY <1>1 DEF SealTypeOK, Jobs
<1>5. SealTypeOK'
  <2>1. pc' \in [Jobs -> {"idle", "count", "window", "append", "events", "roots", "exported"}]
    BY <1>1 DEF SealTypeOK, Jobs
  <2>2. query' \in [Exporters -> Queries \cup {NoQuery}] /\ left' \in [Exporters -> SUBSET Chains]
    BY <1>1 DEF SealTypeOK
  <2>3. \A y \in Exporters : pack'[y].events \subseteq Event
    BY <1>1, <1>3 DEF SealTypeOK, PackRow
  <2> QED
    BY <1>1, <2>1, <2>2, <2>3 DEF SealTypeOK
<1>6. LogOK' /\ NothingSkipped'
  BY <1>1 DEF LogOK, NothingSkipped, Genesis
<1>7. RootsOK'
  BY DEF FullInv, SealInv, RootsOK, RootOK, Leaves
<1>8. SealsOK'
  <2>1. ASSUME NEW p \in Sealers PROVE SealOK(p)'
    <3>1. pc'[p] = pc[p]
      BY <1>4, JobsAssumption DEF Jobs
    <3> QED
      BY <3>1 DEF FullInv, SealInv, SealOK, Ends, Leaves
  <2> QED
    BY <2>1 DEF SealsOK
<1>9. PacksOK'
  <2>1. ASSUME NEW y \in Exporters PROVE PackOK(y)'
    <3>1. CASE y = x
      <4>1. pc'[y] = c /\ pack'[y] = pk /\ query'[y] = q /\ left'[y] = l /\ log' = log
        BY <3>1, <1>3, <1>4 DEF Jobs
      <4>2. \A i \in DOMAIN pk.roots : RootOK(pk.roots[i])'
        BY <4>1 DEF RootOK, Leaves
      <4>3. \A i \in DOMAIN pack'[y].roots : RootOK(pack[y].roots[i])'
        BY <4>1, <4>2 DEF RootOK, Leaves
      <4>4. /\ pc'[y] \in {"idle", "events", "roots", "exported"}
            /\ pc'[y] = "idle" => pack'[y].events = {}
            /\ (pc'[y] = "events" /\ Cardinality(query'[y].chains) <= BindChunk) => left'[y] = query'[y].chains
        BY <4>1
      <4>5. \A e \in pack'[y].events : \E i \in DOMAIN log' : log'[i] = e
        BY <4>1
      <4>6. WithEarlier(query[y], pack[y].events)'
        BY <4>1 DEF WithEarlier, Uncut
      <4> QED
        BY <4>3, <4>4, <4>5, <4>6 DEF PackOK
    <3>2. CASE y # x
      <4>1. pc'[y] = pc[y] /\ pack'[y] = pack[y] /\ query'[y] = query[y] /\ left'[y] = left[y]
        BY <3>2, <1>3, <1>4 DEF Jobs
      <4> QED
        BY <4>1, PackKept DEF FullInv, SealInv
    <3> QED
      BY <3>1, <3>2
  <2> QED
    BY <2>1 DEF PacksOK
<1> QED
  BY <1>2, <1>5, <1>6, <1>7, <1>8, <1>9 DEF FullInv, SealInv, RootsOK, SealsOK, PacksOK

\* What an exporter holds before its step.
LEMMA ExporterHas ==
    ASSUME FullInv, NEW x \in Exporters
    PROVE  /\ pack \in [Exporters -> PackRow]
           /\ query \in [Exporters -> Queries \cup {NoQuery}]
           /\ left \in [Exporters -> SUBSET Chains]
           /\ PackOK(x)
BY DEF FullInv, SealInv, Shape, SealTypeOK, PackRow

LEMMA StartExportStep == ASSUME FullInv, NEW x \in Exporters, StartExport(x) PROVE FullInv'
<1>1. PICK q \in Queries : query' = [query EXCEPT ![x] = q] /\ left' = [left EXCEPT ![x] = q.chains]
  BY DEF StartExport
<1>2. q.chains \in SUBSET Chains
  BY QueriesAssumption DEF Query
<1>3. pack' = [pack EXCEPT ![x] = pack[x]] /\ pack[x] \in PackRow
  BY ExporterHas DEF StartExport
<1>4. PackOK(x) /\ pack[x].events = {}
  BY ExporterHas DEF StartExport, PackOK
<1>5. UNCHANGED <<log, heads, roots, now, seal, crashes>> /\ pc' = [pc EXCEPT ![x] = "events"]
  BY DEF StartExport, store, Goto
<1>6. \A i \in DOMAIN pack[x].roots : RootOK(pack[x].roots[i])
  BY <1>4 DEF PackOK
<1>7. WithEarlier(q, pack[x].events)
  BY <1>4 DEF WithEarlier
<1> QED
  BY <1>1, <1>2, <1>3, <1>4, <1>5, <1>6, <1>7, ExporterMoves

\* What is read in one statement holds with an uncut event all earlier ones, up
\* to the upper time bound.
LEMMA ReadEventsStep == ASSUME FullInv, NEW x \in Exporters, ReadEvents(x) PROVE FullInv'
<1>1. PICK chunk \in Chunks(left[x]) :
         /\ pack' = [pack EXCEPT ![x].events = @ \cup Read(query[x], chunk)]
         /\ left' = [left EXCEPT ![x] = @ \ chunk]
         /\ Goto(x, IF left[x] = chunk THEN "roots" ELSE "events")
  BY DEF ReadEvents
<1> DEFINE read == Read(query[x], chunk)
           pk == [pack[x] EXCEPT !.events = @ \cup read]
           c == IF left[x] = chunk THEN "roots" ELSE "events"
<1>2. PackOK(x) /\ pack[x] \in PackRow /\ left[x] \in SUBSET Chains /\ query[x] \in Queries \cup {NoQuery}
  BY ExporterHas
<1>3. log \in Seq(Event) /\ LogOK
  BY DEF FullInv, SealInv, SealTypeOK
<1>4. (\A e \in read : \E i \in DOMAIN log : log[i] = e) /\ read \subseteq Event
  BY <1>3 DEF Read
<1>w. Cardinality(query[x].chains) <= BindChunk => chunk = query[x].chains /\ left[x] = chunk
  BY <1>1, <1>2 DEF ReadEvents, PackOK, Chunks
<1>5. pk \in PackRow /\ pk.events = pack[x].events \cup read /\ pk.roots = pack[x].roots
  BY <1>2, <1>4 DEF PackRow
<1>6. /\ pc' = [pc EXCEPT ![x] = c] /\ pack' = [pack EXCEPT ![x] = pk]
      /\ left' = [left EXCEPT ![x] = left[x] \ chunk] /\ query' = [query EXCEPT ![x] = query[x]]
      /\ UNCHANGED <<log, heads, roots, now, seal, crashes>>
  BY <1>1, ExporterHas DEF ReadEvents, Goto, store
<1>7. ASSUME query[x].from = 0, NEW i \in DOMAIN log, NEW j \in DOMAIN log,
             log[i].txn = log[j].txn, i < j, log[j] \in pk.events, Uncut(query[x], log[j])
      PROVE  log[i] \in pk.events
  <2>1. CASE log[j] \in pack[x].events
    BY <2>1, <1>2, <1>5, <1>7 DEF PackOK, WithEarlier
  <2>2. CASE log[j] \in read
    <3>1. log[j].chain \in chunk /\ Selected(query[x], log[j])
      BY <2>2 DEF Read
    <3>2. log[i].at <= log[j].at /\ log[i].seq < log[j].seq
      BY <1>3, <1>7 DEF LogOK
    <3>3. log[i].at \in Nat /\ log[j].at \in Nat
      <4>1. log[i] \in Event /\ log[j] \in Event
        BY <1>3
      <4> QED
        BY <4>1, SealBoundsAssumption DEF Event
    <3>4. query[x].to \in Nat
      BY <1>2, QueriesAssumption, SealBoundsAssumption DEF Query, NoQuery
    <3>5. Selected(query[x], log[i])
      BY <1>7, <3>1, <3>2, <3>3, <3>4 DEF Selected
    <3>6. log[i].chain \in chunk
      BY <1>7, <1>w, <3>1, <3>2 DEF Uncut
    <3>7. log[i] \in read
      BY <3>5, <3>6 DEF Read
    <3> QED
      BY <3>7, <1>5
  <2> QED
    BY <1>5, <1>7, <2>1, <2>2
<1>8. \A e \in pk.events : \E i \in DOMAIN log : log[i] = e
  BY <1>2, <1>4, <1>5 DEF PackOK
<1>9. \A i \in DOMAIN pk.roots : RootOK(pk.roots[i])
  BY <1>2, <1>5 DEF PackOK
<1>10. c \in {"idle", "events", "roots", "exported"} /\ c # "idle" /\ left[x] \ chunk \in SUBSET Chains
  BY <1>2
<1>11. (c = "events" /\ Cardinality(query[x].chains) <= BindChunk) => left[x] \ chunk = query[x].chains
  BY <1>w
<1> HIDE DEF read, pk, c
<1>12. WithEarlier(query[x], pk.events)
  BY <1>7 DEF WithEarlier
<1> QED
  BY <1>2, <1>5, <1>6, <1>8, <1>9, <1>10, <1>11, <1>12, ExporterMoves

LEMMA ReadRootsStep == ASSUME FullInv, NEW x \in Exporters, ReadRoots(x) PROVE FullInv'
<1> DEFINE pk == [pack[x] EXCEPT !.roots = roots]
<1>1. PackOK(x) /\ pack[x] \in PackRow /\ left[x] \in SUBSET Chains /\ query[x] \in Queries \cup {NoQuery}
  BY ExporterHas
<1>2. roots \in Seq(RootRow) /\ \A i \in DOMAIN roots : RootOK(roots[i])
  BY DEF FullInv, SealInv, Shape
<1>3. pk \in PackRow /\ pk.events = pack[x].events /\ pk.roots = roots
  BY <1>1, <1>2 DEF PackRow
<1>4. /\ pc' = [pc EXCEPT ![x] = "exported"] /\ pack' = [pack EXCEPT ![x] = pk]
      /\ left' = [left EXCEPT ![x] = left[x]] /\ query' = [query EXCEPT ![x] = query[x]]
      /\ UNCHANGED <<log, heads, roots, now, seal, crashes>>
  BY ExporterHas DEF ReadRoots, Goto, store
<1> HIDE DEF pk
<1>5. /\ \A e \in pk.events : \E i \in DOMAIN log : log[i] = e
      /\ WithEarlier(query[x], pk.events)
      /\ \A i \in DOMAIN pk.roots : RootOK(pk.roots[i])
  BY <1>1, <1>2, <1>3 DEF PackOK
<1> QED
  BY <1>1, <1>3, <1>4, <1>5, ExporterMoves

LEMMA ReceiveStep == ASSUME FullInv, NEW x \in Exporters, Receive(x) PROVE FullInv'
<1>1. left[x] \in SUBSET Chains /\ left' = [left EXCEPT ![x] = left[x]]
  BY ExporterHas DEF Receive
<1>2. NoPack \in PackRow /\ NoPack.events = {} /\ NoPack.roots = <<>>
  BY DEF NoPack, PackRow
<1>3. /\ pc' = [pc EXCEPT ![x] = "idle"] /\ pack' = [pack EXCEPT ![x] = NoPack]
      /\ query' = [query EXCEPT ![x] = NoQuery]
      /\ UNCHANGED <<log, heads, roots, now, seal, crashes>>
  BY DEF Receive, Goto, store
<1>4. \A i \in DOMAIN NoPack.roots : RootOK(NoPack.roots[i])
  BY <1>2
<1>5. \A e \in NoPack.events : \E i \in DOMAIN log : log[i] = e
  BY <1>2
<1>6. WithEarlier(NoQuery, NoPack.events)
  BY <1>2 DEF WithEarlier
<1> QED
  BY <1>1, <1>2, <1>3, <1>4, <1>5, <1>6, ExporterMoves

-----------------------------------------------------------------------------
(* The theorems.                                                            *)

LEMMA TickStep == ASSUME FullInv, Tick PROVE FullInv'
<1>1. UNCHANGED <<log, heads, roots, pc, seal, query, left, pack, crashes>>
  BY DEF Tick, export_vars
<1>2. now' \in 0..MaxTime
  BY SealBoundsAssumption DEF Tick, FullInv, SealInv, SealTypeOK
<1>3. SealTypeOK' /\ Shape'
  BY <1>1, <1>2 DEF FullInv, SealInv, SealTypeOK, Shape
<1>4. RootsOK' /\ SealsOK' /\ PacksOK'
  BY <1>1 DEF FullInv, SealInv, RootsOK, SealsOK, PacksOK, RootOK, SealOK, PackOK, WithEarlier, Uncut, Ends, Leaves
<1>5. LogOK' /\ NothingSkipped'
  BY <1>1 DEF FullInv, SealInv, LogOK, NothingSkipped, Genesis
<1> QED
  BY <1>3, <1>4, <1>5 DEF FullInv, SealInv, RootsOK, SealsOK, PacksOK

LEMMA NextInv == FullInv /\ [Next]_vars => FullInv'
<1> SUFFICES ASSUME FullInv, [Next]_vars PROVE FullInv'
  OBVIOUS
<1>1. CASE UNCHANGED vars
  <2>1. UNCHANGED <<log, heads, roots, now, pc, seal, query, left, pack, crashes>>
    BY <1>1 DEF vars
  <2>2. SealTypeOK' /\ Shape'
    BY <2>1 DEF FullInv, SealInv, SealTypeOK, Shape
  <2>3. RootsOK' /\ SealsOK' /\ PacksOK'
    BY <2>1 DEF FullInv, SealInv, RootsOK, SealsOK, PacksOK, RootOK, SealOK, PackOK, WithEarlier, Uncut, Ends, Leaves
  <2>4. LogOK' /\ NothingSkipped'
    BY <2>1 DEF FullInv, SealInv, LogOK, NothingSkipped, Genesis
  <2> QED
    BY <2>2, <2>3, <2>4 DEF FullInv, SealInv, RootsOK, SealsOK, PacksOK
<1>2. ASSUME NEW t \in Txns, Land(t) PROVE FullInv'
  BY <1>2, LandStep
<1>3. CASE Tick
  BY <1>3, TickStep
<1>4. ASSUME NEW p \in Sealers, Sealing(p) \/ Crash(p) PROVE FullInv'
  BY <1>4, ReadSealedStep, ReadCountStep, ReadWindowStep, AppendRootStep, CrashStep DEF Sealing
<1>5. ASSUME NEW x \in Exporters, Exporting(x) PROVE FullInv'
  BY <1>5, StartExportStep, ReadEventsStep, ReadRootsStep, ReceiveStep DEF Exporting
<1> QED
  BY <1>1, <1>2, <1>3, <1>4, <1>5 DEF Next

\* SealInv and the shape of the rows hold in every reachable state.
LEMMA Invariance == Spec => []FullInv
BY InitInv, NextInv, PTL DEF Spec

\* What each seal and export may rely on between two of its D1 calls
\* (merkle-seal.ts sealPendingEvents, export.ts exportPack).
THEOREM SealInductive == Spec => []SealInv
<1>1. FullInv => SealInv
  BY DEF FullInv
<1> QED
  BY <1>1, Invariance, PTL

\* Every sealed root recomputes from the log, although the position, the
\* count, the events and the row are separate calls.
THEOREM RootsRecomputeHolds == Spec => []RootsRecompute
<1>1. FullInv => RootsRecompute
  <2> SUFFICES ASSUME FullInv, NEW i \in DOMAIN roots
               PROVE  /\ roots[i].from <= roots[i].to /\ roots[i].to <= Len(log)
                      /\ roots[i].root = MerkleRoot(Leaves(roots[i].from - 1, roots[i].to))
    BY DEF RootsRecompute
  <2>1. RootOK(roots[i])
    BY DEF FullInv, SealInv
  <2> QED
    BY <2>1 DEF RootOK
<1> QED
  BY <1>1, Invariance, PTL

\* Up to the end of any window every event is in some window, whichever seals
\* overlap or end half-way.
THEOREM NothingSkippedHolds == Spec => []NothingSkipped
<1>1. FullInv => NothingSkipped
  BY DEF FullInv, SealInv
<1> QED
  BY <1>1, Invariance, PTL

\* The checks of verifier.ts succeed on a pack of uncut events.
LEMMA PackVerified ==
    ASSUME FullInv, NEW x \in Exporters
    PROVE  /\ RootsMatch(pack[x])
           /\ (query[x].from = 0 /\ \A e \in pack[x].events : Uncut(query[x], e)) => Verifies(pack[x])
<1> DEFINE es == pack[x].events
<1>1. LogOK /\ PackOK(x) /\ log \in Seq(Event) /\ pack[x] \in PackRow
  BY ExporterHas DEF FullInv, SealInv, SealTypeOK
<1>2. ASSUME NEW e \in es
      PROVE  /\ \E i \in DOMAIN log : log[i] = e
             /\ e \in Event
  BY <1>1 DEF PackOK
<1>3. ASSUME query[x].from = 0, \A e \in es : Uncut(query[x], e), NEW e \in es, e.seq # 1
      PROVE  \E d \in es : d.txn = e.txn /\ d.seq = e.seq - 1
  <2>1. PICK j \in DOMAIN log : log[j] = e
    BY <1>2
  <2>2. e.txn \in Txns /\ e.seq \in Nat \ {0} /\ e.seq <= heads[e.txn]
    BY <1>1, <1>2, <2>1 DEF LogOK, Event
  <2>3. heads[e.txn] \in Nat
    BY <2>2 DEF FullInv, SealInv, SealTypeOK
  <2>4. e.seq - 1 \in 1..heads[e.txn]
    BY <1>3, <2>2, <2>3
  <2>5. PICK i \in DOMAIN log : log[i].txn = e.txn /\ log[i].seq = e.seq - 1
    BY <1>1, <2>2, <2>4 DEF LogOK
  <2>6. i < j
    <3>1. i # j
      BY <2>1, <2>2, <2>5
    <3>2. ~(j < i)
      BY <1>1, <2>1, <2>2, <2>5 DEF LogOK
    <3> QED
      BY <1>1, <3>1, <3>2
  <2>7. log[i] \in es
    BY <1>1, <1>3, <2>1, <2>5, <2>6 DEF PackOK, WithEarlier
  <2> QED
    BY <2>5, <2>7
<1>4. ASSUME query[x].from = 0, \A e \in es : Uncut(query[x], e) PROVE Gapless(es)
  BY <1>3, <1>4 DEF Gapless
<1>5. ASSUME query[x].from = 0, \A e \in es : Uncut(query[x], e) PROVE Linked(es)
  <2> SUFFICES ASSUME NEW e \in es
               PROVE  LET earlier == {d \in es : d.txn = e.txn /\ d.seq < e.seq} IN
                      IF earlier = {} THEN e.prev = Genesis(e.chain)
                      ELSE \E d \in earlier : /\ \A b \in earlier : b.seq <= d.seq
                                              /\ e.prev = HashOf(d)
    BY DEF Linked
  <2> DEFINE earlier == {d \in es : d.txn = e.txn /\ d.seq < e.seq}
  <2>1. \A d \in es : d.seq \in Nat \ {0}
    BY <1>2 DEF Event
  <2>2. e.prev = IF e.seq = 1 THEN Genesis(e.chain) ELSE <<e.txn, e.seq - 1>>
    BY <1>1, <1>2 DEF LogOK
  <2>3. CASE e.seq = 1
    <3>1. earlier = {}
      BY <2>1, <2>3
    <3> QED
      BY <2>2, <2>3, <3>1
  <2>4. CASE e.seq # 1
    <3>1. PICK d \in es : d.txn = e.txn /\ d.seq = e.seq - 1
      BY <1>3, <1>5, <2>4
    <3>2. d \in earlier /\ \A b \in earlier : b.seq <= d.seq
      BY <2>1, <3>1
    <3>3. e.prev = HashOf(d)
      BY <2>2, <2>4, <3>1 DEF HashOf
    <3> QED
      BY <3>2, <3>3
  <2> QED
    BY <2>3, <2>4
<1>6. ASSUME NEW i \in DOMAIN pack[x].roots PROVE Recomputes(es, pack[x].roots[i])
  <2> DEFINE r == pack[x].roots[i]
  <2>1. RootOK(r) /\ r \in RootRow
    BY <1>1 DEF PackOK, PackRow
  <2> HIDE DEF r
  <2>2. r.from \in Nat /\ r.to \in Nat /\ r.from \in 1..r.to
    BY <2>1 DEF RootOK, RootRow
  <2>3. ASSUME Complete(es, r), NEW k \in 1..(r.to - r.from + 1)
        PROVE  HashOf(At(es, r.from + k - 1)) = HashOf(log[(r.from - 1) + k])
    <3> DEFINE g == r.from + k - 1
    <3>1. g \in (r.from)..(r.to) /\ g = (r.from - 1) + k
      BY <2>2
    <3>2. \E e \in es : e.gseq = g
      BY <2>3, <3>1 DEF Complete
    <3>3. At(es, g) \in es /\ At(es, g).gseq = g
      BY <3>2 DEF At
    <3>4. At(es, g) = log[g]
      <4>1. PICK i1 \in DOMAIN log : log[i1] = At(es, g)
        BY <1>2, <3>3
      <4>2. log[i1].gseq = i1
        BY <1>1 DEF LogOK
      <4> QED
        BY <3>3, <4>1, <4>2
    <3> QED
      BY <3>1, <3>4
  <2>4. r.to - (r.from - 1) = r.to - r.from + 1
    BY <2>2
  <2>5. Complete(es, r) =>
           [k \in 1..(r.to - r.from + 1) |-> HashOf(At(es, r.from + k - 1))] = Leaves(r.from - 1, r.to)
    BY <2>3, <2>4 DEF Leaves
  <2>6. Recomputes(es, r)
    BY <2>1, <2>5 DEF RootOK, Recomputes
  <2> QED
    BY <2>6 DEF r
<1>7. RootsMatch(pack[x])
  BY <1>6 DEF RootsMatch
<1> QED
  BY <1>4, <1>5, <1>7 DEF Verifies

\* Whatever is committed and sealed while a pack is read (export.ts exportPack),
\* its roots match its events, and the verifier accepts it if its query has no
\* lower time bound and cuts no txn between two chains.
THEOREM HonestPackVerifiesHolds == Spec => []HonestPackVerifies
<1>1. FullInv => HonestPackVerifies
  BY PackVerified DEF HonestPackVerifies
<1> QED
  BY <1>1, Invariance, PTL
=============================================================================
