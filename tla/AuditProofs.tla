----------------------------- MODULE AuditProofs -----------------------------
(***************************************************************************)
(* Theorems on the audit chain: under locks that expire, are taken over and *)
(* are left behind, it never forks, its verifier raises no false alarm, its *)
(* published heads stay genuine, and it implements an append-only chain.    *)
(***************************************************************************)
EXTENDS AuditSafety, LockProofs, SequenceTheorems, FiniteSetTheorems

-----------------------------------------------------------------------------
(* Prefixes of a chain.                                                     *)

\* The first n entries of a chain are a sequence of n entries.
LEMMA PrefixType ==
    ASSUME NEW s \in Seq(Entries), NEW n \in Nat, n <= Len(s)
    PROVE  /\ SubSeq(s, 1, n) \in Seq(Entries)
           /\ Len(SubSeq(s, 1, n)) = n
           /\ \A i \in 1..n : SubSeq(s, 1, n)[i] = s[i]
<1>1. \A i \in 1..n : s[i] \in Entries
  BY ElementOfSeq
<1>2. /\ SubSeq(s, 1, n) \in Seq(Entries)
      /\ Len(SubSeq(s, 1, n)) = IF 1 <= n THEN n - 1 + 1 ELSE 0
      /\ \A i \in 1..(n - 1 + 1) : SubSeq(s, 1, n)[i] = s[1 + i - 1]
  BY <1>1, SubSeqProperties
<1> QED
  BY <1>2

\* They are what they were when an entry is appended.
LEMMA PrefixKept ==
    ASSUME NEW s \in Seq(Entries), NEW e \in Entries, NEW n \in Nat, n <= Len(s)
    PROVE  SubSeq(Append(s, e), 1, n) = SubSeq(s, 1, n)
<1>1. Append(s, e) \in Seq(Entries) /\ n <= Len(Append(s, e))
      /\ \A i \in 1..n : Append(s, e)[i] = s[i]
  OBVIOUS
<1>2. /\ SubSeq(Append(s, e), 1, n) \in Seq(Entries)
      /\ Len(SubSeq(Append(s, e), 1, n)) = n
      /\ \A i \in 1..n : SubSeq(Append(s, e), 1, n)[i] = Append(s, e)[i]
  BY <1>1, PrefixType
<1>3. /\ SubSeq(s, 1, n) \in Seq(Entries) /\ Len(SubSeq(s, 1, n)) = n
      /\ \A i \in 1..n : SubSeq(s, 1, n)[i] = s[i]
  BY PrefixType
<1>4. \A i \in 1..n : SubSeq(Append(s, e), 1, n)[i] = SubSeq(s, 1, n)[i]
  BY <1>1, <1>2, <1>3
<1> QED
  BY <1>2, <1>3, <1>4, SeqEqual

\* No prefix, and the whole.
LEMMA PrefixEnds ==
    ASSUME NEW s \in Seq(Entries)
    PROVE  SubSeq(s, 1, 0) = <<>> /\ SubSeq(s, 1, Len(s)) = s
BY SubSeqEmpty, SubSeqFull

-----------------------------------------------------------------------------
(* The parts of the invariant.                                              *)

ChainInv ==
    /\ IsFiniteSet(rows) /\ \A r \in rows : r \in Row
    /\ state \in [Types -> [hash : Seq(Entries), seq : Nat, verified : Nat]]
    /\ \A t \in Types : ChainOK(t)
    /\ \A r \in rows : RowOK(r)
    /\ \A r, s \in rows : (r.type = s.type /\ r.seq = s.seq) => r = s

WorkInv ==
    /\ work \in [Callers -> Work \cup {None}]
    /\ \A p \in Callers : work[p] = None <=> phase[p] = "out"
    /\ \A p \in Callers :
          (work[p] # None /\ work[p].head # None) => Past(lease[p].key, work[p].head)

CheckInv ==
    /\ check \in [Verifiers -> Check \cup {None}]
    /\ \A v \in Verifiers : check[v] # None => CheckOK(check[v])

AnchorInv ==
    /\ publish \in [Publishers -> Publication \cup {None}]
    /\ DOMAIN objects = Hours /\ DOMAIN anchors = Hours
    /\ \A h \in Hours : \A s \in objects[h] \cup anchors[h] : s \in Snapshot
    /\ \A w \in Publishers : publish[w] # None => PublishOK(publish[w])
    /\ \A h \in Hours :
          /\ anchors[h] # {} => objects[h] # {}
          /\ \A s \in objects[h] \cup anchors[h] : SnapOK(s)

LEMMA Parts == AuditInv <=> LocksInv /\ ChainInv /\ WorkInv /\ CheckInv /\ AnchorInv
BY DEF AuditInv, AuditTypeOK, LocksInv, ChainInv, WorkInv, CheckInv, AnchorInv

-----------------------------------------------------------------------------
(* The chain.                                                               *)

\* A head that was is one still: chains only grow.
Grown ==
    /\ rows \subseteq rows'
    /\ \A t \in Types : state[t].seq <= state'[t].seq
    /\ \A t \in Types, h \in HeadRead : Past(t, h) => Past(t, h)'

LEMMA SameChain ==
    ASSUME UNCHANGED chain_vars, ChainInv
    PROVE  ChainInv' /\ Grown
<1>1. \A t \in Types : state[t].seq <= state'[t].seq
  BY DEF ChainInv, chain_vars
<1>2. \A t \in Types, h \in HeadRead : Past(t, h) => Past(t, h)'
  BY DEF Past, chain_vars
<1>3. \A r \in rows : RowOK(r) => RowOK(r)'
  BY DEF RowOK, Past, chain_vars
<1>4. \A t \in Types : ChainOK(t) => ChainOK(t)'
  BY DEF ChainOK, chain_vars
<1> QED
  BY <1>1, <1>2, <1>3, <1>4 DEF ChainInv, Grown, chain_vars

\* The head of a chain is the whole chain, and one that is behind is followed
\* by a row.
LEMMA HeadOf ==
    ASSUME ChainInv, NEW t \in Types
    PROVE  /\ state[t].hash \in Seq(Entries) /\ state[t].seq \in Nat /\ state[t].verified \in Nat
           /\ Len(state[t].hash) = state[t].seq
           /\ Past(t, [hash |-> state[t].hash, seq |-> state[t].seq])
           /\ \A h \in HeadRead : (Past(t, h) /\ h.seq = state[t].seq) => h.hash = state[t].hash
           /\ \A h \in HeadRead : (Past(t, h) /\ h.seq # state[t].seq) =>
                 \E r \in rows : r.type = t /\ r.seq = h.seq + 1
<1>1. state[t].hash \in Seq(Entries) /\ state[t].seq \in Nat /\ state[t].verified \in Nat
  BY DEF ChainInv
<1>2. Len(state[t].hash) = state[t].seq /\ ChainOK(t)
  BY DEF ChainInv, ChainOK
<1>3. SubSeq(state[t].hash, 1, state[t].seq) = state[t].hash
  BY <1>1, <1>2, PrefixEnds
<1>4. ASSUME NEW h \in HeadRead, Past(t, h), h.seq # state[t].seq
      PROVE  \E r \in rows : r.type = t /\ r.seq = h.seq + 1
  <2>1. h.seq \in Nat /\ h.seq + 1 \in 1..state[t].seq
    BY <1>1, <1>4 DEF Past, HeadRead
  <2> QED
    BY <1>2, <2>1 DEF ChainOK
<1>5. Past(t, [hash |-> state[t].hash, seq |-> state[t].seq])
  BY <1>1, <1>3 DEF Past
<1>6. \A h \in HeadRead : (Past(t, h) /\ h.seq = state[t].seq) => h.hash = state[t].hash
  BY <1>3 DEF Past
<1> QED
  BY <1>1, <1>2, <1>4, <1>5, <1>6

LEMMA RowShape ==
    ASSUME ChainInv, NEW r \in rows
    PROVE  /\ r \in Row /\ r.type \in Types /\ r.seq \in Nat \ {0} /\ r.entry \in Entries
           /\ r.prev \in Seq(Entries) /\ r.hash \in Seq(Entries)
           /\ r.seq <= state[r.type].seq
           /\ r.hash = SubSeq(state[r.type].hash, 1, r.seq)
           /\ r.prev = SubSeq(state[r.type].hash, 1, r.seq - 1)
           /\ r.hash = HashOf(r.prev, r.entry)
           /\ r.hash # ZeroHash
<1>1. r \in Row /\ RowOK(r)
  BY DEF ChainInv
<1>2. r.type \in Types /\ r.seq \in Nat \ {0} /\ r.entry \in Entries
      /\ r.prev \in Seq(Entries) /\ r.hash \in Seq(Entries)
  BY <1>1 DEF Row
<1>3. r.hash # ZeroHash
  <2>1. Len(r.hash) = Len(r.prev) + 1
    BY <1>1, <1>2 DEF RowOK, HashOf
  <2> QED
    BY <1>2, <2>1 DEF ZeroHash
<1> QED
  BY <1>1, <1>2, <1>3 DEF RowOK, Past

\* A batch that commits adds one entry to the head of one chain.
LEMMA Appended ==
    ASSUME ChainInv, WorkInv, LocksInv, NEW p \in Callers, AppendRow(p), ~Taken(NextRow(p))
    PROVE  \E t \in Types, e \in Entries, m \in {NextRow(p)} :
             /\ state[t].hash \in Seq(Entries) /\ state[t].seq \in Nat
             /\ Len(state[t].hash) = state[t].seq
             /\ rows' = rows \cup {m}
             /\ m = [type |-> t, seq |-> state[t].seq + 1, prev |-> state[t].hash, entry |-> e,
                     hash |-> Append(state[t].hash, e)]
             /\ state' \in [Types -> [hash : Seq(Entries), seq : Nat, verified : Nat]]
             /\ state'[t].hash = Append(state[t].hash, e)
             /\ state'[t].seq = state[t].seq + 1
             /\ state'[t].verified = state[t].verified
             /\ \A u \in Types : u # t => state'[u] = state[u]
<1> USE AuditAssumption
<1> DEFINE t == lease[p].key
           w == work[p]
           n == NextRow(p)
           H == state[t].hash
<1>t. t \in Types
  BY Leased DEF LocksInv, AppendRow, Lease
<1>w. w \in Work /\ w.head \in HeadRead /\ w.entry \in Entries /\ Past(t, w.head)
  <2>1. w # None /\ w \in Work
    BY DEF WorkInv, AppendRow
  <2>2. w.head # None
    BY DEF AppendRow
  <2> QED
    BY <2>1, <2>2 DEF WorkInv, Work
<1>1. n = [type |-> t, seq |-> w.head.seq + 1, prev |-> w.head.hash, entry |-> w.entry,
           hash |-> Append(w.head.hash, w.entry)]
  BY DEF NextRow, HashOf
<1>2. /\ H \in Seq(Entries) /\ state[t].seq \in Nat /\ Len(H) = state[t].seq
      /\ w.head.seq = state[t].seq /\ w.head.hash = H
  <2>1. ASSUME w.head.seq # state[t].seq PROVE FALSE
    <3>1. \E r \in rows : r.type = t /\ r.seq = w.head.seq + 1
      BY <1>t, <1>w, <2>1, HeadOf
    <3>2. n.type = t /\ n.seq = w.head.seq + 1
      BY <1>1
    <3> QED
      BY <3>1, <3>2 DEF Taken
  <2>2. w.head.hash = H
    BY <1>t, <1>w, <2>1, HeadOf
  <2> QED
    BY <1>t, <2>1, <2>2, HeadOf
<1>3. n = [type |-> t, seq |-> state[t].seq + 1, prev |-> H, entry |-> w.entry,
           hash |-> Append(H, w.entry)]
  BY <1>1, <1>2
<1>m. PICK m : m = n
  OBVIOUS
<1>4. rows' = rows \cup {m} /\ Advance(m)
  BY <1>m DEF AppendRow
<1>7. m \in {NextRow(p)}
  BY <1>m
<1> HIDE DEF t, w, n
<1>5. m.type = t /\ m.seq = state[t].seq + 1 /\ m.prev = H /\ m.entry = w.entry
      /\ m.hash = Append(H, w.entry)
  BY <1>3, <1>m
<1>6. /\ state' \in [Types -> [hash : Seq(Entries), seq : Nat, verified : Nat]]
      /\ state'[t].hash = Append(H, w.entry) /\ state'[t].seq = state[t].seq + 1
      /\ state'[t].verified = state[t].verified
      /\ \A u \in Types : u # t => state'[u] = state[u]
  <2>1. state' = [state EXCEPT ![t].hash = m.hash, ![t].seq = m.seq]
    BY <1>4, <1>5 DEF Advance
  <2>2. m.hash \in Seq(Entries) /\ m.seq \in Nat
    BY <1>2, <1>5, <1>w
  <2>3. state \in [Types -> [hash : Seq(Entries), seq : Nat, verified : Nat]]
    BY DEF ChainInv
  <2>4. state' \in [Types -> [hash : Seq(Entries), seq : Nat, verified : Nat]]
    BY <1>t, <2>1, <2>2, <2>3
  <2> QED
    BY <1>t, <1>5, <2>1, <2>3, <2>4
<1>e. PICK k \in Types, e \in Entries : k = t /\ e = w.entry
  BY <1>t, <1>w
<1>8. /\ state[k].hash \in Seq(Entries) /\ state[k].seq \in Nat
      /\ Len(state[k].hash) = state[k].seq
      /\ rows' = rows \cup {m}
      /\ m = [type |-> k, seq |-> state[k].seq + 1, prev |-> state[k].hash, entry |-> e,
              hash |-> Append(state[k].hash, e)]
  BY <1>e, <1>2, <1>3, <1>m, <1>4
<1>9. /\ state' \in [Types -> [hash : Seq(Entries), seq : Nat, verified : Nat]]
      /\ state'[k].hash = Append(state[k].hash, e) /\ state'[k].seq = state[k].seq + 1
      /\ state'[k].verified = state[k].verified
      /\ \A u \in Types : u # k => state'[u] = state[u]
  BY <1>e, <1>6
<1> QED
  BY <1>7, <1>8, <1>9

\* The batch of an append.
LEMMA AppendChain ==
    ASSUME ChainInv, WorkInv, LocksInv, NEW p \in Callers, AppendRow(p)
    PROVE  ChainInv' /\ Grown
<1>1. CASE Taken(NextRow(p))
  BY <1>1, SameChain DEF AppendRow
<1>2. CASE ~Taken(NextRow(p))
  <2>1. PICK t \in Types, e \in Entries, m \in {NextRow(p)} :
             /\ state[t].hash \in Seq(Entries) /\ state[t].seq \in Nat
             /\ Len(state[t].hash) = state[t].seq
             /\ rows' = rows \cup {m}
             /\ m = [type |-> t, seq |-> state[t].seq + 1, prev |-> state[t].hash, entry |-> e,
                     hash |-> Append(state[t].hash, e)]
             /\ state' \in [Types -> [hash : Seq(Entries), seq : Nat, verified : Nat]]
             /\ state'[t].hash = Append(state[t].hash, e)
             /\ state'[t].seq = state[t].seq + 1
             /\ state'[t].verified = state[t].verified
             /\ \A u \in Types : u # t => state'[u] = state[u]
    BY <1>2, Appended
  <2>h. PICK H \in Seq(Entries) : H = state[t].hash
    BY <2>1
  <2>2. state[t].seq \in Nat /\ Len(H) = state[t].seq
    BY <2>1, <2>h
  <2>4. rows' = rows \cup {m} /\ m = NextRow(p)
    BY <2>1
  <2>5. m.type = t /\ m.seq = state[t].seq + 1 /\ m.prev = H /\ m.entry = e
        /\ m.hash = Append(H, e)
    BY <2>1, <2>h
  <2>6. /\ state' \in [Types -> [hash : Seq(Entries), seq : Nat, verified : Nat]]
        /\ state'[t].hash = Append(H, e) /\ state'[t].seq = state[t].seq + 1
        /\ state'[t].verified = state[t].verified
        /\ \A u \in Types : u # t => state'[u] = state[u]
    BY <2>1, <2>h
  <2>7. m \in Row
    BY <2>1 DEF Row
  <2>8. ASSUME NEW u \in Types, NEW k \in Nat, k <= state[u].seq
        PROVE  SubSeq(state'[u].hash, 1, k) = SubSeq(state[u].hash, 1, k)
    <3>1. CASE u = t
      <4>1. k <= Len(H) /\ state'[u].hash = Append(H, e) /\ state[u].hash = H
        BY <2>h, <2>2, <2>6, <2>8, <3>1
      <4>2. SubSeq(Append(H, e), 1, k) = SubSeq(H, 1, k)
        BY <2>2, <4>1, PrefixKept
      <4> QED
        BY <4>1, <4>2
    <3> QED
      BY <2>6, <3>1
  <2>9. \A u \in Types : state[u].seq \in Nat /\ state[u].seq <= state'[u].seq
    <3> SUFFICES ASSUME NEW u \in Types
                 PROVE  state[u].seq \in Nat /\ state[u].seq <= state'[u].seq
      OBVIOUS
    <3>1. state[u].seq \in Nat
      BY HeadOf
    <3>2. CASE u = t
      <4>1. state'[u].seq = state[u].seq + 1
        BY <2>6, <3>2
      <4> QED
        BY <3>1, <4>1
    <3>3. CASE u # t
      <4>1. state'[u] = state[u]
        BY <2>6, <3>3
      <4> QED
        BY <3>1, <4>1
    <3> QED
      BY <3>2, <3>3
  <2>10. \A u \in Types, h \in HeadRead : Past(u, h) => Past(u, h)'
    <3> SUFFICES ASSUME NEW u \in Types, NEW h \in HeadRead, Past(u, h) PROVE Past(u, h)'
      OBVIOUS
    <3>1. h.seq \in Nat /\ h.seq <= state[u].seq
      BY DEF Past, HeadRead
    <3>2. h.seq <= state'[u].seq
      BY <2>2, <2>6, <2>9, <3>1
    <3>3. SubSeq(state'[u].hash, 1, h.seq) = SubSeq(state[u].hash, 1, h.seq)
      BY <2>8, <3>1
    <3> QED
      BY <3>2, <3>3 DEF Past
  <2>11. Grown
    BY <2>4, <2>9, <2>10 DEF Grown
  <2>12. \A u \in Types : ChainOK(u)'
    <3> SUFFICES ASSUME NEW u \in Types PROVE ChainOK(u)'
      OBVIOUS
    <3>1. ChainOK(u) /\ state[u].verified \in Nat
      BY DEF ChainInv
    <3>2. CASE u = t
      <4>1. Len(state'[t].hash) = state'[t].seq
        BY <2>2, <2>6
      <4>2. state'[t].verified <= state'[t].seq
        BY <2>2, <2>6, <3>1, <3>2 DEF ChainOK
      <4>3. ASSUME NEW k \in 1..state'[t].seq PROVE \E r \in rows' : r.type = t /\ r.seq = k
        <5>1. CASE k = m.seq
          BY <2>4, <2>5, <5>1
        <5>2. CASE k # m.seq
          <6>1. k \in 1..state[t].seq
            BY <2>2, <2>5, <2>6, <5>2
          <6> QED
            BY <2>4, <3>1, <3>2, <6>1 DEF ChainOK
        <5> QED
          BY <5>1, <5>2
      <4> QED
        BY <3>2, <4>1, <4>2, <4>3 DEF ChainOK
    <3>3. CASE u # t
      BY <2>4, <2>6, <3>1, <3>3 DEF ChainOK
    <3> QED
      BY <3>2, <3>3
  <2>13. \A r \in rows' : RowOK(r)'
    <3>1. ASSUME NEW r \in rows PROVE RowOK(r)'
      <4>1. [hash |-> r.hash, seq |-> r.seq] \in HeadRead
            /\ [hash |-> r.prev, seq |-> r.seq - 1] \in HeadRead
        BY RowShape DEF HeadRead
      <4>2. r.type \in Types /\ RowOK(r)
        BY RowShape DEF ChainInv
      <4> QED
        BY <2>10, <4>1, <4>2 DEF RowOK
    <3>2. RowOK(m)'
      <4>1. SubSeq(state'[t].hash, 1, m.seq) = m.hash
        <5>1. Append(H, e) \in Seq(Entries) /\ Len(Append(H, e)) = m.seq
          BY <2>2, <2>5
        <5> QED
          BY <2>5, <2>6, <5>1, PrefixEnds
      <4>2. SubSeq(state'[t].hash, 1, m.seq - 1) = m.prev
        <5>1. m.seq - 1 = state[t].seq /\ SubSeq(H, 1, state[t].seq) = H
          BY <2>2, <2>5, PrefixEnds
        <5> QED
          <6>1. SubSeq(state'[t].hash, 1, state[t].seq) = SubSeq(H, 1, state[t].seq)
            BY <2>h, <2>2, <2>8
          <6> QED
            BY <2>5, <5>1, <6>1
      <4>3. m.hash = HashOf(m.prev, m.entry)
        BY <2>5 DEF HashOf
      <4>4. m.seq <= state'[t].seq /\ m.seq - 1 <= state'[t].seq
        BY <2>2, <2>5, <2>6
      <4>5. Past(m.type, [hash |-> m.hash, seq |-> m.seq])'
        BY <2>5, <4>1, <4>4 DEF Past
      <4>6. Past(m.type, [hash |-> m.prev, seq |-> m.seq - 1])'
        BY <2>5, <4>2, <4>4 DEF Past
      <4> QED
        BY <4>3, <4>5, <4>6 DEF RowOK
    <3> QED
      BY <2>4, <3>1, <3>2
  <2>14. \A r, s \in rows' : (r.type = s.type /\ r.seq = s.seq) => r = s
    BY <1>2, <2>4 DEF ChainInv, Taken
  <2>15. IsFiniteSet(rows') /\ \A r \in rows' : r \in Row
    BY <2>4, <2>7, FS_AddElement DEF ChainInv
  <2> QED
    BY <2>6, <2>11, <2>12, <2>13, <2>14, <2>15 DEF ChainInv
<1> QED
  BY <1>1, <1>2

\* The mark of a walk.
LEMMA PersistChain ==
    ASSUME ChainInv, CheckInv, NEW v \in Verifiers, Persist(v)
    PROVE  ChainInv' /\ Grown
<1> DEFINE c == check[v]
<1>1. c \in Check /\ c.type \in Types /\ c.last \in Nat /\ c.last <= state[c.type].seq
  <2>1. c \in Check /\ CheckOK(c)
    BY DEF CheckInv, Persist
  <2> QED
    BY <2>1 DEF Check, CheckOK
<1>2. rows' = rows /\ state' = [state EXCEPT ![c.type].verified = c.last]
  BY DEF Persist
<1> HIDE DEF c
<1>3. /\ state' \in [Types -> [hash : Seq(Entries), seq : Nat, verified : Nat]]
      /\ \A t \in Types : state'[t].hash = state[t].hash /\ state'[t].seq = state[t].seq
      /\ \A t \in Types : state'[t].verified \in {state[t].verified, IF t = c.type THEN c.last ELSE 0}
      /\ \A t \in Types : t # c.type => state'[t].verified = state[t].verified
  BY <1>1, <1>2 DEF ChainInv
<1>4. \A t \in Types, h \in HeadRead : Past(t, h) <=> Past(t, h)'
  BY <1>3 DEF Past
<1>5. \A t \in Types : state[t].seq <= state'[t].seq
  BY <1>3, HeadOf
<1>6. \A t \in Types : ChainOK(t)'
  <2> SUFFICES ASSUME NEW t \in Types PROVE ChainOK(t)'
    OBVIOUS
  <2>1. ChainOK(t)
    BY DEF ChainInv
  <2>2. state'[t].verified <= state'[t].seq
    BY <1>1, <1>3, <2>1 DEF ChainOK
  <2> QED
    BY <1>2, <1>3, <2>1, <2>2 DEF ChainOK
<1>7. ASSUME NEW r \in rows PROVE RowOK(r)'
  <2>1. r.type \in Types /\ RowOK(r)
    BY RowShape DEF ChainInv
  <2> QED
    BY <1>3, <2>1 DEF RowOK, Past
<1> QED
  BY <1>2, <1>3, <1>4, <1>5, <1>6, <1>7 DEF ChainInv, Grown

-----------------------------------------------------------------------------
(* The requests.                                                            *)

\* What is carried from call to call, of a request that is not out.
WorkOK(p) ==
    /\ work[p] = None <=> phase[p] = "out"
    /\ (work[p] # None /\ work[p].head # None) => Past(lease[p].key, work[p].head)

\* A request keeps what it has read, whatever grows.
LEMMA WorkStays ==
    ASSUME WorkInv, LocksInv, Grown, NEW q \in Callers, work'[q] = work[q],
           phase'[q] = "out" <=> phase[q] = "out", phase[q] # "out" => lease'[q] = lease[q]
    PROVE  WorkOK(q)'
<1> USE AuditAssumption, AuditNoneAssumption
<1>1. work'[q] = None <=> phase'[q] = "out"
  BY DEF WorkInv
<1>2. ASSUME work[q] # None, work[q].head # None
      PROVE  Past(lease[q].key, work[q].head)' /\ lease'[q] = lease[q]
  <2>1. phase[q] # "out" /\ lease'[q] = lease[q]
    BY <1>2 DEF WorkInv
  <2>2. lease[q].key \in Types
    BY <2>1, Leased DEF LocksInv, Lease
  <2>3. work[q].head \in HeadRead /\ Past(lease[q].key, work[q].head)
    BY <1>2 DEF WorkInv, Work
  <2>4. PICK k \in Types, h \in HeadRead : k = lease[q].key /\ h = work[q].head
    BY <2>2, <2>3
  <2>5. Past(k, h)'
    BY <2>3, <2>4 DEF Grown
  <2> QED
    BY <2>1, <2>4, <2>5
<1> QED
  BY <1>1, <1>2 DEF WorkOK

LEMMA AskWork ==
    ASSUME WorkInv, LocksInv, ChainInv, NEW p \in Callers, Ask(p)
    PROVE  WorkInv'
<1> USE AuditAssumption, AuditNoneAssumption
<1>1. PICK a \in Asks :
         /\ Call(p, a.type, a.holder)
         /\ work' = [work EXCEPT ![p] = [entry |-> a.entry, head |-> None]]
  BY DEF Ask
<1>2. /\ phase' = [phase EXCEPT ![p] = "insert"]
      /\ \A q \in Callers \ {p} : lease'[q] = lease[q]
  BY <1>1 DEF Call, Go, LocksInv, LocksTypeOK
<1>3. [entry |-> a.entry, head |-> None] \in Work
  BY DEF Work
<1>4. work' \in [Callers -> Work \cup {None}] /\ \A q \in Callers \ {p} : work'[q] = work[q]
  BY <1>1, <1>3 DEF WorkInv
<1>5. WorkOK(p)'
  BY <1>1, <1>2, <1>3 DEF WorkOK, WorkInv, LocksInv, LocksTypeOK
<1>6. Grown
  BY SameChain DEF Ask
<1>7. ASSUME NEW q \in Callers \ {p} PROVE WorkOK(q)'
  BY <1>2, <1>4, <1>6, WorkStays DEF LocksInv, LocksTypeOK
<1>8. \A q \in Callers : WorkOK(q)'
  BY <1>5, <1>7
<1> QED
  BY <1>4, <1>8 DEF WorkInv, WorkOK

\* Of the calls of withLock, those that end a request make it forget.
LEMMA LockWork ==
    ASSUME WorkInv, LocksInv, ChainInv, NEW p \in Callers, Lock(p)
    PROVE  WorkInv'
<1> USE AuditNoneAssumption
<1>t. LocksTypeOK
  BY DEF LocksInv
<1>1. /\ \A q \in Callers \ {p} : phase'[q] = phase[q] /\ lease'[q] = lease[q]
      /\ phase[p] # "out"
      /\ phase'[p] = "out" \/ lease'[p] = lease[p]
      /\ phase' \in [Callers -> {"out", "insert", "steal", "inside", "release"}]
  <2>1. CASE Insert(p)
    BY <1>t, <2>1 DEF LocksTypeOK, Insert, Go
  <2>2. CASE Steal(p)
    BY <1>t, <2>2 DEF LocksTypeOK, Steal, Leave, Go
  <2>3. CASE Release(p)
    BY <1>t, <2>3 DEF LocksTypeOK, Release, Leave, Go
  <2>4. CASE Abandon(p)
    BY <1>t, <2>4 DEF LocksTypeOK, Abandon, Leave, Go, Working
  <2> QED
    BY <2>1, <2>2, <2>3, <2>4 DEF Lock
<1>2. work' = IF phase'[p] = "out" THEN [work EXCEPT ![p] = None] ELSE work
  BY DEF Lock
<1>3. work' \in [Callers -> Work \cup {None}] /\ \A q \in Callers \ {p} : work'[q] = work[q]
  BY <1>2 DEF WorkInv
<1>4. Grown
  BY SameChain DEF Lock
<1>5. WorkOK(p)'
  <2>1. CASE phase'[p] = "out"
    BY <1>2, <2>1 DEF WorkOK, WorkInv
  <2>2. CASE phase'[p] # "out"
    BY <1>1, <1>2, <1>4, <2>2, WorkStays
  <2> QED
    BY <2>1, <2>2
<1>6. ASSUME NEW q \in Callers \ {p} PROVE WorkOK(q)'
  BY <1>1, <1>3, <1>4, WorkStays
<1>7. \A q \in Callers : WorkOK(q)'
  BY <1>5, <1>6
<1> QED
  BY <1>3, <1>7 DEF WorkInv, WorkOK

LEMMA ReadHeadWork ==
    ASSUME WorkInv, LocksInv, ChainInv, NEW p \in Callers, ReadHead(p)
    PROVE  WorkInv'
<1> USE AuditAssumption, AuditNoneAssumption
<1> DEFINE t == lease[p].key
           h == [hash |-> state[t].hash, seq |-> state[t].seq]
<1>1. t \in Types
  BY Leased DEF LocksInv, ReadHead, Lease
<1>2. h \in HeadRead /\ Past(t, h)
  BY <1>1, HeadOf DEF HeadRead
<1>3. UNCHANGED <<clock, locks, lease, phase, overrun, rows, state>>
  BY DEF ReadHead, lock_vars, chain_vars
<1>4. work' = [work EXCEPT ![p].head = h] /\ work[p] # None
  BY DEF ReadHead, WorkInv
<1>5. work[p] \in Work
  BY <1>4 DEF WorkInv
<1> HIDE DEF h
<1>6. /\ work' \in [Callers -> Work \cup {None}] /\ \A q \in Callers \ {p} : work'[q] = work[q]
      /\ work'[p] \in Work /\ work'[p].head = h
  BY <1>2, <1>4, <1>5 DEF WorkInv, Work
<1>7. WorkOK(p)'
  <2>1. work'[p] # None /\ phase'[p] # "out"
    BY <1>3, <1>6 DEF ReadHead
  <2>2. Past(lease[p].key, work[p].head)'
    BY <1>2, <1>3, <1>6 DEF Past
  <2> QED
    BY <2>1, <2>2 DEF WorkOK
<1>8. Grown
  BY <1>3, SameChain DEF chain_vars
<1>9. ASSUME NEW q \in Callers \ {p} PROVE WorkOK(q)'
  BY <1>3, <1>6, <1>8, WorkStays
<1>10. \A q \in Callers : WorkOK(q)'
  BY <1>7, <1>9
<1> QED
  BY <1>6, <1>10 DEF WorkInv, WorkOK

\* Everything else leaves the requests where they are.
LEMMA OtherWork ==
    ASSUME WorkInv, LocksInv, Grown, UNCHANGED <<lease, work>>,
           \A q \in Callers : phase'[q] = "out" <=> phase[q] = "out"
    PROVE  WorkInv'
<1>1. ASSUME NEW q \in Callers PROVE WorkOK(q)'
  BY WorkStays
<1>2. work' \in [Callers -> Work \cup {None}]
  BY DEF WorkInv
<1> QED
  BY <1>1, <1>2 DEF WorkInv, WorkOK

-----------------------------------------------------------------------------
(* The walks.                                                               *)

\* A walk keeps what it carries, whatever grows.
LEMMA CheckStays ==
    ASSUME CheckInv, Grown, NEW u \in Verifiers, check'[u] = check[u], check[u] # None,
           ChainInv, state' \in [Types -> [hash : Seq(Entries), seq : Nat, verified : Nat]]
    PROVE  CheckOK(check[u])'
<1>1. PICK c \in Check : c = check[u] /\ CheckOK(c)
  BY DEF CheckInv
<1>2. c.type \in Types /\ c.prev \in Seq(Entries) /\ c.cursor - 1 \in Nat /\ c.last \in Nat
  BY <1>1 DEF Check
<1>3. [hash |-> c.prev, seq |-> c.cursor - 1] \in HeadRead
  BY <1>2 DEF HeadRead
<1>4. Past(c.type, [hash |-> c.prev, seq |-> c.cursor - 1])
         => Past(c.type, [hash |-> c.prev, seq |-> c.cursor - 1])'
  BY <1>2, <1>3 DEF Grown
<1>5. c.last <= state'[c.type].seq
  <2>1. c.last <= state[c.type].seq /\ state[c.type].seq <= state'[c.type].seq
    BY <1>1, <1>2 DEF CheckOK, Grown
  <2>2. state[c.type].seq \in Nat /\ state'[c.type].seq \in Nat
    BY <1>2 DEF ChainInv
  <2> QED
    BY <1>2, <2>1, <2>2
<1>6. CheckOK(c)'
  BY <1>1, <1>4, <1>5 DEF CheckOK
<1> QED
  BY <1>1, <1>6

LEMMA OtherCheck ==
    ASSUME CheckInv, Grown, ChainInv, ChainInv', check' = check
    PROVE  CheckInv'
<1>1. \A u \in Verifiers : check[u] # None => CheckOK(check[u])'
  BY CheckStays DEF ChainInv
<1> QED
  BY <1>1 DEF CheckInv

\* One walk moves, and the chain stays or only its mark moves.
LEMMA WalkMoves ==
    ASSUME CheckInv, Grown, ChainInv, ChainInv', NEW v \in Verifiers, NEW x \in Check \cup {None},
           Scan(v, x), x # None => CheckOK(x)'
    PROVE  CheckInv'
<1>1. check' = [check EXCEPT ![v] = x]
  BY DEF Scan
<1>2. check' \in [Verifiers -> Check \cup {None}] /\ check'[v] = x
      /\ \A u \in Verifiers \ {v} : check'[u] = check[u]
  BY <1>1 DEF CheckInv
<1>3. \A u \in Verifiers \ {v} : check'[u] # None => CheckOK(check[u])'
  BY <1>2, CheckStays DEF ChainInv
<1> QED
  BY <1>2, <1>3 DEF CheckInv

LEMMA StartCheck ==
    ASSUME CheckInv, ChainInv, NEW v \in Verifiers, StartVerify(v)
    PROVE  CheckInv'
<1> USE AuditAssumption
<1>1. PICK t \in Types, from \in 1..(MaxRows + 2) :
         Scan(v, [at |-> IF from > 1 THEN "seed" ELSE "page", type |-> t, from |-> from,
                  prev |-> ZeroHash, cursor |-> from, last |-> 0, scanned |-> 0])
  BY DEF StartVerify
<1>2. PICK x : x = [at |-> IF from > 1 THEN "seed" ELSE "page", type |-> t, from |-> from,
                  prev |-> ZeroHash, cursor |-> from, last |-> 0, scanned |-> 0]
  OBVIOUS
<1>3. /\ x.at = (IF from > 1 THEN "seed" ELSE "page") /\ x.type = t /\ x.from = from
      /\ x.prev = ZeroHash /\ x.cursor = from /\ x.last = 0 /\ x.scanned = 0
  BY <1>2
<1>4. x \in Check
  BY <1>2 DEF Check, ZeroHash
<1>5. ChainInv' /\ Grown /\ state' = state
  BY SameChain DEF StartVerify, chain_vars
<1>6. Past(t, [hash |-> ZeroHash, seq |-> 0])'
  <2>1. state[t].seq \in Nat /\ state[t].hash \in Seq(Entries)
    BY HeadOf
  <2>2. SubSeq(state[t].hash, 1, 0) = <<>>
    BY <2>1, PrefixEnds
  <2>3. PICK h : h = [hash |-> ZeroHash, seq |-> 0]
    OBVIOUS
  <2>4. h.hash = SubSeq(state'[t].hash, 1, h.seq)
    <3>1. h.hash = <<>> /\ h.seq = 0
      BY <2>3 DEF ZeroHash
    <3> QED
      BY <1>5, <2>2, <3>1
  <2>5. h.seq <= state'[t].seq
    BY <1>5, <2>1, <2>3
  <2>6. Past(t, h)'
    BY <2>4, <2>5 DEF Past
  <2> QED
    BY <2>3, <2>6
<1>7. CheckOK(x)'
  <2>1. x.last <= state'[x.type].seq
    <3>1. state[t].seq \in Nat
      BY HeadOf
    <3> QED
      BY <1>3, <1>5, <3>1
  <2>2. CASE from > 1
    BY <1>3, <2>1, <2>2 DEF CheckOK
  <2>3. CASE from = 1
    BY <1>3, <1>6, <2>1, <2>3 DEF CheckOK
  <2> QED
    BY <2>2, <2>3
<1>8. Scan(v, x)
  BY <1>1, <1>2
<1> QED
  BY <1>4, <1>5, <1>7, <1>8, WalkMoves

LEMMA SeedCheck ==
    ASSUME CheckInv, ChainInv, NEW v \in Verifiers, ReadSeed(v)
    PROVE  CheckInv'
<1> DEFINE c == check[v]
           seeds == {r \in rows : r.type = c.type /\ r.seq = c.from - 1}
<1>1. /\ c \in Check /\ c.at = "seed" /\ c.from > 1 /\ c.prev = ZeroHash /\ c.cursor = c.from
      /\ c.scanned = 0 /\ c.last <= state[c.type].seq /\ c.from \in Nat /\ c.type \in Types
  <2>1. c \in Check /\ CheckOK(c) /\ c.at = "seed"
    BY DEF CheckInv, ReadSeed
  <2> QED
    BY <2>1 DEF CheckOK, Check
<1>2. ChainInv' /\ Grown /\ state' = state
  BY SameChain DEF ReadSeed, chain_vars
<1>3. CASE seeds = {}
  <2>1. PICK x : x = [c EXCEPT !.at = "page"]
    OBVIOUS
  <2>2. x \in Check /\ x.at = "page" /\ x.from = c.from /\ x.prev = c.prev /\ x.scanned = c.scanned
        /\ x.last = c.last /\ x.type = c.type
    BY <1>1, <2>1 DEF Check
  <2>3. CheckOK(x)'
    BY <1>1, <1>2, <2>2 DEF CheckOK
  <2>4. Scan(v, x)
    BY <1>3, <2>1 DEF ReadSeed
  <2> QED
    BY <1>2, <2>2, <2>3, <2>4, WalkMoves
<1>4. CASE seeds # {}
  <2>1. PICK r \in seeds : Scan(v, [c EXCEPT !.at = "page", !.prev = r.hash])
    BY <1>4 DEF ReadSeed
  <2>2. PICK x : x = [c EXCEPT !.at = "page", !.prev = r.hash]
    OBVIOUS
  <2>3. r \in rows /\ r.type = c.type /\ r.seq = c.from - 1
    OBVIOUS
  <2>4. r.hash \in Seq(Entries) /\ r.seq <= state[c.type].seq
        /\ r.hash = SubSeq(state[c.type].hash, 1, r.seq)
    BY <2>3, RowShape
  <2>5. x \in Check /\ x.at = "page" /\ x.from = c.from /\ x.prev = r.hash
        /\ x.scanned = c.scanned /\ x.cursor = c.from /\ x.last = c.last /\ x.type = c.type
    BY <1>1, <2>2, <2>4 DEF Check
  <2>6. Past(x.type, [hash |-> x.prev, seq |-> x.cursor - 1])'
    BY <1>2, <2>3, <2>4, <2>5 DEF Past
  <2>7. CheckOK(x)'
    BY <1>1, <1>2, <2>5, <2>6 DEF CheckOK
  <2>8. Scan(v, x)
    BY <2>1, <2>2
  <2> QED
    BY <1>2, <2>5, <2>7, <2>8, WalkMoves
<1> QED
  BY <1>3, <1>4

\* Runs that end.
LEMMA EndCheck ==
    ASSUME CheckInv, ChainInv, ChainInv', Grown, NEW v \in Verifiers, Scan(v, None)
    PROVE  CheckInv'
BY WalkMoves

\* The rows of a page.
LEMMA PageShape ==
    ASSUME ChainInv, NEW c \in Check
    PROVE  /\ PageOf(c) \subseteq rows /\ IsFiniteSet(PageOf(c)) /\ Cardinality(PageOf(c)) \in Nat
           /\ \A r \in PageOf(c) : r.type = c.type /\ r.seq >= c.cursor
<1>1. PageOf(c) \subseteq rows /\ \A r \in PageOf(c) : r.type = c.type /\ r.seq >= c.cursor
  BY DEF PageOf
<1>2. IsFiniteSet(PageOf(c))
  BY <1>1, FS_Subset DEF ChainInv
<1> QED
  BY <1>1, <1>2, FS_CardinalityType

\* A page has, with a row, all rows from the cursor up to it.
LEMMA PageFull ==
    ASSUME ChainInv, NEW c \in Check, NEW r \in PageOf(c), NEW q \in rows,
           q.type = c.type, q.seq >= c.cursor, q.seq <= r.seq
    PROVE  q \in PageOf(c)
<1> USE AuditAssumption
<1> DEFINE upto(n) == {x \in rows : x.type = c.type /\ x.seq \in (c.cursor)..(n - 1)}
<1>1. q.seq \in Nat /\ r.seq \in Nat /\ c.cursor \in Nat /\ r \in rows
  BY RowShape, PageShape DEF Check
<1>2. upto(q.seq) \in SUBSET upto(r.seq)
  <2>1. \A x \in rows : x.seq \in Nat
    BY RowShape
  <2> QED
    BY <1>1, <2>1
<1>3. IsFiniteSet(upto(r.seq))
  BY FS_Subset DEF ChainInv
<1>4. IsFiniteSet(upto(q.seq)) /\ Cardinality(upto(q.seq)) <= Cardinality(upto(r.seq))
  BY <1>2, <1>3, FS_Subset
<1>5. Cardinality(upto(q.seq)) \in Nat /\ Cardinality(upto(r.seq)) \in Nat
  BY <1>3, <1>4, FS_CardinalityType
<1>6. Cardinality(upto(r.seq)) < Page
  BY DEF PageOf
<1>7. Cardinality(upto(q.seq)) < Page
  BY <1>4, <1>5, <1>6
<1> QED
  BY <1>7 DEF PageOf

\* The hash that the walk holds when it comes to a row is that row's prev,
\* if it is the hash of the row before the cursor.
LEMMA PrevCarried ==
    ASSUME ChainInv, NEW c \in Check, NEW r \in PageOf(c),
           Past(c.type, [hash |-> c.prev, seq |-> c.cursor - 1])
    PROVE  PrevIn(PageOf(c), c.prev, r) = r.prev
<1> DEFINE page == PageOf(c)
           before == {q \in page : q.seq < r.seq}
           H == state[c.type].hash
<1>1. /\ r \in rows /\ r.type = c.type /\ r.seq >= c.cursor /\ page \subseteq rows
      /\ r.seq \in Nat /\ c.cursor \in Nat \ {0} /\ c.type \in Types
  BY RowShape, PageShape DEF Check
<1>2. r.prev = SubSeq(H, 1, r.seq - 1) /\ r.seq <= state[c.type].seq /\ state[c.type].seq \in Nat
  BY <1>1, RowShape, HeadOf
<1>3. CASE r.seq = c.cursor
  <2>1. before = {}
    <3>1. \A q \in page : q.seq >= c.cursor /\ q.seq \in Nat
      BY RowShape, PageShape
    <3> QED
      BY <1>1, <1>3, <3>1
  <2>2. PrevIn(page, c.prev, r) = c.prev
    BY <2>1 DEF PrevIn
  <2> QED
    BY <1>2, <1>3, <2>2 DEF Past
<1>4. CASE r.seq # c.cursor
  <2>1. r.seq - 1 \in 1..state[c.type].seq /\ r.seq - 1 >= c.cursor
    BY <1>1, <1>2, <1>4
  <2>2. PICK q \in rows : q.type = c.type /\ q.seq = r.seq - 1
    BY <1>1, <2>1 DEF ChainInv, ChainOK
  <2>3. q \in before
    BY <1>1, <2>1, <2>2, PageFull
  <2>4. \A b \in before : b.seq <= q.seq /\ b.seq \in Nat /\ b \in rows /\ b.type = c.type
    <3>1. \A b \in before : b \in rows /\ b.seq < r.seq /\ b.type = c.type
      BY PageShape
    <3> QED
      BY <1>1, <2>2, <3>1, RowShape
  <2> DEFINE IsLast(x) == \A b \in before : b.seq <= x.seq
             m == CHOOSE x \in before : IsLast(x)
  <2>5. m \in before /\ IsLast(m)
    BY <2>3, <2>4
  <2>6. PrevIn(page, c.prev, r) = m.hash
    BY <2>3 DEF PrevIn
  <2> HIDE DEF m
  <2>7. m.seq = q.seq /\ m \in rows /\ m.type = c.type
    BY <1>1, <2>2, <2>3, <2>4, <2>5
  <2>8. m.hash = SubSeq(H, 1, r.seq - 1)
    BY <2>2, <2>7, RowShape
  <2> QED
    BY <1>2, <2>6, <2>8
<1> QED
  BY <1>3, <1>4

\* One turn of the loop.
LEMMA PageCheck ==
    ASSUME CheckInv, ChainInv, NEW v \in Verifiers, ReadPage(v)
    PROVE  CheckInv'
<1> USE AuditAssumption
<1> DEFINE c == check[v]
           page == PageOf(c)
<1>1. c \in Check /\ CheckOK(c) /\ c.at = "page"
  BY DEF CheckInv, ReadPage
<1>2. ChainInv' /\ Grown /\ state' = state
  BY SameChain DEF ReadPage, chain_vars
<1>3. c.type \in Types /\ c.last <= state[c.type].seq /\ c.scanned \in Nat /\ c.last \in Nat
  BY <1>1 DEF Check, CheckOK
<1>4. CASE page = {}
  <2>1. CASE c.scanned > 0
    <3>1. PICK x : x = [c EXCEPT !.at = "persist"]
      OBVIOUS
    <3>2. x \in Check /\ x.at = "persist" /\ x.last = c.last /\ x.type = c.type
      BY <1>1, <3>1 DEF Check
    <3>3. CheckOK(x)'
      BY <1>1, <1>2, <1>3, <2>1, <3>2 DEF CheckOK
    <3>4. Scan(v, x)
      BY <1>4, <2>1, <3>1 DEF ReadPage
    <3> QED
      BY <1>2, <3>2, <3>3, <3>4, WalkMoves
  <2>2. CASE ~(c.scanned > 0)
    BY <1>2, <1>4, <2>2, EndCheck DEF ReadPage
  <2> QED
    BY <2>1, <2>2
<1>5. CASE page # {} /\ ~Intact(page, c.prev)
  <2>1. PICK x : x = [c EXCEPT !.at = "diverged"]
    OBVIOUS
  <2>2. x \in Check /\ x.at = "diverged" /\ x.last = c.last /\ x.type = c.type
        /\ x.from = c.from /\ x.prev = c.prev
    BY <1>1, <2>1 DEF Check
  <2>3. c.from > 1 /\ c.prev = ZeroHash
    <3>1. ASSUME c.from = 1 \/ c.prev # ZeroHash PROVE FALSE
      <4>1. Past(c.type, [hash |-> c.prev, seq |-> c.cursor - 1])
        BY <1>1, <3>1 DEF CheckOK
      <4>2. \A r \in page : PrevIn(page, c.prev, r) = r.prev
        BY <1>1, <4>1, PrevCarried
      <4>3. \A r \in page : r.hash = HashOf(r.prev, r.entry)
        BY <1>1, PageShape, RowShape
      <4> QED
        BY <1>5, <4>2, <4>3 DEF Intact
    <3> QED
      BY <1>1, <3>1 DEF Check
  <2>4. CheckOK(x)'
    BY <1>2, <1>3, <2>2, <2>3 DEF CheckOK
  <2>5. Scan(v, x)
    BY <1>5, <2>1 DEF ReadPage
  <2> QED
    BY <1>2, <2>2, <2>4, <2>5, WalkMoves
<1>6. CASE page # {} /\ Intact(page, c.prev)
  <2> DEFINE next(last) ==
        [c EXCEPT !.prev = last.hash, !.last = last.seq, !.cursor = last.seq + 1,
                  !.scanned = @ + Cardinality(page),
                  !.at = IF Cardinality(page) < Page \/ c.scanned + Cardinality(page) >= MaxScan
                         THEN "persist" ELSE "page"]
  <2>1. PICK last \in page : Scan(v, next(last))
    BY <1>6 DEF ReadPage
  <2>2. PICK x : x = next(last)
    OBVIOUS
  <2>3. /\ last \in rows /\ last.type = c.type /\ last.seq \in Nat \ {0}
        /\ last.hash \in Seq(Entries) /\ last.seq <= state[c.type].seq
        /\ last.hash = SubSeq(state[c.type].hash, 1, last.seq)
    BY <1>1, PageShape, RowShape
  <2>4. Cardinality(page) \in Nat
    BY <1>1, PageShape
  <2>5. /\ x \in Check /\ x.prev = last.hash /\ x.last = last.seq /\ x.cursor = last.seq + 1
        /\ x.at \in {"persist", "page"} /\ x.type = c.type
    <3>1. PICK k \in Nat : k = Cardinality(page)
      BY <2>4
    <3>2. PICK a \in {"persist", "page"} :
             a = IF k < Page \/ c.scanned + k >= MaxScan THEN "persist" ELSE "page"
      OBVIOUS
    <3>3. x = [c EXCEPT !.prev = last.hash, !.last = last.seq, !.cursor = last.seq + 1,
                        !.scanned = @ + k, !.at = a]
      BY <2>2, <3>1, <3>2
    <3>4. c.scanned + k \in Nat /\ last.seq + 1 \in Nat \ {0}
      BY <1>3, <2>3
    <3> HIDE DEF page, c
    <3> QED
      BY <1>1, <2>3, <3>3, <3>4 DEF Check
  <2>6. Past(x.type, [hash |-> x.prev, seq |-> x.cursor - 1])'
    BY <1>2, <2>3, <2>5 DEF Past
  <2>7. CheckOK(x)'
    BY <1>2, <2>3, <2>5, <2>6 DEF CheckOK
  <2>8. Scan(v, x)
    BY <2>1, <2>2
  <2> QED
    BY <1>2, <2>5, <2>7, <2>8, WalkMoves
<1> QED
  BY <1>4, <1>5, <1>6

-----------------------------------------------------------------------------
(* The publications.                                                        *)

\* A snapshot stays one of past heads, whatever grows.
LEMMA SnapStays ==
    ASSUME Grown, NEW s \in Snapshot, SnapOK(s)
    PROVE  SnapOK(s)'
<1>1. \A t \in Types : s.heads[t] \in HeadRead
  BY DEF Snapshot
<1> QED
  BY <1>1 DEF SnapOK, Grown

LEMMA OtherAnchor ==
    ASSUME AnchorInv, Grown, UNCHANGED anchor_vars
    PROVE  AnchorInv'
<1> USE AuditNoneAssumption
<1>1. \A h \in Hours : \A s \in objects[h] \cup anchors[h] : SnapOK(s)'
  BY SnapStays DEF AnchorInv
<1>2. \A w \in Publishers : publish[w] # None => PublishOK(publish[w])'
  <2> SUFFICES ASSUME NEW w \in Publishers, publish[w] # None PROVE PublishOK(publish[w])'
    OBVIOUS
  <2>1. PICK b \in Publication : b = publish[w] /\ PublishOK(b)
    BY DEF AnchorInv
  <2>2. b.at \in {"put", "record"} => b.snap \in Snapshot /\ SnapOK(b.snap)
    BY <2>1 DEF PublishOK, Publication
  <2>3. PublishOK(b)'
    <3>1. b.at \in {"put", "record"} => b.snap # None /\ SnapOK(b.snap)'
      <4>1. b.at \in {"put", "record"} => b.snap # None
        BY <2>1 DEF PublishOK
      <4> QED
        BY <2>2, <4>1, SnapStays
    <3>2. b.at = "record" => objects'[b.hour] # {}
      BY <2>1 DEF PublishOK, anchor_vars
    <3> QED
      BY <3>1, <3>2 DEF PublishOK
  <2>4. publish'[w] = b
    BY <2>1 DEF anchor_vars
  <2> QED
    BY <2>3, <2>4
<1> QED
  BY <1>1, <1>2 DEF AnchorInv, anchor_vars

\* One publication moves while no head does.
LEMMA PublishMoves ==
    ASSUME AnchorInv, NEW w \in Publishers, NEW x \in Publication \cup {None},
           Publish(w, x), x # None => PublishOK(x)', UNCHANGED <<state, objects, anchors>>
    PROVE  AnchorInv'
<1>1. publish' = [publish EXCEPT ![w] = x]
  BY DEF Publish
<1>2. publish' \in [Publishers -> Publication \cup {None}] /\ publish'[w] = x
      /\ \A u \in Publishers \ {w} : publish'[u] = publish[u]
  BY <1>1 DEF AnchorInv
<1>3. ASSUME NEW u \in Publishers, publish'[u] # None PROVE PublishOK(publish[u])'
  <2>1. CASE u = w
    BY <1>2, <1>3, <2>1
  <2>2. CASE u # w
    BY <1>2, <1>3, <2>2 DEF AnchorInv, PublishOK, SnapOK, Past
  <2> QED
    BY <2>1, <2>2
<1>4. \A h \in Hours : \A s \in objects[h] \cup anchors[h] : SnapOK(s)'
  BY DEF AnchorInv, SnapOK, Past
<1> QED
  BY <1>2, <1>3, <1>4 DEF AnchorInv

LEMMA PriorAnchor ==
    ASSUME LocksInv, AnchorInv, NEW w \in Publishers, CheckPrior(w)
    PROVE  AnchorInv'
<1> USE LocksAssumption, AuditAssumption
<1> DEFINE hour == clock \div HourLength
<1>1. hour \in Hours
  <2>1. clock \in 0..MaxTime /\ MaxTime \in Nat /\ HourLength \in Nat \ {0}
    BY DEF LocksInv, LocksTypeOK
  <2>2. clock \div HourLength \in Nat /\ clock \div HourLength <= MaxTime \div HourLength
    BY <2>1
  <2> QED
    BY <2>1, <2>2 DEF Hours
<1>2. PICK x : x = [at |-> "heads", hour |-> hour, snap |-> None]
  OBVIOUS
<1>3. x \in Publication /\ x.at = "heads"
  BY <1>1, <1>2 DEF Publication
<1>4. PublishOK(x)'
  BY <1>3 DEF PublishOK
<1>5. Publish(w, x) /\ UNCHANGED <<state, objects, anchors>>
  BY <1>2 DEF CheckPrior, Apart, chain_vars
<1> QED
  BY <1>3, <1>4, <1>5, PublishMoves

LEMMA HeadsAnchor ==
    ASSUME ChainInv, AnchorInv, NEW w \in Publishers, ReadHeads(w)
    PROVE  AnchorInv'
<1> DEFINE b == publish[w]
           snap == [run |-> w, heads |-> [t \in Types |-> [hash |-> state[t].hash,
                                                          seq |-> state[t].seq]]]
<1>1. b \in Publication
  BY DEF AnchorInv, ReadHeads
<1>2. PICK s : s = snap
  OBVIOUS
<1>3. s \in Snapshot /\ SnapOK(s)
  BY <1>2, HeadOf DEF Snapshot, HeadRead, SnapOK
<1>4. PICK x : x = [b EXCEPT !.at = "put", !.snap = s]
  OBVIOUS
<1>5. x \in Publication /\ x.at = "put" /\ x.snap = s
  BY <1>1, <1>3, <1>4 DEF Publication
<1>6. Publish(w, x) /\ UNCHANGED <<state, objects, anchors>>
  BY <1>2, <1>4 DEF ReadHeads, Apart, chain_vars
<1>7. SnapOK(s)'
  BY <1>3, <1>6 DEF SnapOK, Past
<1>8. PublishOK(x)'
  BY <1>3, <1>5, <1>7, AuditNoneAssumption DEF PublishOK
<1> QED
  BY <1>5, <1>6, <1>8, PublishMoves

\* What a publication that is about to put or to record has in hand.
LEMMA InHand ==
    ASSUME AnchorInv, NEW w \in Publishers, publish[w] # None, publish[w].at \in {"put", "record"}
    PROVE  /\ publish[w] \in Publication /\ publish[w].hour \in Hours
           /\ publish[w].snap \in Snapshot /\ SnapOK(publish[w].snap)
           /\ publish[w].at = "record" => objects[publish[w].hour] # {}
BY DEF AnchorInv, Publication, PublishOK

LEMMA PutAnchor ==
    ASSUME AnchorInv, NEW w \in Publishers, PutObject(w)
    PROVE  AnchorInv'
<1> DEFINE b == publish[w]
<1>1. b \in Publication /\ b.hour \in Hours /\ b.snap \in Snapshot /\ SnapOK(b.snap) /\ b # None
  BY InHand DEF PutObject
<1>2. UNCHANGED <<state, anchors>> /\ objects' = [objects EXCEPT ![b.hour] = {b.snap}]
  BY DEF PutObject, Apart, chain_vars
<1>3. PICK x : x = [b EXCEPT !.at = "record"]
  OBVIOUS
<1>4. x \in Publication /\ x.at = "record" /\ x.hour = b.hour /\ x.snap = b.snap
  BY <1>1, <1>3 DEF Publication
<1>5. publish' \in [Publishers -> Publication \cup {None}] /\ publish'[w] = x
      /\ \A u \in Publishers \ {w} : publish'[u] = publish[u]
  BY <1>3, <1>4 DEF AnchorInv, PutObject, Publish
<1> HIDE DEF b
<1>6. /\ DOMAIN objects' = Hours /\ objects'[b.hour] = {b.snap}
      /\ \A h \in Hours \ {b.hour} : objects'[h] = objects[h]
  BY <1>1, <1>2 DEF AnchorInv
<1>7. \A s : SnapOK(s) => SnapOK(s)'
  BY <1>2 DEF SnapOK, Past
<1>8. \A h \in Hours : objects[h] # {} => objects'[h] # {}
  BY <1>6
<1>9. ASSUME NEW u \in Publishers, publish'[u] # None PROVE PublishOK(publish[u])'
  <2>1. CASE u = w
    <3>1. x.snap # None /\ SnapOK(x.snap)' /\ objects'[x.hour] # {}
      BY <1>1, <1>4, <1>6, <1>7, AuditNoneAssumption
    <3>2. publish'[u] = x
      BY <1>5, <2>1
    <3> QED
      BY <1>4, <3>1, <3>2 DEF PublishOK, SnapOK, Past
  <2>2. CASE u # w
    <3>1. PICK y \in Publication : y = publish[u] /\ y = publish'[u] /\ PublishOK(y)
      BY <1>5, <1>9, <2>2 DEF AnchorInv
    <3>2. y.hour \in Hours
      BY DEF Publication
    <3>3. PublishOK(y)'
      BY <1>7, <1>8, <3>1, <3>2 DEF PublishOK
    <3> QED
      BY <3>1, <3>3
  <2> QED
    BY <2>1, <2>2
<1>10. ASSUME NEW h \in Hours
       PROVE  /\ anchors'[h] # {} => objects'[h] # {}
              /\ \A s \in objects'[h] \cup anchors'[h] : s \in Snapshot /\ SnapOK(s)'
  <2>1. anchors'[h] # {} => objects'[h] # {}
    BY <1>2, <1>8 DEF AnchorInv
  <2>2. \A s \in objects'[h] \cup anchors'[h] : s \in objects[h] \cup anchors[h] \/ s = b.snap
    BY <1>2, <1>6
  <2>3. \A s \in objects[h] \cup anchors[h] : s \in Snapshot /\ SnapOK(s)
    BY DEF AnchorInv
  <2> QED
    BY <1>1, <1>7, <2>1, <2>2, <2>3
<1> QED
  BY <1>2, <1>5, <1>6, <1>9, <1>10 DEF AnchorInv

LEMMA RecordAnchorInv ==
    ASSUME AnchorInv, NEW w \in Publishers, RecordAnchor(w)
    PROVE  AnchorInv'
<1> DEFINE b == publish[w]
<1>1. b.hour \in Hours /\ b.snap \in Snapshot /\ SnapOK(b.snap) /\ objects[b.hour] # {}
  BY InHand DEF RecordAnchor
<1>2. UNCHANGED <<state, objects>>
      /\ anchors' = [anchors EXCEPT ![b.hour] = IF @ = {} THEN {b.snap} ELSE @]
  BY DEF RecordAnchor, Apart, chain_vars
<1>3. publish' = [publish EXCEPT ![w] = None]
  BY DEF RecordAnchor, Publish
<1> HIDE DEF b
<1>4. /\ publish' \in [Publishers -> Publication \cup {None}] /\ publish'[w] = None
      /\ \A u \in Publishers : publish'[u] # None => publish'[u] = publish[u]
  BY <1>3 DEF AnchorInv
<1>5. /\ DOMAIN anchors' = Hours
      /\ \A h \in Hours \ {b.hour} : anchors'[h] = anchors[h]
      /\ anchors'[b.hour] \in {anchors[b.hour], {b.snap}}
  BY <1>1, <1>2 DEF AnchorInv
<1>6. \A s : SnapOK(s) => SnapOK(s)'
  BY <1>2 DEF SnapOK, Past
<1>7. ASSUME NEW u \in Publishers, publish'[u] # None PROVE PublishOK(publish[u])'
  <2>1. PublishOK(publish[u]) /\ publish'[u] = publish[u]
    BY <1>4, <1>7 DEF AnchorInv
  <2> QED
    BY <1>2, <1>6, <2>1 DEF PublishOK
<1>8. ASSUME NEW h \in Hours
      PROVE  /\ anchors'[h] # {} => objects'[h] # {}
             /\ \A s \in objects'[h] \cup anchors'[h] : s \in Snapshot /\ SnapOK(s)'
  <2>1. anchors'[h] # {} => objects'[h] # {}
    BY <1>1, <1>2, <1>5 DEF AnchorInv
  <2>2. \A s \in objects'[h] \cup anchors'[h] : s \in objects[h] \cup anchors[h] \/ s = b.snap
    BY <1>2, <1>5
  <2>3. \A s \in objects[h] \cup anchors[h] : s \in Snapshot /\ SnapOK(s)
    BY DEF AnchorInv
  <2> QED
    BY <1>1, <1>6, <2>1, <2>2, <2>3
<1> QED
  BY <1>2, <1>4, <1>5, <1>7, <1>8 DEF AnchorInv

LEMMA StopAnchor ==
    ASSUME AnchorInv, NEW w \in Publishers, StopPublish(w)
    PROVE  AnchorInv'
<1>1. Publish(w, None) /\ UNCHANGED <<state, objects, anchors>>
  BY DEF StopPublish, Apart, chain_vars
<1> QED
  BY <1>1, PublishMoves

-----------------------------------------------------------------------------
(* The invariant is inductive.                                              *)

\* The same five parts after a step.
LEMMA PartsAfter ==
    ASSUME LocksInv', ChainInv', WorkInv', CheckInv', AnchorInv'
    PROVE  AuditInv'
BY DEF AuditInv, AuditTypeOK, LocksInv, ChainInv, WorkInv, CheckInv, AnchorInv

LEMMA InitInv == Init => AuditInv
<1> SUFFICES ASSUME Init PROVE AuditInv
  OBVIOUS
<1> USE DEF Init, LocksInit
<1>0. <<>> \in Seq(Entries) /\ Len(<<>>) = 0
  OBVIOUS
<1>1. LocksInv
  BY InitLocks
<1>2. ChainInv
  <2>1. rows = {} /\ IsFiniteSet(rows)
    BY FS_EmptySet
  <2>2. state \in [Types -> [hash : Seq(Entries), seq : Nat, verified : Nat]]
    BY <1>0 DEF ZeroHash
  <2>3. \A t \in Types : ChainOK(t)
    BY <1>0 DEF ChainOK, ZeroHash
  <2> QED
    BY <2>1, <2>2, <2>3 DEF ChainInv
<1>3. WorkInv
  BY DEF WorkInv
<1>4. CheckInv
  BY DEF CheckInv
<1>5. AnchorInv
  BY DEF AnchorInv
<1> QED
  BY <1>1, <1>2, <1>3, <1>4, <1>5, Parts

\* A step that leaves the chain and all that is not the locks' and the work alone.
LEMMA LocksAside ==
    ASSUME LocksInv, ChainInv, CheckInv, AnchorInv, UNCHANGED <<chain_vars, check, anchor_vars>>
    PROVE  ChainInv' /\ CheckInv' /\ AnchorInv'
<1>1. ChainInv' /\ Grown
  BY SameChain
<1> QED
  BY <1>1, OtherCheck, OtherAnchor

LEMMA AppendingInv ==
    ASSUME AuditInv, NEW p \in Callers, Appending(p)
    PROVE  AuditInv'
<1>0. LocksInv /\ ChainInv /\ WorkInv /\ CheckInv /\ AnchorInv
  BY Parts
<1>1. CASE Ask(p)
  <2>1. PICK a \in Asks : Call(p, a.type, a.holder)
    BY <1>1 DEF Ask
  <2>2. a.type \in LockKeys /\ a.holder \in Holders
    BY AuditAssumption
  <2>3. LocksInv'
    BY <1>0, <2>1, <2>2, CallKeepsLocks
  <2>4. ChainInv' /\ CheckInv' /\ AnchorInv'
    BY <1>0, <1>1, LocksAside DEF Ask
  <2> QED
    BY <1>0, <1>1, <2>3, <2>4, AskWork, PartsAfter
<1>2. CASE Lock(p)
  <2>1. LocksInv'
    BY <1>0, <1>2, InsertKeepsLocks, StealKeepsLocks, ReleaseKeepsLocks, AbandonKeepsLocks DEF Lock
  <2>2. ChainInv' /\ CheckInv' /\ AnchorInv'
    BY <1>0, <1>2, LocksAside DEF Lock
  <2> QED
    BY <1>0, <1>2, <2>1, <2>2, LockWork, PartsAfter
<1>3. CASE ReadHead(p)
  <2>1. LocksInv'
    BY <1>0, <1>3, SameLocks DEF ReadHead
  <2>2. ChainInv' /\ CheckInv' /\ AnchorInv'
    BY <1>0, <1>3, LocksAside DEF ReadHead
  <2> QED
    BY <1>0, <1>3, <2>1, <2>2, ReadHeadWork, PartsAfter
<1>4. CASE AppendRow(p)
  <2>1. LocksInv'
    BY <1>0, <1>4, WorkKeepsLocks DEF AppendRow
  <2>2. ChainInv' /\ Grown
    BY <1>0, <1>4, AppendChain
  <2>3. \A q \in Callers : phase'[q] = "out" <=> phase[q] = "out"
    BY <1>0, <1>4 DEF AppendRow, Go, LocksInv, LocksTypeOK
  <2>4. WorkInv'
    BY <1>0, <1>4, <2>2, <2>3, OtherWork DEF AppendRow
  <2>5. CheckInv' /\ AnchorInv'
    BY <1>0, <1>4, <2>2, OtherCheck, OtherAnchor DEF AppendRow
  <2> QED
    BY <2>1, <2>2, <2>4, <2>5, PartsAfter
<1> QED
  BY <1>1, <1>2, <1>3, <1>4 DEF Appending

LEMMA VerifyingInv ==
    ASSUME AuditInv, NEW v \in Verifiers, Verifying(v)
    PROVE  AuditInv'
<1>0. LocksInv /\ ChainInv /\ WorkInv /\ CheckInv /\ AnchorInv
  BY Parts
<1>1. UNCHANGED Others
  BY DEF Verifying, StartVerify, ReadSeed, ReadPage, Persist, Report
<1>2. ChainInv' /\ Grown
  <2>1. CASE Persist(v)
    BY <1>0, <2>1, PersistChain
  <2>2. CASE ~Persist(v)
    <3>1. UNCHANGED chain_vars
      BY <2>2 DEF Verifying, StartVerify, ReadSeed, ReadPage, Report
    <3> QED
      BY <1>0, <3>1, SameChain
  <2> QED
    BY <2>1, <2>2
<1>3. CheckInv'
  <2>1. CASE Persist(v) \/ Report(v)
    BY <1>0, <1>2, <2>1, EndCheck DEF Persist, Report
  <2>2. CASE ~(Persist(v) \/ Report(v))
    BY <1>0, <2>2, StartCheck, SeedCheck, PageCheck DEF Verifying
  <2> QED
    BY <2>1, <2>2
<1>4. LocksInv'
  BY <1>0, <1>1, SameLocks DEF Others
<1>5. \A q \in Callers : phase'[q] = "out" <=> phase[q] = "out"
  BY <1>1 DEF Others, lock_vars
<1>6. WorkInv'
  BY <1>0, <1>1, <1>2, <1>5, OtherWork DEF Others, lock_vars
<1>7. AnchorInv'
  BY <1>0, <1>1, <1>2, OtherAnchor DEF Others
<1> QED
  BY <1>2, <1>3, <1>4, <1>6, <1>7, PartsAfter

LEMMA PublishingInv ==
    ASSUME AuditInv, NEW w \in Publishers, Publishing(w)
    PROVE  AuditInv'
<1>0. LocksInv /\ ChainInv /\ WorkInv /\ CheckInv /\ AnchorInv
  BY Parts
<1>1. UNCHANGED Apart
  BY DEF Publishing, CheckPrior, ReadHeads, PutObject, RecordAnchor, StopPublish
<1>2. ChainInv' /\ Grown
  BY <1>0, <1>1, SameChain DEF Apart
<1>3. LocksInv'
  BY <1>0, <1>1, SameLocks DEF Apart
<1>4. \A q \in Callers : phase'[q] = "out" <=> phase[q] = "out"
  BY <1>1 DEF Apart, lock_vars
<1>5. WorkInv'
  BY <1>0, <1>1, <1>2, <1>4, OtherWork DEF Apart, lock_vars
<1>6. CheckInv'
  BY <1>0, <1>1, <1>2, OtherCheck DEF Apart
<1>7. AnchorInv'
  BY <1>0, PriorAnchor, HeadsAnchor, PutAnchor, RecordAnchorInv, StopAnchor DEF Publishing
<1> QED
  BY <1>2, <1>3, <1>5, <1>6, <1>7, PartsAfter

LEMMA TickInv ==
    ASSUME AuditInv, Tick, UNCHANGED <<chain_vars, work, check, anchor_vars>>
    PROVE  AuditInv'
<1>0. LocksInv /\ ChainInv /\ WorkInv /\ CheckInv /\ AnchorInv
  BY Parts
<1>1. LocksInv'
  BY <1>0, TickKeepsLocks
<1>2. ChainInv' /\ Grown
  BY <1>0, SameChain
<1>3. \A q \in Callers : phase'[q] = "out" <=> phase[q] = "out"
  BY DEF Tick
<1>4. WorkInv'
  BY <1>0, <1>2, <1>3, OtherWork DEF Tick
<1>5. CheckInv' /\ AnchorInv'
  BY <1>0, <1>2, OtherCheck, OtherAnchor
<1> QED
  BY <1>1, <1>2, <1>4, <1>5, PartsAfter

LEMMA NextInv == AuditInv /\ [Next]_vars => AuditInv'
<1> SUFFICES ASSUME AuditInv, [Next]_vars PROVE AuditInv'
  OBVIOUS
<1>1. ASSUME NEW p \in Callers, Appending(p) PROVE AuditInv'
  BY <1>1, AppendingInv
<1>2. ASSUME NEW v \in Verifiers, Verifying(v) PROVE AuditInv'
  BY <1>2, VerifyingInv
<1>3. ASSUME NEW w \in Publishers, Publishing(w) PROVE AuditInv'
  BY <1>3, PublishingInv
<1>4. CASE Tick /\ UNCHANGED <<chain_vars, work, check, anchor_vars>>
  BY <1>4, TickInv
<1>5. CASE UNCHANGED vars
  <2>0. LocksInv /\ ChainInv /\ WorkInv /\ CheckInv /\ AnchorInv
    BY Parts
  <2>1. UNCHANGED <<lock_vars, chain_vars, work, check, anchor_vars>>
    BY <1>5 DEF vars, chain_vars, anchor_vars
  <2>2. ChainInv' /\ CheckInv' /\ AnchorInv' /\ LocksInv' /\ Grown
    BY <2>0, <2>1, LocksAside, SameLocks, SameChain
  <2>3. WorkInv'
    BY <2>0, <2>1, <2>2, OtherWork DEF lock_vars
  <2> QED
    BY <2>2, <2>3, PartsAfter
<1> QED
  BY <1>1, <1>2, <1>3, <1>4, <1>5 DEF Next

\* The invariant of the audit chain, its locks, its verifier and its anchors
\* holds in every state, whatever the numbers of requests, types and rows are.
THEOREM AuditInductive == Spec => []AuditInv
<1>1. Init => AuditInv
  BY InitInv
<1>2. AuditInv /\ [Next]_vars => AuditInv'
  BY NextInv
<1> QED
  BY <1>1, <1>2, PTL DEF Spec

-----------------------------------------------------------------------------
(* What follows from it.                                                    *)

\* Two requests are at work under one key only if somebody's work under it
\* went on past the date of its lease: stealing, inserting and the release by
\* holder id let nobody in before.
THEOREM ExclusiveHolds == Spec => []Exclusive
<1>1. AuditInv => Exclusive
  BY Parts, LocksExclude
<1> QED
  BY <1>1, AuditInductive, PTL

\* No entity type's chain forks, although appends that overlap read one head:
\* the unique sequence number refuses the second.
THEOREM UnforkedHolds == Spec => []Unforked
<1>1. AuditInv => Unforked
  <2> SUFFICES ASSUME AuditInv, NEW r \in rows, NEW s \in rows, r.type = s.type,
                      r.seq = s.seq \/ r.prev = s.prev
               PROVE  r = s
    BY DEF Unforked
  <2>0. ChainInv
    BY Parts
  <2>1. ASSUME r.prev = s.prev PROVE r.seq = s.seq
    <3>1. \A q \in rows : Len(q.prev) = q.seq - 1
      <4> SUFFICES ASSUME NEW q \in rows PROVE Len(q.prev) = q.seq - 1
        OBVIOUS
      <4>1. q.seq \in Nat \ {0} /\ q.type \in Types
        BY <2>0, RowShape
      <4>2. state[q.type].hash \in Seq(Entries) /\ Len(state[q.type].hash) = state[q.type].seq
        BY <2>0, <4>1, HeadOf
      <4>3. q.seq - 1 <= state[q.type].seq /\ q.prev = SubSeq(state[q.type].hash, 1, q.seq - 1)
        BY <2>0 DEF ChainInv, RowOK, Past
      <4> QED
        BY <4>1, <4>2, <4>3, PrefixType
    <3>2. r.seq \in Nat /\ s.seq \in Nat
      BY <2>0, RowShape
    <3> QED
      BY <2>1, <3>1, <3>2
  <2> QED
    BY <2>0, <2>1 DEF ChainInv
<1> QED
  BY <1>1, AuditInductive, PTL

\* The head that the next append builds on is the last row of a chain without
\* gaps, although it is written two awaits after it was read.
THEOREM HeadIsLastHolds == Spec => []HeadIsLast
<1>1. AuditInv => HeadIsLast
  <2> SUFFICES ASSUME AuditInv, NEW t \in Types
               PROVE  LET chain == {r \in rows : r.type = t} IN
                      /\ {r.seq : r \in chain} = 1..state[t].seq
                      /\ \A r \in chain : r.seq = state[t].seq => r.hash = state[t].hash
    BY DEF HeadIsLast
  <2>0. ChainInv
    BY Parts
  <2>1. state[t].hash \in Seq(Entries) /\ state[t].seq \in Nat
        /\ SubSeq(state[t].hash, 1, state[t].seq) = state[t].hash
    BY <2>0, HeadOf, PrefixEnds
  <2>2. \A r \in rows : r.type = t =>
           r.seq \in 1..state[t].seq /\ r.hash = SubSeq(state[t].hash, 1, r.seq)
    BY <2>0, <2>1, RowShape
  <2>3. \A n \in 1..state[t].seq : \E r \in rows : r.type = t /\ r.seq = n
    BY <2>0 DEF ChainInv, ChainOK
  <2> QED
    BY <2>1, <2>2, <2>3
<1> QED
  BY <1>1, AuditInductive, PTL

\* A verification that pages through a chain while it grows reports a
\* divergence only to a caller that started it beyond the end.
THEOREM NoFalseAlarmHolds == Spec => []NoFalseAlarm
<1>1. AuditInv => NoFalseAlarm
  BY DEF AuditInv, CheckOK, NoFalseAlarm
<1> QED
  BY <1>1, AuditInductive, PTL

\* Every head in the ledger and on R2, whichever of two racing publications put
\* it there, is the hash of its row, and the ledger names no hour without an
\* object.
THEOREM AnchorsGenuineHolds == Spec => []AnchorsGenuine
<1>1. AuditInv => AnchorsGenuine
  <2> SUFFICES ASSUME AuditInv, NEW h \in Hours,
                      NEW s \in objects[h] \cup anchors[h], NEW t \in Types
               PROVE  \/ s.heads[t] = NoHead
                      \/ \E r \in rows : /\ r.type = t /\ r.seq = s.heads[t].seq
                                         /\ r.hash = s.heads[t].hash
    BY DEF AnchorsGenuine, AuditInv
  <2>0. ChainInv /\ AnchorInv
    BY Parts
  <2>1. s.heads[t] \in HeadRead /\ Past(t, s.heads[t])
    BY <2>0 DEF AnchorInv, SnapOK, Snapshot
  <2>2. PICK d \in HeadRead : d = s.heads[t]
    BY <2>1
  <2>3. d.hash \in Seq(Entries) /\ d.seq \in Nat /\ d = [hash |-> d.hash, seq |-> d.seq]
    BY DEF HeadRead
  <2>4. state[t].hash \in Seq(Entries) /\ d.seq <= state[t].seq
        /\ d.hash = SubSeq(state[t].hash, 1, d.seq)
    BY <2>0, <2>1, <2>2, HeadOf DEF Past
  <2>5. CASE d.seq = 0
    BY <2>2, <2>3, <2>4, <2>5, PrefixEnds DEF NoHead, ZeroHash
  <2>6. CASE d.seq # 0
    <3>1. d.seq \in 1..state[t].seq
      BY <2>0, <2>3, <2>4, <2>6, HeadOf
    <3>2. PICK r \in rows : r.type = t /\ r.seq = d.seq
      BY <2>0, <3>1 DEF ChainInv, ChainOK
    <3>3. r.hash = SubSeq(state[t].hash, 1, d.seq)
      BY <2>0, <3>2, RowShape
    <3>4. r.hash = d.hash
      BY <2>4, <3>3
    <3> QED
      BY <2>2, <3>2, <3>4
  <2> QED
    BY <2>5, <2>6
<1> QED
  BY <1>1, AuditInductive, PTL

\* The rows, heads and verification marks implement append-only chains: one
\* entry at a time is added, none is lost, and no mark lies beyond the end.
THEOREM AuditRefinement == Spec => ImplementsChain
<1> DEFINE hashes == [t \in Types |-> state[t].hash]
           marks == [t \in Types |-> state[t].verified]
<1>1. Init => Chain!Init
  BY DEF Init, Chain!Init, ZeroHash
<1>2. AuditInv /\ [Next]_vars => [Chain!Next]_(Chain!vars)
  <2> SUFFICES ASSUME AuditInv, [Next]_vars PROVE [Chain!Next]_(Chain!vars)
    OBVIOUS
  <2>0. ChainInv /\ WorkInv /\ LocksInv /\ CheckInv
    BY Parts
  <2>1. CASE UNCHANGED state
    BY <2>1 DEF Chain!vars
  <2>2. ASSUME NEW p \in Callers, AppendRow(p) PROVE [Chain!Next]_(Chain!vars)
    <3>1. CASE UNCHANGED chain_vars
      BY <2>1, <3>1 DEF chain_vars
    <3>2. CASE Advance(NextRow(p)) /\ ~Taken(NextRow(p))
      <4>1. PICK t \in Types, e \in Entries :
                /\ \A u \in Types : state'[u].verified = state[u].verified
                /\ state'[t].hash = Append(state[t].hash, e)
                /\ \A u \in Types : u # t => state'[u].hash = state[u].hash
        BY <2>0, <2>2, <3>2, Appended
      <4>2. hashes' = [hashes EXCEPT ![t] = Append(@, e)] /\ marks' = marks
        BY <4>1
      <4> QED
        BY <4>2 DEF Chain!Next, Chain!Extend
    <3> QED
      BY <2>2, <3>1, <3>2 DEF AppendRow
  <2>3. ASSUME NEW v \in Verifiers, Persist(v) PROVE [Chain!Next]_(Chain!vars)
    <3>1. PICK c \in Check : c = check[v] /\ CheckOK(c) /\ c.at = "persist"
      BY <2>0, <2>3 DEF CheckInv, Persist
    <3>2. c.type \in Types /\ c.last \in Nat \ {0} /\ c.last <= state[c.type].seq
      BY <3>1 DEF CheckOK, Check
    <3>3. Len(state[c.type].hash) = state[c.type].seq
      BY <2>0, <3>2, HeadOf
    <3>4. state' = [state EXCEPT ![c.type].verified = c.last]
      BY <2>3, <3>1 DEF Persist
    <3>5. /\ \A u \in Types : state'[u].hash = state[u].hash
          /\ \A u \in Types : u # c.type => state'[u].verified = state[u].verified
          /\ state'[c.type].verified = c.last
      BY <2>0, <3>2, <3>4 DEF ChainInv
    <3>6. hashes' = hashes /\ marks' = [marks EXCEPT ![c.type] = c.last]
      BY <3>5
    <3>7. c.last \in 1..Len(hashes[c.type])
      BY <2>0, <3>2, <3>3, HeadOf
    <3> QED
      BY <3>2, <3>6, <3>7 DEF Chain!Next, Chain!Verify
  <2> QED
    BY <2>1, <2>2, <2>3 DEF Next, Appending, Ask, Lock, ReadHead, Verifying, StartVerify,
       ReadSeed, ReadPage, Report, Publishing, CheckPrior, ReadHeads, PutObject, RecordAnchor,
       StopPublish, Others, Apart, chain_vars, vars
<1> QED
  BY <1>1, <1>2, AuditInductive, PTL DEF Spec, ImplementsChain, Chain!Spec
=============================================================================
