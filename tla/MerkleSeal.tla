----------------------------- MODULE MerkleSeal -----------------------------
(***************************************************************************)
(* The merkle seal, the regulator export and the external verifier on top   *)
(* of the event log.  A seal is three reads and an append; an export reads  *)
(* the events, in chunks of chains, and then the roots; commits and other   *)
(* seals go on in between.  Each action is one awaited D1 call.             *)
(***************************************************************************)
EXTENDS Naturals, Sequences, FiniteSets

CONSTANTS
    Txns, Chains,
    MembersOf,     \* the participants that are party to each txn
    Participants,
    Sealers,       \* the nightly job, manual POST /seal
    Exporters,     \* GET /export
    Queries,       \* export queries
    BindChunk,     \* chains per statement (D1_BIND_CHUNK)
    MaxEvents,     \* bound: events in the log
    MaxTime,       \* bound: the clock
    MaxCrashes     \* bound: isolates that end during a seal

\* An undefined q.from is the time 0, an undefined q.to the time MaxTime; no
\* participants stand for no filter.
Query == [chains : SUBSET Chains \ {{}}, from : 0..MaxTime, to : 0..MaxTime,
          participants : SUBSET Participants]

ASSUME LogAssumption ==
    MembersOf \in [Txns -> SUBSET Participants]
ASSUME QueriesAssumption == Queries \subseteq Query
ASSUME SealBoundsAssumption ==
    /\ BindChunk \in Nat \ {0}
    /\ MaxEvents \in Nat
    /\ MaxTime \in Nat
    /\ MaxCrashes \in Nat
ASSUME JobsAssumption == Sealers \cap Exporters = {}

VARIABLES
    log,      \* v2_events by global_seq
    heads,    \* seq of each v2_txns row
    roots,    \* v2_merkle_roots in the order of insertion
    now,      \* the clock
    pc,       \* the next D1 call of each job
    seal,     \* window a sealer works on: from (exclusive), to, root
    query,    \* query an exporter works on
    left,     \* its chains that are still to be read
    pack,     \* what it has read
    crashes

store == <<log, heads, roots, now>>
export_vars == <<query, left, pack>>
vars == <<log, heads, roots, now, pc, seal, query, left, pack, crashes>>

Jobs == Sealers \cup Exporters

HashOf(e) == <<e.txn, e.seq>>
Genesis(c) == <<c, 0>>

Pair(a, b) == <<a, b>>

\* Hashes are folded pairwise, level by level; an odd last one is promoted.
MerkleRoot(leaves) ==
    LET Level[k \in Nat] ==
          IF k = 0 THEN leaves
          ELSE LET below == Level[k - 1] IN
               [i \in 1..((Len(below) + 1) \div 2) |->
                  IF 2 * i <= Len(below) THEN Pair(below[2 * i - 1], below[2 * i])
                  ELSE below[2 * i - 1]]
    IN IF Len(leaves) = 0 THEN <<>> ELSE Level[Len(leaves)][1]

NoSeal == [from |-> 0, to |-> 0, root |-> <<>>]
NoQuery == [chains |-> {}, from |-> 0, to |-> 0, participants |-> {}]
NoPack == [events |-> {}, roots |-> <<>>]

Init ==
    /\ log = <<>> /\ heads = [t \in Txns |-> 0] /\ roots = <<>> /\ now = 0
    /\ pc = [p \in Jobs |-> "idle"]
    /\ seal = [p \in Sealers |-> NoSeal]
    /\ query = [x \in Exporters |-> NoQuery]
    /\ left = [x \in Exporters |-> {}]
    /\ pack = [x \in Exporters |-> NoPack]
    /\ crashes = 0

-----------------------------------------------------------------------------
(* The log, as the engine writes it: a commit extends one txn by one event  *)
(* whose time was read before other txns' events landed.  The event bears   *)
(* the chain that its command names: for an act, any chain.                 *)

Land(t) ==
    /\ Len(log) < MaxEvents
    /\ \E at \in 0..now, c \in Chains :
          /\ \A i \in DOMAIN log : log[i].txn = t => log[i].at <= at
          /\ log' = Append(log, [txn |-> t, chain |-> c, seq |-> heads[t] + 1, at |-> at,
                                 prev |-> IF heads[t] = 0 THEN Genesis(c) ELSE <<t, heads[t]>>,
                                 gseq |-> Len(log) + 1])
    /\ heads' = [heads EXCEPT ![t] = @ + 1]
    /\ UNCHANGED <<roots, now, pc, seal, export_vars, crashes>>

Tick ==
    /\ now < MaxTime
    /\ now' = now + 1
    /\ UNCHANGED <<log, heads, roots, pc, seal, export_vars, crashes>>

-----------------------------------------------------------------------------
(* The seal.                                                                *)

Goto(p, label) == pc' = [pc EXCEPT ![p] = label]

\* The call returns and its locals go.
Done(p) == Goto(p, "idle") /\ seal' = [seal EXCEPT ![p] = NoSeal]

Ends == {0} \cup {roots[i].to : i \in DOMAIN roots}

\* Mutant: the last sealed event counts as the first pending one.
ReadSealedNext(p) ==
    /\ pc[p] = "idle"
    /\ \E m \in Ends :
          /\ \A n \in Ends : n <= m
          /\ seal' = [seal EXCEPT ![p] = [NoSeal EXCEPT !.from = m + 1]]
    /\ Goto(p, "count")
    /\ UNCHANGED <<store, export_vars, crashes>>

\* SELECT MAX(to_global_seq)
ReadSealed(p) ==
    /\ pc[p] = "idle"
    /\ \E m \in Ends :
          /\ \A n \in Ends : n <= m
          /\ seal' = [seal EXCEPT ![p] = [NoSeal EXCEPT !.from = m]]
    /\ Goto(p, "count")
    /\ UNCHANGED <<store, export_vars, crashes>>

\* Mutant: a single pending event is taken for an empty window.
ReadCountTwo(p) ==
    /\ pc[p] = "count"
    /\ IF Len(log) <= seal[p].from + 1
       THEN Done(p)
       ELSE /\ Goto(p, "window")
            /\ seal' = [seal EXCEPT ![p].to = Len(log)]
    /\ UNCHANGED <<store, export_vars, crashes>>

\* SELECT COUNT(*): an empty window is not sealed.
ReadCount(p) ==
    /\ pc[p] = "count"
    /\ IF Len(log) <= seal[p].from
       THEN Done(p)
       ELSE /\ Goto(p, "window")
            /\ seal' = [seal EXCEPT ![p].to = Len(log)]
    /\ UNCHANGED <<store, export_vars, crashes>>

\* The hashes of the events in (from, to].
Leaves(from, to) == [k \in 1..(to - from) |-> HashOf(log[from + k])]

\* Mutant: the SELECT has no upper bound.
ReadToEnd(p) ==
    /\ pc[p] = "window"
    /\ seal' = [seal EXCEPT ![p].root = MerkleRoot(Leaves(seal[p].from, Len(log)))]
    /\ Goto(p, "append")
    /\ UNCHANGED <<store, export_vars, crashes>>

\* SELECT ... WHERE global_seq > from AND global_seq <= to, and the fold.
ReadWindow(p) ==
    /\ pc[p] = "window"
    /\ seal' = [seal EXCEPT ![p].root = MerkleRoot(Leaves(seal[p].from, seal[p].to))]
    /\ Goto(p, "append")
    /\ UNCHANGED <<store, export_vars, crashes>>

\* Mutant: the row says the log is sealed to its end.
AppendToEnd(p) ==
    /\ pc[p] = "append"
    /\ roots' = Append(roots, [from |-> seal[p].from + 1, to |-> Len(log),
                               root |-> seal[p].root])
    /\ Done(p)
    /\ UNCHANGED <<log, heads, now, export_vars, crashes>>

AppendRoot(p) ==
    /\ pc[p] = "append"
    /\ roots' = Append(roots, [from |-> seal[p].from + 1, to |-> seal[p].to,
                               root |-> seal[p].root])
    /\ Done(p)
    /\ UNCHANGED <<log, heads, now, export_vars, crashes>>

\* The isolate of a seal ends.
Crash(p) ==
    /\ pc[p] # "idle" /\ crashes < MaxCrashes
    /\ crashes' = crashes + 1
    /\ Done(p)
    /\ UNCHANGED <<store, export_vars>>

-----------------------------------------------------------------------------
(* The export.                                                              *)

StartExport(x) ==
    /\ pc[x] = "idle"
    /\ \E q \in Queries :
          /\ query' = [query EXCEPT ![x] = q]
          /\ left' = [left EXCEPT ![x] = q.chains]
    /\ Goto(x, "events")
    /\ UNCHANGED <<store, seal, pack, crashes>>

\* The chains of one statement.
Chunks(chains) ==
    IF Cardinality(chains) <= BindChunk THEN {chains}
    ELSE {c \in SUBSET chains : Cardinality(c) = BindChunk}

Selected(q, e) ==
    /\ q.from <= e.at /\ e.at <= q.to
    /\ q.participants = {} \/ MembersOf[e.txn] \cap q.participants # {}

Read(q, chunk) == {log[i] : i \in {i \in DOMAIN log : log[i].chain \in chunk /\ Selected(q, log[i])}}

ReadEvents(x) ==
    /\ pc[x] = "events"
    /\ \E chunk \in Chunks(left[x]) :
          /\ pack' = [pack EXCEPT ![x].events = @ \cup Read(query[x], chunk)]
          /\ left' = [left EXCEPT ![x] = @ \ chunk]
          /\ Goto(x, IF left[x] = chunk THEN "roots" ELSE "events")
    /\ UNCHANGED <<store, seal, query, crashes>>

\* All roots, whatever the query.
ReadRoots(x) ==
    /\ pc[x] = "roots"
    /\ pack' = [pack EXCEPT ![x].roots = roots]
    /\ Goto(x, "exported")
    /\ UNCHANGED <<store, seal, query, left, crashes>>

Receive(x) ==
    /\ pc[x] = "exported"
    /\ Goto(x, "idle")
    /\ query' = [query EXCEPT ![x] = NoQuery]
    /\ pack' = [pack EXCEPT ![x] = NoPack]
    /\ UNCHANGED <<store, seal, left, crashes>>

-----------------------------------------------------------------------------
(* The verifier: what a third party checks on a pack.                       *)

\* The events of each txn are numbered 1, 2, 3, ...
Gapless(es) ==
    \A e \in es : e.seq = 1 \/ \E d \in es : d.txn = e.txn /\ d.seq = e.seq - 1

\* The first of a txn links to its chain's genesis, any other to the one
\* before it in the pack.
Linked(es) ==
    \A e \in es :
        LET earlier == {d \in es : d.txn = e.txn /\ d.seq < e.seq} IN
        IF earlier = {} THEN e.prev = Genesis(e.chain)
        ELSE \E d \in earlier : /\ \A b \in earlier : b.seq <= d.seq
                                /\ e.prev = HashOf(d)

At(es, g) == CHOOSE e \in es : e.gseq = g

Complete(es, r) == \A g \in (r.from)..(r.to) : \E e \in es : e.gseq = g

Recomputes(es, r) ==
    Complete(es, r) =>
        r.root = MerkleRoot([k \in 1..(r.to - r.from + 1) |-> HashOf(At(es, r.from + k - 1))])

RootsMatch(pk) == \A i \in DOMAIN pk.roots : Recomputes(pk.events, pk.roots[i])

Verifies(pk) ==
    /\ Gapless(pk.events)
    /\ Linked(pk.events)
    /\ RootsMatch(pk)

-----------------------------------------------------------------------------
Sealing(p) == ReadSealed(p) \/ ReadCount(p) \/ ReadWindow(p) \/ AppendRoot(p)
Exporting(x) == StartExport(x) \/ ReadEvents(x) \/ ReadRoots(x) \/ Receive(x)

Next ==
    \/ \E t \in Txns : Land(t)
    \/ Tick
    \/ \E p \in Sealers : Sealing(p) \/ Crash(p)
    \/ \E x \in Exporters : Exporting(x)

Spec == Init /\ [][Next]_vars

\* The nightly job comes back every night and its D1 calls return.
FairSpec == Spec /\ \A p \in Sealers : WF_vars(Sealing(p))

-----------------------------------------------------------------------------
(* Properties.                                                              *)

Hash == (Txns \cup Chains) \X Nat
Event == [txn : Txns, chain : Chains, seq : Nat \ {0}, at : 0..MaxTime, prev : Hash, gseq : Nat \ {0}]

\* Rows and the values jobs carry between calls have their types.
SealTypeOK ==
    /\ log \in Seq(Event) /\ heads \in [Txns -> Nat]
    /\ \A i \in DOMAIN roots : roots[i].from \in Nat \ {0} /\ roots[i].to \in Nat
    /\ now \in 0..MaxTime /\ crashes \in 0..MaxCrashes
    /\ pc \in [Jobs -> {"idle", "count", "window", "append", "events", "roots", "exported"}]
    /\ \A p \in Sealers : seal[p].from \in Nat /\ seal[p].to \in Nat
    /\ query \in [Exporters -> Queries \cup {NoQuery}]
    /\ left \in [Exporters -> SUBSET Chains]
    /\ \A x \in Exporters : pack[x].events \subseteq Event

\* Every sealed root is the fold of the events its row names, although the
\* count, the events and the row are separate calls and commits go on.
RootsRecompute ==
    \A i \in DOMAIN roots :
        /\ roots[i].from <= roots[i].to /\ roots[i].to <= Len(log)
        /\ roots[i].root = MerkleRoot(Leaves(roots[i].from - 1, roots[i].to))

\* "NO gap": up to the end of any window every event is in some window,
\* whichever seals overlap or end half-way.
NothingSkipped ==
    \A i \in DOMAIN roots : \A g \in 1..roots[i].to :
        \E j \in DOMAIN roots : roots[j].from <= g /\ g <= roots[j].to

\* The query reads e and all that precedes it in its txn in one statement: the
\* txn kept to one chain, or all chains it went through are asked for at once.
Uncut(q, e) ==
    LET before == {i \in DOMAIN log : log[i].txn = e.txn /\ log[i].seq < e.seq} IN
    \/ \A i \in before : log[i].chain = e.chain
    \/ Cardinality(q.chains) <= BindChunk /\ \A i \in before : log[i].chain \in q.chains

\* Whatever was committed and sealed between the reads of a pack, its roots
\* match its events; and it verifies if its query has no lower time bound and
\* its events are uncut.
HonestPackVerifies ==
    \A x \in Exporters : pc[x] = "exported" =>
        /\ RootsMatch(pack[x])
        /\ (query[x].from = 0 /\ \A e \in pack[x].events : Uncut(query[x], e)) => Verifies(pack[x])

\* Every event is sealed in the end.
EventsSealed ==
    \A g \in 1..MaxEvents :
        (g <= Len(log)) ~> (\E i \in DOMAIN roots : roots[i].from <= g /\ g <= roots[i].to)

-----------------------------------------------------------------------------
(* The inductive invariant.                                                 *)

\* Each txn's events are numbered without gaps, linked, and in time order.
LogOK ==
    /\ \A i \in DOMAIN log :
          /\ log[i].gseq = i
          /\ log[i].seq <= heads[log[i].txn]
          /\ log[i].prev = IF log[i].seq = 1 THEN Genesis(log[i].chain)
                           ELSE <<log[i].txn, log[i].seq - 1>>
    /\ \A i, j \in DOMAIN log :
          (log[i].txn = log[j].txn /\ i < j) => log[i].seq < log[j].seq /\ log[i].at <= log[j].at
    /\ \A t \in Txns : \A s \in 1..heads[t] :
          \E i \in DOMAIN log : log[i].txn = t /\ log[i].seq = s

\* r is the root of a window of the log.
RootOK(r) ==
    /\ r.from \in 1..r.to /\ r.to <= Len(log)
    /\ r.root = MerkleRoot(Leaves(r.from - 1, r.to))

\* A seal starts where some window ended, and seals what is in the log.
SealOK(p) ==
    /\ pc[p] \in {"idle", "count", "window", "append"}
    /\ pc[p] # "idle" => seal[p].from \in Ends
    /\ pc[p] \in {"window", "append"} => seal[p].from < seal[p].to /\ seal[p].to <= Len(log)
    /\ pc[p] = "append" => seal[p].root = MerkleRoot(Leaves(seal[p].from, seal[p].to))

\* With an uncut event, the events es read for q hold all earlier ones of its
\* txn, unless a lower time bound drops them.
WithEarlier(q, es) ==
    q.from = 0 =>
        \A i, j \in DOMAIN log :
            (log[i].txn = log[j].txn /\ i < j /\ log[j] \in es /\ Uncut(q, log[j])) => log[i] \in es

\* A pack holds events and roots of the log; a query of few chains is read in
\* one statement.
PackOK(x) ==
    /\ pc[x] \in {"idle", "events", "roots", "exported"}
    /\ pc[x] = "idle" => pack[x].events = {}
    /\ (pc[x] = "events" /\ Cardinality(query[x].chains) <= BindChunk) => left[x] = query[x].chains
    /\ \A e \in pack[x].events : \E i \in DOMAIN log : log[i] = e
    /\ WithEarlier(query[x], pack[x].events)
    /\ \A i \in DOMAIN pack[x].roots : RootOK(pack[x].roots[i])

\* What each job may rely on between two of its calls, however the log and
\* the roots grow.
SealInv ==
    /\ SealTypeOK
    /\ LogOK
    /\ \A i \in DOMAIN roots : RootOK(roots[i])
    /\ NothingSkipped
    /\ \A p \in Sealers : SealOK(p)
    /\ \A x \in Exporters : PackOK(x)
=============================================================================
