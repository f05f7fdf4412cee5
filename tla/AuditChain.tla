------------------------------ MODULE AuditChain ------------------------------
(***************************************************************************)
(* utils/audit-chain.ts: one hash chain per entity type, appended to under  *)
(* an advisory lock, walked by the verifier, its heads published once an    *)
(* hour.  Each action is one awaited call; all of them interleave.          *)
(***************************************************************************)
EXTENDS AdvisoryLocks, Sequences, FiniteSets

CONSTANTS
    Types,       \* entity types; each has a lock of its own
    Entries,     \* what an envelope says: entity, event, actor, payload
    Asks,        \* the appends that requests ask for
    Verifiers, Publishers,
    Page,        \* rows per SELECT of verifyChain (PAGE)
    MaxScan,     \* rows after which it stops (MAX)
    HourLength,  \* units of the clock in an hour
    MaxRows      \* bound: no append is asked for on a longer chain

ASSUME AuditAssumption ==
    /\ LockKeys = Types
    /\ Asks \subseteq [type : Types, holder : Holders, entry : Entries]
    /\ Page \in Nat \ {0} /\ MaxScan \in Nat \ {0} /\ HourLength \in Nat \ {0}
    /\ MaxRows \in Nat

VARIABLES
    rows,      \* audit_events
    state,     \* audit_chain_state by entity type
    work,      \* of each request: its entry, and the head it read
    check,     \* the verifyChain runs
    publish,   \* the publishChainHeadToR2 runs
    objects,   \* R2 by hour: at most one snapshot
    anchors    \* audit_chain_anchors by hour: at most one

chain_vars == <<rows, state>>
anchor_vars == <<publish, objects, anchors>>
vars == <<lock_vars, rows, state, work, check, publish, objects, anchors>>

\* A hash stands for what it was computed from: SHA-256 of prev and envelope is
\* the history that ends with the entry.
ZeroHash == <<>>
HashOf(prev, entry) == Append(prev, entry)

NoHead == [hash |-> ZeroHash, seq |-> 0]
Hours == 0..(MaxTime \div HourLength)

Init ==
    /\ LocksInit
    /\ rows = {}
    /\ state = [t \in Types |-> [hash |-> ZeroHash, seq |-> 0, verified |-> 0]]
    /\ work = [p \in Callers |-> None]
    /\ check = [v \in Verifiers |-> None]
    /\ publish = [w \in Publishers |-> None]
    /\ objects = [h \in Hours |-> {}]
    /\ anchors = [h \in Hours |-> {}]

-----------------------------------------------------------------------------
(* appendAudit                                                              *)

Ask(p) ==
    /\ \E a \in Asks :
          /\ state[a.type].seq < MaxRows
          /\ Call(p, a.type, a.holder)
          /\ work' = [work EXCEPT ![p] = [entry |-> a.entry, head |-> None]]
    /\ UNCHANGED <<chain_vars, check, anchor_vars>>

\* The lock around the append; a call that ends forgets its locals.
Lock(p) ==
    /\ Insert(p) \/ Steal(p) \/ Release(p) \/ Abandon(p)
    /\ work' = IF phase'[p] = "out" THEN [work EXCEPT ![p] = None] ELSE work
    /\ UNCHANGED <<chain_vars, check, anchor_vars>>

\* SELECT head_hash, head_sequence; no row counts as the zero hash and 0.
ReadHead(p) ==
    /\ phase[p] = "inside" /\ work[p].head = None
    /\ LET s == state[lease[p].key] IN
       work' = [work EXCEPT ![p].head = [hash |-> s.hash, seq |-> s.seq]]
    /\ UNCHANGED <<lock_vars, chain_vars, check, anchor_vars>>

NextRow(p) ==
    [type |-> lease[p].key, seq |-> work[p].head.seq + 1, prev |-> work[p].head.hash,
     entry |-> work[p].entry, hash |-> HashOf(work[p].head.hash, work[p].entry)]

\* UNIQUE (entity_type, sequence_no)
Taken(r) == \E q \in rows : q.type = r.type /\ q.seq = r.seq

Advance(r) == state' = [state EXCEPT ![r.type].hash = r.hash, ![r.type].seq = r.seq]

\* Mutants: the INSERT ignores a taken number, and the head is moved all the
\* same; there is no such index.
AppendIgnoring(p) ==
    /\ phase[p] = "inside" /\ work[p].head # None
    /\ rows' = IF Taken(NextRow(p)) THEN rows ELSE rows \cup {NextRow(p)}
    /\ Advance(NextRow(p))
    /\ Go(p, "release")
    /\ UNCHANGED <<clock, locks, lease, overrun, work, check, anchor_vars>>
AppendAnyway(p) ==
    /\ phase[p] = "inside" /\ work[p].head # None
    /\ rows' = rows \cup {NextRow(p)}
    /\ Advance(NextRow(p))
    /\ Go(p, "release")
    /\ UNCHANGED <<clock, locks, lease, overrun, work, check, anchor_vars>>

\* The batch of the INSERT and the UPSERT; a taken number rolls both back.
AppendRow(p) ==
    /\ phase[p] = "inside" /\ work[p].head # None
    /\ IF Taken(NextRow(p))
       THEN UNCHANGED chain_vars
       ELSE rows' = rows \cup {NextRow(p)} /\ Advance(NextRow(p))
    /\ Go(p, "release")
    /\ UNCHANGED <<clock, locks, lease, overrun, work, check, anchor_vars>>

-----------------------------------------------------------------------------
(* verifyChain                                                              *)

Scan(v, c) == check' = [check EXCEPT ![v] = c]
Others == <<lock_vars, work, anchor_vars>>

StartVerify(v) ==
    /\ check[v] = None
    /\ \E t \in Types, from \in 1..(MaxRows + 2) :
          Scan(v, [at |-> IF from > 1 THEN "seed" ELSE "page", type |-> t, from |-> from,
                   prev |-> ZeroHash, cursor |-> from, last |-> 0, scanned |-> 0])
    /\ UNCHANGED <<chain_vars, Others>>

\* SELECT content_hash of the row before the first one asked for.
ReadSeed(v) ==
    /\ check[v] # None /\ check[v].at = "seed"
    /\ LET seeds == {r \in rows : r.type = check[v].type /\ r.seq = check[v].from - 1} IN
       IF seeds = {} THEN Scan(v, [check[v] EXCEPT !.at = "page"])
       ELSE \E r \in seeds : Scan(v, [check[v] EXCEPT !.at = "page", !.prev = r.hash])
    /\ UNCHANGED <<chain_vars, Others>>

\* ORDER BY sequence_no LIMIT ?
PageOf(c) ==
    {r \in rows : /\ r.type = c.type /\ r.seq >= c.cursor
                  /\ Cardinality({q \in rows : /\ q.type = c.type
                                               /\ q.seq \in (c.cursor)..(r.seq - 1)}) < Page}

\* The hash the row before r in the page has, or the one carried over.
PrevIn(page, prev, r) ==
    LET before == {q \in page : q.seq < r.seq} IN
    IF before = {} THEN prev
    ELSE (CHOOSE q \in before : \A b \in before : b.seq <= q.seq).hash

Intact(page, prev) ==
    \A r \in page : /\ r.prev = PrevIn(page, prev, r)
                    /\ r.hash = HashOf(PrevIn(page, prev, r), r.entry)

\* Mutant: each page starts from the zero hash again.
ReadPageAfresh(v) ==
    /\ check[v] # None /\ check[v].at = "page"
    /\ LET c == check[v]  page == PageOf(c) IN
       IF page = {} THEN Scan(v, IF c.scanned > 0 THEN [c EXCEPT !.at = "persist"] ELSE None)
       ELSE IF ~Intact(page, c.prev) THEN Scan(v, [c EXCEPT !.at = "diverged"])
       ELSE \E last \in page :
              /\ \A r \in page : r.seq <= last.seq
              /\ Scan(v, [c EXCEPT !.last = last.seq, !.cursor = last.seq + 1,
                            !.scanned = @ + Cardinality(page),
                            !.at = IF Cardinality(page) < Page
                                      \/ c.scanned + Cardinality(page) >= MaxScan
                                   THEN "persist" ELSE "page"])
    /\ UNCHANGED <<chain_vars, Others>>

\* One turn of the loop: a page is read and walked; a row that does not link or
\* recompute ends the run, a short page or the limit ends the loop.
ReadPage(v) ==
    /\ check[v] # None /\ check[v].at = "page"
    /\ LET c == check[v]  page == PageOf(c) IN
       IF page = {} THEN Scan(v, IF c.scanned > 0 THEN [c EXCEPT !.at = "persist"] ELSE None)
       ELSE IF ~Intact(page, c.prev) THEN Scan(v, [c EXCEPT !.at = "diverged"])
       ELSE \E last \in page :
              /\ \A r \in page : r.seq <= last.seq
              /\ Scan(v, [c EXCEPT !.prev = last.hash, !.last = last.seq, !.cursor = last.seq + 1,
                            !.scanned = @ + Cardinality(page),
                            !.at = IF Cardinality(page) < Page
                                      \/ c.scanned + Cardinality(page) >= MaxScan
                                   THEN "persist" ELSE "page"])
    /\ UNCHANGED <<chain_vars, Others>>

\* UPDATE ... SET last_verified_seq
Persist(v) ==
    /\ check[v] # None /\ check[v].at = "persist"
    /\ state' = [state EXCEPT ![check[v].type].verified = check[v].last]
    /\ Scan(v, None)
    /\ UNCHANGED <<rows, Others>>

Report(v) ==
    /\ check[v] # None /\ check[v].at = "diverged"
    /\ Scan(v, None)
    /\ UNCHANGED <<chain_vars, Others>>

-----------------------------------------------------------------------------
(* publishChainHeadToR2                                                     *)

Publish(w, step) == publish' = [publish EXCEPT ![w] = step]
Apart == <<lock_vars, chain_vars, work, check>>

\* SELECT of the hour's anchor: one that is there ends the run.
CheckPrior(w) ==
    /\ publish[w] = None
    /\ anchors[clock \div HourLength] = {}
    /\ Publish(w, [at |-> "heads", hour |-> clock \div HourLength, snap |-> None])
    /\ UNCHANGED <<Apart, objects, anchors>>

\* SELECT of every head, in one statement; published_at tells runs apart.
ReadHeads(w) ==
    /\ publish[w] # None /\ publish[w].at = "heads"
    /\ Publish(w, [publish[w] EXCEPT !.at = "put",
          !.snap = [run |-> w, heads |-> [t \in Types |-> [hash |-> state[t].hash,
                                                          seq |-> state[t].seq]]]])
    /\ UNCHANGED <<Apart, objects, anchors>>

\* Mutant: an error of the put is ignored.
PutOrNot(w) ==
    /\ publish[w] # None /\ publish[w].at = "put"
    /\ objects' \in {objects, [objects EXCEPT ![publish[w].hour] = {publish[w].snap}]}
    /\ Publish(w, [publish[w] EXCEPT !.at = "record"])
    /\ UNCHANGED <<Apart, anchors>>

PutObject(w) ==
    /\ publish[w] # None /\ publish[w].at = "put"
    /\ objects' = [objects EXCEPT ![publish[w].hour] = {publish[w].snap}]
    /\ Publish(w, [publish[w] EXCEPT !.at = "record"])
    /\ UNCHANGED <<Apart, anchors>>

\* INSERT; PRIMARY KEY (anchor_date, anchor_hour): the second run of an hour
\* has lost the race.
RecordAnchor(w) ==
    /\ publish[w] # None /\ publish[w].at = "record"
    /\ anchors' = [anchors EXCEPT ![publish[w].hour] =
                     IF @ = {} THEN {publish[w].snap} ELSE @]
    /\ Publish(w, None)
    /\ UNCHANGED <<Apart, objects>>

\* The isolate ends.
StopPublish(w) ==
    /\ publish[w] # None
    /\ Publish(w, None)
    /\ UNCHANGED <<Apart, objects, anchors>>

-----------------------------------------------------------------------------
Appending(p) == Ask(p) \/ Lock(p) \/ ReadHead(p) \/ AppendRow(p)
Verifying(v) == StartVerify(v) \/ ReadSeed(v) \/ ReadPage(v) \/ Persist(v) \/ Report(v)
Publishing(w) ==
    \/ CheckPrior(w) \/ ReadHeads(w) \/ PutObject(w) \/ RecordAnchor(w) \/ StopPublish(w)

Next ==
    \/ \E p \in Callers : Appending(p)
    \/ \E v \in Verifiers : Verifying(v)
    \/ \E w \in Publishers : Publishing(w)
    \/ Tick /\ UNCHANGED <<chain_vars, work, check, anchor_vars>>

Spec == Init /\ [][Next]_vars
=============================================================================
