----------------------------- MODULE AuditSafety -----------------------------
(***************************************************************************)
(* What the audit chain and its locks must keep, and the invariant it rests *)
(* on.                                                                      *)
(***************************************************************************)
EXTENDS AuditChain

HeadRead == [hash : Seq(Entries), seq : Nat]
Row == [type : Types, seq : Nat \ {0}, prev : Seq(Entries), entry : Entries,
        hash : Seq(Entries)]
Work == [entry : Entries, head : HeadRead \cup {None}]
Check == [at : {"seed", "page", "persist", "diverged"}, type : Types, from : Nat \ {0},
          prev : Seq(Entries), cursor : Nat \ {0}, last : Nat, scanned : Nat]
Snapshot == [run : Publishers, heads : [Types -> HeadRead]]
Publication == [at : {"heads", "put", "record"}, hour : Hours, snap : Snapshot \cup {None}]

ASSUME AuditNoneAssumption ==
    None \notin HeadRead \cup Work \cup Check \cup Snapshot \cup Publication

\* Rows and the values that runs carry from call to call have their types.
AuditTypeOK ==
    /\ LocksTypeOK
    /\ IsFiniteSet(rows) /\ \A r \in rows : r \in Row
    /\ state \in [Types -> [hash : Seq(Entries), seq : Nat, verified : Nat]]
    /\ work \in [Callers -> Work \cup {None}]
    /\ \A p \in Callers : work[p] = None <=> phase[p] = "out"
    /\ check \in [Verifiers -> Check \cup {None}]
    /\ publish \in [Publishers -> Publication \cup {None}]
    /\ DOMAIN objects = Hours /\ DOMAIN anchors = Hours
    /\ \A h \in Hours : \A s \in objects[h] \cup anchors[h] : s \in Snapshot

-----------------------------------------------------------------------------
\* "so concurrent inserts can't fork the chain": no two rows of an entity type
\* have one number or one predecessor, also when a lock is taken over from a
\* request that is still at work, or released by another request of its holder.
Unforked ==
    \A r, s \in rows :
        (r.type = s.type /\ (r.seq = s.seq \/ r.prev = s.prev)) => r = s

\* audit_chain_state is the last row of a chain without gaps, although the
\* head is read two awaits before it is overwritten.
HeadIsLast ==
    \A t \in Types :
        LET chain == {r \in rows : r.type = t} IN
        /\ {r.seq : r \in chain} = 1..state[t].seq
        /\ \A r \in chain : r.seq = state[t].seq => r.hash = state[t].hash

\* While rows are appended between its pages, verifyChain reports a divergence
\* only to a caller that asked it to start beyond the end of the chain.
NoFalseAlarm ==
    \A v \in Verifiers :
        (check[v] # None /\ check[v].at = "diverged")
            => check[v].from > 1 /\ check[v].prev = ZeroHash

\* Every published head, on R2 and in the ledger, is still the hash of its row,
\* and what the ledger names was put on R2 before.
AnchorsGenuine ==
    \A h \in Hours :
        /\ anchors[h] # {} => objects[h] # {}
        /\ \A s \in objects[h] \cup anchors[h] : \A t \in Types :
              \/ s.heads[t] = NoHead
              \/ \E r \in rows : /\ r.type = t /\ r.seq = s.heads[t].seq
                                 /\ r.hash = s.heads[t].hash

\* A hash is the history it ends, so the head hashes are the chains.
Chain == INSTANCE AppendOnly WITH
    chain <- [t \in Types |-> state[t].hash],
    verified <- [t \in Types |-> state[t].verified]

\* The rows, heads and marks implement append-only chains.
ImplementsChain == Chain!Spec

-----------------------------------------------------------------------------
(* The inductive invariant.                                                 *)

\* h was the head of t's chain at some time.
Past(t, h) ==
    h.seq <= state[t].seq /\ h.hash = SubSeq(state[t].hash, 1, h.seq)

ChainOK(t) ==
    /\ Len(state[t].hash) = state[t].seq
    /\ state[t].verified <= state[t].seq
    /\ \A n \in 1..state[t].seq : \E r \in rows : r.type = t /\ r.seq = n

RowOK(r) ==
    /\ Past(r.type, [hash |-> r.hash, seq |-> r.seq])
    /\ Past(r.type, [hash |-> r.prev, seq |-> r.seq - 1])
    /\ r.hash = HashOf(r.prev, r.entry)

\* A walk carries the hash of the row before its cursor, unless it was started
\* beyond the end.
CheckOK(c) ==
    /\ c.at = "seed" => c.from > 1 /\ c.prev = ZeroHash /\ c.cursor = c.from
    /\ (c.at = "page" /\ (c.from = 1 \/ c.prev # ZeroHash)) =>
          Past(c.type, [hash |-> c.prev, seq |-> c.cursor - 1])
    /\ c.at = "seed" => c.scanned = 0
    /\ (c.at = "page" /\ c.scanned > 0) \/ c.at = "persist" => c.last > 0
    /\ c.last <= state[c.type].seq
    /\ c.at = "diverged" => c.from > 1 /\ c.prev = ZeroHash

SnapOK(s) == \A t \in Types : Past(t, s.heads[t])

PublishOK(w) ==
    /\ w.at \in {"put", "record"} => w.snap # None /\ SnapOK(w.snap)
    /\ w.at = "record" => objects[w.hour] # {}

AuditInv ==
    /\ AuditTypeOK
    /\ \A p \in Callers : LockOK(p)
    /\ \A t \in Types : ChainOK(t)
    /\ \A r \in rows : RowOK(r)
    /\ \A r, s \in rows : (r.type = s.type /\ r.seq = s.seq) => r = s
    /\ \A p \in Callers :
          (work[p] # None /\ work[p].head # None) => Past(lease[p].key, work[p].head)
    /\ \A v \in Verifiers : check[v] # None => CheckOK(check[v])
    /\ \A w \in Publishers : publish[w] # None => PublishOK(publish[w])
    /\ \A h \in Hours :
          /\ anchors[h] # {} => objects[h] # {}
          /\ \A s \in objects[h] \cup anchors[h] : SnapOK(s)
=============================================================================
