---------------------------- MODULE V2Invariant ----------------------------
(***************************************************************************)
(* The inductive invariant behind the theorems on the engine: what each     *)
(* process may rely on between two of its D1 calls, however the database    *)
(* has grown since.                                                         *)
(***************************************************************************)
EXTENDS V2Safety

Drafted == {"preKey", "preSeq", "preClaim", "count", "batch", "raced"}
Judged == Drafted \cup {"guards"}
Loaded == Judged \cup {"tail"}
Resolved == Loaded \cup {"load"}
Commanded == Resolved \cup {"token", "lookup", "replied"}

\* The sequence numbers in a txn's log are 1 up to the row's.
Dense ==
    /\ \A t \in Txns : \A s \in 1..txns[t].seq : InLog(t, s)
    /\ \A i \in DOMAIN events : events[i].seq \in 1..txns[events[i].txn].seq

\* A loaded row is the txn's row of then: of now, unless the txn moved on.
SnapOK(p) ==
    LET row == snap[p].row
        current == txns[cmd[p].txn]
    IN /\ snap[p] \in Snapshot
       /\ IF IsNew(cmd[p])
          THEN row.seq = 0 /\ row.state = CHAINS[cmd[p].chain].initial /\ ~row.closed
          ELSE /\ row.seq > 0
               /\ row.seq <= current.seq
               /\ row.seq = current.seq => row = current

\* The tail is an event of the txn, not older than the row.
TailOK(p) ==
    IF IsNew(cmd[p]) THEN snap[p].tail = Genesis(cmd[p].chain)
    ELSE \E i \in DOMAIN events :
            /\ events[i].txn = cmd[p].txn
            /\ events[i].seq >= snap[p].row.seq
            /\ snap[p].tail = HashOf(events[i])

\* Steps 3 and 4 hold on: parties are never removed.
JudgedOK(p) ==
    /\ Authorized(cmd[p])
    /\ LegalFrom(cmd[p], snap[p].row.state)
    /\ TailOK(p)

\* e extends the loaded row and tail along the edge of c.
Extends(e, c, row, tail) ==
    /\ e.txn = c.txn /\ e.seq = row.seq + 1
    /\ e.chain = c.chain /\ e.edge = c.edge /\ e.actor = c.actor /\ e.key = c.key
    /\ e.prev = tail
    /\ e.from = IF IsNew(c) THEN Absent ELSE row.state
    /\ e.to = IF e.rejected THEN row.state ELSE EdgeOf(c).to
    /\ e.claim # None => EdgeOf(c).claims /\ ~e.rejected

DraftOK(p) ==
    /\ draft[p] \in Draft
    /\ Extends(draft[p].event, cmd[p], snap[p].row, snap[p].tail)

ProcInv(p) ==
    /\ pc[p] \in Commanded => cmd[p] \in Command
    /\ pc[p] \in Resolved => Resolves(cmd[p])
    /\ pc[p] \in Loaded => SnapOK(p)
    /\ pc[p] \in Judged => JudgedOK(p)
    /\ pc[p] \in Drafted => DraftOK(p)
    /\ pc[p] = "batch" => draft[p].event.gseq \in 1..(EventCount + 1)

ProcsInv == \A p \in Procs : ProcInv(p)

IInv == TypeOK /\ Dense /\ ProcsInv
-----------------------------------------------------------------------------
(* What the theorems on time, on closed txns and on refusals need besides.  *)

\* A drafted event is stamped after the load: not before any event its row
\* already counts.
StampOK(p) ==
    LET e == draft[p].event IN
    /\ e.at <= now
    /\ \A i \in DOMAIN events :
          (events[i].txn = e.txn /\ events[i].seq <= snap[p].row.seq) => events[i].at <= e.at

Stamps ==
    /\ \A i \in DOMAIN events : events[i].at <= now
    /\ \A p \in Procs : pc[p] \in Drafted => StampOK(p)

\* Of the declarations: no edge leaves a terminal state, not even one of
\* another chain, which an act may name.  Not every chain of the platform is
\* so (imbalance_settlement archives what it has settled).
TerminalsFinal ==
    \A k, l \in DOMAIN CHAINS : \A e \in CHAINS[k].edges :
        e.from \cap CHAINS[l].terminal = {}

\* A closed txn is in a terminal state.
ClosedTerminal ==
    \A t \in Txns :
        txns[t].closed => \E k \in DOMAIN CHAINS : txns[t].state \in CHAINS[k].terminal

\* A client's command under a fresh id, unless it has opened its txn.
Opening(p) ==
    /\ p \in Clients
    /\ pc[p] \in Commanded \ {"token"}
    /\ cmd[p].expected = None
    /\ pc[p] = "replied" => reply[p].code \notin {"OK", "GUARD"} \/ reply[p].replayed

\* Ids are given out once: no row and no other command has one that an
\* opening still holds.
IdsOwned ==
    /\ \A t \in Txns : txns[t].seq > 0 => t \in issued
    /\ \A body \in copies : body.txn # None => txns[body.txn].seq > 0
    /\ \A r \in parties : txns[r.txn].seq > 0
    /\ \A p \in Procs :
          /\ pc[p] \in Commanded => cmd[p].txn \in issued
          /\ pc[p] = "token" => txns[cmd[p].txn].seq > 0
          /\ Opening(p) =>
                /\ txns[cmd[p].txn].seq = 0
                /\ \A q \in Procs \ {p} : pc[q] \in Commanded => cmd[q].txn # cmd[p].txn
=============================================================================
