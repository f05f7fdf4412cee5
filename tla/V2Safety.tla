------------------------------ MODULE V2Safety ------------------------------
(***************************************************************************)
(* What the event log, its projections and the pending timers promise while *)
(* any number of requests and sweeps interleave call by call.               *)
(***************************************************************************)
EXTENDS V2Engine

TimerKeys == [txn: Txns, on: STRING, fire: STRING, due: Nat]
Hash == [chain: STRING, txn: Txns \cup {None}, seq: Nat,
         key: Keys \cup TimerKeys \cup {None}]

Event == [txn: Txns, seq: Nat \ {0}, gseq: Nat, chain: STRING, edge: STRING,
          rejected: BOOLEAN, from: STRING, to: STRING, actor: Actors, at: Nat,
          prev: Hash, key: Keys \cup TimerKeys, claim: Payloads \cup {None}]
Row == [chain: STRING, seq: Nat, state: STRING, fields: Payloads, closed: BOOLEAN,
        ref: Refs \cup {None}]
TimerRow == [txn: Txns, seq: Nat \ {0}, on: STRING, fire: STRING, due: Nat, class: Classes]
PartyRow == [txn: Txns, participant: Participants, role: STRING, field: STRING]

Command == [key: Keys \cup TimerKeys, chain: STRING, edge: STRING, actor: Actors,
            txn: Txns, input: Payloads, reason: BOOLEAN, parties: SUBSET Attachment,
            expected: Nat \cup {None}]
Posted == [key: Keys, chain: STRING, edge: STRING, actor: Participants,
           txn: Txns \cup {None}, input: Payloads, reason: BOOLEAN,
           parties: SUBSET Attachment, expected: Nat \cup {None}]
Snapshot == [row: Row, tail: Hash]
Draft == [event: Event, fields: Payloads, ref: Refs \cup {None}]
Codes == {"OK", "GUARD", "CONFLICT", "NOT_FOUND", "STALE", "UNKNOWN_EDGE", "FORBIDDEN",
          "ILLEGAL_TRANSITION", "BAD_INPUT", "CONTENTION", "THROWN"}
Reply == [code: Codes, replayed: BOOLEAN]
Labels == {"idle", "token", "lookup", "load", "tail", "guards", "preKey", "preSeq",
           "preClaim", "count", "batch", "raced", "replied", "sweep"}

DbTyped ==
    /\ events \in Seq(Event)
    /\ txns \in [Txns -> Row]
    /\ parties \subseteq PartyRow
    /\ timers \subseteq TimerRow
    /\ claims \subseteq Payloads

EnvTyped ==
    /\ halted \in BOOLEAN
    /\ now \in Nat /\ flips \in Nat /\ crashes \in Nat /\ repeats \in Nat
    /\ used \subseteq Keys /\ copies \subseteq Posted /\ issued \subseteq Txns

WorkTyped ==
    /\ pc \in [Procs -> Labels]
    /\ cmd \in [Procs -> Command \cup {None}]
    /\ attempt \in [Procs -> Nat]
    /\ snap \in [Procs -> Snapshot \cup {None}]
    /\ draft \in [Procs -> Draft \cup {None}]
    /\ reply \in [Procs -> Reply \cup {None}]

SweepTyped ==
    /\ class \in [Procs -> Classes \cup {None}]
    /\ cutoff \in [Procs -> Nat]
    /\ todo \in [Procs -> SUBSET TimerRow]
    /\ timer \in [Procs -> TimerRow \cup {None}]

\* Rows, commands, drafts and answers have their types, whatever the chains
\* and inputs: seq and the party rows of the timer's own commands included.
TypeOK == DbTyped /\ EnvTyped /\ WorkTyped /\ SweepTyped

-----------------------------------------------------------------------------
(* The log.                                                                 *)

\* global_seq is 1, 2, 3, ... in the order the events were inserted, although
\* each is a COUNT taken before other requests insert (d1.ts commit).
GlobalOrder == \A i \in DOMAIN events : events[i].gseq = i

\* Within a txn seq is gapless from 1 and grows with the insertion order,
\* although each event is built on a row read several awaits earlier.
GaplessPerTxn ==
    \A i \in DOMAIN events :
        /\ \A j \in DOMAIN events :
              (i < j /\ events[i].txn = events[j].txn) => events[i].seq < events[j].seq
        /\ \/ events[i].seq = 1
           \/ \E j \in 1..(i - 1) : /\ events[j].txn = events[i].txn
                                    /\ events[j].seq = events[i].seq - 1

\* The prev_hash of an event is the hash of the event one seq before it, or
\* its chain's genesis hash; getTxn reads the row and the tail separately, so
\* the tail may be newer than the row the seq comes from.
HashLinked ==
    \A i \in DOMAIN events :
        IF events[i].seq = 1
        THEN events[i].prev = Genesis(events[i].chain)
        ELSE \E j \in DOMAIN events : /\ events[j].txn = events[i].txn
                                      /\ events[j].seq = events[i].seq - 1
                                      /\ events[i].prev = HashOf(events[j])

\* "redelivery replays, never double-writes": one event per idempotency key.
OncePerKey ==
    \A i, j \in DOMAIN events : events[i].key = events[j].key => i = j

\* Along one txn's log time does not run backwards: the clock is read after
\* the load and before the commit of another process's event.
TimeForward ==
    \A i, j \in DOMAIN events :
        (events[i].txn = events[j].txn /\ i < j) => events[i].at <= events[j].at

-----------------------------------------------------------------------------
(* The projections.                                                         *)

Last(t, i) ==
    events[i].txn = t /\ \A j \in DOMAIN events : events[j].txn = t => j <= i

Accepted(e) == ~e.rejected
Closes(e) == Accepted(e) /\ e.to \in CHAINS[e.chain].terminal

\* The v2_txns row is the projection of the log tail: seq and state of the
\* last event, closed once an event entered a terminal state.
Projection ==
    \A t \in Txns :
        /\ txns[t].seq = 0 => \A i \in DOMAIN events : events[i].txn # t
        /\ txns[t].seq > 0 =>
              \E i \in DOMAIN events :
                 /\ Last(t, i)
                 /\ txns[t].seq = events[i].seq
                 /\ txns[t].state = events[i].to
        /\ txns[t].closed <=> \E i \in DOMAIN events : events[i].txn = t /\ Closes(events[i])

\* A closed txn is over: nothing is appended to its log, not even by a
\* request or a sweep that loaded it before it closed.
ClosedIsFinal ==
    \A i, j \in DOMAIN events :
        (events[i].txn = events[j].txn /\ Closes(events[i])) => j <= i

\* A claim is made by at most one event, and no claim is lost.
ClaimedOnce ==
    /\ \A i, j \in DOMAIN events :
          (events[i].claim # None /\ events[i].claim = events[j].claim) => i = j
    /\ \A i \in DOMAIN events : events[i].claim # None => events[i].claim \in claims
    /\ \A c \in claims : \E i \in DOMAIN events : events[i].claim = c

\* Every pending timer was armed by the last accepted event of its txn, on
\* the state the txn is in now: none survives a move, whoever made it.
TimersCurrent ==
    \A r \in timers :
        /\ r.on = txns[r.txn].state
        /\ \E i \in DOMAIN events :
              /\ events[i].txn = r.txn /\ events[i].seq = r.seq
              /\ Accepted(events[i]) /\ events[i].to = r.on
              /\ \A j \in DOMAIN events :
                    (events[j].txn = r.txn /\ j > i) => events[j].rejected

-----------------------------------------------------------------------------
(* Answers.                                                                 *)

\* An answer tells the truth about the log: OK without replay means the
\* command's event is there and moved the txn, GUARD that its refusal is.
AnswersHonest ==
    \A p \in Procs :
        (pc[p] = "replied" /\ reply[p].code \in {"OK", "GUARD"}) =>
            \E i \in DOMAIN events :
                /\ events[i].key = cmd[p].key
                /\ ~reply[p].replayed => (events[i].rejected <=> reply[p].code = "GUARD")

\* A refused POST /txn (the only command without a token) leaves no txn
\* behind: the id it was given names no row, event, party or timer.
RefusedOpensNothing ==
    \A p \in Clients :
        (/\ pc[p] = "replied" /\ cmd[p].expected = None
         /\ reply[p].code \notin {"OK", "GUARD"} \/ reply[p].replayed) =>
            /\ txns[cmd[p].txn].seq = 0
            /\ \A i \in DOMAIN events : events[i].txn # cmd[p].txn
            /\ \A r \in parties \cup timers : r.txn # cmd[p].txn

-----------------------------------------------------------------------------
(* The abstract log: events without the bookkeeping of the store.           *)

Entry(e) ==
    [txn |-> e.txn, chain |-> e.chain, edge |-> e.edge, rejected |-> e.rejected,
     from |-> e.from, to |-> e.to, actor |-> e.actor, key |-> e.key, claim |-> e.claim]

AbstractLog == [i \in DOMAIN events |-> Entry(events[i])]

Abstract == INSTANCE TxnLog WITH log <- AbstractLog, members <- parties

\* However requests interleave, the log grows as if each decision had been
\* taken and recorded in one step on the txn's current state.
ImplementsLog == Abstract!Spec

-----------------------------------------------------------------------------
(* Progress.                                                                *)

\* Every request is answered: the retry loop is bounded and each awaited
\* call returns.
RequestsEnd == \A p \in Clients : (pc[p] # "idle") ~> (pc[p] = "idle")

\* A due timer does not linger: it is fired, cleared or dropped.
DueTimersLeave ==
    \A t \in Txns, k \in Classes :
        (\E r \in timers : r.txn = t /\ r.class = k /\ r.due <= now)
            ~> ~(\E r \in timers : r.txn = t /\ r.class = k /\ r.due <= now)
=============================================================================
