------------------------------ MODULE V2Proofs ------------------------------
(***************************************************************************)
(* Theorems on the engine for every set of chains, txns, processes and for  *)
(* every bound: first what a process relies on (V2Invariant), then the log   *)
(* and its projections (V2Safety), the answers, and TxnLog.                  *)
(***************************************************************************)
EXTENDS V2Invariant, TLAPS

-----------------------------------------------------------------------------
(* Lemmas about the data.                                                   *)

\* Appending to a sequence.
LEMMA AppendFacts ==
    ASSUME NEW S, NEW s \in Seq(S), NEW x \in S
    PROVE  /\ Append(s, x) \in Seq(S)
           /\ Len(s) \in Nat
           /\ Len(Append(s, x)) = Len(s) + 1
           /\ DOMAIN s = 1..Len(s)
           /\ DOMAIN Append(s, x) = 1..(Len(s) + 1)
           /\ \A i \in 1..Len(s) : Append(s, x)[i] = s[i]
           /\ Append(s, x)[Len(s) + 1] = x
    OBVIOUS

\* A command that resolves names an edge of a declared chain.
LEMMA EdgeFacts ==
    ASSUME NEW c, Resolves(c)
    PROVE  /\ CHAINS[c.chain] \in ChainRecord
           /\ EdgeOf(c) \in CHAINS[c.chain].edges
           /\ EdgeOf(c).id = c.edge
           /\ EdgeOf(c) \in EdgeDecl
           /\ EdgeOf(c).isNew \in BOOLEAN /\ EdgeOf(c).to \in STRING
           /\ EdgeOf(c).becomes \in STRING
           /\ IsNew(c) = EdgeOf(c).isNew
           /\ c.chain \in DOMAIN CHAINS
    <1>1. c.chain \in DOMAIN CHAINS /\ \E e \in CHAINS[c.chain].edges : e.id = c.edge
      BY DEF Resolves
    <1>2. CHAINS[c.chain] \in ChainRecord
      BY <1>1, ChainsAssumption
    <1>3. EdgeOf(c) \in CHAINS[c.chain].edges /\ EdgeOf(c).id = c.edge
      BY <1>1 DEF EdgeOf
    <1>4. CHAINS[c.chain].edges \subseteq EdgeDecl
      BY <1>2 DEF ChainRecord
    <1>5. EdgeOf(c) \in EdgeDecl
      BY <1>3, <1>4
    <1>6. EdgeOf(c).isNew \in BOOLEAN /\ EdgeOf(c).to \in STRING /\ EdgeOf(c).becomes \in STRING
      BY <1>5 DEF EdgeDecl
    <1>7. IsNew(c) = EdgeOf(c).isNew
      BY <1>6 DEF IsNew, Resolves
    <1> QED BY <1>1, <1>2, <1>3, <1>5, <1>6, <1>7

\* The hash of an event has the type of a hash.
LEMMA HashTyped ==
    ASSUME NEW e \in Event PROVE HashOf(e) \in Hash
    BY DEF Event, HashOf, Hash

\* The genesis hash has the type of a hash.
LEMMA GenesisTyped ==
    ASSUME NEW chain \in STRING PROVE Genesis(chain) \in Hash
    BY DEF Genesis, Hash

\* A timer's deterministic key has the type of such keys.
LEMMA TimerKeyTyped ==
    ASSUME NEW t \in TimerRow PROVE TimerKey(t) \in TimerKeys
    BY DEF TimerRow, TimerKey, TimerKeys

\* The fields of an event.
LEMMA EventFields ==
    ASSUME NEW e \in Event
    PROVE  /\ e.txn \in Txns /\ e.seq \in Nat /\ e.seq >= 1 /\ e.gseq \in Nat
           /\ e.chain \in STRING /\ e.rejected \in BOOLEAN
           /\ e.to \in STRING /\ e.at \in Nat /\ e.claim \in Payloads \cup {None}
    BY DEF Event

\* The fields of a txn row.
LEMMA RowFields ==
    ASSUME NEW r \in Row
    PROVE  /\ r.chain \in STRING /\ r.seq \in Nat /\ r.state \in STRING
           /\ r.fields \in Payloads /\ r.closed \in BOOLEAN /\ r.ref \in Refs \cup {None}
    BY DEF Row

\* The fields of a command.
LEMMA CommandFields ==
    ASSUME NEW c \in Command
    PROVE  /\ c.key \in Keys \cup TimerKeys /\ c.chain \in STRING /\ c.edge \in STRING
           /\ c.actor \in Actors /\ c.txn \in Txns /\ c.input \in Payloads
           /\ c.parties \subseteq Attachment /\ c.expected \in Nat \cup {None}
    BY DEF Command

\* The rows of the log and of the txns.
LEMMA TablesTyped ==
    ASSUME TypeOK
    PROVE  /\ events \in Seq(Event) /\ EventCount \in Nat
           /\ \A i \in DOMAIN events : events[i] \in Event
           /\ \A t \in Txns : txns[t] \in Row
    <1>1. events \in Seq(Event) /\ txns \in [Txns -> Row] BY DEF TypeOK, DbTyped
    <1> QED BY <1>1 DEF EventCount

\* The free sequence numbers of a txn are those above its row's.
LEMMA DenseFacts ==
    ASSUME TypeOK, Dense, NEW t \in Txns, NEW s \in Nat
    PROVE  InLog(t, s) <=> (1 <= s /\ s <= txns[t].seq)
    <1>1. txns[t].seq \in Nat BY TablesTyped, RowFields
    <1>2. ASSUME InLog(t, s) PROVE 1 <= s /\ s <= txns[t].seq
      <2>1. PICK i \in DOMAIN events : events[i].txn = t /\ events[i].seq = s
        BY <1>2 DEF InLog
      <2>2. events[i].seq \in 1..txns[events[i].txn].seq BY DEF Dense
      <2> QED BY <1>1, <2>1, <2>2
    <1>3. ASSUME 1 <= s /\ s <= txns[t].seq PROVE InLog(t, s)
      <2>1. s \in 1..txns[t].seq BY <1>1, <1>3
      <2> QED BY <2>1 DEF Dense
    <1> QED BY <1>2, <1>3

\* The tail of an existing txn is its event of the row's seq.
LEMMA TailFacts ==
    ASSUME TypeOK, Dense, NEW t \in Txns, txns[t].seq > 0
    PROVE  \E i \in DOMAIN events : /\ events[i].txn = t
                                    /\ events[i].seq = txns[t].seq
                                    /\ TailHash(t) = HashOf(events[i])
    <1> DEFINE n == txns[t].seq
               IsTail(i) == /\ i \in DOMAIN events
                            /\ events[i].txn = t
                            /\ \A j \in DOMAIN events :
                                  events[j].txn = t => events[j].seq <= events[i].seq
    <1>1. n \in Nat /\ \A i \in DOMAIN events : events[i] \in Event /\ events[i].seq \in Nat
      BY TablesTyped, EventFields, RowFields
    <1>2. PICK k \in DOMAIN events : events[k].txn = t /\ events[k].seq = n
      <2>1. InLog(t, n) BY <1>1, DenseFacts
      <2> QED BY <2>1 DEF InLog
    <1>3. \A j \in DOMAIN events : events[j].txn = t => events[j].seq <= n
      <2> SUFFICES ASSUME NEW j \in DOMAIN events, events[j].txn = t PROVE events[j].seq <= n
        OBVIOUS
      <2>1. InLog(t, events[j].seq) BY DEF InLog
      <2> QED BY <2>1, <1>1, DenseFacts
    <1>4. IsTail(k) BY <1>2, <1>3
    <1> DEFINE i0 == CHOOSE i \in DOMAIN events :
                        /\ events[i].txn = t
                        /\ \A j \in DOMAIN events :
                              events[j].txn = t => events[j].seq <= events[i].seq
    <1>5. IsTail(i0) BY <1>4
    <1>6. TailHash(t) = HashOf(events[i0]) BY DEF TailHash
    <1>7. events[i0].seq = n BY <1>1, <1>2, <1>3, <1>5
    <1> QED BY <1>5, <1>6, <1>7

-----------------------------------------------------------------------------
(* What a process relies on survives the steps of the others.               *)

\* Nothing it reads changes.
LEMMA ProcFrame ==
    ASSUME NEW q \in Procs, ProcInv(q), UNCHANGED <<events, txns, parties>>,
           pc'[q] = pc[q], cmd'[q] = cmd[q], snap'[q] = snap[q], draft'[q] = draft[q]
    PROVE  ProcInv(q)'
    <1>1. SnapOK(q)' = SnapOK(q) BY DEF SnapOK
    <1>2. TailOK(q)' = TailOK(q) BY DEF TailOK
    <1>3. Authorized(cmd[q])' = Authorized(cmd[q]) BY DEF Authorized, LiveParties
    <1>4. LegalFrom(cmd[q], snap[q].row.state)' = LegalFrom(cmd[q], snap[q].row.state)
      BY DEF LegalFrom
    <1>5. DraftOK(q)' = DraftOK(q) BY DEF DraftOK
    <1>6. JudgedOK(q)' = JudgedOK(q) BY <1>2, <1>3, <1>4 DEF JudgedOK
    <1>7. EventCount' = EventCount BY DEF EventCount
    <1> QED BY <1>1, <1>5, <1>6, <1>7 DEF ProcInv

\* p alone works.
Others(p) ==
    \A q \in Procs \ {p} :
        pc'[q] = pc[q] /\ cmd'[q] = cmd[q] /\ snap'[q] = snap[q] /\ draft'[q] = draft[q]

\* So a step of p that leaves the log, the rows and the parties alone keeps the
\* invariant when it keeps the types and p's own part.
LEMMA QuietStep ==
    ASSUME IInv, NEW p \in Procs, UNCHANGED <<events, txns, parties>>, Others(p),
           TypeOK', ProcInv(p)'
    PROVE  IInv'
    <1>1. Dense'
      <2>1. Dense BY DEF IInv
      <2> QED BY <2>1 DEF Dense, InLog
    <1>2. ASSUME NEW q \in Procs PROVE ProcInv(q)'
      <2>1. CASE q = p BY <2>1
      <2>2. CASE q # p
        <3>1. ProcInv(q) BY DEF IInv, ProcsInv
        <3>2. /\ pc'[q] = pc[q] /\ cmd'[q] = cmd[q]
              /\ snap'[q] = snap[q] /\ draft'[q] = draft[q]
          BY <2>2 DEF Others
        <3> QED BY <3>1, <3>2, ProcFrame
      <2> QED BY <2>1, <2>2
    <1> QED BY <1>1, <1>2 DEF IInv, ProcsInv

-----------------------------------------------------------------------------
(* The steps the handlers share.                                            *)

\* An answer releases the snapshot and the draft.
LEMMA AnswerStep ==
    ASSUME WorkTyped, NEW p \in Procs, NEW code \in Codes, NEW replayed \in BOOLEAN,
           Answer(p, code, replayed), UNCHANGED cmd
    PROVE  WorkTyped' /\ pc'[p] = "replied" /\ Others(p)
    BY DEF WorkTyped, Answer, Goto, Others, Labels, Reply

\* A retry goes back to the load, or gives up.
LEMMA RetryStep ==
    ASSUME WorkTyped, NEW p \in Procs, Retry(p), UNCHANGED cmd
    PROVE  WorkTyped' /\ pc'[p] \in {"load", "replied"} /\ Others(p)
    <1>1. CASE attempt[p] + 1 < MaxRetries
      BY <1>1 DEF WorkTyped, Retry, Goto, Others, Labels
    <1>2. CASE ~(attempt[p] + 1 < MaxRetries)
      <2>1. Answer(p, "CONTENTION", FALSE) BY <1>2 DEF Retry
      <2> QED BY <2>1, AnswerStep DEF Codes
    <1> QED BY <1>1, <1>2

\* A move that touches pc alone.
LEMMA GotoStep ==
    ASSUME WorkTyped, NEW p \in Procs, NEW l \in Labels, Goto(p, l),
           UNCHANGED <<cmd, attempt, snap, draft, reply>>
    PROVE  WorkTyped' /\ pc'[p] = l /\ Others(p)
    BY DEF WorkTyped, Goto, Others

\* At the two places where p holds nothing but its command.
LEMMA RestingProc ==
    ASSUME NEW p \in Procs, cmd'[p] \in Command,
           \/ pc'[p] = "replied"
           \/ pc'[p] = "load" /\ Resolves(cmd'[p])
    PROVE  ProcInv(p)'
    BY DEF ProcInv, Drafted, Judged, Loaded, Resolved, Commanded, Resolves

\* The frames of the actions.
LEMMA Frames ==
    ASSUME TypeOK
    PROVE  /\ UNCHANGED db => DbTyped' /\ UNCHANGED <<events, txns, parties>>
           /\ UNCHANGED env => EnvTyped'
           /\ UNCHANGED sweeping => SweepTyped'
    BY DEF TypeOK, DbTyped, EnvTyped, SweepTyped, db, env, sweeping

\* A step of p that answers or retries, and changes nothing else.
LEMMA AnsweringStep ==
    ASSUME IInv, NEW p \in Procs, cmd[p] \in Command,
           WorkTyped', Others(p), UNCHANGED <<db, env, cmd, sweeping>>,
           pc'[p] = "replied" \/ (pc'[p] = "load" /\ Resolves(cmd[p]))
    PROVE  IInv'
    <1>1. TypeOK /\ UNCHANGED db /\ UNCHANGED env /\ UNCHANGED sweeping BY DEF IInv
    <1>2. TypeOK' /\ UNCHANGED <<events, txns, parties>> BY <1>1, Frames DEF TypeOK
    <1>3. cmd'[p] = cmd[p] OBVIOUS
    <1>4. ProcInv(p)' BY <1>3, RestingProc
    <1> QED BY <1>2, <1>4, QuietStep

-----------------------------------------------------------------------------
(* The clients' steps.                                                      *)

\* A process between two commands relies on nothing; one that has just got
\* its command, on the command.
LEMMA EarlyProc ==
    ASSUME NEW p \in Procs,
           \/ pc'[p] \in {"idle", "sweep"}
           \/ pc'[p] \in {"token", "lookup"} /\ cmd'[p] \in Command
    PROVE  ProcInv(p)'
    BY DEF ProcInv, Drafted, Judged, Loaded, Resolved, Commanded

\* What a client posts.
LEMMA BodiesPosted ==
    ASSUME TypeOK, NEW k \in Keys, NEW it \in Intents
    PROVE  Bodies(k, it) \subseteq Posted
    <1>1. it \in Intent BY IntentsAssumption
    <1>2. ASSUME NEW t \in Txns \cup {None}, NEW s \in Nat \cup {None}
          PROVE  Body(k, it, t, s) \in Posted
      BY <1>1 DEF Body, Posted, Intent
    <1>3. \A t \in Txns : txns[t].seq \in Nat BY TablesTyped, RowFields
    <1> QED BY <1>2, <1>3 DEF Bodies

\* A posted body becomes a command: under a fresh id, or on its own txn.
LEMMA DeliverStep ==
    ASSUME TypeOK, NEW p \in Procs, NEW body \in Posted, Deliver(p, body),
           UNCHANGED <<attempt, snap, draft, reply>>
    PROVE  /\ WorkTyped' /\ Others(p) /\ issued' \subseteq Txns
           /\ pc'[p] \in {"token", "lookup"} /\ cmd'[p] \in Command
    <1>1. WorkTyped /\ issued \subseteq Txns BY DEF TypeOK, EnvTyped
    <1>2. CASE body.txn = None
      <2>1. Txns \ issued # {} BY <1>2 DEF Deliver
      <2>2. FreshTxn \in Txns BY <2>1 DEF FreshTxn
      <2>3. [body EXCEPT !.txn = FreshTxn] \in Command BY <2>2 DEF Posted, Command, Actors
      <2> QED BY <1>1, <1>2, <2>2, <2>3 DEF Deliver, WorkTyped, Others, Goto, Labels
    <1>3. CASE body.txn # None
      <2>1. body \in Command BY <1>3 DEF Posted, Command, Actors
      <2> QED BY <1>1, <1>3, <2>1 DEF Deliver, WorkTyped, Others, Goto, Labels
    <1> QED BY <1>2, <1>3

\* A posted command is a command, and the body to be redelivered a posted one.
LEMMA SendStep ==
    ASSUME IInv, NEW p \in Procs, Send(p) PROVE IInv'
    <1>1. TypeOK BY DEF IInv
    <1>2. FreshKey \in Keys BY DEF Send, FreshKey
    <1>0. PICK it \in Intents : \E body \in Bodies(FreshKey, it) :
             /\ Deliver(p, body)
             /\ \/ UNCHANGED <<copies, repeats>>
                \/ repeats' = repeats + 1 /\ copies' = copies \cup {body}
      BY DEF Send
    <1>3. PICK body \in Bodies(FreshKey, it) :
             /\ Deliver(p, body)
             /\ \/ UNCHANGED <<copies, repeats>>
                \/ repeats' = repeats + 1 /\ copies' = copies \cup {body}
      BY <1>0
    <1>4. body \in Posted BY <1>1, <1>2, <1>3, BodiesPosted
    <1>5. UNCHANGED <<attempt, snap, draft, reply, events, txns, parties>>
      BY DEF Send, db
    <1>6. /\ WorkTyped' /\ Others(p) /\ issued' \subseteq Txns
          /\ pc'[p] \in {"token", "lookup"} /\ cmd'[p] \in Command
      BY <1>1, <1>3, <1>4, <1>5, DeliverStep
    <1>7. EnvTyped'
      <2>1. EnvTyped BY <1>1 DEF TypeOK
      <2>2. UNCHANGED <<halted, now, flips, crashes>> /\ used' = used \cup {FreshKey}
        BY DEF Send
      <2> QED BY <1>2, <1>3, <1>4, <1>6, <2>1, <2>2 DEF EnvTyped
    <1>8. DbTyped' /\ SweepTyped' BY <1>1, Frames DEF Send
    <1>9. TypeOK' BY <1>6, <1>7, <1>8 DEF TypeOK
    <1> QED BY <1>5, <1>6, <1>9, EarlyProc, QuietStep

\* A body delivered again becomes a command like the first time.
LEMMA RedeliverStep ==
    ASSUME IInv, NEW p \in Procs, Redeliver(p) PROVE IInv'
    <1>1. TypeOK /\ EnvTyped BY DEF IInv, TypeOK
    <1>2. PICK body \in copies : Deliver(p, body) /\ copies' = copies \ {body}
      BY DEF Redeliver
    <1>3. body \in Posted BY <1>1, <1>2 DEF EnvTyped
    <1>4. UNCHANGED <<attempt, snap, draft, reply, events, txns, parties>>
      BY DEF Redeliver, db
    <1>5. /\ WorkTyped' /\ Others(p) /\ issued' \subseteq Txns
          /\ pc'[p] \in {"token", "lookup"} /\ cmd'[p] \in Command
      BY <1>1, <1>2, <1>3, <1>4, DeliverStep
    <1>6. EnvTyped'
      <2>1. UNCHANGED <<halted, now, flips, crashes, repeats, used>> BY DEF Redeliver
      <2> QED BY <1>1, <1>2, <1>5, <2>1 DEF EnvTyped
    <1>7. DbTyped' /\ SweepTyped' BY <1>1, Frames DEF Redeliver
    <1>8. TypeOK' BY <1>5, <1>6, <1>7 DEF TypeOK
    <1> QED BY <1>4, <1>5, <1>8, EarlyProc, QuietStep

\* The client lets go of its command.
LEMMA ReceiveStep ==
    ASSUME IInv, NEW p \in Procs, Receive(p) PROVE IInv'
    <1>1. TypeOK /\ WorkTyped BY DEF IInv, TypeOK
    <1>2. DbTyped' /\ EnvTyped' /\ SweepTyped' /\ UNCHANGED <<events, txns, parties>>
      BY <1>1, Frames DEF Receive
    <1>3. WorkTyped' /\ Others(p) /\ pc'[p] = "idle"
      BY <1>1 DEF Receive, Goto, WorkTyped, Others, Labels
    <1>4. TypeOK' BY <1>2, <1>3 DEF TypeOK
    <1> QED BY <1>2, <1>3, <1>4, EarlyProc, QuietStep

\* What p holds at the labels of applyTransition.
LEMMA Holding ==
    ASSUME IInv, NEW p \in Procs
    PROVE  /\ WorkTyped /\ TypeOK /\ Dense /\ ProcInv(p)
           /\ pc[p] \in Commanded => cmd[p] \in Command
           /\ pc[p] \in Resolved => Resolves(cmd[p])
           /\ pc[p] \in Loaded => SnapOK(p)
           /\ pc[p] \in Judged => JudgedOK(p)
           /\ pc[p] \in Drafted => DraftOK(p)
    <1>1. ProcInv(p) BY DEF IInv, ProcsInv
    <1> QED BY <1>1 DEF IInv, TypeOK, ProcInv

\* The token is the seq the row has now.
LEMMA ReadTokenStep ==
    ASSUME IInv, NEW p \in Procs, ReadToken(p) PROVE IInv'
    <1>1. WorkTyped /\ TypeOK /\ cmd[p] \in Command
      BY Holding DEF ReadToken, Commanded
    <1>2. UNCHANGED <<db, env, sweeping>> BY DEF ReadToken
    <1>3. CASE txns[cmd[p].txn].seq = 0
      <2>1. Answer(p, "NOT_FOUND", FALSE) /\ UNCHANGED cmd BY <1>3 DEF ReadToken
      <2>2. WorkTyped' /\ pc'[p] = "replied" /\ Others(p)
        BY <1>1, <2>1, AnswerStep DEF Codes
      <2> QED BY <1>1, <1>2, <2>1, <2>2, AnsweringStep
    <1>4. CASE txns[cmd[p].txn].seq # 0
      <2> DEFINE s == txns[cmd[p].txn].seq
      <2>1. s \in Nat BY <1>1, CommandFields, TablesTyped, RowFields
      <2>2. [cmd[p] EXCEPT !.expected = s] \in Command BY <1>1, <2>1 DEF Command
      <2>3. /\ cmd' = [cmd EXCEPT ![p].expected = s] /\ pc' = [pc EXCEPT ![p] = "lookup"]
            /\ UNCHANGED <<attempt, snap, draft, reply>>
        BY <1>4 DEF ReadToken, Goto
      <2>4. WorkTyped' /\ Others(p) /\ pc'[p] = "lookup" /\ cmd'[p] \in Command
        BY <1>1, <2>2, <2>3 DEF WorkTyped, Others, Labels
      <2>5. TypeOK' /\ UNCHANGED <<events, txns, parties>>
        BY <1>1, <1>2, <2>4, Frames DEF TypeOK
      <2> QED BY <2>4, <2>5, EarlyProc, QuietStep
    <1> QED BY <1>3, <1>4

-----------------------------------------------------------------------------
(* The steps of applyTransition before its commit.                          *)

\* A command that goes on to the load resolves to an edge.
LEMMA LookupStep ==
    ASSUME IInv, NEW p \in Procs, Lookup(p) PROVE IInv'
    <1>1. WorkTyped /\ TypeOK /\ cmd[p] \in Command
      BY Holding DEF Lookup, Commanded
    <1>2. UNCHANGED <<db, env, cmd, sweeping>> BY DEF Lookup
    <1>3. CASE KeyUsed(cmd[p].key) \/ ~Resolves(cmd[p])
      <2>1. Answer(p, "OK", TRUE) \/ Answer(p, "UNKNOWN_EDGE", FALSE)
        BY <1>3 DEF Lookup
      <2>2. WorkTyped' /\ pc'[p] = "replied" /\ Others(p)
        BY <1>1, <1>2, <2>1, AnswerStep DEF Codes
      <2> QED BY <1>1, <1>2, <2>2, AnsweringStep
    <1>4. CASE ~KeyUsed(cmd[p].key) /\ Resolves(cmd[p])
      <2>1. Goto(p, "load") /\ UNCHANGED <<attempt, snap, draft, reply>>
        BY <1>4 DEF Lookup
      <2>2. WorkTyped' /\ pc'[p] = "load" /\ Others(p)
        BY <1>1, <1>2, <2>1, GotoStep DEF Labels
      <2> QED BY <1>1, <1>2, <1>4, <2>2, AnsweringStep
    <1> QED BY <1>3, <1>4

\* The snapshot Load takes: a blank row for an opening, else the txn's row.
LEMMA LoadStep ==
    ASSUME IInv, NEW p \in Procs, Load(p) PROVE IInv'
    <1> DEFINE c == cmd[p]
               row == txns[c.txn]
               fresh == [NoRow EXCEPT !.chain = c.chain, !.state = CHAINS[c.chain].initial]
               s == [row |-> IF IsNew(c) THEN fresh ELSE row, tail |-> Genesis(c.chain)]
    <1>1. WorkTyped /\ TypeOK /\ c \in Command /\ Resolves(c)
      BY Holding DEF Load, Commanded, Resolved
    <1>2. UNCHANGED <<db, env, cmd, sweeping>> BY DEF Load
    <1>3. row \in Row /\ row.seq \in Nat /\ c.chain \in STRING
      BY <1>1, TablesTyped, CommandFields, RowFields
    <1>4. CASE \/ IsNew(c) /\ row.seq > 0
               \/ ~IsNew(c) /\ row.seq = 0
               \/ ~IsNew(c) /\ row.seq > 0 /\ c.expected # row.seq
      <2>1. \E code \in {"CONFLICT", "NOT_FOUND", "STALE"} : Answer(p, code, FALSE)
        BY <1>4 DEF Load
      <2>2. PICK code \in {"CONFLICT", "NOT_FOUND", "STALE"} : Answer(p, code, FALSE)
        BY <2>1
      <2>3. WorkTyped' /\ pc'[p] = "replied" /\ Others(p)
        BY <1>1, <1>2, <2>2, AnswerStep DEF Codes
      <2> QED BY <1>1, <1>2, <2>3, AnsweringStep
    <1>5. CASE ~ \/ IsNew(c) /\ row.seq > 0
                 \/ ~IsNew(c) /\ row.seq = 0
                 \/ ~IsNew(c) /\ row.seq > 0 /\ c.expected # row.seq
      <2>1. /\ snap' = [snap EXCEPT ![p] = s] /\ pc' = [pc EXCEPT ![p] = "tail"]
            /\ UNCHANGED <<attempt, draft, reply>>
        BY <1>5 DEF Load, Goto
      <2>2. CHAINS[c.chain] \in ChainRecord BY <1>1, EdgeFacts
      <2>3. CHAINS[c.chain].initial \in STRING BY <2>2 DEF ChainRecord
      <2>4. fresh \in Row /\ fresh.seq = 0 /\ ~fresh.closed
            /\ fresh.state = CHAINS[c.chain].initial
        BY <1>3, <2>3, PayloadsAssumption DEF NoRow, Row
      <2>5. s \in Snapshot BY <1>3, <2>4, GenesisTyped DEF Snapshot
      <2>6. WorkTyped' /\ Others(p) /\ pc'[p] = "tail" /\ snap'[p] = s /\ cmd'[p] = c
        BY <1>1, <1>2, <2>1, <2>5 DEF WorkTyped, Others, Labels
      <2>7. TypeOK' /\ UNCHANGED <<events, txns, parties>>
        BY <1>1, <1>2, <2>6, Frames DEF TypeOK
      <2>8. SnapOK(p)'
        <3>1. CASE IsNew(c)
          <4>1. snap'[p].row = fresh BY <2>6, <3>1
          <4>2. snap'[p].row.seq = 0 /\ ~snap'[p].row.closed BY <2>4, <4>1
          <4>3. snap'[p].row.state = CHAINS[cmd'[p].chain].initial BY <2>4, <2>6, <4>1
          <4>4. snap'[p] \in Snapshot /\ IsNew(cmd'[p]) BY <2>5, <2>6, <3>1
          <4> QED BY <4>2, <4>3, <4>4 DEF SnapOK
        <3>2. CASE ~IsNew(c) BY <1>3, <1>5, <2>5, <2>6, <2>7, <3>2 DEF SnapOK
        <3> QED BY <3>1, <3>2
      <2>9. ProcInv(p)'
        <3>1. cmd'[p] \in Command /\ Resolves(cmd'[p]) BY <1>1, <2>6
        <3>2. Resolves(cmd[p])' = Resolves(cmd'[p]) BY DEF Resolves
        <3> QED BY <2>6, <2>8, <3>1, <3>2
             DEF ProcInv, Drafted, Judged, Loaded, Resolved, Commanded
      <2> QED BY <2>6, <2>7, <2>9, QuietStep
    <1> QED BY <1>4, <1>5

\* The tail read is not older than the row, and steps 3 and 4 were passed.
LEMMA LoadTailStep ==
    ASSUME IInv, NEW p \in Procs, LoadTail(p) PROVE IInv'
    <1> DEFINE c == cmd[p]
               row == snap[p].row
               tail == IF IsNew(c) THEN Genesis(c.chain) ELSE TailHash(c.txn)
    <1>1. WorkTyped /\ TypeOK /\ Dense /\ c \in Command /\ Resolves(c) /\ SnapOK(p)
      BY Holding DEF LoadTail, Commanded, Resolved, Loaded
    <1>2. UNCHANGED <<db, env, cmd, sweeping>> BY DEF LoadTail
    <1>3. CASE ~(Authorized(c) /\ LegalFrom(c, row.state) /\ WellFormed(c))
      <2>1. \E code \in {"FORBIDDEN", "ILLEGAL_TRANSITION", "BAD_INPUT"} :
               Answer(p, code, FALSE)
        BY <1>3 DEF LoadTail
      <2>2. PICK code \in {"FORBIDDEN", "ILLEGAL_TRANSITION", "BAD_INPUT"} :
               Answer(p, code, FALSE)
        BY <2>1
      <2>3. WorkTyped' /\ pc'[p] = "replied" /\ Others(p)
        BY <1>1, <1>2, <2>2, AnswerStep DEF Codes
      <2> QED BY <1>1, <1>2, <2>3, AnsweringStep
    <1>4. CASE Authorized(c) /\ LegalFrom(c, row.state) /\ WellFormed(c)
      <2>1. /\ snap' = [snap EXCEPT ![p].tail = tail] /\ pc' = [pc EXCEPT ![p] = "guards"]
            /\ UNCHANGED <<attempt, draft, reply>>
        BY <1>4 DEF LoadTail, Goto
      <2>2. /\ snap[p] \in Snapshot /\ row \in Row /\ row.seq \in Nat
            /\ c.chain \in STRING /\ c.txn \in Txns /\ txns[c.txn].seq \in Nat
        <3>1. snap[p] \in Snapshot BY <1>1 DEF SnapOK
        <3>2. row \in Row BY <3>1 DEF Snapshot
        <3> QED BY <1>1, <3>1, <3>2, CommandFields, RowFields, TablesTyped
      <2>3. IF IsNew(c) THEN tail = Genesis(c.chain)
            ELSE \E i \in DOMAIN events : /\ events[i].txn = c.txn
                                          /\ events[i].seq >= row.seq
                                          /\ tail = HashOf(events[i])
        <3>1. CASE IsNew(c) BY <3>1
        <3>2. CASE ~IsNew(c)
          <4>1. row.seq > 0 /\ row.seq <= txns[c.txn].seq BY <1>1, <3>2 DEF SnapOK
          <4>2. txns[c.txn].seq > 0 BY <2>2, <4>1
          <4>3. PICK i \in DOMAIN events : /\ events[i].txn = c.txn
                                           /\ events[i].seq = txns[c.txn].seq
                                           /\ TailHash(c.txn) = HashOf(events[i])
            BY <1>1, <2>2, <4>2, TailFacts
          <4> QED BY <3>2, <4>1, <4>3
        <3> QED BY <3>1, <3>2
      <2>4. tail \in Hash
        <3>1. CASE IsNew(c) BY <2>2, <3>1, GenesisTyped
        <3>2. CASE ~IsNew(c) BY <1>1, <2>3, <3>2, TablesTyped, HashTyped
        <3> QED BY <3>1, <3>2
      <2>5. [snap[p] EXCEPT !.tail = tail] \in Snapshot BY <2>2, <2>4 DEF Snapshot
      <2>6. /\ WorkTyped' /\ Others(p) /\ pc'[p] = "guards" /\ cmd'[p] = c
            /\ snap'[p] = [snap[p] EXCEPT !.tail = tail]
        BY <1>1, <1>2, <2>1, <2>5 DEF WorkTyped, Others, Labels
      <2>7. snap'[p].row = row /\ snap'[p].tail = tail /\ snap'[p] \in Snapshot
        BY <2>2, <2>5, <2>6 DEF Snapshot
      <2>8. TypeOK' /\ UNCHANGED <<events, txns, parties>>
        BY <1>1, <1>2, <2>6, Frames DEF TypeOK
      <2>9. SnapOK(p)' BY <1>1, <2>6, <2>7, <2>8 DEF SnapOK
      <2>10. TailOK(p)' BY <2>3, <2>6, <2>7, <2>8 DEF TailOK
      <2>11. Authorized(cmd[p])' BY <1>4, <2>6, <2>8 DEF Authorized, LiveParties
      <2>12. LegalFrom(cmd[p], snap[p].row.state)' BY <1>4, <2>6, <2>7 DEF LegalFrom
      <2>13. Resolves(cmd[p])' BY <1>1, <2>6 DEF Resolves
      <2>14. ProcInv(p)'
        BY <1>1, <2>6, <2>9, <2>10, <2>11, <2>12, <2>13
        DEF ProcInv, JudgedOK, Drafted, Judged, Loaded, Resolved, Commanded
      <2> QED BY <2>6, <2>8, <2>14, QuietStep
    <1> QED BY <1>3, <1>4

\* The event steps 6 and 7 build extends the row along the edge.
LEMMA EventBuilt ==
    ASSUME now \in Nat, NEW c \in Command, Resolves(c), NEW row \in Row, NEW tail \in Hash,
           NEW passed \in BOOLEAN
    PROVE  /\ BuildEvent(c, row, tail, passed) \in Event
           /\ Extends(BuildEvent(c, row, tail, passed), c, row, tail)
    <1> DEFINE e == BuildEvent(c, row, tail, passed)
               from == IF IsNew(c) THEN Absent ELSE row.state
               to == IF passed THEN EdgeOf(c).to ELSE row.state
               claim == IF passed /\ EdgeOf(c).claims THEN Merge(row.fields, c.input) ELSE None
    <1>1. EdgeOf(c).to \in STRING BY EdgeFacts
    <1>2. from \in STRING /\ to \in STRING /\ row.seq + 1 \in Nat \ {0}
      <2>1. row.seq \in Nat /\ row.state \in STRING BY RowFields
      <2>2. from \in STRING
        <3>1. CASE IsNew(c) BY <3>1, AbsentAssumption
        <3>2. CASE ~IsNew(c) BY <2>1, <3>2
        <3> QED BY <3>1, <3>2
      <2>3. to \in STRING BY <1>1, <2>1
      <2> QED BY <2>1, <2>2, <2>3
    <1>3. claim \in Payloads \cup {None}
      <2>1. row.fields \in Payloads /\ c.input \in Payloads BY RowFields, CommandFields
      <2>2. Merge(row.fields, c.input) \in Payloads BY <2>1 DEF Merge
      <2> HIDE DEF claim
      <2>3. CASE passed /\ EdgeOf(c).claims BY <2>2, <2>3 DEF claim
      <2>4. CASE ~(passed /\ EdgeOf(c).claims) BY <2>4 DEF claim
      <2> QED BY <2>3, <2>4
    <1>4. e = [txn |-> c.txn, seq |-> row.seq + 1, gseq |-> 0, chain |-> c.chain,
               edge |-> c.edge, rejected |-> ~passed, from |-> from, to |-> to,
               actor |-> c.actor, at |-> now, prev |-> tail, key |-> c.key, claim |-> claim]
      BY DEF BuildEvent, EventOf
    <1>5. claim # None => EdgeOf(c).claims /\ passed OBVIOUS
    <1> HIDE DEF e, from, to, claim
    <1>6. e \in Event BY <1>2, <1>3, <1>4, CommandFields DEF Event
    <1>7. /\ e.txn = c.txn /\ e.seq = row.seq + 1 /\ e.gseq = 0
          /\ e.chain = c.chain /\ e.edge = c.edge /\ e.actor = c.actor /\ e.key = c.key
          /\ e.prev = tail /\ e.from = from /\ e.to = to /\ e.claim = claim
      BY <1>4
    <1>8. e.rejected = ~passed BY <1>4
    <1>9. e.to = IF e.rejected THEN row.state ELSE EdgeOf(c).to BY <1>7, <1>8 DEF to
    <1>10. e.claim # None => EdgeOf(c).claims /\ ~e.rejected BY <1>5, <1>7, <1>8
    <1>11. Extends(e, c, row, tail) BY <1>7, <1>9, <1>10 DEF from, Extends
    <1> QED BY <1>6, <1>11 DEF e

\* What was judged and drafted stays so while p keeps command, snapshot and draft.
LEMMA Keeps ==
    ASSUME NEW p \in Procs, UNCHANGED <<events, txns, parties>>,
           cmd'[p] = cmd[p], snap'[p] = snap[p]
    PROVE  /\ SnapOK(p)' = SnapOK(p) /\ JudgedOK(p)' = JudgedOK(p)
           /\ Resolves(cmd[p])' = Resolves(cmd[p])
           /\ draft'[p] = draft[p] => DraftOK(p)' = DraftOK(p)
    <1>1. SnapOK(p)' = SnapOK(p) BY DEF SnapOK
    <1>2. TailOK(p)' = TailOK(p) BY DEF TailOK
    <1>3. Authorized(cmd[p])' = Authorized(cmd[p]) BY DEF Authorized, LiveParties
    <1>4. LegalFrom(cmd[p], snap[p].row.state)' = LegalFrom(cmd[p], snap[p].row.state)
      BY DEF LegalFrom
    <1>5. JudgedOK(p)' = JudgedOK(p) BY <1>2, <1>3, <1>4 DEF JudgedOK
    <1>6. Resolves(cmd[p])' = Resolves(cmd[p]) BY DEF Resolves
    <1>7. draft'[p] = draft[p] => DraftOK(p)' = DraftOK(p) BY DEF DraftOK
    <1> QED BY <1>1, <1>5, <1>6, <1>7

\* A step of p from one drafted label to another, the batch aside.
LEMMA DraftedStep ==
    ASSUME IInv, NEW p \in Procs, pc[p] \in Judged, WorkTyped', Others(p),
           UNCHANGED <<db, env, cmd, sweeping>>,
           pc'[p] \in Drafted \ {"batch"}, snap'[p] = snap[p], DraftOK(p)'
    PROVE  IInv'
    <1>1. /\ TypeOK /\ cmd[p] \in Command /\ Resolves(cmd[p])
          /\ SnapOK(p) /\ JudgedOK(p)
      BY Holding DEF Commanded, Resolved, Loaded
    <1>2. TypeOK' /\ UNCHANGED <<events, txns, parties>> BY <1>1, Frames DEF TypeOK
    <1>3. cmd'[p] = cmd[p] OBVIOUS
    <1>4. SnapOK(p)' /\ JudgedOK(p)' /\ Resolves(cmd[p])' /\ cmd'[p] \in Command
      BY <1>1, <1>2, <1>3, Keeps
    <1>5. ProcInv(p)' BY <1>4 DEF ProcInv
    <1> QED BY <1>2, <1>5, QuietStep

\* The drafted event extends the loaded row along the edge.
LEMMA RunGuardsStep ==
    ASSUME IInv, NEW p \in Procs, RunGuards(p) PROVE IInv'
    <1> DEFINE c == cmd[p]
               row == snap[p].row
               passed == \A g \in EdgeOf(c).guards :
                            GuardHolds(g, row.fields, c.input, GuardParties(c), halted)
               e == BuildEvent(c, row, snap[p].tail, passed)
               fields == IF passed THEN Merge(row.fields, c.input) ELSE row.fields
    <1>1. pc[p] = "guards" BY DEF RunGuards
    <1>2. WorkTyped /\ TypeOK /\ c \in Command /\ Resolves(c) /\ SnapOK(p)
      BY <1>1, Holding DEF Commanded, Resolved, Loaded, Judged
    <1>3. UNCHANGED <<db, env, cmd, attempt, snap, reply, sweeping>> BY DEF RunGuards
    <1>4. PICK r \in (IF IsNew(c) /\ passed THEN Refs ELSE {row.ref}) :
             draft' = [draft EXCEPT ![p] = [event |-> e, fields |-> fields, ref |-> r]]
      BY DEF RunGuards
    <1>5. snap[p] \in Snapshot BY <1>2 DEF SnapOK
    <1>6. row \in Row /\ snap[p].tail \in Hash BY <1>5 DEF Snapshot
    <1>7. now \in Nat /\ passed \in BOOLEAN BY <1>2 DEF TypeOK, EnvTyped
    <1>8. e \in Event /\ Extends(e, c, row, snap[p].tail)
      <2> HIDE DEF passed
      <2> QED BY <1>2, <1>6, <1>7, EventBuilt
    <1>9. fields \in Payloads BY <1>2, <1>6, RowFields, CommandFields DEF Merge
    <1>10. r \in Refs \cup {None} BY <1>6, RowFields
    <1> HIDE DEF e, fields, passed
    <1>11. [event |-> e, fields |-> fields, ref |-> r] \in Draft
      BY <1>8, <1>9, <1>10 DEF Draft
    <1>12. /\ WorkTyped' /\ Others(p) /\ pc'[p] = "preKey" /\ snap'[p] = snap[p]
           /\ cmd'[p] = c /\ draft'[p] = [event |-> e, fields |-> fields, ref |-> r]
      BY <1>2, <1>3, <1>4, <1>11 DEF RunGuards, Goto, WorkTyped, Others, Labels
    <1>13. draft'[p].event = e BY <1>12
    <1>14. DraftOK(p)' BY <1>8, <1>11, <1>12, <1>13 DEF DraftOK
    <1>15. pc[p] \in Judged /\ pc'[p] \in Drafted \ {"batch"}
      BY <1>1, <1>12 DEF Judged, Drafted
    <1> QED BY <1>3, <1>12, <1>14, <1>15, DraftedStep

\* A step of p from one drafted label that answers, retries or goes on.
LEMMA MovingStep ==
    ASSUME IInv, NEW p \in Procs, pc[p] \in Drafted, UNCHANGED <<db, env, cmd, sweeping>>,
           \/ \E code \in Codes, replayed \in BOOLEAN : Answer(p, code, replayed)
           \/ Retry(p)
           \/ /\ \E l \in Drafted \ {"batch"} : Goto(p, l)
              /\ UNCHANGED <<attempt, snap, draft, reply>>
    PROVE  IInv'
    <1>1. /\ WorkTyped /\ cmd[p] \in Command /\ Resolves(cmd[p]) /\ SnapOK(p)
          /\ DraftOK(p) /\ pc[p] \in Judged
      BY Holding DEF Commanded, Resolved, Loaded, Judged
    <1>2. CASE \E code \in Codes, replayed \in BOOLEAN : Answer(p, code, replayed)
      <2>1. WorkTyped' /\ pc'[p] = "replied" /\ Others(p) BY <1>1, <1>2, AnswerStep
      <2> QED BY <1>1, <2>1, AnsweringStep
    <1>3. CASE Retry(p)
      <2>1. WorkTyped' /\ pc'[p] \in {"load", "replied"} /\ Others(p)
        BY <1>1, <1>3, RetryStep
      <2> QED BY <1>1, <2>1, AnsweringStep
    <1>4. ASSUME NEW l \in Drafted \ {"batch"}, Goto(p, l),
                 UNCHANGED <<attempt, snap, draft, reply>>
          PROVE  IInv'
      <2>1. l \in Labels BY DEF Drafted, Labels
      <2>2. WorkTyped' /\ pc'[p] = l /\ Others(p) BY <1>1, <1>4, <2>1, GotoStep
      <2>3. UNCHANGED <<events, txns, parties>> BY DEF db
      <2>4. DraftOK(p)' BY <1>1, <1>4, <2>3, Keeps
      <2> QED BY <1>1, <1>4, <2>2, <2>4, DraftedStep
    <1> QED BY <1>2, <1>3, <1>4

\* The key pre-check keeps the draft.
LEMMA PreCheckKeyStep ==
    ASSUME IInv, NEW p \in Procs, PreCheckKey(p) PROVE IInv'
    <1>1. /\ pc[p] \in Drafted /\ UNCHANGED <<db, env, cmd, attempt, snap, draft, reply, sweeping>>
          /\ \E l \in Drafted \ {"batch"} : Goto(p, l)
      BY DEF PreCheckKey, Drafted
    <1> QED BY <1>1, MovingStep

\* The seq pre-check keeps the draft or drops everything.
LEMMA PreCheckSeqStep ==
    ASSUME IInv, NEW p \in Procs, PreCheckSeq(p) PROVE IInv'
    <1>1. pc[p] \in Drafted /\ UNCHANGED <<db, env, cmd, sweeping>>
      BY DEF PreCheckSeq, Drafted
    <1>2. \/ Retry(p)
          \/ /\ Goto(p, IF draft[p].event.claim = None THEN "count" ELSE "preClaim")
             /\ UNCHANGED <<attempt, snap, draft, reply>>
      BY DEF PreCheckSeq
    <1>3. \/ Retry(p)
          \/ /\ \E l \in Drafted \ {"batch"} : Goto(p, l)
             /\ UNCHANGED <<attempt, snap, draft, reply>>
      BY <1>2 DEF Drafted
    <1> QED BY <1>1, <1>3, MovingStep

\* The claim pre-check keeps the draft or gives up.
LEMMA PreCheckClaimStep ==
    ASSUME IInv, NEW p \in Procs, PreCheckClaim(p) PROVE IInv'
    <1>1. pc[p] \in Drafted /\ UNCHANGED <<db, env, cmd, sweeping>>
      BY DEF PreCheckClaim, Drafted
    <1>2. \/ Answer(p, "THROWN", FALSE)
          \/ Goto(p, "count") /\ UNCHANGED <<attempt, snap, draft, reply>>
      BY DEF PreCheckClaim
    <1>3. "THROWN" \in Codes /\ "count" \in Drafted \ {"batch"} BY DEF Codes, Drafted
    <1> QED BY <1>1, <1>2, <1>3, MovingStep

\* A batch that trips an index writes nothing.
LEMMA AbortBatchStep ==
    ASSUME IInv, NEW p \in Procs, AbortBatch(p) PROVE IInv'
    <1>1. pc[p] \in Drafted /\ UNCHANGED <<db, env, cmd, sweeping>>
      BY DEF AbortBatch, Drafted
    <1>2. \/ Answer(p, "THROWN", FALSE)
          \/ Retry(p)
          \/ Goto(p, "raced") /\ UNCHANGED <<attempt, snap, draft, reply>>
      BY DEF AbortBatch
    <1>3. "THROWN" \in Codes /\ "raced" \in Drafted \ {"batch"} BY DEF Codes, Drafted
    <1> QED BY <1>1, <1>2, <1>3, MovingStep

\* A lost race answers with the event that won, or starts again.
LEMMA ReplayRacedStep ==
    ASSUME IInv, NEW p \in Procs, ReplayRaced(p) PROVE IInv'
    <1>1. pc[p] \in Drafted /\ UNCHANGED <<db, env, cmd, sweeping>>
      BY DEF ReplayRaced, Drafted
    <1>2. Answer(p, "OK", TRUE) \/ Retry(p) BY DEF ReplayRaced
    <1>3. "OK" \in Codes BY DEF Codes
    <1> QED BY <1>1, <1>2, <1>3, MovingStep

\* The count is one more than the events of now, whatever lands before the
\* batch.
LEMMA CountEventsStep ==
    ASSUME IInv, NEW p \in Procs, CountEvents(p) PROVE IInv'
    <1> DEFINE d == [draft[p] EXCEPT !.event.gseq = EventCount + 1]
    <1>1. pc[p] = "count" BY DEF CountEvents
    <1>2. /\ TypeOK /\ WorkTyped /\ cmd[p] \in Command /\ Resolves(cmd[p]) /\ SnapOK(p)
          /\ JudgedOK(p) /\ DraftOK(p)
      BY <1>1, Holding DEF Commanded, Resolved, Loaded, Judged, Drafted
    <1>3. UNCHANGED <<db, env, cmd, attempt, snap, reply, sweeping>> BY DEF CountEvents
    <1>4. /\ draft' = [draft EXCEPT ![p] = d] /\ pc' = [pc EXCEPT ![p] = "batch"]
      BY DEF CountEvents, Goto
    <1>5. EventCount \in Nat BY <1>2, TablesTyped
    <1>6. draft[p] \in Draft BY <1>2 DEF DraftOK
    <1>7. draft[p].event \in Event BY <1>6 DEF Draft
    <1> DEFINE f == [draft[p].event EXCEPT !.gseq = EventCount + 1]
    <1>8. f \in Event BY <1>5, <1>7 DEF Event
    <1>9. d = [draft[p] EXCEPT !.event = f] OBVIOUS
    <1>10. d \in Draft /\ d.event = f BY <1>6, <1>8, <1>9 DEF Draft
    <1>11. Extends(f, cmd[p], snap[p].row, snap[p].tail)
      <2>1. Extends(draft[p].event, cmd[p], snap[p].row, snap[p].tail) BY <1>2 DEF DraftOK
      <2>2. /\ f.txn = draft[p].event.txn /\ f.seq = draft[p].event.seq
            /\ f.chain = draft[p].event.chain /\ f.edge = draft[p].event.edge
            /\ f.actor = draft[p].event.actor /\ f.key = draft[p].event.key
            /\ f.prev = draft[p].event.prev /\ f.from = draft[p].event.from
            /\ f.to = draft[p].event.to /\ f.claim = draft[p].event.claim
            /\ f.rejected = draft[p].event.rejected
        BY <1>7 DEF Event
      <2> QED BY <2>1, <2>2 DEF Extends
    <1>12. f.gseq = EventCount + 1 BY <1>7 DEF Event
    <1> HIDE DEF d, f
    <1>13. /\ WorkTyped' /\ Others(p) /\ pc'[p] = "batch" /\ snap'[p] = snap[p]
           /\ cmd'[p] = cmd[p] /\ draft'[p] = d
      BY <1>2, <1>3, <1>4, <1>10 DEF WorkTyped, Others, Labels
    <1>14. DraftOK(p)' BY <1>10, <1>11, <1>13 DEF DraftOK
    <1>15. TypeOK' /\ UNCHANGED <<events, txns, parties>>
      BY <1>2, <1>3, <1>13, Frames DEF TypeOK
    <1>16. SnapOK(p)' /\ JudgedOK(p)' /\ Resolves(cmd[p])' /\ cmd'[p] \in Command
      BY <1>2, <1>13, <1>15, Keeps
    <1>17. draft'[p].event.gseq \in 1..(EventCount' + 1)
      BY <1>5, <1>10, <1>12, <1>13, <1>15 DEF EventCount
    <1>18. ProcInv(p)' BY <1>14, <1>16, <1>17 DEF ProcInv
    <1> QED BY <1>13, <1>15, <1>18, QuietStep
-----------------------------------------------------------------------------
(* The commit.                                                              *)

\* A batch that trips no index extends the txn's row of now: although the row
\* was read awaits ago, the free (txn, seq) shows that no event came between.
LEMMA CommitLands ==
    ASSUME IInv, NEW p \in Procs, Commit(p)
    PROVE  LET e == draft[p].event
               c == cmd[p]
               row == snap[p].row
           IN /\ e \in Event /\ c \in Command /\ row \in Row /\ Resolves(c)
              /\ Extends(e, c, row, snap[p].tail) /\ TailOK(p)
              /\ Authorized(c) /\ LegalFrom(c, row.state)
              /\ ~KeyUsed(e.key) /\ ~InLog(e.txn, e.seq) /\ ~GlobalSeqUsed(e.gseq)
              /\ e.gseq \in 1..(EventCount + 1) /\ e.claim \notin claims
              /\ row.seq = txns[e.txn].seq
              /\ IsNew(c) => /\ row.seq = 0 /\ ~row.closed
                             /\ row.state = CHAINS[c.chain].initial
              /\ ~IsNew(c) => row.seq > 0 /\ row = txns[e.txn]
              /\ events' = Append(events, e)
              /\ txns' = [txns EXCEPT ![e.txn] = RowAfter(p)]
              /\ parties' = PartiesAfter(p) /\ timers' = TimersAfter(e)
              /\ claims' = ClaimsAfter(e)
              /\ Answer(p, IF e.rejected THEN "GUARD" ELSE "OK", FALSE)
              /\ UNCHANGED <<env, cmd, sweeping>>
    <1> DEFINE e == draft[p].event
               c == cmd[p]
               row == snap[p].row
    <1>1. pc[p] = "batch" BY DEF Commit
    <1>2. /\ TypeOK /\ Dense /\ ProcInv(p) /\ c \in Command /\ Resolves(c) /\ SnapOK(p)
          /\ JudgedOK(p) /\ DraftOK(p)
      BY <1>1, Holding DEF Commanded, Resolved, Loaded, Judged, Drafted
    <1>3. e.gseq \in 1..(EventCount + 1) BY <1>1, <1>2 DEF ProcInv
    <1>4. Violations(p) = {} BY DEF Commit
    <1>5. EventViolations(e) = {} /\ e.claim \notin claims BY <1>4 DEF Violations
    <1>6. ~KeyUsed(e.key) /\ ~InLog(e.txn, e.seq) /\ ~GlobalSeqUsed(e.gseq)
      BY <1>5 DEF EventViolations
    <1>7. e \in Event BY <1>2 DEF DraftOK, Draft
    <1>8. Extends(e, c, row, snap[p].tail) BY <1>2 DEF DraftOK
    <1>9. snap[p] \in Snapshot BY <1>2 DEF SnapOK
    <1>10. row \in Row BY <1>9 DEF Snapshot
    <1>11. e.txn = c.txn /\ e.seq = row.seq + 1 /\ e.txn \in Txns
      BY <1>7, <1>8, EventFields DEF Extends
    <1>12. row.seq \in Nat /\ txns[e.txn].seq \in Nat
      BY <1>2, <1>10, <1>11, RowFields, TablesTyped
    <1>13. ~(1 <= e.seq /\ e.seq <= txns[e.txn].seq)
      <2>1. e.seq \in Nat BY <1>11, <1>12
      <2> QED BY <1>2, <1>6, <1>11, <2>1, DenseFacts
    <1>14. row.seq = txns[e.txn].seq
      <2>1. CASE IsNew(c)
        <3>1. row.seq = 0 BY <1>2, <2>1 DEF SnapOK
        <3> QED BY <1>11, <1>12, <1>13, <3>1
      <2>2. CASE ~IsNew(c)
        <3>1. row.seq > 0 /\ row.seq <= txns[e.txn].seq BY <1>2, <1>11, <2>2 DEF SnapOK
        <3> QED BY <1>11, <1>12, <1>13, <3>1
      <2> QED BY <2>1, <2>2
    <1>15. /\ IsNew(c) => /\ row.seq = 0 /\ ~row.closed
                          /\ row.state = CHAINS[c.chain].initial
           /\ ~IsNew(c) => row.seq > 0 /\ row = txns[e.txn]
      BY <1>2, <1>11, <1>14 DEF SnapOK
    <1>16. UpdateMatches(p) BY <1>11, <1>14 DEF UpdateMatches
    <1>17. TailOK(p) /\ Authorized(c) /\ LegalFrom(c, row.state) BY <1>2 DEF JudgedOK
    <1>18. /\ events' = Append(events, e)
           /\ txns' = [txns EXCEPT ![e.txn] = RowAfter(p)]
           /\ parties' = PartiesAfter(p) /\ timers' = TimersAfter(e)
           /\ claims' = ClaimsAfter(e)
           /\ Answer(p, IF e.rejected THEN "GUARD" ELSE "OK", FALSE)
           /\ UNCHANGED <<env, cmd, sweeping>>
      BY <1>16 DEF Commit
    <1> QED BY <1>2, <1>3, <1>5, <1>6, <1>7, <1>8, <1>10, <1>14, <1>15, <1>17, <1>18

\* The log after one more event.
LEMMA LogGrowth ==
    ASSUME TypeOK, NEW e \in Event, events' = Append(events, e)
    PROVE  /\ EventCount \in Nat /\ EventCount' = EventCount + 1
           /\ DOMAIN events = 1..EventCount /\ DOMAIN events' = 1..(EventCount + 1)
           /\ \A i \in DOMAIN events : i \in DOMAIN events' /\ events'[i] = events[i]
           /\ events'[EventCount + 1] = e
           /\ \A i \in DOMAIN events' : i \in DOMAIN events \/ i = EventCount + 1
    BY TablesTyped, AppendFacts DEF EventCount

\* The (txn, seq) pairs in the log after one more event.
LEMMA InLogGrowth ==
    ASSUME TypeOK, NEW e \in Event, events' = Append(events, e), NEW t, NEW s
    PROVE  InLog(t, s)' <=> (InLog(t, s) \/ (t = e.txn /\ s = e.seq))
    <1>1. /\ \A i \in DOMAIN events : i \in DOMAIN events' /\ events'[i] = events[i]
          /\ EventCount + 1 \in DOMAIN events' /\ events'[EventCount + 1] = e
          /\ \A i \in DOMAIN events' : i \in DOMAIN events \/ i = EventCount + 1
      BY LogGrowth
    <1>2. ASSUME InLog(t, s)' PROVE InLog(t, s) \/ (t = e.txn /\ s = e.seq)
      <2>1. PICK i \in DOMAIN events' : events'[i].txn = t /\ events'[i].seq = s
        BY <1>2 DEF InLog
      <2>2. CASE i \in DOMAIN events BY <1>1, <2>1, <2>2 DEF InLog
      <2>3. CASE i = EventCount + 1 BY <1>1, <2>1, <2>3
      <2> QED BY <1>1, <2>1, <2>2, <2>3
    <1>3. ASSUME InLog(t, s) PROVE InLog(t, s)'
      <2>1. PICK i \in DOMAIN events : events[i].txn = t /\ events[i].seq = s
        BY <1>3 DEF InLog
      <2> QED BY <1>1, <2>1 DEF InLog
    <1>4. ASSUME t = e.txn /\ s = e.seq PROVE InLog(t, s)' BY <1>1, <1>4 DEF InLog
    <1> QED BY <1>2, <1>3, <1>4

\* Nothing a process relies on is undone when another one's event lands: its
\* row may be old now, but not wrong, and parties only join.
LEMMA ProcGrowth ==
    ASSUME TypeOK, NEW q \in Procs, ProcInv(q),
           pc'[q] = pc[q], cmd'[q] = cmd[q], snap'[q] = snap[q], draft'[q] = draft[q],
           NEW e \in Event, NEW r \in Row, r.seq = txns[e.txn].seq + 1,
           events' = Append(events, e), txns' = [txns EXCEPT ![e.txn] = r],
           parties \subseteq parties'
    PROVE  ProcInv(q)'
    <1> DEFINE c == cmd[q]
               row == snap[q].row
    <1>1. /\ EventCount \in Nat /\ EventCount' = EventCount + 1
          /\ \A i \in DOMAIN events : i \in DOMAIN events' /\ events'[i] = events[i]
      BY LogGrowth
    <1>2. txns \in [Txns -> Row] /\ e.txn \in Txns /\ \A t \in Txns : txns[t].seq \in Nat
      BY TablesTyped, RowFields, EventFields DEF TypeOK, DbTyped
    <1>3. ASSUME c \in Command, SnapOK(q) PROVE SnapOK(q)'
      <2>1. c.txn \in Txns /\ snap[q] \in Snapshot BY <1>3, CommandFields DEF SnapOK
      <2>2. row \in Row BY <2>1 DEF Snapshot
      <2>3. row.seq \in Nat BY <2>2, RowFields
      <2>4. CASE IsNew(c) BY <1>3, <2>1, <2>4 DEF SnapOK
      <2>5. CASE ~IsNew(c)
        <3>1. /\ row.seq > 0 /\ row.seq <= txns[c.txn].seq
              /\ row.seq = txns[c.txn].seq => row = txns[c.txn]
          BY <1>3, <2>5 DEF SnapOK
        <3>2. row.seq <= txns'[c.txn].seq /\ (row.seq = txns'[c.txn].seq => row = txns'[c.txn])
          <4>1. CASE c.txn = e.txn
            <5>1. txns'[c.txn].seq = txns[c.txn].seq + 1 BY <1>2, <4>1
            <5>2. txns[c.txn].seq \in Nat BY <1>2, <2>1
            <5> QED BY <2>3, <3>1, <5>1, <5>2
          <4>2. CASE c.txn # e.txn
            <5>1. txns'[c.txn] = txns[c.txn] BY <1>2, <2>1, <4>2
            <5> QED BY <3>1, <5>1
          <4> QED BY <4>1, <4>2
        <3> QED BY <2>1, <2>5, <3>1, <3>2 DEF SnapOK
      <2> QED BY <2>4, <2>5
    <1>4. ASSUME TailOK(q) PROVE TailOK(q)'
      <2>1. CASE IsNew(c) BY <1>4, <2>1 DEF TailOK
      <2>2. CASE ~IsNew(c)
        <3>1. PICK i \in DOMAIN events : /\ events[i].txn = c.txn
                                         /\ events[i].seq >= row.seq
                                         /\ snap[q].tail = HashOf(events[i])
          BY <1>4, <2>2 DEF TailOK
        <3>2. i \in DOMAIN events' /\ events'[i] = events[i] BY <1>1
        <3> QED BY <2>2, <3>1, <3>2 DEF TailOK
      <2> QED BY <2>1, <2>2
    <1>5. ASSUME Authorized(c) PROVE Authorized(cmd[q])'
      <2>1. LiveParties(c.txn) \subseteq LiveParties(cmd[q].txn)' BY DEF LiveParties
      <2>2. cmd'[q] = c OBVIOUS
      <2>3. CASE \E a \in LiveParties(c.txn) :
                    a.participant = c.actor /\ a.role \in EdgeOf(c).by \ {"system"}
        BY <1>5, <2>1, <2>2, <2>3 DEF Authorized
      <2>4. CASE ~ \E a \in LiveParties(c.txn) :
                    a.participant = c.actor /\ a.role \in EdgeOf(c).by \ {"system"}
        BY <1>5, <2>2, <2>4 DEF Authorized
      <2> QED BY <2>3, <2>4
    <1>6. LegalFrom(c, row.state) => LegalFrom(cmd[q], snap[q].row.state)' BY DEF LegalFrom
    <1>7. Resolves(c) => Resolves(cmd[q])' BY DEF Resolves
    <1>8. JudgedOK(q) => JudgedOK(q)' BY <1>4, <1>5, <1>6 DEF JudgedOK
    <1>9. DraftOK(q) => DraftOK(q)' BY DEF DraftOK
    <1>10. pc[q] = "batch" => draft'[q].event.gseq \in 1..(EventCount' + 1)
      <2>1. SUFFICES ASSUME pc[q] = "batch" PROVE draft[q].event.gseq \in 1..(EventCount' + 1)
        OBVIOUS
      <2>2. draft[q].event.gseq \in 1..(EventCount + 1) BY <2>1 DEF ProcInv
      <2> QED BY <1>1, <2>2
    <1>11. pc[q] \in Loaded => c \in Command BY DEF ProcInv, Commanded, Resolved
    <1> QED BY <1>3, <1>7, <1>8, <1>9, <1>10, <1>11 DEF ProcInv

\* What the batch writes has its types.
LEMMA RowTyped ==
    ASSUME NEW p \in Procs, DraftOK(p), snap[p] \in Snapshot
    PROVE  /\ RowAfter(p) \in Row
           /\ RowAfter(p).seq = draft[p].event.seq /\ RowAfter(p).state = draft[p].event.to
           /\ RowAfter(p).closed = ClosedAfter(p)
    <1> DEFINE d == draft[p]
               e == d.event
               row == snap[p].row
    <1>1. d \in Draft /\ row \in Row BY DEF DraftOK, Snapshot
    <1>2. e \in Event /\ d.fields \in Payloads /\ d.ref \in Refs \cup {None} BY <1>1 DEF Draft
    <1>3. ClosedAfter(p) \in BOOLEAN
      <2>1. row.closed \in BOOLEAN BY <1>1, RowFields
      <2> QED BY <2>1 DEF ClosedAfter
    <1>4. row.chain \in STRING /\ e.seq \in Nat /\ e.to \in STRING
      BY <1>1, <1>2, RowFields, EventFields
    <1> QED BY <1>2, <1>3, <1>4 DEF RowAfter, Row

\* The timers an event arms are timer rows.
LEMMA ArmedTyped ==
    ASSUME NEW e \in Event, CHAINS[e.chain] \in ChainRecord
    PROVE  ArmedBy(e) \subseteq TimerRow
    <1> SUFFICES ASSUME NEW d \in CHAINS[e.chain].timers
                 PROVE  [txn |-> e.txn, seq |-> e.seq, on |-> d.onState, fire |-> d.fire,
                         due |-> e.at + d.after, class |-> d.class] \in TimerRow
      BY DEF ArmedBy
    <1>1. d \in TimerDecl BY DEF ChainRecord
    <1>2. /\ d.onState \in STRING /\ d.after \in Nat /\ d.fire \in STRING
          /\ d.class \in Classes
      BY <1>1 DEF TimerDecl
    <1>3. e.txn \in Txns /\ e.seq \in Nat \ {0} /\ e.at \in Nat BY DEF Event
    <1>4. e.at + d.after \in Nat BY <1>2, <1>3
    <1> QED BY <1>2, <1>3, <1>4 DEF TimerRow

\* The timer's own commands attach no actor, which would be no participant.
LEMMA PartiesTyped ==
    ASSUME NEW c \in Command, Resolves(c) PROVE NewParties(c) \subseteq Attachment
    <1>1. c.parties \subseteq Attachment /\ c.actor \in Actors BY CommandFields
    <1>2. EdgeOf(c).becomes \in STRING BY EdgeFacts
    <1>3. CASE EdgeOf(c).becomes = Absent \/ c.actor = TimerActor
      BY <1>1, <1>3 DEF NewParties
    <1>4. CASE ~(EdgeOf(c).becomes = Absent \/ c.actor = TimerActor)
      <2>1. c.actor \in Participants BY <1>1, <1>4 DEF Actors
      <2>2. [participant |-> c.actor, role |-> EdgeOf(c).becomes, field |-> Absent]
              \in Attachment
        BY <1>2, <2>1, AbsentAssumption DEF Attachment
      <2> QED BY <1>1, <1>4, <2>2 DEF NewParties
    <1> QED BY <1>3, <1>4

\* A commit keeps the log dense and what every other process relies on.
LEMMA CommitStep ==
    ASSUME IInv, NEW p \in Procs, Commit(p) PROVE IInv'
    <1> DEFINE e == draft[p].event
               c == cmd[p]
               row == snap[p].row
               r == RowAfter(p)
    <1>1. /\ e \in Event /\ c \in Command /\ row \in Row /\ Resolves(c)
          /\ Extends(e, c, row, snap[p].tail)
          /\ row.seq = txns[e.txn].seq
          /\ events' = Append(events, e) /\ txns' = [txns EXCEPT ![e.txn] = r]
          /\ parties' = PartiesAfter(p) /\ timers' = TimersAfter(e)
          /\ claims' = ClaimsAfter(e)
          /\ Answer(p, IF e.rejected THEN "GUARD" ELSE "OK", FALSE)
          /\ UNCHANGED <<env, cmd, sweeping>>
      BY CommitLands
    <1>2. pc[p] = "batch" BY DEF Commit
    <1>3. /\ TypeOK /\ Dense /\ WorkTyped /\ DraftOK(p) /\ snap[p] \in Snapshot
      BY <1>2, Holding DEF Loaded, Judged, Drafted, SnapOK
    <1>4. /\ DbTyped /\ txns \in [Txns -> Row] /\ events \in Seq(Event) /\ e.txn \in Txns
          /\ e.claim \in Payloads \cup {None}
      BY <1>1, <1>3, EventFields DEF TypeOK, DbTyped
    <1>5. r \in Row /\ r.seq = e.seq BY <1>3, RowTyped
    <1>6. e.txn = c.txn /\ e.seq = row.seq + 1 /\ e.chain = c.chain BY <1>1 DEF Extends
    <1> HIDE DEF r
    <1>7. DbTyped'
      <2>1. events' \in Seq(Event) BY <1>1, <1>4
      <2>2. txns' \in [Txns -> Row] BY <1>1, <1>4, <1>5
      <2>3. parties' \subseteq PartyRow /\ parties \subseteq parties'
        <3>1. parties \subseteq PartyRow BY <1>4 DEF DbTyped
        <3>2. \A a \in NewParties(c) :
                 [txn |-> e.txn, participant |-> a.participant, role |-> a.role,
                  field |-> a.field] \in PartyRow
          BY <1>1, <1>4, PartiesTyped DEF Attachment, PartyRow
        <3> QED BY <1>1, <3>1, <3>2 DEF PartiesAfter
      <2>4. timers' \subseteq TimerRow
        <3>1. timers \subseteq TimerRow BY <1>4 DEF DbTyped
        <3>2. ArmedBy(e) \subseteq TimerRow BY <1>1, <1>6, EdgeFacts, ArmedTyped
        <3> QED BY <1>1, <3>1, <3>2 DEF TimersAfter
      <2>5. claims' \subseteq Payloads BY <1>1, <1>4 DEF ClaimsAfter, DbTyped
      <2> QED BY <2>1, <2>2, <2>3, <2>4, <2>5 DEF DbTyped
    <1>8. WorkTyped' /\ pc'[p] = "replied" /\ Others(p)
      <2>1. (IF e.rejected THEN "GUARD" ELSE "OK") \in Codes BY DEF Codes
      <2> QED BY <1>1, <1>3, <2>1, AnswerStep
    <1>9. TypeOK' BY <1>1, <1>3, <1>7, <1>8, Frames DEF TypeOK
    <1>10. parties \subseteq parties' BY <1>1 DEF PartiesAfter
    <1>11. row.seq \in Nat /\ e.seq \in Nat /\ r.seq = txns[e.txn].seq + 1
      BY <1>1, <1>5, <1>6, RowFields, EventFields
    <1>12. ASSUME NEW t \in Txns, NEW s \in Nat
           PROVE  InLog(t, s)' <=> (1 <= s /\ s <= txns'[t].seq)
      <2>1. InLog(t, s)' <=> (InLog(t, s) \/ (t = e.txn /\ s = e.seq))
        BY <1>1, <1>3, InLogGrowth
      <2>2. InLog(t, s) <=> (1 <= s /\ s <= txns[t].seq) BY <1>3, DenseFacts
      <2>3. CASE t = e.txn
        <3>1. txns'[t] = r BY <1>1, <1>4, <2>3
        <3> QED BY <1>1, <1>6, <1>11, <2>1, <2>2, <2>3, <3>1
      <2>4. CASE t # e.txn
        <3>1. txns'[t] = txns[t] BY <1>1, <1>4, <2>4
        <3> QED BY <2>1, <2>2, <2>4, <3>1
      <2> QED BY <2>3, <2>4
    <1>14. Dense'
      <2>1. /\ \A i \in DOMAIN events' : events'[i] \in Event
            /\ \A t \in Txns : txns'[t].seq \in Nat
        BY <1>7, RowFields DEF DbTyped
      <2>2. ASSUME NEW t \in Txns, NEW s \in 1..txns'[t].seq PROVE InLog(t, s)'
        <3>1. s \in Nat /\ 1 <= s /\ s <= txns'[t].seq BY <2>1
        <3> QED BY <1>12, <3>1
      <2>3. ASSUME NEW i \in DOMAIN events'
            PROVE  events'[i].seq \in 1..txns'[events'[i].txn].seq
        <3>1. PICK t \in Txns, s \in Nat : t = events'[i].txn /\ s = events'[i].seq
          BY <2>1, EventFields
        <3>2. InLog(t, s)' BY <3>1 DEF InLog
        <3>3. 1 <= s /\ s <= txns'[t].seq /\ txns'[t].seq \in Nat
          BY <1>12, <2>1, <3>1, <3>2
        <3> QED BY <3>1, <3>3
      <2> QED BY <2>2, <2>3 DEF Dense
    <1>13. ASSUME NEW q \in Procs PROVE ProcInv(q)'
      <2>1. CASE q = p
        <3>1. cmd'[p] \in Command BY <1>1
        <3> QED BY <1>8, <2>1, <3>1, RestingProc
      <2>2. CASE q # p
        <3>1. ProcInv(q) BY DEF IInv, ProcsInv
        <3>2. /\ pc'[q] = pc[q] /\ cmd'[q] = cmd[q]
              /\ snap'[q] = snap[q] /\ draft'[q] = draft[q]
          BY <1>8, <2>2 DEF Others
        <3> QED BY <1>1, <1>3, <1>5, <1>10, <1>11, <3>1, <3>2, ProcGrowth
      <2> QED BY <2>1, <2>2
    <1> QED BY <1>9, <1>13, <1>14 DEF IInv, ProcsInv

-----------------------------------------------------------------------------
(* The sweeps and the environment.                                          *)

\* The rows a sweep takes are rows of v2_timers.
LEMMA SweepListed ==
    ASSUME DbTyped, NEW k, NEW n, NEW T \in Oldest(Due(k, n)) PROVE T \in SUBSET TimerRow
    BY DEF DbTyped, Oldest, Due

\* A sweep lists rows of v2_timers, as of now.
LEMMA StartSweepStep ==
    ASSUME IInv, NEW p \in Procs, StartSweep(p) PROVE IInv'
    <1>1. TypeOK /\ WorkTyped /\ DbTyped /\ SweepTyped BY DEF IInv, TypeOK
    <1>2. PICK T \in Oldest(Due("sla", now)) : todo' = [todo EXCEPT ![p] = T]
      BY DEF StartSweep
    <1>3. T \in SUBSET TimerRow BY <1>1, SweepListed
    <1>4. now \in Nat BY <1>1 DEF TypeOK, EnvTyped
    <1>5. SweepTyped' BY <1>1, <1>2, <1>3, <1>4 DEF SweepTyped, StartSweep, Classes
    <1>6. UNCHANGED <<db, env, cmd, attempt, snap, draft, reply>> /\ Goto(p, "sweep")
      BY DEF StartSweep
    <1>7. WorkTyped' /\ pc'[p] = "sweep" /\ Others(p) BY <1>1, <1>6, GotoStep DEF Labels
    <1>8. TypeOK' /\ UNCHANGED <<events, txns, parties>>
      BY <1>1, <1>5, <1>6, <1>7, Frames DEF TypeOK
    <1> QED BY <1>7, <1>8, EarlyProc, QuietStep

\* The second pass lists rows of v2_timers too.
LEMMA NextClassStep ==
    ASSUME IInv, NEW p \in Procs, NextClass(p) PROVE IInv'
    <1>1. TypeOK /\ DbTyped /\ SweepTyped BY DEF IInv, TypeOK
    <1>2. PICK T \in Oldest(Due("time_bar", cutoff[p])) : todo' = [todo EXCEPT ![p] = T]
      BY DEF NextClass
    <1>3. T \in SUBSET TimerRow BY <1>1, SweepListed
    <1>4. SweepTyped' BY <1>1, <1>2, <1>3 DEF SweepTyped, NextClass, Classes
    <1>5. UNCHANGED <<db, env, work>> /\ pc[p] = "sweep" BY DEF NextClass
    <1>6. WorkTyped' BY <1>1, <1>5 DEF TypeOK, WorkTyped, work
    <1>7. TypeOK' /\ UNCHANGED <<events, txns, parties>>
      BY <1>1, <1>4, <1>5, <1>6, Frames DEF TypeOK
    <1>8. Others(p) /\ pc'[p] = "sweep" BY <1>5 DEF Others, work
    <1> QED BY <1>7, <1>8, EarlyProc, QuietStep

\* A sweep that ends holds nothing.
LEMMA EndSweepStep ==
    ASSUME IInv, NEW p \in Procs, EndSweep(p) PROVE IInv'
    <1>1. TypeOK /\ WorkTyped /\ SweepTyped BY DEF IInv, TypeOK
    <1>2. SweepTyped' BY <1>1 DEF SweepTyped, EndSweep
    <1>3. UNCHANGED <<db, env, cmd, attempt, snap, draft, reply>> /\ Goto(p, "idle")
      BY DEF EndSweep
    <1>4. WorkTyped' /\ pc'[p] = "idle" /\ Others(p) BY <1>1, <1>3, GotoStep DEF Labels
    <1>5. TypeOK' /\ UNCHANGED <<events, txns, parties>>
      BY <1>1, <1>2, <1>3, <1>4, Frames DEF TypeOK
    <1> QED BY <1>4, <1>5, EarlyProc, QuietStep

\* The command the sweep builds from a timer row and the row of its txn.
LEMMA FireTyped ==
    ASSUME NEW t \in TimerRow, NEW row \in Row PROVE Fire(t, row) \in Command
    <1>1. TimerKey(t) \in TimerKeys BY TimerKeyTyped
    <1>2. t.txn \in Txns /\ t.fire \in STRING BY DEF TimerRow
    <1>3. row.chain \in STRING /\ row.seq \in Nat BY RowFields
    <1>4. (\E d \in CHAINS[row.chain].timers : d.onState = t.on /\ d.fire = t.fire /\ d.reason)
             \in BOOLEAN
      OBVIOUS
    <1>5. Blank \in Payloads BY PayloadsAssumption
    <1> QED BY <1>1, <1>2, <1>3, <1>4, <1>5 DEF Fire, Command, Actors

\* The command of a fired timer is a command.
LEMMA VisitStep ==
    ASSUME IInv, NEW p \in Procs, Visit(p) PROVE IInv'
    <1>1. TypeOK /\ WorkTyped /\ DbTyped /\ SweepTyped BY DEF IInv, TypeOK
    <1>2. PICK t \in todo[p] :
             /\ todo' = [todo EXCEPT ![p] = @ \ {t}]
             /\ IF txns[t.txn].seq = 0 \/ txns[t.txn].closed
                THEN /\ timers' = timers \ {t}
                     /\ UNCHANGED <<cmd, timer, pc>>
                ELSE /\ cmd' = [cmd EXCEPT ![p] = Fire(t, txns[t.txn])]
                     /\ timer' = [timer EXCEPT ![p] = t]
                     /\ Goto(p, "lookup")
                     /\ UNCHANGED timers
      BY DEF Visit
    <1>3. t \in TimerRow /\ txns[t.txn] \in Row
      <2>1. t \in TimerRow BY <1>1 DEF SweepTyped
      <2> QED BY <1>1, <2>1, TablesTyped DEF TimerRow
    <1>4. /\ pc[p] = "sweep"
          /\ UNCHANGED <<events, txns, parties, claims, env, attempt, snap, draft, reply,
                         class, cutoff>>
      BY DEF Visit
    <1>5. EnvTyped' BY <1>1, <1>4, Frames
    <1>6. CASE txns[t.txn].seq = 0 \/ txns[t.txn].closed
      <2>1. timers' = timers \ {t} /\ UNCHANGED <<cmd, timer, pc>> BY <1>2, <1>6
      <2>2. DbTyped' BY <1>1, <1>4, <2>1 DEF DbTyped
      <2>3. SweepTyped' BY <1>1, <1>2, <1>4, <2>1 DEF SweepTyped
      <2>4. WorkTyped' BY <1>1, <1>4, <2>1 DEF WorkTyped
      <2>5. Others(p) /\ pc'[p] = "sweep" BY <1>4, <2>1 DEF Others
      <2> QED BY <1>4, <1>5, <2>2, <2>3, <2>4, <2>5, EarlyProc, QuietStep DEF TypeOK
    <1>7. CASE ~(txns[t.txn].seq = 0 \/ txns[t.txn].closed)
      <2>1. /\ cmd' = [cmd EXCEPT ![p] = Fire(t, txns[t.txn])]
            /\ timer' = [timer EXCEPT ![p] = t] /\ pc' = [pc EXCEPT ![p] = "lookup"]
            /\ UNCHANGED timers
        BY <1>2, <1>7 DEF Goto
      <2>2. Fire(t, txns[t.txn]) \in Command BY <1>3, FireTyped
      <2>3. DbTyped' BY <1>1, <1>4, <2>1 DEF DbTyped
      <2>4. SweepTyped' BY <1>1, <1>2, <1>3, <1>4, <2>1 DEF SweepTyped
      <2>5. WorkTyped' /\ Others(p) /\ pc'[p] = "lookup" /\ cmd'[p] \in Command
        BY <1>1, <1>4, <2>1, <2>2 DEF WorkTyped, Others, Labels
      <2> QED BY <1>4, <1>5, <2>3, <2>4, <2>5, EarlyProc, QuietStep DEF TypeOK
    <1> QED BY <1>6, <1>7

\* Deleting the fired row concerns no process.
LEMMA AfterFireStep ==
    ASSUME IInv, NEW p \in Procs, AfterFire(p) PROVE IInv'
    <1>1. TypeOK /\ WorkTyped /\ DbTyped /\ SweepTyped BY DEF IInv, TypeOK
    <1>2. /\ timers' \subseteq timers /\ pc' = [pc EXCEPT ![p] = "sweep"]
          /\ cmd' = [cmd EXCEPT ![p] = None] /\ timer' = [timer EXCEPT ![p] = None]
          /\ reply' = [reply EXCEPT ![p] = None]
          /\ UNCHANGED <<events, txns, parties, claims, env, attempt, snap, draft, class,
                         cutoff, todo>>
      BY DEF AfterFire, Goto
    <1>3. DbTyped' BY <1>1, <1>2 DEF DbTyped
    <1>4. EnvTyped' BY <1>1, <1>2, Frames
    <1>5. SweepTyped' BY <1>1, <1>2 DEF SweepTyped
    <1>6. WorkTyped' /\ Others(p) /\ pc'[p] = "sweep"
      BY <1>1, <1>2 DEF WorkTyped, Others, Labels
    <1> QED BY <1>2, <1>3, <1>4, <1>5, <1>6, EarlyProc, QuietStep DEF TypeOK

\* A process that dies holds nothing.
LEMMA CrashStep ==
    ASSUME IInv, NEW p \in Procs, Crash(p) PROVE IInv'
    <1>1. TypeOK /\ WorkTyped /\ EnvTyped /\ SweepTyped BY DEF IInv, TypeOK
    <1>2. UNCHANGED <<db, halted, now, flips, repeats, used, copies, issued>> BY DEF Crash
    <1>3. DbTyped' /\ UNCHANGED <<events, txns, parties>> BY <1>1, <1>2, Frames
    <1>4. EnvTyped' BY <1>1, <1>2 DEF EnvTyped, Crash
    <1>5. SweepTyped' BY <1>1 DEF SweepTyped, Crash
    <1>6. WorkTyped' /\ Others(p) /\ pc'[p] = "idle"
      BY <1>1 DEF WorkTyped, Others, Labels, Crash, Goto
    <1> QED BY <1>3, <1>4, <1>5, <1>6, EarlyProc, QuietStep DEF TypeOK

\* The clock and the halt flag concern no process between two of its calls.
LEMMA ClockStep ==
    ASSUME IInv, Tick \/ FlipHalt PROVE IInv'
    <1>1. TypeOK /\ WorkTyped /\ EnvTyped BY DEF IInv, TypeOK
    <1>2. UNCHANGED <<db, work, sweeping>> BY DEF Tick, FlipHalt
    <1>3. EnvTyped'
      <2>1. CASE Tick BY <1>1, <2>1 DEF EnvTyped, Tick
      <2>2. CASE FlipHalt
        <3>1. halted' \in BOOLEAN BY <2>2 DEF FlipHalt
        <3> QED BY <1>1, <2>2, <3>1 DEF EnvTyped, FlipHalt
      <2> QED BY <2>1, <2>2
    <1>4. WorkTyped' BY <1>1, <1>2 DEF WorkTyped, work
    <1>5. TypeOK' /\ UNCHANGED <<events, txns, parties>>
      BY <1>1, <1>2, <1>3, <1>4, Frames DEF TypeOK
    <1>6. Dense' BY <1>5 DEF IInv, Dense, InLog
    <1>7. ASSUME NEW q \in Procs PROVE ProcInv(q)'
      <2>1. ProcInv(q) BY DEF IInv, ProcsInv
      <2>2. /\ pc'[q] = pc[q] /\ cmd'[q] = cmd[q]
            /\ snap'[q] = snap[q] /\ draft'[q] = draft[q]
        BY <1>2 DEF work
      <2> QED BY <1>5, <2>1, <2>2, ProcFrame
    <1> QED BY <1>5, <1>6, <1>7 DEF IInv, ProcsInv

-----------------------------------------------------------------------------
(* The invariant.                                                           *)

\* The invariant holds of the empty store.
LEMMA InitIInv == Init => IInv
    <1> SUFFICES ASSUME Init PROVE IInv
      OBVIOUS
    <1>1. NoRow \in Row /\ NoRow.seq = 0
      BY AbsentAssumption, PayloadsAssumption DEF NoRow, Row
    <1>2. DbTyped BY <1>1 DEF Init, DbTyped
    <1>3. EnvTyped BY DEF Init, EnvTyped
    <1>4. WorkTyped BY DEF Init, WorkTyped, Labels
    <1>5. SweepTyped BY DEF Init, SweepTyped
    <1>6. Dense BY <1>1 DEF Init, Dense, InLog
    <1>7. ASSUME NEW p \in Procs PROVE ProcInv(p)
      <2>1. pc[p] = "idle" BY DEF Init
      <2> QED BY <2>1 DEF ProcInv, Drafted, Judged, Loaded, Resolved, Commanded
    <1> QED BY <1>2, <1>3, <1>4, <1>5, <1>6, <1>7 DEF IInv, TypeOK, ProcsInv

\* Every step of every process keeps the invariant.
LEMMA NextIInv == IInv /\ [Next]_vars => IInv'
    <1> SUFFICES ASSUME IInv, [Next]_vars PROVE IInv'
      OBVIOUS
    <1>1. ASSUME NEW p \in Clients, Request(p) PROVE IInv'
      <2>1. p \in Procs BY DEF Procs
      <2> QED BY <1>1, <2>1, SendStep, RedeliverStep, ReceiveStep, ReadTokenStep DEF Request
    <1>2. ASSUME NEW p \in Sweepers, Sweep(p) PROVE IInv'
      <2>1. p \in Procs BY DEF Procs
      <2> QED BY <1>2, <2>1, StartSweepStep, NextClassStep, EndSweepStep, VisitStep,
                AfterFireStep DEF Sweep
    <1>3. ASSUME NEW p \in Procs, Engine(p) PROVE IInv'
      <2>1. CASE Lookup(p) \/ Load(p) \/ LoadTail(p) \/ RunGuards(p)
        BY <2>1, LookupStep, LoadStep, LoadTailStep, RunGuardsStep
      <2>2. CASE PreCheckKey(p) \/ PreCheckSeq(p) \/ PreCheckClaim(p) \/ CountEvents(p)
        BY <2>2, PreCheckKeyStep, PreCheckSeqStep, PreCheckClaimStep, CountEventsStep
      <2>3. CASE Commit(p) \/ AbortBatch(p) \/ ReplayRaced(p)
        BY <2>3, CommitStep, AbortBatchStep, ReplayRacedStep
      <2> QED BY <1>3, <2>1, <2>2, <2>3 DEF Engine
    <1>4. ASSUME NEW p \in Procs, Crash(p) PROVE IInv'
      BY <1>4, CrashStep
    <1>5. CASE Tick \/ FlipHalt BY <1>5, ClockStep
    <1>6. CASE UNCHANGED vars
      <2>1. UNCHANGED <<db, env, work, sweeping>> BY <1>6 DEF vars
      <2>2. TypeOK' BY <2>1
        DEF IInv, TypeOK, DbTyped, EnvTyped, WorkTyped, SweepTyped, db, env, work, sweeping
      <2>3. UNCHANGED <<events, txns, parties>> BY <2>1 DEF db
      <2>4. Dense' BY <2>3 DEF IInv, Dense, InLog
      <2>5. ASSUME NEW q \in Procs PROVE ProcInv(q)'
        <3>1. ProcInv(q) BY DEF IInv, ProcsInv
        <3>2. /\ pc'[q] = pc[q] /\ cmd'[q] = cmd[q]
              /\ snap'[q] = snap[q] /\ draft'[q] = draft[q]
          BY <2>1 DEF work
        <3> QED BY <2>3, <3>1, <3>2, ProcFrame
      <2> QED BY <2>2, <2>4, <2>5 DEF IInv, ProcsInv
    <1> QED BY <1>1, <1>2, <1>3, <1>4, <1>5, <1>6 DEF Next

\* What every process relies on holds in every reachable state.
THEOREM Inductive == Spec => []IInv
    BY InitIInv, NextIInv, PTL DEF Spec

\* Rows, commands, drafts and answers keep their types for every chain and
\* every input the assumptions allow.
THEOREM TypeCorrect == Spec => []TypeOK
    <1>1. IInv => TypeOK BY DEF IInv
    <1> QED BY <1>1, Inductive, PTL

-----------------------------------------------------------------------------
(* One writer.                                                              *)

\* What the log, the rows, the parties and the claims are made of.
tables == <<events, txns, parties, claims>>

\* Only the batch of a commit writes to the log and its projections; the
\* sweeps also delete timer rows.
LEMMA OnlyCommitWrites ==
    ASSUME [Next]_vars
    PROVE  \/ \E p \in Procs : Commit(p)
           \/ UNCHANGED tables /\ timers' \subseteq timers
    <1>1. ASSUME NEW p \in Clients, Request(p) PROVE UNCHANGED db
      BY <1>1 DEF Request, Send, Redeliver, Receive, ReadToken
    <1>2. ASSUME NEW p \in Sweepers, Sweep(p) PROVE UNCHANGED tables /\ timers' \subseteq timers
      <2>1. CASE StartSweep(p) \/ NextClass(p) \/ EndSweep(p)
        BY <2>1 DEF StartSweep, NextClass, EndSweep, db, tables
      <2>2. CASE Visit(p)
        <3>1. UNCHANGED tables BY <2>2 DEF Visit, tables
        <3>2. timers' \subseteq timers BY <2>2 DEF Visit
        <3> QED BY <3>1, <3>2
      <2>3. CASE AfterFire(p)
        <3>1. UNCHANGED tables BY <2>3 DEF AfterFire, tables
        <3>2. timers' \subseteq timers BY <2>3 DEF AfterFire
        <3> QED BY <3>1, <3>2
      <2> QED BY <1>2, <2>1, <2>2, <2>3 DEF Sweep
    <1>3. ASSUME NEW p \in Procs, Engine(p), ~Commit(p) PROVE UNCHANGED db
      BY <1>3 DEF Engine, Lookup, Load, LoadTail, RunGuards, PreCheckKey, PreCheckSeq,
                  PreCheckClaim, CountEvents, AbortBatch, ReplayRaced
    <1>4. ASSUME NEW p \in Procs, Crash(p) PROVE UNCHANGED db
      BY <1>4 DEF Crash
    <1>5. CASE Tick \/ FlipHalt BY <1>5 DEF Tick, FlipHalt, db, tables
    <1>6. CASE UNCHANGED vars BY <1>6 DEF vars, db, tables
    <1>7. UNCHANGED db => UNCHANGED tables /\ timers' \subseteq timers BY DEF db, tables
    <1> QED BY <1>1, <1>2, <1>3, <1>4, <1>5, <1>6, <1>7 DEF Next

\* What a commit does, seen from the log: the n-th event is appended and
\* extends its txn's row of now along an edge.
LEMMA LandedEvent ==
    ASSUME IInv, NEW p \in Procs, Commit(p),
           NEW e, e = draft[p].event, NEW n, n = EventCount + 1
    PROVE  /\ TypeOK /\ e \in Event /\ n \in Nat /\ n >= 1
           /\ events' = Append(events, e)
           /\ DOMAIN events = 1..(n - 1) /\ DOMAIN events' = 1..n
           /\ \A i \in DOMAIN events : i \in DOMAIN events' /\ i < n /\ events'[i] = events[i]
           /\ n \in DOMAIN events' /\ n \notin DOMAIN events /\ events'[n] = e
           /\ \A i \in DOMAIN events' : i \in DOMAIN events \/ i = n
           /\ \A i \in DOMAIN events : events[i] \in Event
           /\ e.seq = txns[e.txn].seq + 1 /\ txns[e.txn].seq \in Nat
           /\ \A i \in DOMAIN events :
                 events[i].txn = e.txn => 1 <= events[i].seq /\ events[i].seq <= txns[e.txn].seq
    <1> DEFINE row == snap[p].row
    <1>1. /\ e \in Event /\ Extends(e, cmd[p], row, snap[p].tail)
          /\ row.seq = txns[e.txn].seq /\ events' = Append(events, e)
      BY CommitLands
    <1>2. TypeOK /\ Dense BY DEF IInv
    <1>3. /\ EventCount \in Nat /\ DOMAIN events = 1..EventCount
          /\ DOMAIN events' = 1..(EventCount + 1)
          /\ \A i \in DOMAIN events : i \in DOMAIN events' /\ events'[i] = events[i]
          /\ events'[EventCount + 1] = e
          /\ \A i \in DOMAIN events' : i \in DOMAIN events \/ i = EventCount + 1
      BY <1>1, <1>2, LogGrowth
    <1>4. \A i \in DOMAIN events : events[i] \in Event BY <1>2, TablesTyped
    <1>5. e.seq = txns[e.txn].seq + 1 BY <1>1 DEF Extends
    <1>6. txns[e.txn].seq \in Nat /\ e.txn \in Txns
      BY <1>1, <1>2, EventFields, TablesTyped, RowFields
    <1>7. ASSUME NEW i \in DOMAIN events, events[i].txn = e.txn
          PROVE  1 <= events[i].seq /\ events[i].seq <= txns[e.txn].seq
      <2>1. InLog(e.txn, events[i].seq) BY <1>7 DEF InLog
      <2>2. events[i].seq \in Nat BY <1>4, EventFields
      <2> QED BY <1>2, <1>6, <2>1, <2>2, DenseFacts
    <1>8. n \in Nat /\ n >= 1 /\ DOMAIN events = 1..(n - 1) /\ DOMAIN events' = 1..n
      BY <1>3
    <1>9. \A i \in DOMAIN events : i < n BY <1>8
    <1>10. n \in DOMAIN events' /\ n \notin DOMAIN events BY <1>8
    <1> QED BY <1>1, <1>2, <1>3, <1>4, <1>5, <1>6, <1>7, <1>8, <1>9, <1>10

-----------------------------------------------------------------------------
(* The log.                                                                 *)

\* The COUNT of a batch that lands is still the number of events: with the
\* numbers 1..n-1 all taken, a free one of 1..n can only be n.
LEMMA GlobalOrderStep ==
    ASSUME IInv, GlobalOrder, NEW p \in Procs, Commit(p) PROVE GlobalOrder'
    <1> DEFINE e == draft[p].event
               n == EventCount + 1
    <1>1. /\ n \in Nat /\ n >= 1 /\ DOMAIN events = 1..(n - 1)
          /\ \A i \in DOMAIN events : events'[i] = events[i]
          /\ events'[n] = e
          /\ \A i \in DOMAIN events' : i \in DOMAIN events \/ i = n
      BY LandedEvent
    <1>2. e.gseq \in 1..n /\ ~GlobalSeqUsed(e.gseq) BY CommitLands
    <1>3. e.gseq \notin DOMAIN events BY <1>2 DEF GlobalOrder, GlobalSeqUsed
    <1>4. e.gseq = n BY <1>1, <1>2, <1>3
    <1> QED BY <1>1, <1>4 DEF GlobalOrder

\* global_seq numbers the log in insertion order, however the COUNTs and the
\* batches of concurrent commits interleave.
THEOREM GlobalOrderHolds == Spec => []GlobalOrder
    <1>1. Init => GlobalOrder BY DEF Init, GlobalOrder
    <1>2. IInv /\ GlobalOrder /\ [Next]_vars => GlobalOrder'
      <2> SUFFICES ASSUME IInv, GlobalOrder, [Next]_vars PROVE GlobalOrder'
        OBVIOUS
      <2>1. CASE \E p \in Procs : Commit(p) BY <2>1, GlobalOrderStep
      <2>2. CASE UNCHANGED tables BY <2>2 DEF tables, GlobalOrder
      <2> QED BY <2>1, <2>2, OnlyCommitWrites
    <1> QED BY <1>1, <1>2, Inductive, PTL DEF Spec

\* The UNIQUE index on idempotency_key lets no second event with a key land.
LEMMA OncePerKeyStep ==
    ASSUME IInv, OncePerKey, NEW p \in Procs, Commit(p) PROVE OncePerKey'
    <1> DEFINE e == draft[p].event
               n == EventCount + 1
    <1>1. /\ \A i \in DOMAIN events : events'[i] = events[i]
          /\ events'[n] = e
          /\ \A i \in DOMAIN events' : i \in DOMAIN events \/ i = n
      BY LandedEvent
    <1>2. \A i \in DOMAIN events : events[i].key # e.key BY CommitLands DEF KeyUsed
    <1> QED BY <1>1, <1>2 DEF OncePerKey

\* However often and however late a command is delivered, at most one event
\* carries its key.
THEOREM OncePerKeyHolds == Spec => []OncePerKey
    <1>1. Init => OncePerKey BY DEF Init, OncePerKey
    <1>2. IInv /\ OncePerKey /\ [Next]_vars => OncePerKey'
      <2> SUFFICES ASSUME IInv, OncePerKey, [Next]_vars PROVE OncePerKey'
        OBVIOUS
      <2>1. CASE \E p \in Procs : Commit(p) BY <2>1, OncePerKeyStep
      <2>2. CASE UNCHANGED tables BY <2>2 DEF tables, OncePerKey
      <2> QED BY <2>1, <2>2, OnlyCommitWrites
    <1> QED BY <1>1, <1>2, Inductive, PTL DEF Spec

\* The landed event takes the seq after the last one of its txn.
LEMMA GaplessStep ==
    ASSUME IInv, GaplessPerTxn, NEW p \in Procs, Commit(p) PROVE GaplessPerTxn'
    <1> DEFINE e == draft[p].event
               n == EventCount + 1
    <1>1. /\ e \in Event /\ n \in Nat /\ n >= 1
          /\ DOMAIN events = 1..(n - 1) /\ DOMAIN events' = 1..n
          /\ \A i \in DOMAIN events : i < n /\ events'[i] = events[i]
          /\ events'[n] = e
          /\ \A i \in DOMAIN events' : i \in DOMAIN events \/ i = n
          /\ \A i \in DOMAIN events : events[i] \in Event
          /\ e.seq = txns[e.txn].seq + 1 /\ txns[e.txn].seq \in Nat
          /\ \A i \in DOMAIN events :
                events[i].txn = e.txn => 1 <= events[i].seq /\ events[i].seq <= txns[e.txn].seq
      BY LandedEvent
    <1>2. ASSUME NEW i \in DOMAIN events, events[i].txn = e.txn PROVE events[i].seq < e.seq
      <2>1. events[i].seq \in Nat BY <1>1, EventFields
      <2> QED BY <1>1, <1>2, <2>1
    <1>3. e.seq = 1 \/ \E j \in 1..(n - 1) : /\ events[j].txn = e.txn
                                             /\ events[j].seq = e.seq - 1
      <2>1. CASE txns[e.txn].seq = 0 BY <1>1, <2>1
      <2>2. CASE txns[e.txn].seq # 0
        <3>1. Dense /\ e.txn \in Txns BY <1>1, EventFields DEF IInv
        <3>2. InLog(e.txn, txns[e.txn].seq) BY <1>1, <2>2, <3>1, DenseFacts DEF IInv
        <3>3. PICK j \in DOMAIN events : /\ events[j].txn = e.txn
                                         /\ events[j].seq = txns[e.txn].seq
          BY <3>2 DEF InLog
        <3>4. txns[e.txn].seq = e.seq - 1 BY <1>1
        <3> QED BY <1>1, <3>3, <3>4
      <2> QED BY <2>1, <2>2
    <1>4. ASSUME NEW i \in DOMAIN events', NEW j \in DOMAIN events', i < j,
                 events'[i].txn = events'[j].txn
          PROVE  events'[i].seq < events'[j].seq
      <2>1. CASE j \in DOMAIN events
        <3>1. i \in DOMAIN events BY <1>1, <1>4, <2>1
        <3> QED BY <1>1, <1>4, <2>1, <3>1 DEF GaplessPerTxn
      <2>2. CASE j = n
        <3>1. i \in DOMAIN events BY <1>1, <1>4, <2>2
        <3> QED BY <1>1, <1>2, <1>4, <2>2, <3>1
      <2> QED BY <1>1, <2>1, <2>2
    <1>5. ASSUME NEW i \in DOMAIN events'
          PROVE  \/ events'[i].seq = 1
                 \/ \E j \in 1..(i - 1) : /\ events'[j].txn = events'[i].txn
                                          /\ events'[j].seq = events'[i].seq - 1
      <2>1. CASE i \in DOMAIN events
        <3>1. \A j \in 1..(i - 1) : events'[j] = events[j] BY <1>1, <2>1
        <3> QED BY <1>1, <2>1, <3>1 DEF GaplessPerTxn
      <2>2. CASE i = n
        <3>1. \A j \in 1..(n - 1) : events'[j] = events[j] BY <1>1
        <3> QED BY <1>1, <1>3, <2>2, <3>1
      <2> QED BY <1>1, <2>1, <2>2
    <1> QED BY <1>4, <1>5 DEF GaplessPerTxn

\* Each txn's events are numbered 1, 2, 3, ... in the order they landed.
THEOREM GaplessHolds == Spec => []GaplessPerTxn
    <1>1. Init => GaplessPerTxn BY DEF Init, GaplessPerTxn
    <1>2. IInv /\ GaplessPerTxn /\ [Next]_vars => GaplessPerTxn'
      <2> SUFFICES ASSUME IInv, GaplessPerTxn, [Next]_vars PROVE GaplessPerTxn'
        OBVIOUS
      <2>1. CASE \E p \in Procs : Commit(p) BY <2>1, GaplessStep
      <2>2. CASE UNCHANGED tables BY <2>2 DEF tables, GaplessPerTxn
      <2> QED BY <2>1, <2>2, OnlyCommitWrites
    <1> QED BY <1>1, <1>2, Inductive, PTL DEF Spec

\* The tail may be newer than the row, but then the row's successor is taken
\* and the batch does not land.
LEMMA HashLinkedStep ==
    ASSUME IInv, HashLinked, NEW p \in Procs, Commit(p) PROVE HashLinked'
    <1> DEFINE e == draft[p].event
               n == EventCount + 1
               c == cmd[p]
               row == snap[p].row
    <1>1. /\ n \in Nat
          /\ \A i \in DOMAIN events : i \in DOMAIN events' /\ events'[i] = events[i]
          /\ n \in DOMAIN events' /\ events'[n] = e
          /\ \A i \in DOMAIN events' : i \in DOMAIN events \/ i = n
          /\ \A i \in DOMAIN events : events[i] \in Event
          /\ e.seq = txns[e.txn].seq + 1 /\ txns[e.txn].seq \in Nat
          /\ \A i \in DOMAIN events :
                events[i].txn = e.txn => 1 <= events[i].seq /\ events[i].seq <= txns[e.txn].seq
      BY LandedEvent
    <1>2. /\ Extends(e, c, row, snap[p].tail) /\ TailOK(p) /\ row.seq = txns[e.txn].seq
          /\ (IsNew(c) => row.seq = 0) /\ (~IsNew(c) => row.seq > 0)
      BY CommitLands
    <1>3. e.txn = c.txn /\ e.chain = c.chain /\ e.prev = snap[p].tail BY <1>2 DEF Extends
    <1>4. IF e.seq = 1 THEN e.prev = Genesis(e.chain)
          ELSE \E j \in DOMAIN events : /\ events[j].txn = e.txn
                                        /\ events[j].seq = e.seq - 1
                                        /\ e.prev = HashOf(events[j])
      <2>1. CASE IsNew(c)
        <3>1. e.seq = 1 BY <1>1, <1>2, <2>1
        <3>2. snap[p].tail = Genesis(c.chain) BY <1>2, <2>1 DEF TailOK
        <3> QED BY <1>3, <3>1, <3>2
      <2>2. CASE ~IsNew(c)
        <3>1. PICK i \in DOMAIN events : /\ events[i].txn = c.txn
                                         /\ events[i].seq >= row.seq
                                         /\ snap[p].tail = HashOf(events[i])
          BY <1>2, <2>2 DEF TailOK
        <3>2. events[i].seq \in Nat BY <1>1, EventFields
        <3>3. events[i].seq = txns[e.txn].seq BY <1>1, <1>2, <1>3, <3>1, <3>2
        <3>4. e.seq # 1 /\ e.seq - 1 = txns[e.txn].seq BY <1>1, <1>2, <2>2
        <3> QED BY <1>3, <3>1, <3>3, <3>4
      <2> QED BY <2>1, <2>2
    <1>5. ASSUME NEW i \in DOMAIN events'
          PROVE  IF events'[i].seq = 1
                 THEN events'[i].prev = Genesis(events'[i].chain)
                 ELSE \E j \in DOMAIN events' : /\ events'[j].txn = events'[i].txn
                                                /\ events'[j].seq = events'[i].seq - 1
                                                /\ events'[i].prev = HashOf(events'[j])
      <2>1. CASE i \in DOMAIN events
        <3>1. IF events[i].seq = 1
              THEN events[i].prev = Genesis(events[i].chain)
              ELSE \E j \in DOMAIN events : /\ events[j].txn = events[i].txn
                                            /\ events[j].seq = events[i].seq - 1
                                            /\ events[i].prev = HashOf(events[j])
          BY <2>1 DEF HashLinked
        <3> QED BY <1>1, <2>1, <3>1
      <2>2. CASE i = n BY <1>1, <1>4, <2>2
      <2> QED BY <1>1, <2>1, <2>2
    <1>6. \A h : HashOf(h)' = HashOf(h) BY DEF HashOf
    <1> QED BY <1>5, <1>6 DEF HashLinked

\* Every event's prev_hash is the hash of its predecessor in the txn's log.
THEOREM HashLinkedHolds == Spec => []HashLinked
    <1>1. Init => HashLinked BY DEF Init, HashLinked
    <1>2. IInv /\ HashLinked /\ [Next]_vars => HashLinked'
      <2> SUFFICES ASSUME IInv, HashLinked, [Next]_vars PROVE HashLinked'
        OBVIOUS
      <2>1. CASE \E p \in Procs : Commit(p) BY <2>1, HashLinkedStep
      <2>2. CASE UNCHANGED tables BY <2>2 DEF tables, HashLinked
      <2> QED BY <2>1, <2>2, OnlyCommitWrites
    <1> QED BY <1>1, <1>2, Inductive, PTL DEF Spec

-----------------------------------------------------------------------------
(* The projections.                                                         *)

\* The row a commit writes is the projection of the log with its event.
LEMMA ProjectionStep ==
    ASSUME IInv, Projection, NEW p \in Procs, Commit(p) PROVE Projection'
    <1> DEFINE e == draft[p].event
               c == cmd[p]
               row == snap[p].row
               r == RowAfter(p)
    <1> PICK n : n = EventCount + 1 OBVIOUS
    <1>1. /\ TypeOK /\ e \in Event /\ n \in Nat
          /\ \A i \in DOMAIN events : i \in DOMAIN events' /\ i < n /\ events'[i] = events[i]
          /\ n \in DOMAIN events' /\ events'[n] = e
          /\ \A i \in DOMAIN events' : i \in DOMAIN events \/ i = n
          /\ DOMAIN events' = 1..n
      BY LandedEvent
    <1>2. /\ row.seq = txns[e.txn].seq /\ row \in Row
          /\ IsNew(c) => row.seq = 0 /\ ~row.closed
          /\ ~IsNew(c) => row = txns[e.txn]
          /\ txns' = [txns EXCEPT ![e.txn] = r]
      BY CommitLands
    <1>3. pc[p] = "batch" BY DEF Commit
    <1>4. DraftOK(p) /\ snap[p] \in Snapshot
      BY <1>3, Holding DEF Loaded, Judged, Drafted, SnapOK
    <1>5. r.seq = e.seq /\ r.state = e.to /\ r.closed = ClosedAfter(p) BY <1>4, RowTyped
    <1>6. ClosedAfter(p) <=> (row.closed \/ Closes(e)) BY DEF ClosedAfter, Closes, Accepted
    <1>7. txns \in [Txns -> Row] /\ e.txn \in Txns /\ e.seq \in Nat /\ e.seq >= 1
      BY <1>1, EventFields DEF TypeOK, DbTyped
    <1>8. row.closed <=> \E i \in DOMAIN events : events[i].txn = e.txn /\ Closes(events[i])
      <2>1. CASE IsNew(c)
        <3>1. \A i \in DOMAIN events : events[i].txn # e.txn
          BY <1>2, <1>7, <2>1 DEF Projection
        <3> QED BY <1>2, <2>1, <3>1
      <2>2. CASE ~IsNew(c) BY <1>2, <1>7, <2>2 DEF Projection
      <2> QED BY <2>1, <2>2
    <1> HIDE DEF r
    <1> SUFFICES ASSUME NEW t \in Txns
                 PROVE  /\ txns'[t].seq = 0 => \A i \in DOMAIN events' : events'[i].txn # t
                        /\ txns'[t].seq > 0 =>
                              \E i \in DOMAIN events' :
                                 /\ Last(t, i)'
                                 /\ txns'[t].seq = events'[i].seq
                                 /\ txns'[t].state = events'[i].to
                        /\ txns'[t].closed <=>
                              \E i \in DOMAIN events' : events'[i].txn = t /\ Closes(events'[i])
      BY DEF Projection, Closes, Accepted
    <1>9. CASE t = e.txn
      <2>1. txns'[t] = r BY <1>2, <1>7, <1>9
      <2>2. Last(t, n)'
        <3>1. \A j \in DOMAIN events' : j <= n BY <1>1
        <3> QED BY <1>1, <1>9, <3>1 DEF Last
      <2>3. r.closed <=> \E i \in DOMAIN events' : events'[i].txn = t /\ Closes(events'[i])
        BY <1>1, <1>5, <1>6, <1>8, <1>9
      <2>4. txns'[t].seq # 0 BY <1>5, <1>7, <2>1
      <2> QED BY <1>1, <1>5, <2>1, <2>2, <2>3, <2>4
    <1>10. CASE t # e.txn
      <2>1. txns'[t] = txns[t] BY <1>2, <1>7, <1>10
      <2>2. \A i \in DOMAIN events' : events'[i].txn = t => i \in DOMAIN events
        BY <1>1, <1>10
      <2>3. txns[t].seq = 0 => \A i \in DOMAIN events' : events'[i].txn # t
        BY <1>1, <2>2 DEF Projection
      <2>4. ASSUME txns[t].seq > 0
            PROVE  \E i \in DOMAIN events' : /\ Last(t, i)'
                                             /\ txns[t].seq = events'[i].seq
                                             /\ txns[t].state = events'[i].to
        <3>1. PICK i \in DOMAIN events : /\ Last(t, i)
                                         /\ txns[t].seq = events[i].seq
                                         /\ txns[t].state = events[i].to
          BY <2>4 DEF Projection
        <3>2. events[i].txn = t /\ \A j \in DOMAIN events : events[j].txn = t => j <= i
          BY <3>1 DEF Last
        <3>3. \A j \in DOMAIN events' : events'[j].txn = t => j <= i
          BY <1>1, <2>2, <3>2
        <3>4. Last(t, i)' BY <1>1, <3>2, <3>3 DEF Last
        <3> QED BY <1>1, <3>1, <3>4
      <2>5. txns[t].closed <=>
               \E i \in DOMAIN events' : events'[i].txn = t /\ Closes(events'[i])
        <3>1. txns[t].closed <=>
                 \E i \in DOMAIN events : events[i].txn = t /\ Closes(events[i])
          BY DEF Projection
        <3> QED BY <1>1, <2>2, <3>1
      <2> QED BY <2>1, <2>3, <2>4, <2>5
    <1> QED BY <1>9, <1>10

\* The txn row is the projection of its log, in every reachable state.
THEOREM ProjectionHolds == Spec => []Projection
    <1>1. Init => Projection BY DEF Init, Projection, NoRow
    <1>2. IInv /\ Projection /\ [Next]_vars => Projection'
      <2> SUFFICES ASSUME IInv, Projection, [Next]_vars PROVE Projection'
        OBVIOUS
      <2>1. CASE \E p \in Procs : Commit(p) BY <2>1, ProjectionStep
      <2>2. CASE UNCHANGED tables
        BY <2>2 DEF tables, Projection, Last, Closes, Accepted
      <2> QED BY <2>1, <2>2, OnlyCommitWrites
    <1> QED BY <1>1, <1>2, Inductive, PTL DEF Spec

\* A landed claim is new, and recorded with its event.
LEMMA ClaimedOnceStep ==
    ASSUME IInv, ClaimedOnce, NEW p \in Procs, Commit(p) PROVE ClaimedOnce'
    <1> DEFINE e == draft[p].event
               n == EventCount + 1
    <1>1. /\ \A i \in DOMAIN events : i \in DOMAIN events' /\ events'[i] = events[i]
          /\ n \in DOMAIN events' /\ events'[n] = e
          /\ \A i \in DOMAIN events' : i \in DOMAIN events \/ i = n
      BY LandedEvent
    <1>2. e.claim \notin claims /\ claims' = ClaimsAfter(e) BY CommitLands
    <1>3. claims' = IF e.claim = None THEN claims ELSE claims \cup {e.claim}
      BY <1>2 DEF ClaimsAfter
    <1>4. /\ \A i, j \in DOMAIN events :
                (events[i].claim # None /\ events[i].claim = events[j].claim) => i = j
          /\ \A i \in DOMAIN events : events[i].claim # None => events[i].claim \in claims
          /\ \A k \in claims : \E i \in DOMAIN events : events[i].claim = k
      BY DEF ClaimedOnce
    <1>5. \A i \in DOMAIN events : events[i].claim # None => events[i].claim # e.claim
      BY <1>2, <1>4
    <1>6. \A i, j \in DOMAIN events' :
             (events'[i].claim # None /\ events'[i].claim = events'[j].claim) => i = j
      BY <1>1, <1>4, <1>5
    <1>7. \A i \in DOMAIN events' : events'[i].claim # None => events'[i].claim \in claims'
      BY <1>1, <1>3, <1>4
    <1>8. \A k \in claims' : \E i \in DOMAIN events' : events'[i].claim = k
      BY <1>1, <1>3, <1>4
    <1> QED BY <1>6, <1>7, <1>8 DEF ClaimedOnce

\* v2_claims is exactly the set of claims of the log, none made twice.
THEOREM ClaimedOnceHolds == Spec => []ClaimedOnce
    <1>1. Init => ClaimedOnce BY DEF Init, ClaimedOnce
    <1>2. IInv /\ ClaimedOnce /\ [Next]_vars => ClaimedOnce'
      <2> SUFFICES ASSUME IInv, ClaimedOnce, [Next]_vars PROVE ClaimedOnce'
        OBVIOUS
      <2>1. CASE \E p \in Procs : Commit(p) BY <2>1, ClaimedOnceStep
      <2>2. CASE UNCHANGED tables BY <2>2 DEF tables, ClaimedOnce
      <2> QED BY <2>1, <2>2, OnlyCommitWrites
    <1> QED BY <1>1, <1>2, Inductive, PTL DEF Spec

\* An accepted event replaces its txn's timers; a refusal leaves the state
\* they were armed on.
LEMMA TimersCurrentStep ==
    ASSUME IInv, Projection, TimersCurrent, NEW p \in Procs, Commit(p) PROVE TimersCurrent'
    <1> DEFINE e == draft[p].event
               n == EventCount + 1
               c == cmd[p]
               row == snap[p].row
    <1>1. /\ TypeOK /\ e \in Event /\ n \in Nat
          /\ \A i \in DOMAIN events : i \in DOMAIN events' /\ i < n /\ events'[i] = events[i]
          /\ n \in DOMAIN events' /\ events'[n] = e
          /\ \A i \in DOMAIN events' : i \in DOMAIN events \/ i = n
          /\ DOMAIN events' = 1..n
      BY LandedEvent
    <1>2. /\ Extends(e, c, row, snap[p].tail) /\ row.seq = txns[e.txn].seq
          /\ (IsNew(c) => row.seq = 0) /\ (~IsNew(c) => row = txns[e.txn])
          /\ txns' = [txns EXCEPT ![e.txn] = RowAfter(p)] /\ timers' = TimersAfter(e)
      BY CommitLands
    <1>3. pc[p] = "batch" BY DEF Commit
    <1>4. DraftOK(p) /\ snap[p] \in Snapshot
      BY <1>3, Holding DEF Loaded, Judged, Drafted, SnapOK
    <1>5. RowAfter(p).state = e.to BY <1>4, RowTyped
    <1>6. /\ txns \in [Txns -> Row] /\ e.txn \in Txns
          /\ timers \subseteq TimerRow
      BY <1>1, EventFields DEF TypeOK, DbTyped
    <1>7. \A t \in Txns : txns'[t].state = IF t = e.txn THEN e.to ELSE txns[t].state
      BY <1>2, <1>5, <1>6
    <1> SUFFICES ASSUME NEW r \in timers'
                 PROVE  /\ r.on = txns'[r.txn].state
                        /\ \E i \in DOMAIN events' :
                              /\ events'[i].txn = r.txn /\ events'[i].seq = r.seq
                              /\ ~events'[i].rejected /\ events'[i].to = r.on
                              /\ \A j \in DOMAIN events' :
                                    (events'[j].txn = r.txn /\ j > i) => events'[j].rejected
      BY DEF TimersCurrent, Accepted
    <1>8. CASE r \in timers /\ (e.rejected \/ r.txn # e.txn)
      <2>1. /\ r.on = txns[r.txn].state
            /\ \E i \in DOMAIN events :
                  /\ events[i].txn = r.txn /\ events[i].seq = r.seq
                  /\ ~events[i].rejected /\ events[i].to = r.on
                  /\ \A j \in DOMAIN events :
                        (events[j].txn = r.txn /\ j > i) => events[j].rejected
        BY <1>8 DEF TimersCurrent, Accepted
      <2>2. PICK i \in DOMAIN events :
                  /\ events[i].txn = r.txn /\ events[i].seq = r.seq
                  /\ ~events[i].rejected /\ events[i].to = r.on
                  /\ \A j \in DOMAIN events :
                        (events[j].txn = r.txn /\ j > i) => events[j].rejected
        BY <2>1
      <2>3. r.txn \in Txns BY <1>6, <1>8 DEF TimerRow
      <2>4. r.on = txns'[r.txn].state
        <3>1. CASE r.txn # e.txn BY <1>7, <2>1, <2>3, <3>1
        <3>2. CASE r.txn = e.txn
          <4>1. e.rejected BY <1>8, <3>2
          <4>2. ~IsNew(c) BY <1>2, <1>6, <2>2, <3>2 DEF Projection
          <4>3. e.to = txns[e.txn].state BY <1>2, <4>1, <4>2 DEF Extends
          <4> QED BY <1>7, <2>1, <2>3, <3>2, <4>3
        <3> QED BY <3>1, <3>2
      <2>5. \A j \in DOMAIN events' :
               (events'[j].txn = r.txn /\ j > i) => events'[j].rejected
        BY <1>1, <1>8, <2>2
      <2> QED BY <1>1, <2>2, <2>4, <2>5
    <1>9. CASE ~e.rejected /\ r \in ArmedBy(e)
      <2>1. r.txn = e.txn /\ r.seq = e.seq /\ r.on = e.to BY <1>9 DEF ArmedBy
      <2>2. r.on = txns'[r.txn].state BY <1>6, <1>7, <2>1
      <2>3. \A j \in DOMAIN events' : ~(j > n) BY <1>1
      <2> QED BY <1>1, <1>9, <2>1, <2>2, <2>3
    <1> QED BY <1>2, <1>8, <1>9 DEF TimersAfter

\* No timer outlives the state it was armed on, whoever moves the txn.
THEOREM TimersCurrentHolds == Spec => []TimersCurrent
    <1>1. Init => TimersCurrent BY DEF Init, TimersCurrent
    <1>2. IInv /\ Projection /\ TimersCurrent /\ [Next]_vars => TimersCurrent'
      <2> SUFFICES ASSUME IInv, Projection, TimersCurrent, [Next]_vars PROVE TimersCurrent'
        OBVIOUS
      <2>1. CASE \E p \in Procs : Commit(p) BY <2>1, TimersCurrentStep
      <2>2. CASE UNCHANGED tables /\ timers' \subseteq timers
        BY <2>2 DEF tables, TimersCurrent, Accepted
      <2> QED BY <2>1, <2>2, OnlyCommitWrites
    <1> QED BY <1>1, <1>2, Inductive, ProjectionHolds, PTL DEF Spec

-----------------------------------------------------------------------------
(* Who moves.                                                               *)

\* Nothing of q's own changes.
Still(q) ==
    /\ pc'[q] = pc[q] /\ cmd'[q] = cmd[q] /\ snap'[q] = snap[q]
    /\ draft'[q] = draft[q] /\ reply'[q] = reply[q]

\* q ends a command or works on its list of timers.
Rests(q) ==
    /\ pc'[q] \in {"idle", "sweep"}
    /\ UNCHANGED <<tables, now, copies, issued>>

\* The steps that answer, retry, go on or deliver move one process.
LEMMA OthersStill ==
    ASSUME WorkTyped, NEW p \in Procs, NEW q \in Procs \ {p}
    PROVE  /\ \A l : Goto(p, l) => pc'[q] = pc[q]
           /\ \A code, replayed : Answer(p, code, replayed) /\ UNCHANGED cmd => Still(q)
           /\ Retry(p) /\ UNCHANGED cmd => Still(q)
           /\ \A body : Deliver(p, body) /\ UNCHANGED <<attempt, snap, draft, reply>> => Still(q)
    <1>1. \A l : Goto(p, l) => pc'[q] = pc[q] BY DEF WorkTyped, Goto
    <1>2. \A code, replayed : Answer(p, code, replayed) /\ UNCHANGED cmd => Still(q)
      BY <1>1 DEF WorkTyped, Answer, Still
    <1>3. Retry(p) /\ UNCHANGED cmd => Still(q)
      <2>1. CASE attempt[p] + 1 < MaxRetries
        BY <1>1, <2>1 DEF WorkTyped, Retry, Still
      <2>2. CASE ~(attempt[p] + 1 < MaxRetries)
        BY <1>2, <2>2 DEF Retry
      <2> QED BY <2>1, <2>2
    <1>4. \A body : Deliver(p, body) /\ UNCHANGED <<attempt, snap, draft, reply>> => Still(q)
      BY <1>1 DEF WorkTyped, Deliver, Still
    <1> QED BY <1>1, <1>2, <1>3, <1>4

\* One process moves at a time, and the others keep what they hold.
LEMMA OneMoves ==
    ASSUME IInv, [Next]_vars
    PROVE  \/ /\ \A q \in Procs : Still(q)
              /\ UNCHANGED <<tables, copies, issued>> /\ now' >= now
           \/ \E p \in Procs :
                 /\ \A q \in Procs \ {p} : Still(q)
                 /\ UNCHANGED now
                 /\ \/ p \in Clients /\ (Send(p) \/ Redeliver(p) \/ ReadToken(p))
                    \/ p \in Sweepers /\ Visit(p)
                    \/ Engine(p)
                    \/ Rests(p)
    <1>0. WorkTyped /\ now \in Nat BY DEF IInv, TypeOK, EnvTyped
    <1>1. ASSUME NEW p \in Clients, Send(p) \/ Redeliver(p)
          PROVE  (\A q \in Procs \ {p} : Still(q)) /\ UNCHANGED now
      <2>1. p \in Procs BY DEF Procs
      <2>2. CASE Send(p)
        <3>1. UNCHANGED <<attempt, snap, draft, reply, now>> BY <2>2 DEF Send
        <3>2. \E body : Deliver(p, body) BY <2>2 DEF Send
        <3> QED BY <1>0, <2>1, <3>1, <3>2, OthersStill
      <2>3. CASE Redeliver(p)
        <3>1. UNCHANGED <<attempt, snap, draft, reply, now>> BY <2>3 DEF Redeliver
        <3>2. \E body : Deliver(p, body) BY <2>3 DEF Redeliver
        <3> QED BY <1>0, <2>1, <3>1, <3>2, OthersStill
      <2> QED BY <1>1, <2>2, <2>3
    <1>2. ASSUME NEW p \in Clients, Receive(p)
          PROVE  (\A q \in Procs \ {p} : Still(q)) /\ UNCHANGED now /\ Rests(p)
      <2>1. p \in Procs BY DEF Procs
      <2>2. /\ pc' = [pc EXCEPT ![p] = "idle"] /\ cmd' = [cmd EXCEPT ![p] = None]
            /\ reply' = [reply EXCEPT ![p] = None] /\ UNCHANGED <<db, env, snap, draft>>
        BY <1>2 DEF Receive, Goto
      <2>3. Rests(p) BY <1>0, <2>1, <2>2 DEF WorkTyped, Rests, db, env, tables
      <2> QED BY <1>0, <2>1, <2>2, <2>3 DEF WorkTyped, Still, env
    <1>3. ASSUME NEW p \in Clients, ReadToken(p)
          PROVE  (\A q \in Procs \ {p} : Still(q)) /\ UNCHANGED now
      <2>1. p \in Procs BY DEF Procs
      <2>2. UNCHANGED now BY <1>3 DEF ReadToken, env
      <2>3. CASE txns[cmd[p].txn].seq = 0
        <3>1. Answer(p, "NOT_FOUND", FALSE) /\ UNCHANGED cmd BY <1>3, <2>3 DEF ReadToken
        <3> QED BY <1>0, <2>1, <2>2, <3>1, OthersStill
      <2>4. CASE txns[cmd[p].txn].seq # 0
        <3>1. /\ cmd' = [cmd EXCEPT ![p].expected = txns[cmd[p].txn].seq]
              /\ Goto(p, "lookup") /\ UNCHANGED <<snap, draft, reply>>
          BY <1>3, <2>4 DEF ReadToken
        <3> QED BY <1>0, <2>1, <2>2, <3>1, OthersStill DEF WorkTyped, Still
      <2> QED BY <2>3, <2>4
    <1>4. ASSUME NEW p \in Sweepers, StartSweep(p) \/ NextClass(p) \/ EndSweep(p) \/ AfterFire(p)
          PROVE  (\A q \in Procs \ {p} : Still(q)) /\ UNCHANGED now /\ Rests(p)
      <2>1. p \in Procs BY DEF Procs
      <2>2. /\ \E l \in {"idle", "sweep"} : pc' = [pc EXCEPT ![p] = l]
            /\ UNCHANGED <<tables, env, snap, draft>>
        <3>1. CASE StartSweep(p) \/ EndSweep(p)
          BY <3>1 DEF StartSweep, EndSweep, Goto, db, tables
        <3>2. CASE NextClass(p)
          <4>1. pc[p] = "sweep" /\ UNCHANGED <<db, env, work>> BY <3>2 DEF NextClass
          <4>2. pc' = [pc EXCEPT ![p] = "sweep"] BY <1>0, <4>1 DEF WorkTyped, work
          <4> QED BY <4>1, <4>2 DEF db, tables, work
        <3>3. CASE AfterFire(p) BY <3>3 DEF AfterFire, Goto, tables
        <3> QED BY <1>4, <3>1, <3>2, <3>3
      <2>3. \A q \in Procs \ {p} : cmd'[q] = cmd[q] /\ reply'[q] = reply[q]
        <3>1. CASE StartSweep(p) \/ EndSweep(p) BY <3>1 DEF StartSweep, EndSweep
        <3>2. CASE NextClass(p) BY <3>2 DEF NextClass, work
        <3>3. CASE AfterFire(p) BY <1>0, <2>1, <3>3 DEF AfterFire, WorkTyped
        <3> QED BY <1>4, <3>1, <3>2, <3>3
      <2>4. Rests(p) BY <1>0, <2>1, <2>2 DEF WorkTyped, Rests, env
      <2> QED BY <1>0, <2>1, <2>2, <2>3, <2>4 DEF WorkTyped, Still, env
    <1>5. ASSUME NEW p \in Sweepers, Visit(p)
          PROVE  (\A q \in Procs \ {p} : Still(q)) /\ UNCHANGED now
      <2>1. p \in Procs BY DEF Procs
      <2>2. UNCHANGED <<snap, draft, reply, now>> BY <1>5 DEF Visit, env
      <2>3. UNCHANGED <<cmd, pc>> \/ (Goto(p, "lookup") /\ \E c : cmd' = [cmd EXCEPT ![p] = c])
        BY <1>5 DEF Visit
      <2> QED BY <1>0, <2>1, <2>2, <2>3, OthersStill DEF WorkTyped, Still
    <1>6. ASSUME NEW p \in Procs, Engine(p)
          PROVE  (\A q \in Procs \ {p} : Still(q)) /\ UNCHANGED now
      <2>1. UNCHANGED cmd /\ UNCHANGED now
        BY <1>6 DEF Engine, Lookup, Load, LoadTail, RunGuards, PreCheckKey, PreCheckSeq,
                    PreCheckClaim, CountEvents, Commit, AbortBatch, ReplayRaced, env
      <2>2. \/ \E code, replayed : Answer(p, code, replayed)
            \/ Retry(p)
            \/ \E l : Goto(p, l) /\ UNCHANGED <<snap, draft, reply>>
            \/ \E l, s : Goto(p, l) /\ snap' = [snap EXCEPT ![p] = s] /\ UNCHANGED <<draft, reply>>
            \/ \E l, d : Goto(p, l) /\ draft' = [draft EXCEPT ![p] = d] /\ UNCHANGED <<snap, reply>>
        <3>1. CASE Lookup(p) BY <3>1 DEF Lookup
        <3>2. CASE Load(p) BY <3>2 DEF Load
        <3>3. CASE LoadTail(p) BY <3>3 DEF LoadTail
        <3>4. CASE RunGuards(p) \/ CountEvents(p) BY <3>4 DEF RunGuards, CountEvents
        <3>5. CASE PreCheckKey(p) \/ PreCheckSeq(p) \/ PreCheckClaim(p)
          BY <3>5 DEF PreCheckKey, PreCheckSeq, PreCheckClaim
        <3>6. CASE Commit(p) BY <3>6 DEF Commit
        <3>7. CASE AbortBatch(p) BY <3>7 DEF AbortBatch
        <3>8. CASE ReplayRaced(p) BY <3>8 DEF ReplayRaced
        <3> QED BY <1>6, <3>1, <3>2, <3>3, <3>4, <3>5, <3>6, <3>7, <3>8 DEF Engine
      <2> QED BY <1>0, <2>1, <2>2, OthersStill DEF WorkTyped, Still
    <1>7. ASSUME NEW p \in Procs, Crash(p)
          PROVE  (\A q \in Procs \ {p} : Still(q)) /\ UNCHANGED now /\ Rests(p)
      <2>1. Rests(p) BY <1>0, <1>7 DEF WorkTyped, Crash, Goto, Rests, db, tables
      <2> QED BY <1>0, <1>7, <2>1 DEF WorkTyped, Crash, Goto, Still
    <1>8. CASE Tick \/ FlipHalt \/ UNCHANGED vars
      <2>1. UNCHANGED <<work, tables, copies, issued>> /\ now' >= now
        BY <1>0, <1>8 DEF Tick, FlipHalt, vars, db, env, tables
      <2> QED BY <2>1 DEF work, Still
    <1>9. \A p \in Clients \cup Sweepers : p \in Procs BY DEF Procs
    <1> QED BY <1>1, <1>2, <1>3, <1>4, <1>5, <1>6, <1>7, <1>8, <1>9
            DEF Next, Request, Sweep

\* The log only grows.
LEMMA LogKept ==
    ASSUME IInv, [Next]_vars
    PROVE  \A i \in DOMAIN events : i \in DOMAIN events' /\ events'[i] = events[i]
    <1>1. CASE \E p \in Procs : Commit(p) BY <1>1, LandedEvent
    <1>2. CASE UNCHANGED tables BY <1>2 DEF tables
    <1> QED BY <1>1, <1>2, OnlyCommitWrites

-----------------------------------------------------------------------------
(* Time.                                                                    *)

\* A drafted event is the one RunGuards has just built, or what p drafted
\* before: counting the events leaves its time alone.
LEMMA DraftKept ==
    ASSUME IInv, NEW p \in Procs, Engine(p), pc'[p] \in Drafted
    PROVE  \/ RunGuards(p)
           \/ /\ pc[p] \in Drafted /\ ~Commit(p) /\ UNCHANGED <<cmd, snap>>
              /\ draft'[p].event.at = draft[p].event.at
              /\ draft'[p].event.txn = draft[p].event.txn
    <1>0. WorkTyped BY DEF IInv, TypeOK
    <1>1. \A code, replayed : Answer(p, code, replayed) => pc'[p] = "replied"
      BY <1>0 DEF WorkTyped, Answer, Goto
    <1>2. Retry(p) => pc'[p] \in {"load", "replied"}
      BY <1>0, <1>1 DEF WorkTyped, Retry, Goto
    <1>3. \A l : Goto(p, l) => pc'[p] = l BY <1>0 DEF WorkTyped, Goto
    <1>4. CASE Lookup(p) \/ Load(p) \/ LoadTail(p)
      BY <1>1, <1>3, <1>4 DEF Lookup, Load, LoadTail, Drafted
    <1>5. CASE PreCheckKey(p)
      BY <1>5 DEF PreCheckKey, Commit, Drafted
    <1>6. CASE PreCheckSeq(p)
      BY <1>1, <1>2, <1>6 DEF PreCheckSeq, Commit, Drafted
    <1>7. CASE PreCheckClaim(p)
      BY <1>1, <1>7 DEF PreCheckClaim, Commit, Drafted
    <1>8. CASE CountEvents(p)
      <2>1. pc[p] = "count" /\ UNCHANGED <<cmd, snap>> BY <1>8 DEF CountEvents
      <2>2. draft[p] \in Draft BY <2>1, Holding DEF Drafted, DraftOK
      <2>3. draft' = [draft EXCEPT ![p].event.gseq = EventCount + 1] BY <1>8 DEF CountEvents
      <2>4. draft[p].event \in Event BY <2>2 DEF Draft
      <2> DEFINE f == [draft[p].event EXCEPT !.gseq = EventCount + 1]
      <2>5. f.at = draft[p].event.at /\ f.txn = draft[p].event.txn BY <2>4 DEF Event
      <2>6. draft'[p] = [draft[p] EXCEPT !.event = f] BY <1>0, <2>3 DEF WorkTyped
      <2>7. draft'[p].event = f BY <2>2, <2>6 DEF Draft
      <2> QED BY <2>1, <2>5, <2>7 DEF Drafted, Commit
    <1>9. CASE Commit(p)
      <2>1. Answer(p, IF draft[p].event.rejected THEN "GUARD" ELSE "OK", FALSE)
        BY <1>9, CommitLands
      <2> QED BY <1>1, <2>1 DEF Drafted
    <1>10. CASE AbortBatch(p)
      BY <1>1, <1>2, <1>10 DEF AbortBatch, Commit, Drafted
    <1>11. CASE ReplayRaced(p)
      BY <1>1, <1>2, <1>11 DEF ReplayRaced, Drafted
    <1> QED BY <1>4, <1>5, <1>6, <1>7, <1>8, <1>9, <1>10, <1>11 DEF Engine

\* The clock is read after the row, and what lands in between gets a later seq.
LEMMA StampsStep ==
    ASSUME IInv, Stamps, [Next]_vars PROVE Stamps'
    <1>1. /\ now \in Nat /\ now' \in Nat
          /\ \A i \in DOMAIN events : events[i] \in Event /\ events[i].at \in Nat
          /\ \A i \in DOMAIN events' : events'[i] \in Event /\ events'[i].at \in Nat
      <2>1. IInv' BY NextIInv
      <2>2. TypeOK /\ TypeOK' BY <2>1 DEF IInv
      <2>3. now \in Nat /\ now' \in Nat BY <2>2 DEF TypeOK, EnvTyped
      <2>4. events \in Seq(Event) /\ events' \in Seq(Event) BY <2>2 DEF TypeOK, DbTyped
      <2> QED BY <2>3, <2>4, EventFields
    <1>2. now' >= now BY <1>1, OneMoves
    <1>3. ASSUME NEW q \in Procs, pc'[q] \in Drafted, pc[q] \in Drafted,
                 UNCHANGED events \/ (\E p \in Procs \ {q} : Commit(p)),
                 cmd'[q] = cmd[q], snap'[q] = snap[q],
                 draft'[q].event.at = draft[q].event.at,
                 draft'[q].event.txn = draft[q].event.txn
          PROVE  StampOK(q)'
      <2> DEFINE e == draft[q].event
                 row == snap[q].row
      <2>1. StampOK(q) BY <1>3 DEF Stamps
      <2>2. /\ e \in Event /\ row \in Row /\ SnapOK(q) /\ cmd[q] \in Command /\ e.txn = cmd[q].txn
        <3>1. DraftOK(q) /\ SnapOK(q) /\ cmd[q] \in Command
          BY <1>3, Holding DEF Commanded, Resolved, Loaded, Judged
        <3> QED BY <3>1 DEF DraftOK, Draft, SnapOK, Snapshot, Extends
      <2>3. e.at \in Nat /\ row.seq \in Nat /\ e.txn \in Txns
        BY <2>2, EventFields, RowFields
      <2>4. e.at <= now' BY <1>1, <1>2, <2>1, <2>3 DEF StampOK
      <2>5. ASSUME NEW i \in DOMAIN events', events'[i].txn = e.txn, events'[i].seq <= row.seq
            PROVE  events'[i].at <= e.at
        <3>1. CASE UNCHANGED events BY <2>1, <2>5, <3>1 DEF StampOK
        <3>2. ASSUME NEW p \in Procs \ {q}, Commit(p) PROVE events'[i].at <= e.at
          <4> DEFINE f == draft[p].event
          <4>1. PICK n : n = EventCount + 1 OBVIOUS
          <4>2. /\ TypeOK /\ f \in Event /\ f.seq = txns[f.txn].seq + 1 /\ txns[f.txn].seq \in Nat
                /\ events'[n] = f
                /\ \A j \in DOMAIN events' : j \in DOMAIN events \/ j = n
                /\ \A j \in DOMAIN events : events'[j] = events[j]
            BY <3>2, <4>1, LandedEvent
          <4>3. CASE i \in DOMAIN events BY <2>1, <2>5, <4>2, <4>3 DEF StampOK
          <4>4. CASE i = n
            <5>1. f.txn = e.txn /\ f.seq <= row.seq BY <2>5, <4>2, <4>4
            <5>2. row.seq <= txns[e.txn].seq
              <6>1. CASE IsNew(cmd[q]) BY <2>2, <4>2, <5>1, <6>1 DEF SnapOK
              <6>2. CASE ~IsNew(cmd[q]) BY <2>2, <6>2 DEF SnapOK
              <6> QED BY <6>1, <6>2
            <5> QED BY <2>3, <4>2, <5>1, <5>2
          <4> QED BY <4>2, <4>3, <4>4
        <3> QED BY <1>3, <3>1, <3>2
      <2> QED BY <1>3, <2>4, <2>5 DEF StampOK
    <1>4. ASSUME NEW q \in Procs, RunGuards(q) PROVE StampOK(q)'
      <2>1. pc[q] = "guards" /\ UNCHANGED events /\ UNCHANGED now /\ UNCHANGED snap
        BY <1>4 DEF RunGuards, db, env
      <2>2. WorkTyped BY DEF IInv, TypeOK
      <2> DEFINE c == cmd[q]
                 row == snap[q].row
                 passed == \A g \in EdgeOf(c).guards :
                              GuardHolds(g, row.fields, c.input, GuardParties(c), halted)
                 f == BuildEvent(c, row, snap[q].tail, passed)
                 fields == IF passed THEN Merge(row.fields, c.input) ELSE row.fields
      <2>3. PICK r \in (IF IsNew(c) /\ passed THEN Refs ELSE {row.ref}) :
               draft' = [draft EXCEPT ![q] = [event |-> f, fields |-> fields, ref |-> r]]
        BY <1>4 DEF RunGuards
      <2>5. f.at = now BY DEF BuildEvent, EventOf
      <2> HIDE DEF f, fields, passed
      <2>6. draft'[q].event = f BY <2>2, <2>3 DEF WorkTyped
      <2>7. \A i \in DOMAIN events : events[i].at <= now BY DEF Stamps
      <2> QED BY <1>1, <2>1, <2>5, <2>6, <2>7 DEF StampOK
    <1>5. ASSUME NEW q \in Procs, pc'[q] \in Drafted PROVE StampOK(q)'
      <2>1. CASE Still(q) /\ ~Commit(q)
        <3>1. UNCHANGED events \/ \E p \in Procs \ {q} : Commit(p)
          BY <2>1, OnlyCommitWrites DEF tables
        <3> QED BY <1>3, <1>5, <2>1, <3>1 DEF Still
      <2>2. CASE Engine(q)
        <3>1. CASE RunGuards(q) BY <1>4, <3>1
        <3>2. CASE ~RunGuards(q)
          <4>1. /\ pc[q] \in Drafted /\ ~Commit(q) /\ UNCHANGED <<cmd, snap>>
                /\ draft'[q].event.at = draft[q].event.at
                /\ draft'[q].event.txn = draft[q].event.txn
            BY <1>5, <2>2, <3>2, DraftKept
          <4>2. UNCHANGED events \/ \E p \in Procs \ {q} : Commit(p)
            BY <4>1, OnlyCommitWrites DEF tables
          <4> QED BY <1>3, <1>5, <4>1, <4>2
        <3> QED BY <3>1, <3>2
      <2>3. Still(q) \/ Engine(q)
        <3>1. WorkTyped BY DEF IInv, TypeOK
        <3>2. q \in Clients /\ (Send(q) \/ Redeliver(q) \/ ReadToken(q)) => pc'[q] \notin Drafted
          <4>1. \A body : Deliver(q, body) => pc'[q] \in {"token", "lookup"}
            BY <3>1 DEF WorkTyped, Deliver, Goto
          <4>2. ReadToken(q) => pc'[q] \in {"replied", "lookup"}
            BY <3>1 DEF WorkTyped, ReadToken, Answer, Goto
          <4> QED BY <4>1, <4>2 DEF Send, Redeliver, Drafted
        <3>3. Visit(q) => pc'[q] \in {"sweep", "lookup"} BY <3>1 DEF WorkTyped, Visit, Goto
        <3>4. Rests(q) => pc'[q] \notin Drafted BY DEF Rests, Drafted
        <3> QED BY <1>5, <3>2, <3>3, <3>4, OneMoves DEF Drafted
      <2>4. Commit(q) => Engine(q) BY DEF Engine
      <2> QED BY <2>1, <2>2, <2>3, <2>4
    <1>6. ASSUME NEW i \in DOMAIN events' PROVE events'[i].at <= now'
      <2>1. CASE UNCHANGED tables BY <1>1, <1>2, <2>1 DEF Stamps, tables
      <2>2. ASSUME NEW p \in Procs, Commit(p) PROVE events'[i].at <= now'
        <3>1. PICK n : n = EventCount + 1 OBVIOUS
        <3>2. /\ events'[n] = draft[p].event
              /\ \A j \in DOMAIN events' : j \in DOMAIN events \/ j = n
              /\ \A j \in DOMAIN events : events'[j] = events[j]
          BY <2>2, <3>1, LandedEvent
        <3>3. draft[p].event.at <= now
          <4>1. pc[p] \in Drafted BY <2>2 DEF Commit, Drafted
          <4> QED BY <4>1 DEF Stamps, StampOK
        <3>4. UNCHANGED now BY <2>2 DEF Commit, env
        <3>5. CASE i \in DOMAIN events BY <3>2, <3>4, <3>5 DEF Stamps
        <3>6. CASE i = n BY <3>2, <3>3, <3>4, <3>6
        <3> QED BY <3>2, <3>5, <3>6
      <2> QED BY <2>1, <2>2, OnlyCommitWrites
    <1> QED BY <1>5, <1>6 DEF Stamps

\* No event is from the future, and no draft is older than the log it extends.
THEOREM StampsHold == Spec => []Stamps
    <1>1. Init => Stamps BY DEF Init, Stamps, Drafted
    <1>2. IInv /\ Stamps /\ [Next]_vars => Stamps' BY StampsStep
    <1> QED BY <1>1, <1>2, Inductive, PTL DEF Spec

\* The row a landing event extends counts every event of its txn.
LEMMA TimeForwardStep ==
    ASSUME IInv, Stamps, TimeForward, NEW p \in Procs, Commit(p) PROVE TimeForward'
    <1> DEFINE e == draft[p].event
    <1>0. PICK n : n = EventCount + 1 OBVIOUS
    <1>1. /\ n \in Nat
          /\ \A i \in DOMAIN events : i \in DOMAIN events' /\ i < n /\ events'[i] = events[i]
          /\ n \in DOMAIN events' /\ events'[n] = e
          /\ \A i \in DOMAIN events' : i \in DOMAIN events \/ i = n
          /\ DOMAIN events = 1..(n - 1)
          /\ \A i \in DOMAIN events :
                events[i].txn = e.txn => events[i].seq <= txns[e.txn].seq
      BY <1>0, LandedEvent
    <1>2. snap[p].row.seq = txns[e.txn].seq BY CommitLands
    <1>3. StampOK(p)
      <2>1. pc[p] \in Drafted BY DEF Commit, Drafted
      <2> QED BY <2>1 DEF Stamps
    <1>4. \A i \in DOMAIN events : events[i].txn = e.txn => events[i].at <= e.at
      BY <1>1, <1>2, <1>3 DEF StampOK
    <1> SUFFICES ASSUME NEW i \in DOMAIN events', NEW j \in DOMAIN events',
                        events'[i].txn = events'[j].txn, i < j
                 PROVE  events'[i].at <= events'[j].at
      BY DEF TimeForward
    <1>5. i \in DOMAIN events BY <1>1
    <1>6. CASE j \in DOMAIN events BY <1>1, <1>5, <1>6 DEF TimeForward
    <1>7. CASE j = n BY <1>1, <1>4, <1>5, <1>7
    <1> QED BY <1>1, <1>6, <1>7

\* Along a txn's log time never runs backwards, whichever isolates wrote it.
THEOREM TimeForwardHolds == Spec => []TimeForward
    <1>1. Init => TimeForward BY DEF Init, TimeForward
    <1>2. IInv /\ Stamps /\ TimeForward /\ [Next]_vars => TimeForward'
      <2> SUFFICES ASSUME IInv, Stamps, TimeForward, [Next]_vars PROVE TimeForward'
        OBVIOUS
      <2>1. CASE \E p \in Procs : Commit(p) BY <2>1, TimeForwardStep
      <2>2. CASE UNCHANGED tables BY <2>2 DEF tables, TimeForward
      <2> QED BY <2>1, <2>2, OnlyCommitWrites
    <1> QED BY <1>1, <1>2, Inductive, StampsHold, PTL DEF Spec

-----------------------------------------------------------------------------
(* Closed txns.                                                             *)

\* The hypothesis is on the declarations.  It is needed: nothing in
\* applyTransition looks at closed_at, and an act may name another chain.
\* A commit then extends a txn that is open.
LEMMA ExtendsOpen ==
    ASSUME TerminalsFinal, IInv, ClosedTerminal, NEW p \in Procs, Commit(p)
    PROVE  ~snap[p].row.closed
    <1> DEFINE c == cmd[p]
               row == snap[p].row
    <1>1. /\ draft[p].event \in Event /\ Resolves(c) /\ LegalFrom(c, row.state)
          /\ IsNew(c) => ~row.closed
          /\ ~IsNew(c) => row = txns[draft[p].event.txn]
      BY CommitLands
    <1>2. CASE IsNew(c) BY <1>1, <1>2
    <1>3. CASE ~IsNew(c)
      <2>1. /\ c.chain \in DOMAIN CHAINS /\ EdgeOf(c) \in CHAINS[c.chain].edges
            /\ ~EdgeOf(c).isNew
        BY <1>1, <1>3, EdgeFacts
      <2>2. row.state \in EdgeOf(c).from BY <1>1, <2>1 DEF LegalFrom
      <2>3. \A k \in DOMAIN CHAINS : row.state \notin CHAINS[k].terminal
        BY <2>1, <2>2 DEF TerminalsFinal
      <2>4. draft[p].event.txn \in Txns BY <1>1, EventFields
      <2> QED BY <1>1, <1>3, <2>3, <2>4 DEF ClosedTerminal
    <1> QED BY <1>2, <1>3

\* So what closes it is the event that lands, in the state it enters.
LEMMA ClosedTerminalStep ==
    ASSUME TerminalsFinal, IInv, ClosedTerminal, NEW p \in Procs, Commit(p)
    PROVE  ClosedTerminal'
    <1> DEFINE e == draft[p].event
               r == RowAfter(p)
    <1>1. /\ e \in Event /\ Resolves(cmd[p]) /\ Extends(e, cmd[p], snap[p].row, snap[p].tail)
          /\ txns' = [txns EXCEPT ![e.txn] = r]
      BY CommitLands
    <1>2. DraftOK(p) /\ snap[p] \in Snapshot /\ TypeOK
      BY Holding DEF Commit, Loaded, Judged, Drafted, SnapOK
    <1>3. r.state = e.to /\ r.closed = ClosedAfter(p) BY <1>2, RowTyped
    <1>4. e.txn \in Txns /\ txns \in [Txns -> Row] BY <1>1, <1>2, EventFields DEF TypeOK, DbTyped
    <1>5. e.chain \in DOMAIN CHAINS BY <1>1, EdgeFacts DEF Extends
    <1>6. ~snap[p].row.closed BY ExtendsOpen
    <1> HIDE DEF r
    <1>7. r.closed => r.state \in CHAINS[e.chain].terminal
      BY <1>3, <1>6 DEF ClosedAfter
    <1> SUFFICES ASSUME NEW t \in Txns, txns'[t].closed
                 PROVE  \E k \in DOMAIN CHAINS : txns'[t].state \in CHAINS[k].terminal
      BY DEF ClosedTerminal
    <1>8. CASE t = e.txn BY <1>1, <1>4, <1>5, <1>7, <1>8
    <1>9. CASE t # e.txn BY <1>1, <1>4, <1>9 DEF ClosedTerminal
    <1> QED BY <1>8, <1>9

\* Nothing lands behind the event that closed a txn.
LEMMA ClosedIsFinalStep ==
    ASSUME TerminalsFinal, IInv, Projection, ClosedTerminal, ClosedIsFinal,
           NEW p \in Procs, Commit(p)
    PROVE  ClosedIsFinal'
    <1> DEFINE e == draft[p].event
    <1>0. PICK n : n = EventCount + 1 OBVIOUS
    <1>1. /\ e \in Event
          /\ \A i \in DOMAIN events : i \in DOMAIN events' /\ i < n /\ events'[i] = events[i]
          /\ events'[n] = e /\ n \in Nat
          /\ \A i \in DOMAIN events' : i \in DOMAIN events \/ i = n
          /\ DOMAIN events = 1..(n - 1)
      BY <1>0, LandedEvent
    <1>2. ~snap[p].row.closed BY ExtendsOpen
    <1>3. /\ snap[p].row.seq = txns[e.txn].seq
          /\ IsNew(cmd[p]) => snap[p].row.seq = 0
          /\ ~IsNew(cmd[p]) => snap[p].row = txns[e.txn]
      BY CommitLands
    <1>4. ASSUME NEW i \in DOMAIN events, events[i].txn = e.txn PROVE ~Closes(events[i])
      <2>1. e.txn \in Txns BY <1>1, EventFields
      <2>2. txns[e.txn].seq # 0 BY <1>4, <2>1 DEF Projection
      <2>3. ~txns[e.txn].closed BY <1>2, <1>3, <2>2
      <2> QED BY <1>4, <2>1, <2>3 DEF Projection
    <1> SUFFICES ASSUME NEW i \in DOMAIN events', NEW j \in DOMAIN events',
                        events'[i].txn = events'[j].txn, Closes(events'[i])
                 PROVE  j <= i
      BY DEF ClosedIsFinal, Closes, Accepted
    <1>5. CASE i = n BY <1>1, <1>5
    <1>6. CASE i \in DOMAIN events /\ j \in DOMAIN events BY <1>1, <1>6 DEF ClosedIsFinal
    <1>7. CASE i \in DOMAIN events /\ j = n BY <1>1, <1>4, <1>7
    <1> QED BY <1>1, <1>5, <1>6, <1>7

\* Where the declarations let nothing leave a terminal state, a closed txn is
\* over: not even a request or a sweep that loaded it open appends to its log.
THEOREM ClosedIsFinalHolds == ASSUME TerminalsFinal PROVE Spec => []ClosedIsFinal
    <1>1. Init => ClosedTerminal /\ ClosedIsFinal
      BY DEF Init, ClosedTerminal, ClosedIsFinal, NoRow
    <1>2. IInv /\ Projection /\ ClosedTerminal /\ ClosedIsFinal /\ [Next]_vars
             => ClosedTerminal' /\ ClosedIsFinal'
      <2> SUFFICES ASSUME IInv, Projection, ClosedTerminal, ClosedIsFinal, [Next]_vars
                   PROVE  ClosedTerminal' /\ ClosedIsFinal'
        OBVIOUS
      <2>1. CASE \E p \in Procs : Commit(p) BY <2>1, ClosedTerminalStep, ClosedIsFinalStep
      <2>2. CASE UNCHANGED tables
        BY <2>2 DEF tables, ClosedTerminal, ClosedIsFinal, Closes, Accepted
      <2> QED BY <2>1, <2>2, OnlyCommitWrites
    <1> QED BY <1>1, <1>2, Inductive, ProjectionHolds, PTL DEF Spec

-----------------------------------------------------------------------------
(* Answers.                                                                 *)

\* How the engine comes to an answer: a commit, an event that carries the
\* key already, or a refusal.
LEMMA AnswerGiven ==
    ASSUME IInv, NEW p \in Procs, Engine(p), pc'[p] = "replied", ~Commit(p)
    PROVE  /\ UNCHANGED <<db, cmd>>
           /\ \/ reply'[p].code \notin {"OK", "GUARD"}
              \/ reply'[p].replayed = TRUE /\ KeyUsed(cmd[p].key)
    <1>0. WorkTyped BY DEF IInv, TypeOK
    <1>1. UNCHANGED <<db, cmd>>
      BY DEF Engine, Lookup, Load, LoadTail, RunGuards, PreCheckKey, PreCheckSeq,
             PreCheckClaim, CountEvents, AbortBatch, ReplayRaced
    <1>2. /\ \A code : Answer(p, code, FALSE) => reply'[p].code = code
          /\ Answer(p, "OK", TRUE) => reply'[p].replayed = TRUE
      BY <1>0 DEF WorkTyped, Answer
    <1>3. Retry(p) => reply'[p].code = "CONTENTION"
      <2>1. CASE attempt[p] + 1 < MaxRetries
        BY <1>0, <2>1 DEF WorkTyped, Retry, Goto
      <2>2. CASE ~(attempt[p] + 1 < MaxRetries) BY <1>2, <2>2 DEF Retry
      <2> QED BY <2>1, <2>2
    <1>4. \A l : Goto(p, l) => l = "replied" BY <1>0 DEF WorkTyped, Goto
    <1>5. CASE Lookup(p) BY <1>2, <1>4, <1>5 DEF Lookup
    <1>6. CASE Load(p) BY <1>2, <1>4, <1>6 DEF Load
    <1>7. CASE LoadTail(p) BY <1>2, <1>4, <1>7 DEF LoadTail
    <1>8. CASE RunGuards(p) \/ PreCheckKey(p) \/ CountEvents(p)
      BY <1>4, <1>8 DEF RunGuards, PreCheckKey, CountEvents
    <1>9. CASE PreCheckSeq(p) BY <1>3, <1>4, <1>9 DEF PreCheckSeq
    <1>10. CASE PreCheckClaim(p) BY <1>2, <1>4, <1>10 DEF PreCheckClaim
    <1>11. CASE AbortBatch(p) BY <1>2, <1>3, <1>4, <1>11 DEF AbortBatch
    <1>12. CASE ReplayRaced(p) BY <1>2, <1>3, <1>12 DEF ReplayRaced
    <1> QED BY <1>1, <1>5, <1>6, <1>7, <1>8, <1>9, <1>10, <1>11, <1>12 DEF Engine

\* An answer stays true until it is received: the log keeps the event.
LEMMA AnswersHonestStep ==
    ASSUME IInv, AnswersHonest, [Next]_vars PROVE AnswersHonest'
    <1>0. WorkTyped BY DEF IInv, TypeOK
    <1>1. \A i \in DOMAIN events : i \in DOMAIN events' /\ events'[i] = events[i]
      BY LogKept
    <1> SUFFICES ASSUME NEW q \in Procs, pc'[q] = "replied", reply'[q].code \in {"OK", "GUARD"}
                 PROVE  \E i \in DOMAIN events' :
                           /\ events'[i].key = cmd'[q].key
                           /\ ~reply'[q].replayed =>
                                 (events'[i].rejected <=> reply'[q].code = "GUARD")
      BY DEF AnswersHonest
    <1>2. CASE Still(q)
      <2>1. PICK i \in DOMAIN events :
               /\ events[i].key = cmd[q].key
               /\ ~reply[q].replayed => (events[i].rejected <=> reply[q].code = "GUARD")
        BY <1>2 DEF Still, AnswersHonest
      <2> QED BY <1>1, <1>2, <2>1 DEF Still
    <1>3. CASE Commit(q)
      <2> DEFINE e == draft[q].event
      <2>0. PICK n : n = EventCount + 1 OBVIOUS
      <2>1. e \in Event /\ n \in DOMAIN events' /\ events'[n] = e
        BY <1>3, <2>0, LandedEvent
      <2>2. /\ Extends(e, cmd[q], snap[q].row, snap[q].tail) /\ UNCHANGED cmd
            /\ Answer(q, IF e.rejected THEN "GUARD" ELSE "OK", FALSE)
        BY <1>3, CommitLands
      <2>3. e.key = cmd'[q].key BY <2>2 DEF Extends
      <2>4. reply'[q].code = IF e.rejected THEN "GUARD" ELSE "OK"
        BY <1>0, <2>2 DEF WorkTyped, Answer
      <2>5. e.rejected \in BOOLEAN BY <2>1, EventFields
      <2> QED BY <2>1, <2>3, <2>4, <2>5
    <1>4. CASE Engine(q) /\ ~Commit(q)
      <2>1. UNCHANGED cmd /\ reply'[q].replayed /\ KeyUsed(cmd[q].key)
        BY <1>4, AnswerGiven
      <2> QED BY <1>1, <2>1 DEF KeyUsed
    <1>5. CASE q \in Clients /\ (Send(q) \/ Redeliver(q) \/ ReadToken(q))
      <2>1. \A body : Deliver(q, body) => pc'[q] \in {"token", "lookup"}
        BY <1>0 DEF WorkTyped, Deliver, Goto
      <2>2. ReadToken(q) => pc'[q] = "lookup" \/ reply'[q].code = "NOT_FOUND"
        BY <1>0 DEF WorkTyped, ReadToken, Answer, Goto
      <2> QED BY <1>5, <2>1, <2>2 DEF Send, Redeliver
    <1>6. ~Visit(q) /\ ~Rests(q)
      <2>1. Visit(q) => pc'[q] \in {"sweep", "lookup"} BY <1>0 DEF WorkTyped, Visit, Goto
      <2> QED BY <2>1 DEF Rests
    <1> QED BY <1>2, <1>3, <1>4, <1>5, <1>6, OneMoves

\* OK and GUARD are said only of an event that is in the log, and rightly of
\* whether it moved the txn.
THEOREM AnswersHonestHolds == Spec => []AnswersHonest
    <1>1. Init => AnswersHonest BY DEF Init, AnswersHonest
    <1> QED BY <1>1, AnswersHonestStep, Inductive, PTL DEF Spec

-----------------------------------------------------------------------------
(* Refusals.                                                                *)

\* What the mover p has to show: that its own part holds after the step, and
\* that it takes no id another opening holds.
LEMMA IdsFrame ==
    ASSUME IdsOwned, TypeOK, NEW p \in Procs, \A q \in Procs \ {p} : Still(q),
           issued \subseteq issued',
           \A t \in Txns : txns[t].seq > 0 => txns'[t].seq > 0,
           \A t \in Txns : txns'[t].seq > 0 => t \in issued',
           \A body \in copies' : body.txn # None => txns'[body.txn].seq > 0,
           \A r \in parties' : txns'[r.txn].seq > 0,
           \A q \in Procs \ {p} : Opening(q) => txns'[cmd[q].txn].seq = 0,
           pc'[p] \in Commanded => cmd'[p].txn \in issued',
           pc'[p] = "token" => txns'[cmd'[p].txn].seq > 0,
           Opening(p)' => /\ txns'[cmd'[p].txn].seq = 0
                          /\ \A q \in Procs \ {p} : pc[q] \in Commanded => cmd[q].txn # cmd'[p].txn,
           pc'[p] \in Commanded =>
               \A q \in Procs \ {p} : Opening(q) => cmd[q].txn # cmd'[p].txn,
           \A q \in Procs : pc[q] \in Commanded => cmd[q] \in Command
    PROVE  IdsOwned'
    <1>1. ASSUME NEW q \in Procs
          PROVE  /\ pc'[q] \in Commanded => cmd'[q].txn \in issued'
                 /\ pc'[q] = "token" => txns'[cmd'[q].txn].seq > 0
                 /\ Opening(q)' =>
                       /\ txns'[cmd'[q].txn].seq = 0
                       /\ \A u \in Procs \ {q} :
                             pc'[u] \in Commanded => cmd'[u].txn # cmd'[q].txn
      <2>1. CASE q = p BY <2>1 DEF Still
      <2>2. CASE q # p
        <3>1. Still(q) BY <2>2
        <3>2. Opening(q)' => Opening(q) BY <3>1 DEF Opening, Still
        <3>3. pc'[q] \in Commanded => cmd'[q].txn \in issued' BY <3>1 DEF Still, IdsOwned
        <3>4. pc'[q] = "token" => txns'[cmd'[q].txn].seq > 0
          <4>1. pc[q] = "token" => cmd[q].txn \in Txns BY CommandFields DEF Commanded
          <4> QED BY <3>1, <4>1 DEF Still, IdsOwned
        <3>5. ASSUME Opening(q)', NEW u \in Procs \ {q}, pc'[u] \in Commanded
              PROVE  cmd'[u].txn # cmd'[q].txn
          <4>1. CASE u = p BY <2>2, <3>1, <3>2, <3>5, <4>1 DEF Still
          <4>2. CASE u # p
            <5>1. Still(u) BY <3>5, <4>2
            <5> QED BY <3>1, <3>2, <3>5, <5>1 DEF Still, IdsOwned
          <4> QED BY <4>1, <4>2
        <3>6. Opening(q)' => txns'[cmd'[q].txn].seq = 0 BY <2>2, <3>1, <3>2 DEF Still
        <3> QED BY <3>3, <3>4, <3>5, <3>6
      <2> QED BY <2>1, <2>2
    <1>2. /\ \A t \in Txns : txns'[t].seq > 0 => t \in issued'
          /\ \A body \in copies' : body.txn # None => txns'[body.txn].seq > 0
          /\ \A r \in parties' : txns'[r.txn].seq > 0
      OBVIOUS
    <1> QED BY <1>1, <1>2 DEF IdsOwned

\* A step that leaves the tables alone and after which p holds its id of
\* before, or one that has a row.
LEMMA IdsQuiet ==
    ASSUME IInv, IdsOwned, NEW p \in Procs, \A q \in Procs \ {p} : Still(q),
           UNCHANGED <<tables, copies, issued>>,
           pc'[p] \in Commanded => cmd'[p].txn \in Txns,
           \/ pc'[p] \in {"idle", "sweep"}
           \/ pc'[p] # "token" /\ txns[cmd'[p].txn].seq > 0 /\ ~Opening(p)'
           \/ /\ pc'[p] # "token" /\ pc[p] \in Commanded /\ cmd'[p].txn = cmd[p].txn
              /\ Opening(p)' => Opening(p)
    PROVE  IdsOwned'
    <1>1. TypeOK /\ \A q \in Procs : pc[q] \in Commanded => cmd[q] \in Command
      BY Holding DEF IInv
    <1>2. UNCHANGED <<txns, parties, copies, issued>> BY DEF tables
    <1>3. \A t \in Txns : txns[t].seq \in Nat BY <1>1, TablesTyped, RowFields
    <1>4. /\ \A t \in Txns : txns[t].seq > 0 => t \in issued
          /\ \A body \in copies : body.txn # None => txns[body.txn].seq > 0
          /\ \A r \in parties : txns[r.txn].seq > 0
          /\ \A q \in Procs : pc[q] \in Commanded => cmd[q].txn \in issued
          /\ \A q \in Procs : Opening(q) =>
                /\ txns[cmd[q].txn].seq = 0
                /\ \A u \in Procs \ {q} : pc[u] \in Commanded => cmd[u].txn # cmd[q].txn
      BY DEF IdsOwned
    <1>5. pc'[p] \in {"idle", "sweep"} => pc'[p] \notin Commanded /\ ~Opening(p)'
      BY DEF Commanded, Resolved, Loaded, Judged, Drafted, Opening
    <1>6. pc'[p] \in Commanded =>
             /\ cmd'[p].txn \in issued
             /\ \A q \in Procs \ {p} : Opening(q) => cmd[q].txn # cmd'[p].txn
      BY <1>3, <1>4, <1>5
    <1>7. Opening(p)' => /\ txns[cmd'[p].txn].seq = 0
                         /\ \A q \in Procs \ {p} : pc[q] \in Commanded => cmd[q].txn # cmd'[p].txn
      BY <1>4, <1>5
    <1> QED BY <1>1, <1>2, <1>4, <1>6, <1>7, IdsFrame DEF Commanded

\* A delivery takes an id nobody has, or one with a row.
LEMMA IdsDeliver ==
    ASSUME IInv, IdsOwned, NEW p \in Clients, Send(p) \/ Redeliver(p),
           \A q \in Procs \ {p} : Still(q)
    PROVE  IdsOwned'
    <1>1. /\ TypeOK /\ WorkTyped /\ EnvTyped /\ p \in Procs
          /\ \A q \in Procs : pc[q] \in Commanded => cmd[q] \in Command
      BY Holding DEF IInv, TypeOK, Procs
    <1>2. UNCHANGED <<txns, parties>> BY DEF Send, Redeliver, db
    <1>3. \A t \in Txns : txns[t].seq \in Nat BY <1>1, TablesTyped, RowFields
    <1>4. /\ \A t \in Txns : txns[t].seq > 0 => t \in issued
          /\ \A body \in copies : body.txn # None => txns[body.txn].seq > 0
          /\ \A r \in parties : txns[r.txn].seq > 0
          /\ \A q \in Procs : pc[q] \in Commanded => cmd[q].txn \in issued
          /\ \A q \in Procs : Opening(q) =>
                /\ txns[cmd[q].txn].seq = 0
                /\ \A u \in Procs \ {q} : pc[u] \in Commanded => cmd[u].txn # cmd[q].txn
      BY DEF IdsOwned
    <1>5. \E body \in Posted : /\ Deliver(p, body)
                               /\ body.txn # None => txns[body.txn].seq > 0
                               /\ copies' \subseteq copies \cup {body}
      <2>1. CASE Send(p)
        <3>1. FreshKey \in Keys BY <2>1 DEF Send, FreshKey
        <3>2. PICK it \in Intents : \E body \in Bodies(FreshKey, it) :
                 Deliver(p, body) /\ (copies' = copies \/ copies' = copies \cup {body})
          BY <2>1 DEF Send
        <3>3. PICK body \in Bodies(FreshKey, it) :
                 Deliver(p, body) /\ (copies' = copies \/ copies' = copies \cup {body})
          BY <3>2
        <3>4. body.txn # None => txns[body.txn].seq > 0 BY <3>3 DEF Bodies, Body
        <3> QED BY <1>1, <3>1, <3>3, <3>4, BodiesPosted
      <2>2. CASE Redeliver(p)
        <3>1. PICK body \in copies : Deliver(p, body) /\ copies' = copies \ {body}
          BY <2>2 DEF Redeliver
        <3> QED BY <1>1, <1>4, <3>1 DEF EnvTyped
      <2> QED BY <2>1, <2>2
    <1>6. PICK body \in Posted : /\ Deliver(p, body)
                                 /\ body.txn # None => txns[body.txn].seq > 0
                                 /\ copies' \subseteq copies \cup {body}
      BY <1>5
    <1>7. \A b \in copies' : b.txn # None => txns[b.txn].seq > 0 BY <1>4, <1>6
    <1>8. CASE body.txn = None
      <2>1. /\ Txns \ issued # {} /\ issued' = issued \cup {FreshTxn}
            /\ cmd' = [cmd EXCEPT ![p] = [body EXCEPT !.txn = FreshTxn]] /\ Goto(p, "lookup")
        BY <1>6, <1>8 DEF Deliver
      <2>2. FreshTxn \in Txns /\ FreshTxn \notin issued BY <2>1 DEF FreshTxn
      <2>3. [body EXCEPT !.txn = FreshTxn].txn = FreshTxn BY DEF Posted
      <2>4. cmd'[p].txn = FreshTxn /\ pc'[p] = "lookup"
        BY <1>1, <2>1, <2>3 DEF WorkTyped, Goto
      <2>5. txns[FreshTxn].seq = 0 BY <1>3, <1>4, <2>2
      <2>6. \A q \in Procs : pc[q] \in Commanded => cmd[q].txn # FreshTxn BY <1>4, <2>2
      <2>7. \A q \in Procs : Opening(q) => cmd[q].txn # FreshTxn BY <2>6 DEF Opening
      <2> QED BY <1>1, <1>2, <1>4, <1>7, <2>1, <2>2, <2>4, <2>5, <2>6, <2>7, IdsFrame
    <1>9. CASE body.txn # None
      <2>1. /\ cmd' = [cmd EXCEPT ![p] = body] /\ UNCHANGED issued
            /\ Goto(p, IF body.expected = None THEN "token" ELSE "lookup")
        BY <1>6, <1>9 DEF Deliver
      <2>2. /\ cmd'[p] = body
            /\ pc'[p] = IF body.expected = None THEN "token" ELSE "lookup"
        BY <1>1, <2>1 DEF WorkTyped, Goto
      <2>3. body.txn \in Txns /\ txns[body.txn].seq > 0 BY <1>6, <1>9 DEF Posted
      <2>4. ~Opening(p)' BY <2>2 DEF Opening
      <2>5. \A q \in Procs : Opening(q) => cmd[q].txn # body.txn BY <1>4, <2>3
      <2> QED BY <1>1, <1>2, <1>4, <1>7, <2>1, <2>2, <2>3, <2>4, <2>5, IdsFrame
    <1> QED BY <1>8, <1>9

\* A commit gives a row to the id of its own command alone.
LEMMA IdsCommit ==
    ASSUME IInv, IdsOwned, NEW p \in Procs, Commit(p), \A q \in Procs \ {p} : Still(q)
    PROVE  IdsOwned'
    <1> DEFINE e == draft[p].event
               c == cmd[p]
               r == RowAfter(p)
    <1>1. /\ TypeOK /\ WorkTyped /\ DraftOK(p) /\ snap[p] \in Snapshot
          /\ \A q \in Procs : pc[q] \in Commanded => cmd[q] \in Command
      BY Holding DEF Commit, Loaded, Judged, Drafted, SnapOK
    <1>2. /\ e \in Event /\ Extends(e, c, snap[p].row, snap[p].tail)
          /\ txns' = [txns EXCEPT ![e.txn] = r] /\ parties' = PartiesAfter(p)
          /\ Answer(p, IF e.rejected THEN "GUARD" ELSE "OK", FALSE)
          /\ UNCHANGED <<env, cmd>>
      BY CommitLands
    <1>3. r.seq = e.seq /\ e.txn = c.txn BY <1>1, <1>2, RowTyped DEF Extends
    <1>4. e.txn \in Txns /\ e.seq \in Nat /\ e.seq >= 1 /\ txns \in [Txns -> Row]
      BY <1>1, <1>2, EventFields DEF TypeOK, DbTyped
    <1>5. pc[p] \in Commanded /\ pc'[p] = "replied" /\ UNCHANGED <<copies, issued>>
      BY <1>1, <1>2 DEF WorkTyped, Answer, Goto, Commit, Commanded, Resolved, Loaded, Judged,
                        Drafted, env
    <1>6. ~Opening(p)'
      <2>1. reply'[p] = [code |-> IF e.rejected THEN "GUARD" ELSE "OK", replayed |-> FALSE]
        BY <1>1, <1>2 DEF WorkTyped, Answer
      <2>2. reply'[p].code \in {"OK", "GUARD"} /\ reply'[p].replayed = FALSE BY <2>1
      <2> QED BY <1>5, <2>2 DEF Opening
    <1> HIDE DEF r
    <1>7. \A t \in Txns : txns'[t].seq = IF t = e.txn THEN e.seq ELSE txns[t].seq
      BY <1>2, <1>3, <1>4
    <1>8. /\ \A t \in Txns : txns[t].seq > 0 => t \in issued
          /\ \A body \in copies : body.txn # None => txns[body.txn].seq > 0
          /\ \A x \in parties : txns[x.txn].seq > 0
          /\ \A q \in Procs : pc[q] \in Commanded => cmd[q].txn \in issued
          /\ \A q \in Procs : Opening(q) =>
                /\ txns[cmd[q].txn].seq = 0
                /\ \A u \in Procs \ {q} : pc[u] \in Commanded => cmd[u].txn # cmd[q].txn
      BY DEF IdsOwned
    <1>9. \A t \in Txns : /\ txns[t].seq > 0 => txns'[t].seq > 0
                          /\ txns'[t].seq > 0 => t \in issued
      BY <1>3, <1>4, <1>5, <1>7, <1>8
    <1>10. \A body \in copies' : body.txn # None => txns'[body.txn].seq > 0
      <2>1. \A body \in copies : body.txn \in Txns \cup {None}
        BY <1>1 DEF TypeOK, EnvTyped, Posted
      <2> QED BY <1>5, <1>8, <1>9, <2>1
    <1>11. \A x \in parties' : txns'[x.txn].seq > 0
      <2>1. \A x \in parties : x.txn \in Txns BY <1>1 DEF TypeOK, DbTyped, PartyRow
      <2>2. \A x \in parties' : x \in parties \/ x.txn = e.txn BY <1>2 DEF PartiesAfter
      <2> QED BY <1>4, <1>7, <1>8, <1>9, <2>1, <2>2
    <1>12. \A q \in Procs \ {p} : Opening(q) =>
              txns'[cmd[q].txn].seq = 0 /\ cmd[q].txn # cmd'[p].txn
      <2> SUFFICES ASSUME NEW q \in Procs \ {p}, Opening(q)
                   PROVE  txns'[cmd[q].txn].seq = 0 /\ cmd[q].txn # cmd'[p].txn
        OBVIOUS
      <2>1. cmd[q].txn \in Txns BY <1>1, CommandFields DEF Opening
      <2>2. cmd[q].txn # cmd[p].txn /\ txns[cmd[q].txn].seq = 0 BY <1>5, <1>8
      <2> QED BY <1>2, <1>3, <1>7, <2>1, <2>2
    <1>13. cmd'[p].txn \in issued' /\ issued \subseteq issued' BY <1>2, <1>5, <1>8
    <1> QED BY <1>1, <1>5, <1>6, <1>9, <1>10, <1>11, <1>12, <1>13, IdsFrame

\* No id is given to two openings, and an opening's id stays blank until it
\* commits.
THEOREM IdsOwnedHolds == Spec => []IdsOwned
    <1>1. Init => IdsOwned
      BY DEF Init, IdsOwned, NoRow, Opening, Commanded, Resolved, Loaded, Judged, Drafted
    <1>2. IInv /\ IdsOwned /\ [Next]_vars => IdsOwned'
      <2> SUFFICES ASSUME IInv, IdsOwned, [Next]_vars PROVE IdsOwned'
        OBVIOUS
      <2>0. WorkTyped /\ TypeOK /\ SweepTyped BY DEF IInv, TypeOK
      <2>1. CASE /\ \A q \in Procs : Still(q)
                 /\ UNCHANGED <<tables, copies, issued>>
        <3>1. \A q \in Procs : pc'[q] = pc[q] /\ cmd'[q] = cmd[q] /\ Opening(q)' = Opening(q)
          BY <2>1 DEF Still, Opening
        <3> QED BY <2>1, <3>1 DEF IdsOwned, tables
      <2>2. ASSUME NEW p \in Procs, \A q \in Procs \ {p} : Still(q),
                   p \in Clients, Send(p) \/ Redeliver(p)
            PROVE  IdsOwned'
        BY <2>2, IdsDeliver
      <2>3. ASSUME NEW p \in Procs, \A q \in Procs \ {p} : Still(q), ReadToken(p)
            PROVE  IdsOwned'
        <3>1. pc[p] = "token" /\ UNCHANGED <<tables, copies, issued>>
          BY <2>3 DEF ReadToken, db, env, tables
        <3>2. cmd[p] \in Command /\ cmd[p].txn \in Txns /\ txns[cmd[p].txn].seq > 0
          BY <3>1, Holding, CommandFields DEF Commanded, IdsOwned
        <3>3. txns[cmd[p].txn].seq \in Nat BY <2>0, <3>2, TablesTyped, RowFields
        <3>4. txns[cmd[p].txn].seq # 0 BY <3>2, <3>3
        <3>5. /\ cmd' = [cmd EXCEPT ![p].expected = txns[cmd[p].txn].seq]
              /\ Goto(p, "lookup")
          BY <2>3, <3>4 DEF ReadToken
        <3>6. /\ cmd'[p] = [cmd[p] EXCEPT !.expected = txns[cmd[p].txn].seq]
              /\ pc'[p] = "lookup"
          BY <2>0, <3>5 DEF WorkTyped, Goto
        <3>7. cmd'[p].txn = cmd[p].txn /\ cmd'[p].expected = txns[cmd[p].txn].seq
          BY <3>2, <3>6 DEF Command
        <3>8. ~Opening(p)' BY <3>3, <3>7, NoneAssumption DEF Opening
        <3> QED BY <2>3, <3>1, <3>2, <3>6, <3>7, <3>8, IdsQuiet
      <2>4. ASSUME NEW p \in Procs, \A q \in Procs \ {p} : Still(q), p \in Sweepers, Visit(p)
            PROVE  IdsOwned'
        <3>1. pc[p] = "sweep" /\ UNCHANGED <<tables, copies, issued>>
          BY <2>4 DEF Visit, env, tables
        <3>2. PICK t \in todo[p] :
                 \/ UNCHANGED <<cmd, pc>>
                 \/ /\ txns[t.txn].seq # 0
                    /\ cmd' = [cmd EXCEPT ![p] = Fire(t, txns[t.txn])] /\ Goto(p, "lookup")
          BY <2>4 DEF Visit
        <3>3. CASE UNCHANGED <<cmd, pc>>
          <4>1. pc'[p] \in {"idle", "sweep"} BY <3>1, <3>3
          <4>2. pc'[p] \notin Commanded
            BY <4>1 DEF Commanded, Resolved, Loaded, Judged, Drafted
          <4> QED BY <2>4, <3>1, <4>1, <4>2, IdsQuiet
        <3>4. CASE /\ txns[t.txn].seq # 0
                   /\ cmd' = [cmd EXCEPT ![p] = Fire(t, txns[t.txn])] /\ Goto(p, "lookup")
          <4>1. t \in TimerRow BY <2>0 DEF SweepTyped
          <4>2. t.txn \in Txns BY <4>1 DEF TimerRow
          <4>3. txns[t.txn].seq \in Nat BY <2>0, <4>2, TablesTyped, RowFields
          <4>4. cmd'[p].txn = t.txn /\ pc'[p] = "lookup"
            BY <2>0, <3>4 DEF WorkTyped, Goto, Fire
          <4>5. ~Opening(p)' BY <2>4, ProcsAssumption DEF Opening
          <4>6. txns[cmd'[p].txn].seq > 0 BY <3>4, <4>3, <4>4
          <4> QED BY <2>4, <3>1, <4>2, <4>4, <4>5, <4>6, IdsQuiet
        <3> QED BY <3>2, <3>3, <3>4
      <2>5. ASSUME NEW p \in Procs, \A q \in Procs \ {p} : Still(q), Engine(p)
            PROVE  IdsOwned'
        <3>1. CASE Commit(p) BY <2>5, <3>1, IdsCommit
        <3>2. CASE ~Commit(p)
          <4>1. UNCHANGED <<db, env, cmd>> /\ pc[p] \in Commanded \ {"token", "replied"}
            BY <2>5, <3>2
            DEF Engine, Lookup, Load, LoadTail, RunGuards, PreCheckKey, PreCheckSeq,
                PreCheckClaim, CountEvents, AbortBatch, ReplayRaced,
                Commanded, Resolved, Loaded, Judged, Drafted
          <4>2. cmd[p] \in Command /\ cmd[p].txn \in Txns BY <4>1, Holding, CommandFields
          <4>3. pc'[p] # "token"
            <5>1. \A code, replayed : Answer(p, code, replayed) => pc'[p] = "replied"
              BY <2>0 DEF WorkTyped, Answer, Goto
            <5>2. Retry(p) => pc'[p] \in {"load", "replied"}
              BY <2>0, <5>1 DEF WorkTyped, Retry, Goto
            <5>3. \A l : Goto(p, l) => pc'[p] = l BY <2>0 DEF WorkTyped, Goto
            <5>4. CASE Lookup(p) \/ Load(p) \/ LoadTail(p) \/ RunGuards(p)
              BY <5>1, <5>3, <5>4 DEF Lookup, Load, LoadTail, RunGuards
            <5>5. CASE PreCheckKey(p) \/ PreCheckSeq(p) \/ PreCheckClaim(p) \/ CountEvents(p)
              BY <5>1, <5>2, <5>3, <5>5 DEF PreCheckKey, PreCheckSeq, PreCheckClaim, CountEvents
            <5>6. CASE AbortBatch(p) \/ ReplayRaced(p)
              BY <5>1, <5>2, <5>3, <5>6 DEF AbortBatch, ReplayRaced
            <5> QED BY <2>5, <3>2, <5>4, <5>5, <5>6 DEF Engine
          <4>4. Opening(p)' => Opening(p) BY <4>1 DEF Opening
          <4> QED BY <2>5, <4>1, <4>2, <4>3, <4>4, IdsQuiet DEF db, env, tables
        <3> QED BY <3>1, <3>2
      <2>6. ASSUME NEW p \in Procs, \A q \in Procs \ {p} : Still(q), Rests(p)
            PROVE  IdsOwned'
        <3>1. pc'[p] \notin Commanded
          BY <2>6 DEF Rests, Commanded, Resolved, Loaded, Judged, Drafted
        <3> QED BY <2>6, <3>1, IdsQuiet DEF Rests
      <2> QED BY <2>1, <2>2, <2>3, <2>4, <2>5, <2>6, OneMoves
    <1> QED BY <1>1, <1>2, Inductive, PTL DEF Spec

\* A refused POST /txn leaves nothing behind: no row, event, party or timer
\* ever names the id it was given.
THEOREM RefusedOpensNothingHolds == Spec => []RefusedOpensNothing
    <1>1. IInv /\ Projection /\ TimersCurrent /\ IdsOwned => RefusedOpensNothing
      <2> SUFFICES ASSUME IInv, Projection, TimersCurrent, IdsOwned, NEW p \in Clients,
                          pc[p] = "replied", cmd[p].expected = None,
                          reply[p].code \notin {"OK", "GUARD"} \/ reply[p].replayed
                   PROVE  /\ txns[cmd[p].txn].seq = 0
                          /\ \A i \in DOMAIN events : events[i].txn # cmd[p].txn
                          /\ \A r \in parties \cup timers : r.txn # cmd[p].txn
        BY DEF RefusedOpensNothing
      <2>1. p \in Procs /\ Opening(p) BY DEF Procs, Opening, Commanded
      <2>2. txns[cmd[p].txn].seq = 0 BY <2>1 DEF IdsOwned
      <2>3. cmd[p].txn \in Txns BY <2>1, Holding, CommandFields DEF Commanded
      <2>4. \A i \in DOMAIN events : events[i].txn # cmd[p].txn
        BY <2>2, <2>3 DEF Projection
      <2>5. \A r \in parties : r.txn # cmd[p].txn BY <2>2 DEF IdsOwned
      <2>6. \A r \in timers : r.txn # cmd[p].txn BY <2>4 DEF TimersCurrent
      <2> QED BY <2>2, <2>4, <2>5, <2>6
    <1> QED BY <1>1, Inductive, ProjectionHolds, TimersCurrentHolds, IdsOwnedHolds, PTL

-----------------------------------------------------------------------------
(* The engine implements the abstract log of TxnLog: every commit is one    *)
(* decision on the txn's current state, and nothing else is a step.         *)

\* What an abstract entry is made of.
Entries == {Entry(e) : e \in Event}

\* The abstract log has one entry per event.
LEMMA AbstractFacts ==
    ASSUME TypeOK
    PROVE  /\ AbstractLog \in Seq(Entries) /\ Len(AbstractLog) = EventCount
           /\ EventCount \in Nat
           /\ DOMAIN AbstractLog = 1..EventCount /\ DOMAIN events = 1..EventCount
           /\ \A i \in DOMAIN events : AbstractLog[i] = Entry(events[i])
    <1>1. /\ events \in Seq(Event) /\ EventCount \in Nat
          /\ \A i \in DOMAIN events : events[i] \in Event
      BY TablesTyped
    <1>2. DOMAIN events = 1..EventCount BY <1>1 DEF EventCount
    <1>3. AbstractLog = [i \in 1..EventCount |-> Entry(events[i])] BY <1>2 DEF AbstractLog
    <1>4. \A i \in 1..EventCount : Entry(events[i]) \in Entries BY <1>1, <1>2 DEF Entries
    <1>5. AbstractLog \in [1..EventCount -> Entries] BY <1>3, <1>4
    <1>6. AbstractLog \in Seq(Entries) BY <1>1, <1>5
    <1>7. Len(AbstractLog) = EventCount BY <1>1, <1>5, <1>6
    <1> QED BY <1>1, <1>2, <1>3, <1>6, <1>7

\* The initial states map to the initial state.
LEMMA InitMaps == Init => Abstract!Init
    <1> SUFFICES ASSUME Init PROVE Abstract!Init
      OBVIOUS
    <1>1. IInv BY InitIInv
    <1>2. TypeOK /\ EventCount = 0 BY <1>1 DEF IInv, Init, EventCount
    <1>3. AbstractLog \in Seq(Entries) /\ Len(AbstractLog) = 0 BY <1>2, AbstractFacts
    <1>4. AbstractLog = <<>> BY <1>3
    <1> QED BY <1>4 DEF Init, Abstract!Init

\* A landed event is one more abstract entry.
LEMMA AppendMaps ==
    ASSUME TypeOK, NEW e \in Event, events' = Append(events, e)
    PROVE  /\ AbstractLog' = Append(AbstractLog, Entry(e))
           /\ Len(AbstractLog') = Len(AbstractLog) + 1
           /\ AbstractLog'[Len(AbstractLog')] = Entry(e)
    <1>1. /\ AbstractLog \in Seq(Entries) /\ Len(AbstractLog) = EventCount
          /\ EventCount \in Nat
          /\ DOMAIN AbstractLog = 1..EventCount /\ DOMAIN events = 1..EventCount
          /\ \A i \in DOMAIN events : AbstractLog[i] = Entry(events[i])
      BY AbstractFacts
    <1>2. Entry(e) \in Entries BY DEF Entries
    <1>3. /\ Append(AbstractLog, Entry(e)) \in Seq(Entries)
          /\ Len(Append(AbstractLog, Entry(e))) = EventCount + 1
          /\ DOMAIN Append(AbstractLog, Entry(e)) = 1..(EventCount + 1)
          /\ \A i \in 1..EventCount : Append(AbstractLog, Entry(e))[i] = AbstractLog[i]
          /\ Append(AbstractLog, Entry(e))[EventCount + 1] = Entry(e)
      BY <1>1, <1>2, AppendFacts
    <1>4. /\ DOMAIN events' = 1..(EventCount + 1)
          /\ \A i \in 1..EventCount : events'[i] = events[i]
          /\ events'[EventCount + 1] = e
      BY <1>1, LogGrowth
    <1>5. AbstractLog' = [i \in 1..(EventCount + 1) |-> Entry(events'[i])]
      BY <1>4 DEF AbstractLog, Entry
    <1>6. \A i \in 1..(EventCount + 1) : Entry(events'[i]) = Append(AbstractLog, Entry(e))[i]
      <2> SUFFICES ASSUME NEW i \in 1..(EventCount + 1)
                   PROVE  Entry(events'[i]) = Append(AbstractLog, Entry(e))[i]
        OBVIOUS
      <2>1. CASE i \in 1..EventCount BY <1>1, <1>3, <1>4, <2>1
      <2>2. CASE i = EventCount + 1 BY <1>3, <1>4, <2>2
      <2> QED BY <1>1, <2>1, <2>2
    <1> DEFINE A == Append(AbstractLog, Entry(e))
    <1>7. A = [i \in DOMAIN A |-> A[i]]
      <2>1. A \in Seq(Entries) BY <1>3
      <2> HIDE DEF A
      <2> QED BY <2>1
    <1>8. AbstractLog' = A BY <1>3, <1>5, <1>6, <1>7
    <1> QED BY <1>1, <1>3, <1>8

\* The entry of a landed event is lawful in the abstract state of before: the
\* actor is entitled, and the entry opens its txn or leaves its current state.
LEMMA LawfulStep ==
    ASSUME IInv, Projection, ClaimedOnce, NEW p \in Procs, Commit(p)
    PROVE  Abstract!Lawful(Entry(draft[p].event))
    <1> DEFINE e == draft[p].event
               c == cmd[p]
               row == snap[p].row
               d == EdgeOf(c)
               a == Entry(e)
    <1>1. /\ TypeOK /\ e \in Event /\ c \in Command /\ Resolves(c)
          /\ Extends(e, c, row, snap[p].tail)
          /\ Authorized(c) /\ LegalFrom(c, row.state)
          /\ ~KeyUsed(e.key) /\ e.claim \notin claims /\ row.seq = txns[e.txn].seq
          /\ IsNew(c) => row.seq = 0 /\ row.state = CHAINS[c.chain].initial
          /\ ~IsNew(c) => row.seq > 0 /\ row = txns[e.txn]
      BY CommitLands DEF IInv
    <1>2. /\ e.txn = c.txn /\ e.chain = c.chain /\ e.edge = c.edge /\ e.actor = c.actor
          /\ e.from = IF IsNew(c) THEN Absent ELSE row.state
          /\ e.to = IF e.rejected THEN row.state ELSE d.to
          /\ e.claim # None => d.claims /\ ~e.rejected
      BY <1>1 DEF Extends
    <1>3. /\ a.txn = e.txn /\ a.chain = e.chain /\ a.edge = e.edge /\ a.rejected = e.rejected
          /\ a.from = e.from /\ a.to = e.to /\ a.actor = e.actor /\ a.key = e.key
          /\ a.claim = e.claim
      BY DEF Entry
    <1>4. /\ c.chain \in DOMAIN CHAINS /\ d \in CHAINS[c.chain].edges /\ d.id = c.edge
          /\ IsNew(c) = d.isNew /\ d.isNew \in BOOLEAN
      BY <1>1, EdgeFacts
    <1>5. e.txn \in Txns BY <1>1, EventFields
    <1>6. /\ DOMAIN AbstractLog = DOMAIN events
          /\ \A i \in DOMAIN events : AbstractLog[i] = Entry(events[i])
      BY <1>1, AbstractFacts
    <1>7. \A i \in DOMAIN events : /\ AbstractLog[i].txn = events[i].txn
                                   /\ AbstractLog[i].to = events[i].to
                                   /\ AbstractLog[i].key = events[i].key
                                   /\ AbstractLog[i].claim = events[i].claim
      BY <1>6 DEF Entry
    <1>8. Abstract!EntriesOf(e.txn) = {i \in DOMAIN events : events[i].txn = e.txn}
      BY <1>6, <1>7 DEF Abstract!EntriesOf
    <1> HIDE DEF a, d
    <1>9. d \in Abstract!Edges(a.chain) BY <1>2, <1>3, <1>4 DEF Abstract!Edges
    <1>10. Abstract!Entitled(a.txn, a.actor, d)
      <2>1. CASE c.actor = TimerActor
        BY <1>1, <1>2, <1>3, <2>1
             DEF Authorized, Abstract!Entitled, TimerActor, Abstract!TimerActor, d
      <2>2. CASE c.actor # TimerActor /\ IsNew(c)
        BY <1>1, <1>2, <1>3, <1>4, <2>2
             DEF Authorized, Abstract!Entitled, TimerActor, Abstract!TimerActor, d
      <2>3. CASE c.actor # TimerActor /\ ~IsNew(c)
        <3>1. PICK l \in LiveParties(c.txn) :
                 l.participant = c.actor /\ l.role \in d.by \ {"system"}
          BY <1>1, <1>4, <2>3 DEF Authorized, d
        <3>2. PICK m \in parties : /\ m.txn = c.txn
                                   /\ l = [participant |-> m.participant, role |-> m.role,
                                           field |-> m.field]
          BY <3>1 DEF LiveParties
        <3>3. m.participant = c.actor /\ m.role \in d.by \ {"system"} BY <3>1, <3>2
        <3> QED BY <1>2, <1>3, <1>4, <2>3, <3>2, <3>3
             DEF Abstract!Entitled, TimerActor, Abstract!TimerActor
      <2> QED BY <2>1, <2>2, <2>3
    <1>11. Abstract!Opens(a, d) \/ Abstract!Moves(a, d)
      <2>1. CASE IsNew(c)
        <3>1. \A i \in DOMAIN events : events[i].txn # e.txn
          BY <1>1, <1>5, <2>1 DEF Projection
        <3>2. Abstract!EntriesOf(a.txn) = {} BY <1>3, <1>8, <3>1
        <3>3. a.from = Absent /\ a.to = IF a.rejected THEN CHAINS[a.chain].initial ELSE d.to
          BY <1>1, <1>2, <1>3, <2>1
        <3> QED BY <1>4, <2>1, <3>2, <3>3 DEF Abstract!Opens, Absent, Abstract!Absent
      <2>2. CASE ~IsNew(c)
        <3>1. PICK i \in DOMAIN events : Last(e.txn, i) /\ txns[e.txn].state = events[i].to
          BY <1>1, <1>5, <2>2 DEF Projection
        <3>2. events[i].txn = e.txn /\ \A j \in DOMAIN events : events[j].txn = e.txn => j <= i
          BY <3>1 DEF Last
        <3>3. Abstract!IsLast(a.txn, i) BY <1>3, <1>8, <3>2 DEF Abstract!IsLast
        <3>4. AbstractLog[i].to = a.from BY <1>1, <1>2, <1>3, <1>7, <2>2, <3>1
        <3>5. a.from \in d.from BY <1>1, <1>2, <1>3, <1>4, <2>2 DEF LegalFrom, d
        <3>6. a.to = IF a.rejected THEN a.from ELSE d.to BY <1>2, <1>3, <2>2
        <3>7. ~d.isNew BY <1>4, <2>2
        <3> QED BY <1>6, <3>3, <3>4, <3>5, <3>6, <3>7 DEF Abstract!Moves
      <2> QED BY <2>1, <2>2
    <1>12. \A i \in DOMAIN AbstractLog :
              /\ AbstractLog[i].key # a.key
              /\ (a.claim # None) => AbstractLog[i].claim # a.claim
      <2>1. \A i \in DOMAIN events : events[i].key # e.key BY <1>1 DEF KeyUsed
      <2>2. \A i \in DOMAIN events : e.claim # None => events[i].claim # e.claim
        BY <1>1 DEF ClaimedOnce
      <2> QED BY <1>3, <1>6, <1>7, <2>1, <2>2
    <1>13. d.id = a.edge /\ ((a.claim # None) => d.claims /\ ~a.rejected)
      BY <1>2, <1>3, <1>4 DEF d
    <1>14. Abstract!Lawful(a) BY <1>9, <1>10, <1>11, <1>12, <1>13 DEF Abstract!Lawful
    <1> QED BY <1>14 DEF a

\* Parties join with an opening only, and only their own txn.
LEMMA JoinStep ==
    ASSUME IInv, Projection, NEW p \in Procs, Commit(p)
    PROVE  Abstract!Join(Entry(draft[p].event))
    <1> DEFINE e == draft[p].event
               c == cmd[p]
               row == snap[p].row
               a == Entry(e)
    <1>1. /\ TypeOK /\ e \in Event /\ parties' = PartiesAfter(p)
          /\ row.seq = txns[e.txn].seq /\ (IsNew(c) => row.seq = 0)
      BY CommitLands DEF IInv
    <1>2. a.txn = e.txn /\ a.rejected = e.rejected BY DEF Entry
    <1>3. CASE e.rejected \/ ~IsNew(c) BY <1>1, <1>3 DEF PartiesAfter, Abstract!Join
    <1>4. CASE ~(e.rejected \/ ~IsNew(c))
      <2>1. e.txn \in Txns BY <1>1, EventFields
      <2>2. \A i \in DOMAIN events : events[i].txn # e.txn
        BY <1>1, <1>4, <2>1 DEF Projection
      <2>3. /\ DOMAIN AbstractLog = DOMAIN events
            /\ \A i \in DOMAIN events : AbstractLog[i] = Entry(events[i])
        BY <1>1, AbstractFacts
      <2>4. Abstract!EntriesOf(e.txn) = {} BY <2>2, <2>3 DEF Abstract!EntriesOf, Entry
      <2>5. parties \subseteq parties' /\ \A m \in parties' \ parties : m.txn = e.txn
        BY <1>1, <1>4 DEF PartiesAfter
      <2> HIDE DEF a
      <2> QED BY <1>2, <1>4, <2>4, <2>5 DEF Abstract!Join, a
    <1> QED BY <1>3, <1>4

\* Every step maps to a decision or to a stutter.
LEMMA StepMaps ==
    ASSUME IInv, Projection, ClaimedOnce, [Next]_vars
    PROVE  [Abstract!Decide]_(Abstract!entry_vars)
    <1>1. ASSUME NEW p \in Procs, Commit(p) PROVE Abstract!Decide
      <2> DEFINE e == draft[p].event
      <2>1. TypeOK /\ e \in Event /\ events' = Append(events, e) BY <1>1, LandedEvent
      <2>2. /\ AbstractLog' = Append(AbstractLog, Entry(e))
            /\ Len(AbstractLog') = Len(AbstractLog) + 1
            /\ AbstractLog'[Len(AbstractLog')] = Entry(e)
        BY <2>1, AppendMaps
      <2>3. Abstract!Lawful(Entry(e)) /\ Abstract!Join(Entry(e))
        BY <1>1, LawfulStep, JoinStep
      <2> QED BY <2>2, <2>3 DEF Abstract!Decide
    <1>2. CASE UNCHANGED tables
      BY <1>2 DEF tables, Abstract!entry_vars, AbstractLog, Entry
    <1> QED BY <1>1, <1>2, OnlyCommitWrites

\* The engine implements the abstract log: the store grows as if each decision
\* were taken and recorded in one step, for all chains, processes and bounds.
THEOREM Refinement == Spec => ImplementsLog
    <1>1. Init => Abstract!Init BY InitMaps
    <1>2. IInv /\ Projection /\ ClaimedOnce /\ [Next]_vars
             => [Abstract!Decide]_(Abstract!entry_vars)
      BY StepMaps
    <1> QED BY <1>1, <1>2, Inductive, ProjectionHolds, ClaimedOnceHolds, PTL
         DEF Spec, ImplementsLog, Abstract!Spec
=============================================================================
