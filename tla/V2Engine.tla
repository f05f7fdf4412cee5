------------------------------ MODULE V2Engine ------------------------------
(***************************************************************************)
(* The v2 domain engine (applyTransition) over the D1 store, the HTTP       *)
(* commands that call it and the cron sweep that fires due timers.          *)
(*                                                                          *)
(* Every request runs in a worker isolate of its own; between any two of    *)
(* its awaited D1 calls other requests may run.  A process of Clients is    *)
(* one request at a time, a process of Sweepers one run of the timer sweep. *)
(* pc[p] names the D1 call a process is about to make.                      *)
(***************************************************************************)
EXTENDS ChainDecl, Sequences, FiniteSets

CONSTANTS
    Clients, Sweepers,  \* concurrent requests, concurrent cron runs
    Txns,               \* fresh uuids the server may give to txns
    Keys,               \* idempotency keys the clients generate
    Refs,               \* human references a uuid's last digits can spell
    Intents,            \* what clients ask for: chain, edge, actor, input, ...
    MaxRetries,         \* attempts of one command at a commit
    SweepLimit,         \* timer rows one sweep takes of a class
    MaxTime,            \* bound: the clock stops here
    MaxFlips,           \* bound: changes of the compliance halt
    MaxCrashes,         \* bound: requests and sweeps cut off half-way
    MaxRepeats,         \* bound: commands delivered again
    None

Procs == Clients \cup Sweepers

ASSUME BoundsAssumption ==
    /\ MaxRetries \in Nat \ {0}
    /\ SweepLimit \in Nat \ {0}
    /\ MaxTime \in Nat
    /\ MaxFlips \in Nat
    /\ MaxCrashes \in Nat
    /\ MaxRepeats \in Nat

Intent == [chain: STRING, edge: STRING, actor: Participants, input: Payloads,
           reason: BOOLEAN, parties: SUBSET Attachment]

ASSUME ProcsAssumption == Clients \cap Sweepers = {}

ASSUME IntentsAssumption == Intents \subseteq Intent

ASSUME NoneAssumption == None \notin Txns \cup Refs \cup Payloads \cup Nat

VARIABLES
    \* the database
    events,   \* v2_events in the order of insertion
    txns,     \* v2_txns by id; seq 0 stands for "no such row"
    parties,  \* v2_parties
    timers,   \* v2_timers
    claims,   \* v2_claims
    halted,   \* v2_reference: the compliance:halt flag
    \* the processes
    pc, cmd, attempt, snap, draft, reply,
    \* the sweeps
    class, cutoff, todo, timer,
    \* the environment
    now, flips, crashes, repeats,
    used,     \* keys under which a client has posted a command
    copies,   \* command bodies still to be delivered once more
    issued    \* txn ids already given out

db == <<events, txns, parties, timers, claims>>
env == <<halted, now, flips, crashes, repeats, used, copies, issued>>
work == <<pc, cmd, attempt, snap, draft, reply>>
sweeping == <<class, cutoff, todo, timer>>
vars == <<db, env, work, sweeping>>

-----------------------------------------------------------------------------
(* Rows.                                                                    *)

NoRow == [chain |-> Absent, seq |-> 0, state |-> Absent, fields |-> Blank,
          closed |-> FALSE, ref |-> None]

\* The hash of an event covers its whole content: injective, so the content
\* that identifies it.  seq 0 is the genesis hash of the chain.
HashOf(e) == [chain |-> e.chain, txn |-> e.txn, seq |-> e.seq, key |-> e.key]
Genesis(chain) == [chain |-> chain, txn |-> None, seq |-> 0, key |-> None]

\* The deterministic key under which the sweep fires a timer row.
TimerKey(t) == [txn |-> t.txn, on |-> t.on, fire |-> t.fire, due |-> t.due]

\* Mutant: no PRIMARY KEY (txn_id, seq).
NoEventPk(t, s) == FALSE
InLog(t, s) == \E i \in DOMAIN events : events[i].txn = t /\ events[i].seq = s
\* Mutant: no UNIQUE (idempotency_key) and no lookup.
NoKeyIndex(k) == FALSE
KeyUsed(k) == \E i \in DOMAIN events : events[i].key = k
\* Mutant: no UNIQUE index on global_seq.
NoGlobalIndex(g) == FALSE
GlobalSeqUsed(g) == \E i \in DOMAIN events : events[i].gseq = g
RefUsed(r) == r # None /\ \E t \in Txns : txns[t].ref = r
EventCount == Len(events)

\* Mutant: the tail is taken without WHERE txn_id = ?.
TailOfTable(t) == HashOf(events[EventCount])

\* The row with the highest seq of a txn's log (ORDER BY seq ASC, last).
TailHash(t) ==
    LET i == CHOOSE i \in DOMAIN events :
                 /\ events[i].txn = t
                 /\ \A j \in DOMAIN events : events[j].txn = t => events[j].seq <= events[i].seq
    IN HashOf(events[i])

-----------------------------------------------------------------------------
(* Steps shared by the handlers.                                            *)

Goto(p, l) == pc' = [pc EXCEPT ![p] = l]

\* The outcome of applyTransition, still to be received by the caller.
Answer(p, code, replayed) ==
    /\ Goto(p, "replied")
    /\ reply' = [reply EXCEPT ![p] = [code |-> code, replayed |-> replayed]]
    /\ attempt' = [attempt EXCEPT ![p] = 0]
    /\ snap' = [snap EXCEPT ![p] = None]
    /\ draft' = [draft EXCEPT ![p] = None]

\* A constraint violation rebuilds everything from a fresh load, at most
\* MaxRetries times.
Retry(p) ==
    IF attempt[p] + 1 < MaxRetries
    THEN /\ Goto(p, "load")
         /\ attempt' = [attempt EXCEPT ![p] = @ + 1]
         /\ snap' = [snap EXCEPT ![p] = None]
         /\ draft' = [draft EXCEPT ![p] = None]
         /\ UNCHANGED reply
    ELSE Answer(p, "CONTENTION", FALSE)

\* deps.chains[cmd.chain_key] and its edge, by id.
Resolves(c) ==
    /\ c.chain \in DOMAIN CHAINS
    /\ \E e \in CHAINS[c.chain].edges : e.id = c.edge
EdgeOf(c) == CHOOSE e \in CHAINS[c.chain].edges : e.id = c.edge
IsNew(c) == Resolves(c) /\ EdgeOf(c).isNew

-----------------------------------------------------------------------------
(* Clients.                                                                 *)

Body(k, it, t, token) ==
    [key |-> k, chain |-> it.chain, edge |-> it.edge, actor |-> it.actor, txn |-> t,
     input |-> it.input, reason |-> it.reason, parties |-> it.parties, expected |-> token]

\* POST /txn generates a fresh txn id server-side, on every delivery; POST
\* /txn/:id/act reads the current seq when the client sent no token.
FreshTxn == CHOOSE t \in Txns : t \notin issued

Deliver(p, body) ==
    IF body.txn = None
    THEN /\ Txns \ issued # {}
         /\ issued' = issued \cup {FreshTxn}
         /\ cmd' = [cmd EXCEPT ![p] = [body EXCEPT !.txn = FreshTxn]]
         /\ Goto(p, "lookup")
    ELSE /\ cmd' = [cmd EXCEPT ![p] = body]
         /\ Goto(p, IF body.expected = None THEN "token" ELSE "lookup")
         /\ UNCHANGED issued

\* The bodies an intent can take: POST /txn, or /txn/:id/act on a txn the
\* client can see, with the seq it saw or with no token.
Bodies(k, it) ==
    {Body(k, it, None, None)} \cup
    UNION {{Body(k, it, t, None), Body(k, it, t, txns[t].seq)} :
               t \in {t \in Txns : txns[t].seq > 0}}

\* A client posts a command under a fresh key of its own; some commands will
\* be delivered twice.
FreshKey == CHOOSE k \in Keys : k \notin used

Send(p) ==
    /\ pc[p] = "idle"
    /\ Keys \ used # {}
    /\ used' = used \cup {FreshKey}
    /\ \E it \in Intents : \E body \in Bodies(FreshKey, it) :
          /\ Deliver(p, body)
          /\ \/ UNCHANGED <<copies, repeats>>
             \/ /\ repeats < MaxRepeats
                /\ repeats' = repeats + 1
                /\ copies' = copies \cup {body}
    /\ UNCHANGED <<db, halted, now, flips, crashes, attempt, snap, draft, reply, sweeping>>

\* The network or the client delivers the same body again, however late.
Redeliver(p) ==
    /\ pc[p] = "idle"
    /\ \E body \in copies : Deliver(p, body) /\ copies' = copies \ {body}
    /\ UNCHANGED <<db, halted, now, flips, crashes, repeats, used, attempt, snap, draft, reply,
                   sweeping>>

\* The client receives the answer.
Receive(p) ==
    /\ p \in Clients
    /\ pc[p] = "replied"
    /\ Goto(p, "idle")
    /\ cmd' = [cmd EXCEPT ![p] = None]
    /\ reply' = [reply EXCEPT ![p] = None]
    /\ UNCHANGED <<db, env, attempt, snap, draft, sweeping>>

-----------------------------------------------------------------------------
(* applyTransition, one action per awaited D1 call.                         *)

\* The act route reads the token before it calls the engine.
ReadToken(p) ==
    /\ pc[p] = "token"
    /\ LET t == cmd[p].txn IN
       IF txns[t].seq = 0
       THEN Answer(p, "NOT_FOUND", FALSE) /\ UNCHANGED cmd
       ELSE /\ cmd' = [cmd EXCEPT ![p].expected = txns[t].seq]
            /\ Goto(p, "lookup")
            /\ UNCHANGED <<attempt, snap, draft, reply>>
    /\ UNCHANGED <<db, env, sweeping>>

\* Fast path: a key already in the log replays.  Then resolve the edge.
Lookup(p) ==
    /\ pc[p] = "lookup"
    /\ CASE KeyUsed(cmd[p].key) -> Answer(p, "OK", TRUE)
         [] ~KeyUsed(cmd[p].key) /\ ~Resolves(cmd[p]) -> Answer(p, "UNKNOWN_EDGE", FALSE)
         [] OTHER -> Goto(p, "load") /\ UNCHANGED <<attempt, snap, draft, reply>>
    /\ UNCHANGED <<db, env, cmd, sweeping>>

\* getTxn, its first SELECT: the txn row, against the concurrency token.
Load(p) ==
    /\ pc[p] = "load"
    /\ LET c == cmd[p]
           row == txns[c.txn]
           fresh == [NoRow EXCEPT !.chain = c.chain, !.state = CHAINS[c.chain].initial]
       IN CASE IsNew(c) /\ row.seq > 0 -> Answer(p, "CONFLICT", FALSE)
            [] ~IsNew(c) /\ row.seq = 0 -> Answer(p, "NOT_FOUND", FALSE)
            [] ~IsNew(c) /\ row.seq > 0 /\ c.expected # row.seq -> Answer(p, "STALE", FALSE)
            [] OTHER ->
                 /\ snap' = [snap EXCEPT ![p] =
                               [row |-> IF IsNew(c) THEN fresh ELSE row, tail |-> Genesis(c.chain)]]
                 /\ Goto(p, "tail")
                 /\ UNCHANGED <<attempt, draft, reply>>
    /\ UNCHANGED <<db, env, cmd, sweeping>>

LiveParties(t) == {[participant |-> r.participant, role |-> r.role, field |-> r.field] :
                      r \in {r \in parties : r.txn = t}}

\* Mutant: the role is looked up, the participant is not.
AuthorizedByRole(c) ==
    LET e == EdgeOf(c) IN
    IF c.actor = TimerActor THEN "system" \in e.by
    ELSE e.isNew \/ \E a \in LiveParties(c.txn) : a.role \in e.by \ {"system"}

\* Step 3: a user needs a live role the edge names; opening edges are
\* screened upstream and only need to be open to users at all.
Authorized(c) ==
    LET e == EdgeOf(c) IN
    IF c.actor = TimerActor THEN "system" \in e.by
    ELSE IF e.isNew THEN e.by \ {"system"} # {}
    ELSE \E a \in LiveParties(c.txn) :
            a.participant = c.actor /\ a.role \in e.by \ {"system"}

\* Step 4: the edge leaves the state that was loaded.
LegalFrom(c, state) == EdgeOf(c).isNew \/ state \in EdgeOf(c).from

\* Step 5: required input and reason code.
WellFormed(c) ==
    /\ "input" \in EdgeOf(c).needs => c.input # Blank
    /\ "reason" \in EdgeOf(c).needs => c.reason

\* getTxn, its later SELECTs: the log tail, which may be newer than the row.
\* Steps 3 to 5 follow without another await; each refusal writes nothing.
LoadTail(p) ==
    /\ pc[p] = "tail"
    /\ LET c == cmd[p] IN
       CASE ~Authorized(c) -> Answer(p, "FORBIDDEN", FALSE)
         [] Authorized(c) /\ ~LegalFrom(c, snap[p].row.state) ->
              Answer(p, "ILLEGAL_TRANSITION", FALSE)
         [] Authorized(c) /\ LegalFrom(c, snap[p].row.state) /\ ~WellFormed(c) ->
              Answer(p, "BAD_INPUT", FALSE)
         [] OTHER ->
              /\ snap' = [snap EXCEPT ![p].tail =
                            IF IsNew(c) THEN Genesis(c.chain) ELSE TailHash(c.txn)]
              /\ Goto(p, "guards")
              /\ UNCHANGED <<attempt, draft, reply>>
    /\ UNCHANGED <<db, env, cmd, sweeping>>

\* The parties the opening edge will attach: the actor, unless it is the
\* timer, which is no participant, and the party inputs.
NewParties(c) ==
    c.parties \cup
    (IF EdgeOf(c).becomes = Absent \/ c.actor = TimerActor THEN {}
     ELSE {[participant |-> c.actor, role |-> EdgeOf(c).becomes, field |-> Absent]})

GuardParties(c) == IF IsNew(c) THEN NewParties(c) ELSE LiveParties(c.txn)

\* Steps 6 and 7: the clock, every guard (the halt flag is read from the
\* store), and the event they yield.  A guard's refusal is an event too: it
\* takes a seq and does not move the txn.
EventOf(c, row, tail, passed, to, at) ==
    [txn |-> c.txn, seq |-> row.seq + 1, gseq |-> 0, chain |-> c.chain, edge |-> c.edge,
     rejected |-> ~passed, from |-> IF IsNew(c) THEN Absent ELSE row.state,
     to |-> to, actor |-> c.actor, at |-> at, prev |-> tail, key |-> c.key,
     claim |-> IF passed /\ EdgeOf(c).claims THEN Merge(row.fields, c.input) ELSE None]

\* Mutants: a refusal moves the txn; a timer's event is stamped with its due
\* time.
MovingRefusal(c, row, tail, passed) == EventOf(c, row, tail, passed, EdgeOf(c).to, now)
BackdatedEvent(c, row, tail, passed) ==
    EventOf(c, row, tail, passed, IF passed THEN EdgeOf(c).to ELSE row.state,
            IF c.actor = TimerActor THEN c.key.due ELSE now)
BuildEvent(c, row, tail, passed) ==
    EventOf(c, row, tail, passed, IF passed THEN EdgeOf(c).to ELSE row.state, now)

RunGuards(p) ==
    /\ pc[p] = "guards"
    /\ LET c == cmd[p]
           row == snap[p].row
           passed == \A g \in EdgeOf(c).guards :
                        GuardHolds(g, row.fields, c.input, GuardParties(c), halted)
       IN \E r \in IF IsNew(c) /\ passed THEN Refs ELSE {row.ref} :
             draft' = [draft EXCEPT ![p] =
                         [event |-> BuildEvent(c, row, snap[p].tail, passed),
                          fields |-> IF passed THEN Merge(row.fields, c.input) ELSE row.fields,
                          ref |-> r]]
    /\ Goto(p, "preKey")
    /\ UNCHANGED <<db, env, cmd, attempt, snap, reply, sweeping>>

-----------------------------------------------------------------------------
(* D1Store.commit: SELECT pre-checks, COUNT, one atomic batch.              *)

PreCheckKey(p) ==
    /\ pc[p] = "preKey"
    /\ Goto(p, IF KeyUsed(draft[p].event.key) THEN "raced" ELSE "preSeq")
    /\ UNCHANGED <<db, env, cmd, attempt, snap, draft, reply, sweeping>>

\* event_pk, human_ref, txn_seq: all retriable.
PreCheckSeq(p) ==
    /\ pc[p] = "preSeq"
    /\ LET e == draft[p].event IN
       IF \/ InLog(e.txn, e.seq)
          \/ IsNew(cmd[p]) /\ RefUsed(draft[p].ref)
          \/ ~IsNew(cmd[p]) /\ txns[e.txn].seq # snap[p].row.seq
       THEN Retry(p)
       ELSE /\ Goto(p, IF e.claim = None THEN "count" ELSE "preClaim")
            /\ UNCHANGED <<attempt, snap, draft, reply>>
    /\ UNCHANGED <<db, env, cmd, sweeping>>

\* A taken claim is permanent: the violation is rethrown to the caller.
PreCheckClaim(p) ==
    /\ pc[p] = "preClaim"
    /\ IF draft[p].event.claim \in claims
       THEN Answer(p, "THROWN", FALSE)
       ELSE Goto(p, "count") /\ UNCHANGED <<attempt, snap, draft, reply>>
    /\ UNCHANGED <<db, env, cmd, sweeping>>

\* global_seq is the number of events counted, plus one.
CountEvents(p) ==
    /\ pc[p] = "count"
    /\ draft' = [draft EXCEPT ![p].event.gseq = EventCount + 1]
    /\ Goto(p, "batch")
    /\ UNCHANGED <<db, env, cmd, attempt, snap, reply, sweeping>>

\* The UNIQUE indexes the batch trips.  SQLite names one of those of the
\* first failing statement; the event row is inserted first.
EventViolations(e) ==
    {v \in {"idempotency_key", "event_pk", "global_seq"} :
        \/ v = "idempotency_key" /\ KeyUsed(e.key)
        \/ v = "event_pk" /\ InLog(e.txn, e.seq)
        \/ v = "global_seq" /\ GlobalSeqUsed(e.gseq)}

\* Mutant: no UNIQUE (key) on v2_claims: only the read before the batch.
NoClaimIndex(p) ==
    LET e == draft[p].event IN
    IF EventViolations(e) # {} THEN EventViolations(e)
    ELSE IF IsNew(cmd[p]) /\ RefUsed(draft[p].ref) THEN {"human_ref"}
    ELSE {}

Violations(p) ==
    LET e == draft[p].event IN
    IF EventViolations(e) # {} THEN EventViolations(e)
    ELSE IF IsNew(cmd[p]) /\ RefUsed(draft[p].ref) THEN {"human_ref"}
    ELSE IF e.claim \in claims THEN {"unique_claim"}
    ELSE {}

\* Entering a terminal state closes the txn; a rejection leaves it as it was.
ClosedAfter(p) ==
    LET e == draft[p].event IN
    snap[p].row.closed \/ (~e.rejected /\ e.to \in CHAINS[e.chain].terminal)

\* Mutant: a recorded refusal leaves the row's seq alone.
RowUnlessRefused(p) ==
    LET e == draft[p].event IN
    [chain |-> snap[p].row.chain, seq |-> IF e.rejected THEN snap[p].row.seq ELSE e.seq,
     state |-> e.to, fields |-> draft[p].fields, closed |-> ClosedAfter(p), ref |-> draft[p].ref]

RowAfter(p) ==
    LET e == draft[p].event IN
    [chain |-> snap[p].row.chain, seq |-> e.seq, state |-> e.to,
     fields |-> draft[p].fields, closed |-> ClosedAfter(p), ref |-> draft[p].ref]

\* The UPDATE matches the row only at the expected seq.
UpdateMatches(p) == IsNew(cmd[p]) \/ txns[cmd[p].txn].seq = snap[p].row.seq

PartiesAfter(p) ==
    LET e == draft[p].event IN
    IF e.rejected \/ ~IsNew(cmd[p]) THEN parties
    ELSE parties \cup {[txn |-> e.txn, participant |-> a.participant, role |-> a.role,
                        field |-> a.field] : a \in NewParties(cmd[p])}

\* Timers armed by entering e.to.
ArmedBy(e) ==
    {[txn |-> e.txn, seq |-> e.seq, on |-> d.onState, fire |-> d.fire,
      due |-> e.at + d.after, class |-> d.class] :
        d \in {d \in CHAINS[e.chain].timers : d.onState = e.to}}

\* Mutant: timers are cleared only when others replace them.
ClearWhenReplaced(e) ==
    IF e.rejected \/ ArmedBy(e) = {} THEN timers
    ELSE {t \in timers : t.txn # e.txn} \cup ArmedBy(e)

\* An accepted event clears the txn's timers and arms those of its state.
TimersAfter(e) ==
    IF e.rejected THEN timers
    ELSE {t \in timers : t.txn # e.txn} \cup ArmedBy(e)

ClaimsAfter(e) == IF e.claim = None THEN claims ELSE claims \cup {e.claim}

\* The batch lands as a whole.  A stale UPDATE changes no row without
\* failing the batch, and is only noticed afterwards.
Commit(p) ==
    /\ pc[p] = "batch"
    /\ Violations(p) = {}
    /\ LET e == draft[p].event IN
       /\ events' = Append(events, e)
       /\ txns' = IF UpdateMatches(p) THEN [txns EXCEPT ![e.txn] = RowAfter(p)] ELSE txns
       /\ parties' = PartiesAfter(p)
       /\ timers' = TimersAfter(e)
       /\ claims' = ClaimsAfter(e)
       /\ IF UpdateMatches(p)
          THEN Answer(p, IF e.rejected THEN "GUARD" ELSE "OK", FALSE)
          ELSE Retry(p)
    /\ UNCHANGED <<env, cmd, sweeping>>

\* Mutants: every violation is taken for a redelivery; the event of a batch
\* that fails later is kept; the same batch is sent again.
AbortAsReplay(p) ==
    /\ pc[p] = "batch"
    /\ Violations(p) # {}
    /\ Answer(p, "OK", TRUE)
    /\ UNCHANGED <<db, env, cmd, sweeping>>
AbortKeepsEvent(p) ==
    /\ pc[p] = "batch"
    /\ Violations(p) # {}
    /\ events' = IF Violations(p) \cap {"human_ref", "unique_claim"} # {}
                 THEN Append(events, draft[p].event) ELSE events
    /\ Retry(p)
    /\ UNCHANGED <<txns, parties, timers, claims, env, cmd, sweeping>>
ResendBatch(p) ==
    /\ pc[p] = "batch"
    /\ Violations(p) # {}
    /\ draft' = [draft EXCEPT ![p].event.gseq = EventCount + 1]
    /\ UNCHANGED <<db, env, pc, cmd, attempt, snap, reply, sweeping>>

AbortBatch(p) ==
    /\ pc[p] = "batch"
    /\ \E v \in Violations(p) :
         CASE v = "idempotency_key" ->
                Goto(p, "raced") /\ UNCHANGED <<attempt, snap, draft, reply>>
           [] v = "unique_claim" -> Answer(p, "THROWN", FALSE)
           [] OTHER -> Retry(p)
    /\ UNCHANGED <<db, env, cmd, sweeping>>

\* The key was used by a concurrent delivery: answer with its event.
ReplayRaced(p) ==
    /\ pc[p] = "raced"
    /\ IF KeyUsed(cmd[p].key) THEN Answer(p, "OK", TRUE) ELSE Retry(p)
    /\ UNCHANGED <<db, env, cmd, sweeping>>

Engine(p) ==
    \/ Lookup(p) \/ Load(p) \/ LoadTail(p) \/ RunGuards(p)
    \/ PreCheckKey(p) \/ PreCheckSeq(p) \/ PreCheckClaim(p) \/ CountEvents(p)
    \/ Commit(p) \/ AbortBatch(p) \/ ReplayRaced(p)

-----------------------------------------------------------------------------
(* sweepTimers: fire due timers, SLA first, then time-bars.                 *)

\* dueTimers, as of the time the sweep started.
Due(cls, asof) == {t \in timers : t.class = cls /\ t.due <= asof}

\* ORDER BY due_at ASC LIMIT SweepLimit: ties in any order.
Oldest(S) ==
    {T \in SUBSET S :
        /\ \A t \in T, u \in S \ T : t.due <= u.due
        /\ \/ Cardinality(T) = SweepLimit
           \/ T = S /\ Cardinality(S) < SweepLimit}

StartSweep(p) ==
    /\ pc[p] = "idle"
    /\ class' = [class EXCEPT ![p] = "sla"]
    /\ cutoff' = [cutoff EXCEPT ![p] = now]
    /\ \E T \in Oldest(Due("sla", now)) : todo' = [todo EXCEPT ![p] = T]
    /\ Goto(p, "sweep")
    /\ UNCHANGED <<db, env, cmd, attempt, snap, draft, reply, timer>>

\* Mutant: the second pass lists the SLA rows again.
SlaTwice(p) ==
    /\ pc[p] = "sweep" /\ todo[p] = {} /\ class[p] = "sla"
    /\ class' = [class EXCEPT ![p] = "time_bar"]
    /\ \E T \in Oldest(Due("sla", cutoff[p])) : todo' = [todo EXCEPT ![p] = T]
    /\ UNCHANGED <<db, env, work, cutoff, timer>>

NextClass(p) ==
    /\ pc[p] = "sweep" /\ todo[p] = {} /\ class[p] = "sla"
    /\ class' = [class EXCEPT ![p] = "time_bar"]
    /\ \E T \in Oldest(Due("time_bar", cutoff[p])) : todo' = [todo EXCEPT ![p] = T]
    /\ UNCHANGED <<db, env, work, cutoff, timer>>

EndSweep(p) ==
    /\ pc[p] = "sweep" /\ todo[p] = {} /\ class[p] = "time_bar"
    /\ Goto(p, "idle")
    /\ class' = [class EXCEPT ![p] = None]
    /\ cutoff' = [cutoff EXCEPT ![p] = 0]
    /\ UNCHANGED <<db, env, cmd, attempt, snap, draft, reply, todo, timer>>

\* The command that fires timer row t of a txn whose row reads `row`.
Fire(t, row) ==
    [key |-> TimerKey(t), chain |-> row.chain, edge |-> t.fire, actor |-> TimerActor,
     txn |-> t.txn, input |-> Blank,
     reason |-> \E d \in CHAINS[row.chain].timers :
                  d.onState = t.on /\ d.fire = t.fire /\ d.reason,
     parties |-> {}, expected |-> row.seq]

\* The next listed row: dropped if its txn is gone or closed, else fired.  A
\* closed txn stays closed, so reading it and dropping the row are one step.
Visit(p) ==
    /\ pc[p] = "sweep"
    /\ \E t \in todo[p] :
         /\ \A u \in todo[p] : t.due <= u.due
         /\ todo' = [todo EXCEPT ![p] = @ \ {t}]
         /\ IF txns[t.txn].seq = 0 \/ txns[t.txn].closed
            THEN /\ timers' = timers \ {t}
                 /\ UNCHANGED <<cmd, timer, pc>>
            ELSE /\ cmd' = [cmd EXCEPT ![p] = Fire(t, txns[t.txn])]
                 /\ timer' = [timer EXCEPT ![p] = t]
                 /\ Goto(p, "lookup")
                 /\ UNCHANGED timers
    /\ UNCHANGED <<events, txns, parties, claims, env, attempt, snap, draft, reply, class, cutoff>>

\* Any answer, accepted or not, deletes the row; only a throw leaves it.
AfterFire(p) ==
    /\ p \in Sweepers
    /\ pc[p] = "replied"
    /\ timers' = IF reply[p].code = "THROWN" THEN timers ELSE timers \ {timer[p]}
    /\ Goto(p, "sweep")
    /\ cmd' = [cmd EXCEPT ![p] = None]
    /\ timer' = [timer EXCEPT ![p] = None]
    /\ reply' = [reply EXCEPT ![p] = None]
    /\ UNCHANGED <<events, txns, parties, claims, env, attempt, snap, draft, class, cutoff, todo>>

-----------------------------------------------------------------------------
(* The environment.                                                         *)

Tick ==
    /\ now < MaxTime
    /\ now' = now + 1
    /\ UNCHANGED <<db, halted, flips, crashes, repeats, used, copies, issued, work, sweeping>>

FlipHalt ==
    /\ flips < MaxFlips
    /\ flips' = flips + 1
    /\ halted' = ~halted
    /\ UNCHANGED <<db, now, crashes, repeats, used, copies, issued, work, sweeping>>

\* An isolate dies between two D1 calls; nothing it held survives.
Crash(p) ==
    /\ pc[p] # "idle"
    /\ crashes < MaxCrashes
    /\ crashes' = crashes + 1
    /\ Goto(p, "idle")
    /\ cmd' = [cmd EXCEPT ![p] = None]
    /\ attempt' = [attempt EXCEPT ![p] = 0]
    /\ snap' = [snap EXCEPT ![p] = None]
    /\ draft' = [draft EXCEPT ![p] = None]
    /\ reply' = [reply EXCEPT ![p] = None]
    /\ class' = [class EXCEPT ![p] = None]
    /\ cutoff' = [cutoff EXCEPT ![p] = 0]
    /\ todo' = [todo EXCEPT ![p] = {}]
    /\ timer' = [timer EXCEPT ![p] = None]
    /\ UNCHANGED <<db, halted, now, flips, repeats, used, copies, issued>>

-----------------------------------------------------------------------------
Init ==
    /\ events = <<>>
    /\ txns = [t \in Txns |-> NoRow]
    /\ parties = {} /\ timers = {} /\ claims = {}
    /\ halted = FALSE
    /\ pc = [p \in Procs |-> "idle"]
    /\ cmd = [p \in Procs |-> None]
    /\ attempt = [p \in Procs |-> 0]
    /\ snap = [p \in Procs |-> None]
    /\ draft = [p \in Procs |-> None]
    /\ reply = [p \in Procs |-> None]
    /\ class = [p \in Procs |-> None]
    /\ cutoff = [p \in Procs |-> 0]
    /\ todo = [p \in Procs |-> {}]
    /\ timer = [p \in Procs |-> None]
    /\ now = 0 /\ flips = 0 /\ crashes = 0 /\ repeats = 0
    /\ used = {} /\ copies = {}
    /\ issued = {}

Request(p) == Send(p) \/ Redeliver(p) \/ Receive(p) \/ ReadToken(p)

Sweep(p) == StartSweep(p) \/ NextClass(p) \/ EndSweep(p) \/ Visit(p) \/ AfterFire(p)

Next ==
    \/ \E p \in Clients : Request(p)
    \/ \E p \in Sweepers : Sweep(p)
    \/ \E p \in Procs : Engine(p) \/ Crash(p)
    \/ Tick
    \/ FlipHalt

Spec == Init /\ [][Next]_vars

\* A request under way keeps running and its answer arrives; the cron runs
\* every 15 minutes and the clock advances.  Clients owe nothing, crashes
\* and halts come as they like.
Fairness ==
    /\ \A p \in Clients : WF_vars(Receive(p) \/ ReadToken(p))
    /\ \A p \in Sweepers : WF_vars(Sweep(p))
    /\ \A p \in Procs : WF_vars(Engine(p))
    /\ WF_vars(Tick)

FairSpec == Spec /\ Fairness
=============================================================================
