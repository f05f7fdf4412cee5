------------------------------- MODULE Cascade -------------------------------
(***************************************************************************)
(* utils/cascade.ts: what happens to an event after a route fired it.  It   *)
(* goes through the queue, or, if sending fails, through the stages in      *)
(* line, each tried some times and then put among the dead letters, from    *)
(* which operators replay it.  Two stages write rows with fresh ids: the    *)
(* analytics sink, and the fee with its splits.  Each action is one awaited *)
(* call, which may fail without effect.                                     *)
(***************************************************************************)
EXTENDS Naturals, Sequences, FiniteSets

CONSTANTS
    Events,      \* calls of fireCascade, of events on the rate card
    Operators,   \* who replay dead letters
    Splits,      \* parts of split_config
    Attempts,    \* maxAttempts of runStage
    MaxRetries,  \* redeliveries before the queue drops a message
    None,
    MaxFaults    \* bound: failing calls and ending isolates, per event

Stages == {"analytics", "commercial"}
Inline(e) == [event |-> e, by |-> "producer"]
Consumer(e) == [event |-> e, by |-> "queue"]
Workers == {Inline(e) : e \in Events} \cup {Consumer(e) : e \in Events} \cup Operators

ASSUME CascadeAssumption ==
    /\ Splits \in Nat \ {0} /\ Attempts \in Nat \ {0}
    /\ MaxRetries \in Nat /\ MaxFaults \in Nat
    /\ IsFiniteSet(Operators)
    /\ \A o \in Operators : \A e \in Events : o # Inline(e) /\ o # Consumer(e)

\* What a worker does with an event.
Steps == {"record", "fee", "split", "dead", "resolve", "end"}
Tasks == [event : Events, stage : Stages, step : Steps, try : Nat, row : Nat]

ASSUME CascadeNone == None \notin Nat \cup Tasks

VARIABLES
    fired,     \* of each event: "no", or "yes" once fireCascade was called
    message,   \* of each event: None, or how often its message was delivered
    task,      \* of each worker: the event, stage, step and try it is at
    recorded,  \* rows of each event in oe_platform_events
    revenue,   \* its rows in oe_platform_revenue: how many splits each has
    dlq,       \* its row in cascade_dlq, by stage
    faults,    \* history: calls that failed for it, isolates that ended
    died,      \* history: events whose producer's isolate ended
    handled    \* history: letters that someone marked by hand

tables == <<recorded, revenue, dlq>>
history == <<died, handled>>
vars == <<fired, message, task, tables, faults, history>>

Init ==
    /\ fired = [e \in Events |-> "no"]
    /\ message = [e \in Events |-> None]
    /\ task = [w \in Workers |-> None]
    /\ recorded = [e \in Events |-> 0]
    /\ revenue = [e \in Events |-> <<>>]
    /\ dlq = [e \in Events |-> [s \in Stages |-> "none"]]
    /\ faults = [e \in Events |-> 0]
    /\ died = {}
    /\ handled = {}

First(stage) == IF stage = "analytics" THEN "record" ELSE "fee"
Begin(e, stage, try) ==
    [event |-> e, stage |-> stage, step |-> First(stage), try |-> try, row |-> 0]
Work(w, t) == task' = [task EXCEPT ![w] = t]
Step(w, s) == Work(w, [task[w] EXCEPT !.step = s])
At(w, s) == task[w] # None /\ task[w].step = s
Fault(e) == faults[e] < MaxFaults /\ faults' = [faults EXCEPT ![e] = @ + 1]

-----------------------------------------------------------------------------
(* fireCascade                                                              *)

\* Mutant: no return after the send.
SendAndGoOn(e) ==
    /\ fired[e] = "no"
    /\ fired' = [fired EXCEPT ![e] = "yes"]
    /\ message' = [message EXCEPT ![e] = 0]
    /\ Work(Inline(e), Begin(e, "analytics", 1))
    /\ UNCHANGED <<tables, faults, history>>

\* QUEUE.send: the event is the queue's.
SendToQueue(e) ==
    /\ fired[e] = "no"
    /\ fired' = [fired EXCEPT ![e] = "yes"]
    /\ message' = [message EXCEPT ![e] = 0]
    /\ UNCHANGED <<task, tables, faults, history>>

\* It throws, whether or not the message got there, or there is no binding:
\* the stages run in line.
RunInline(e) ==
    /\ fired[e] = "no"
    /\ fired' = [fired EXCEPT ![e] = "yes"]
    /\ \/ UNCHANGED <<message, faults>>
       \/ message' = [message EXCEPT ![e] = 0] /\ Fault(e)
    /\ Work(Inline(e), Begin(e, "analytics", 1))
    /\ UNCHANGED <<tables, history>>

\* Mutant: a message is delivered once.
TakeNewMessage(e) ==
    /\ message[e] = 0 /\ task[Consumer(e)] = None
    /\ message' = [message EXCEPT ![e] = @ + 1]
    /\ Work(Consumer(e), Begin(e, "analytics", 1))
    /\ UNCHANGED <<fired, tables, faults, history>>

\* A delivery of a message that is not under way.
TakeMessage(e) ==
    /\ message[e] # None /\ task[Consumer(e)] = None
    /\ message' = [message EXCEPT ![e] = @ + 1]
    /\ Work(Consumer(e), Begin(e, "analytics", 1))
    /\ UNCHANGED <<fired, tables, faults, history>>

-----------------------------------------------------------------------------
(* A call of a stage: recordPlatformEvent, computeAndRecordFee, writeSplits *)

\* The stage is through: the producer and the consumer go on to the next one,
\* an operator to the letter's UPDATE.
StageDone(w) ==
    IF w \in Operators THEN Step(w, "resolve")
    ELSE IF task[w].stage = "analytics" THEN Work(w, Begin(task[w].event, "commercial", 1))
    ELSE Step(w, "end")

RecordEvent(w) ==
    /\ At(w, "record")
    /\ recorded' = [recorded EXCEPT ![task[w].event] = @ + 1]
    /\ StageDone(w)
    /\ UNCHANGED <<fired, message, revenue, dlq, faults, history>>

\* Every run of the stage writes a row of its own.
RecordFee(w) ==
    /\ At(w, "fee")
    /\ LET e == task[w].event IN
       /\ revenue' = [revenue EXCEPT ![e] = Append(@, 0)]
       /\ Work(w, [task[w] EXCEPT !.step = "split", !.row = Len(revenue[e]) + 1])
    /\ UNCHANGED <<fired, message, recorded, dlq, faults, history>>

WriteSplit(w) ==
    /\ At(w, "split")
    /\ LET e == task[w].event  i == task[w].row IN
       /\ revenue' = [revenue EXCEPT ![e][i] = @ + 1]
       /\ IF revenue[e][i] + 1 = Splits THEN StageDone(w) ELSE UNCHANGED task
    /\ UNCHANGED <<fired, message, recorded, dlq, faults, history>>

\* Mutant: a stage is tried once, and no letter is written.
FailSilently(w) ==
    /\ UNCHANGED message
    /\ IF w \in Operators \/ w.by = "queue" THEN Work(w, None)
       ELSE IF task[w].stage = "analytics" THEN Work(w, Begin(w.event, "commercial", 1))
       ELSE Step(w, "end")

\* What a failed call does: runStage tries the stage from its start, and after
\* Attempts tries writes a dead letter; the consumer asks for another delivery,
\* which the queue makes MaxRetries times; a replay leaves its letter pending.
Fail(w) ==
    IF w \in Operators THEN Work(w, None) /\ UNCHANGED message
    ELSE IF w.by = "queue"
         THEN /\ Work(w, None)
              /\ message' = IF message[w.event] > MaxRetries
                            THEN [message EXCEPT ![w.event] = None] ELSE message
    ELSE /\ UNCHANGED message
         /\ IF task[w].try < Attempts
            THEN Work(w, Begin(w.event, task[w].stage, task[w].try + 1))
            ELSE Step(w, "dead")

CallFails(w) ==
    /\ task[w] # None /\ task[w].step \in {"record", "fee", "split", "resolve"}
    /\ Fault(task[w].event)
    /\ Fail(w)
    /\ UNCHANGED <<fired, tables, history>>

\* writeToDlq; when it fails, that is logged and the next stage runs.
WriteDeadLetter(w) ==
    /\ At(w, "dead")
    /\ LET e == task[w].event  s == task[w].stage IN
       \/ dlq' = [dlq EXCEPT ![e][s] = "pending"] /\ UNCHANGED faults
       \/ UNCHANGED dlq /\ Fault(e)
    /\ StageDone(w)
    /\ UNCHANGED <<fired, message, recorded, revenue, history>>

\* fireCascade returns; the consumer acks.
Finish(w) ==
    /\ At(w, "end")
    /\ message' = IF w.by = "queue" THEN [message EXCEPT ![w.event] = None] ELSE message
    /\ Work(w, None)
    /\ UNCHANGED <<fired, tables, faults, history>>

\* The isolate ends: what the producer had left is gone, a message comes
\* again, a letter stays pending.
Die(w) ==
    /\ task[w] # None
    /\ Fault(task[w].event)
    /\ died' = IF w \in {Inline(e) : e \in Events} THEN died \cup {w.event} ELSE died
    /\ IF w \in {Inline(e) : e \in Events}
       THEN Work(w, None) /\ UNCHANGED message ELSE Fail(w)
    /\ UNCHANGED <<fired, tables, handled>>

-----------------------------------------------------------------------------
(* retryDlqItem, resolveDlqItem                                             *)

\* Mutant: the letter is marked before the stage runs again.
ReplayMarking(o) ==
    /\ task[o] = None
    /\ \E e \in Events, s \in Stages :
          /\ dlq[e][s] = "pending"
          /\ dlq' = [dlq EXCEPT ![e][s] = "resolved"]
          /\ Work(o, Begin(e, s, 1))
    /\ UNCHANGED <<fired, message, recorded, revenue, faults, history>>

Replay(o) ==
    /\ task[o] = None
    /\ \E e \in Events, s \in Stages :
          /\ dlq[e][s] = "pending"
          /\ Work(o, Begin(e, s, 1))
    /\ UNCHANGED <<fired, message, tables, faults, history>>

\* UPDATE ... WHERE id = ?, whatever the row says by then.
Resolve(o) ==
    /\ At(o, "resolve")
    /\ dlq' = [dlq EXCEPT ![task[o].event][task[o].stage] = "resolved"]
    /\ Work(o, None)
    /\ UNCHANGED <<fired, message, recorded, revenue, faults, history>>

\* Marked by hand, WHERE status = 'pending'.
MarkByHand(e, s, status) ==
    /\ dlq[e][s] = "pending"
    /\ dlq' = [dlq EXCEPT ![e][s] = status]
    /\ handled' = handled \cup {<<e, s>>}
    /\ UNCHANGED <<fired, message, task, recorded, revenue, faults, died>>

-----------------------------------------------------------------------------
Stage(w) == RecordEvent(w) \/ RecordFee(w) \/ WriteSplit(w) \/ WriteDeadLetter(w)
Progress(w) == Stage(w) \/ (w \notin Operators /\ Finish(w))

Next ==
    \/ \E e \in Events : SendToQueue(e) \/ RunInline(e) \/ TakeMessage(e)
    \/ \E w \in Workers : Progress(w) \/ CallFails(w) \/ Die(w)
    \/ \E o \in Operators : Replay(o) \/ Resolve(o)
    \/ \E e \in Events, s \in Stages, status \in {"resolved", "abandoned"} :
          MarkByHand(e, s, status)

Spec == Init /\ [][Next]_vars

\* The queue delivers what it holds, and a worker that is not ended goes on;
\* nobody has to replay a letter.
FairSpec ==
    /\ Spec
    /\ \A e \in Events : WF_vars(TakeMessage(e))
    /\ \A w \in Workers : WF_vars(Progress(w) \/ CallFails(w) \/ Die(w))

-----------------------------------------------------------------------------
(* Properties.                                                              *)

Working(e) == \E w \in Workers : task[w] # None /\ task[w].event = e

\* The stage was carried out, to the last split, at least once.
CarriedOut(e, s) ==
    IF s = "analytics" THEN recorded[e] > 0
    ELSE \E i \in DOMAIN revenue[e] : revenue[e][i] = Splits

\* Faults that a stage gets over: a try of runStage and the letter, or the
\* deliveries of a message.
Tolerated == IF Attempts < MaxRetries THEN Attempts ELSE MaxRetries

\* "so no event is lost": once nobody works on a fired event, each stage was
\* carried out or has a letter, unless the producer's isolate ended or more
\* calls failed than tries and redeliveries make up for.
NothingLost ==
    \A e \in Events :
        (fired[e] = "yes" /\ message[e] = None /\ ~Working(e)
            /\ e \notin died /\ faults[e] <= Tolerated)
        => \A s \in Stages : CarriedOut(e, s) \/ dlq[e][s] # "none"

\* An event is billed once, and once more at most for each fault and for each
\* further operator who replays its letter at the same time: in particular
\* once if nothing fails.  No bill has more splits than the rate card.
BilledPerFault ==
    \A e \in Events :
        /\ Len(revenue[e]) <= 1 + faults[e]
             + (IF dlq[e]["commercial"] = "none" THEN 0 ELSE Cardinality(Operators) - 1)
        /\ \A i \in DOMAIN revenue[e] : revenue[e][i] <= Splits

\* A letter that reads resolved was carried out, or someone marked it by hand.
ResolvedIsDone ==
    \A e \in Events, s \in Stages :
        (dlq[e][s] = "resolved" /\ <<e, s>> \notin handled) => CarriedOut(e, s)

\* A fired event comes to rest: it is carried out or ends among the letters,
\* unless it met more faults than are tolerated.
EventsSettle ==
    \A e \in Events :
        fired[e] = "yes" ~>
            \/ e \in died \/ faults[e] > Tolerated
            \/ \A s \in Stages : CarriedOut(e, s) \/ dlq[e][s] # "none"
=============================================================================
