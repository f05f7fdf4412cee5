---------------------------- MODULE CascadeProofs ----------------------------
(***************************************************************************)
(* Theorems on the cascade: no fired event is lost to fewer faults than it  *)
(* is built for, what operators see resolved was done, and how often an     *)
(* event can be billed.                                                     *)
(***************************************************************************)
EXTENDS Cascade, FiniteSetTheorems, TLAPS

Letters == {"none", "pending", "resolved", "abandoned"}

CascadeTypeOK ==
    /\ fired \in [Events -> {"no", "yes"}]
    /\ message \in [Events -> Nat \cup {None}]
    /\ task \in [Workers -> Tasks \cup {None}]
    /\ recorded \in [Events -> Nat]
    /\ revenue \in [Events -> Seq(Nat)]
    /\ dlq \in [Events -> [Stages -> Letters]]
    /\ faults \in [Events -> Nat]
    /\ died \subseteq Events
    /\ handled \subseteq Events \X Stages

Done(e, s) == CarriedOut(e, s) \/ dlq[e][s] # "none"

\* A worker is at a step of its stage, and writes splits of a row that misses some.
WorkerOK(w) ==
    task[w] # None =>
        /\ task[w].step = "record" => task[w].stage = "analytics"
        /\ task[w].step \in {"fee", "split", "end"} => task[w].stage = "commercial"
        /\ task[w].step = "split" =>
              /\ task[w].row \in DOMAIN revenue[task[w].event]
              /\ revenue[task[w].event][task[w].row] < Splits

\* Each writes splits of its own row.
RowsOwned ==
    \A v, w \in Workers :
        (v # w /\ At(v, "split") /\ At(w, "split") /\ task[v].event = task[w].event)
            => task[v].row # task[w].row

\* A try of the producer follows a fault; a stage that it left behind is done,
\* unless the letter failed too.
InlineOK(e) ==
    task[Inline(e)] # None =>
        LET t == task[Inline(e)] IN
        /\ t.event = e
        /\ t.step # "resolve"
        /\ t.try <= Attempts /\ t.try <= faults[e] + 1
        /\ t.step = "dead" => faults[e] >= Attempts
        /\ t.step # "end" => dlq[e]["commercial"] = "none"
        /\ faults[e] <= Tolerated =>
              /\ t.stage = "commercial" => Done(e, "analytics")
              /\ t.step = "end" => Done(e, "commercial")

\* A message is delivered again after a fault only, and gone when all is done.
ConsumerOK(e) ==
    /\ message[e] # None =>
          message[e] <= faults[e] + (IF task[Consumer(e)] = None THEN 0 ELSE 1)
    /\ task[Consumer(e)] # None =>
          LET t == task[Consumer(e)] IN
          /\ t.event = e
          /\ t.step \notin {"resolve", "dead"}
          /\ message[e] # None
          /\ t.stage = "commercial" => CarriedOut(e, "analytics")
          /\ t.step = "end" => CarriedOut(e, "commercial")

\* An operator replays what has a letter.
OperatorOK(o) ==
    task[o] # None =>
        /\ task[o].step \notin {"dead", "end"}
        /\ dlq[task[o].event][task[o].stage] # "none"
        /\ task[o].step = "resolve" => CarriedOut(task[o].event, task[o].stage)

\* Before an event is fired nothing knows of it.
FreshOK(e) ==
    fired[e] = "no" =>
        /\ message[e] = None /\ task[Inline(e)] = None
        /\ faults[e] = 0 /\ revenue[e] = <<>>
        /\ \A s \in Stages : dlq[e][s] = "none"

\* Someone has the event in hand until it is done.
HeldOK(e) ==
    (fired[e] = "yes" /\ e \notin died /\ faults[e] <= Tolerated) =>
        \/ message[e] # None
        \/ task[Inline(e)] # None
        \/ \A s \in Stages : Done(e, s)

BillsOK(e) == \A i \in DOMAIN revenue[e] : revenue[e][i] <= Splits

ResolvedOK(e) ==
    \A s \in Stages : (dlq[e][s] = "resolved" /\ <<e, s>> \notin handled) => CarriedOut(e, s)

\* Who may yet bill the event although nothing fails any more.
InlineMayBill(e) ==
    \/ fired[e] = "no"
    \/ /\ task[Inline(e)] # None
       /\ task[Inline(e)].stage = "commercial" => task[Inline(e)].step \in {"fee", "dead"}
ConsumerMayBill(e) ==
    /\ message[e] # None
    /\ (task[Consumer(e)] # None /\ task[Consumer(e)].stage = "commercial")
          => task[Consumer(e)].step = "fee"
Replaying(o, e) ==
    task[o] # None /\ task[o].event = e /\ task[o].stage = "commercial"
OperatorsMayBill(e) ==
    {o \in Operators : IF Replaying(o, e) THEN task[o].step = "fee"
                       ELSE dlq[e]["commercial"] = "pending"}

InlineBills(e) == IF InlineMayBill(e) THEN 1 ELSE 0
ConsumerBills(e) == IF ConsumerMayBill(e) THEN 1 ELSE 0
WorkerBills(e) == InlineBills(e) + ConsumerBills(e)
OperatorBills(e) == Cardinality(OperatorsMayBill(e))
LetterBills(e) ==
    IF dlq[e]["commercial"] = "none" THEN 0 ELSE Cardinality(Operators) - 1

\* Bills that are written and bills to come, and what they are paid with.
Due(e) == Len(revenue[e]) + WorkerBills(e) + OperatorBills(e)
Means(e) == 1 + faults[e] + LetterBills(e)

BillsCounted(e) == Due(e) <= Means(e)

EventOK(e) ==
    /\ InlineOK(e) /\ ConsumerOK(e) /\ FreshOK(e) /\ HeldOK(e)
    /\ BillsOK(e) /\ ResolvedOK(e)

CascadeInv ==
    /\ CascadeTypeOK
    /\ RowsOwned
    /\ \A w \in Workers : WorkerOK(w)
    /\ \A o \in Operators : OperatorOK(o)
    /\ \A e \in Events : EventOK(e)

CountInv == \A e \in Events : BillsCounted(e)

-----------------------------------------------------------------------------
(* Workers and their tasks.                                                 *)

\* Producers, consumers and operators are different workers.
LEMMA WorkerKinds ==
    /\ \A e \in Events :
          /\ Inline(e) \in Workers /\ Consumer(e) \in Workers
          /\ Inline(e) \notin Operators /\ Consumer(e) \notin Operators
          /\ Inline(e).event = e /\ Consumer(e).event = e
          /\ Inline(e).by = "producer" /\ Consumer(e).by = "queue"
    /\ \A e, f \in Events :
          /\ Inline(e) # Consumer(f)
          /\ Inline(e) = Inline(f) => e = f
          /\ Consumer(e) = Consumer(f) => e = f
    /\ Operators \subseteq Workers
    /\ \A w \in Workers \ Operators : \E e \in Events : w = Inline(e) \/ w = Consumer(e)
BY CascadeAssumption DEF Workers, Inline, Consumer

\* None is no task and no count.
LEMMA NotNone ==
    /\ \A t \in Tasks : t # None
    /\ \A n \in Nat : n # None
BY CascadeNone

\* What begins is a task.
LEMMA BeginIsTask ==
    \A e \in Events, s \in Stages, n \in Nat :
        /\ Begin(e, s, n) \in Tasks /\ Begin(e, s, n) # None
        /\ Begin(e, s, n).event = e /\ Begin(e, s, n).stage = s /\ Begin(e, s, n).try = n
        /\ Begin(e, s, n).step = First(s)
<1> SUFFICES ASSUME NEW e \in Events, NEW s \in Stages, NEW n \in Nat
             PROVE  Begin(e, s, n) \in Tasks
  BY NotNone DEF Begin
<1> QED
  BY DEF Begin, Tasks, Steps, First

\* Another step of a task.
LEMMA StepIsTask ==
    \A t \in Tasks, s \in Steps :
        LET u == [t EXCEPT !.step = s] IN
        /\ u \in Tasks /\ u # None
        /\ u.event = t.event /\ u.stage = t.stage /\ u.try = t.try /\ u.step = s /\ u.row = t.row
BY NotNone DEF Tasks

\* The parts of the task of a worker.
LEMMA TaskParts ==
    ASSUME CascadeTypeOK, NEW w \in Workers, task[w] # None
    PROVE  /\ task[w] \in Tasks
           /\ task[w].event \in Events /\ task[w].stage \in Stages
           /\ task[w].step \in Steps /\ task[w].try \in Nat /\ task[w].row \in Nat
BY DEF CascadeTypeOK, Tasks

\* A task that is set is set for its worker only.
LEMMA WorkSets ==
    ASSUME CascadeTypeOK, NEW w \in Workers, NEW t \in Tasks \cup {None}, Work(w, t)
    PROVE  /\ task' \in [Workers -> Tasks \cup {None}]
           /\ task'[w] = t
           /\ \A v \in Workers \ {w} : task'[v] = task[v]
BY DEF CascadeTypeOK, Work

\* After a stage: an operator resolves the letter, the others go on.
LEMMA StageDoneSets ==
    ASSUME CascadeTypeOK, NEW w \in Workers, task[w] # None, StageDone(w)
    PROVE  /\ task' \in [Workers -> Tasks \cup {None}]
           /\ \A v \in Workers \ {w} : task'[v] = task[v]
           /\ task'[w] # None
           /\ task'[w].event = task[w].event
           /\ w \in Operators => /\ task'[w].step = "resolve"
                                 /\ task'[w].stage = task[w].stage
           /\ (w \notin Operators /\ task[w].stage = "analytics")
                 => task'[w] = Begin(task[w].event, "commercial", 1)
           /\ (w \notin Operators /\ task[w].stage # "analytics")
                 => /\ task'[w].step = "end" /\ task'[w].stage = task[w].stage
                    /\ task'[w].try = task[w].try
<1>1. task[w] \in Tasks /\ task[w].event \in Events
  BY TaskParts
<1>2. CASE w \in Operators \/ task[w].stage # "analytics"
  <2> DEFINE s == IF w \in Operators THEN "resolve" ELSE "end"
             u == [task[w] EXCEPT !.step = s]
  <2>1. s \in Steps
    BY DEF Steps
  <2>2. /\ u \in Tasks /\ u # None /\ u.event = task[w].event /\ u.stage = task[w].stage
        /\ u.step = s /\ u.try = task[w].try
    BY <1>1, <2>1, StepIsTask
  <2>3. Work(w, u)
    BY <1>2 DEF StageDone, Step
  <2>4. /\ task' \in [Workers -> Tasks \cup {None}]
        /\ task'[w] = u
        /\ \A v \in Workers \ {w} : task'[v] = task[v]
    BY <2>2, <2>3, WorkSets
  <2> QED
    BY <1>2, <2>2, <2>4
<1>3. CASE w \notin Operators /\ task[w].stage = "analytics"
  <2> DEFINE u == Begin(task[w].event, "commercial", 1)
  <2>1. u \in Tasks /\ u # None /\ u.event = task[w].event
    BY <1>1, BeginIsTask DEF Stages
  <2>2. Work(w, u)
    BY <1>3 DEF StageDone
  <2> QED
    BY <1>3, <2>1, <2>2, WorkSets
<1> QED
  BY <1>2, <1>3

\* After a failed call: an operator gives up, the consumer asks for the message
\* again as long as it may, the producer tries again or writes a letter.
LEMMA FailSets ==
    ASSUME CascadeTypeOK, NEW w \in Workers, task[w] # None, Fail(w)
    PROVE  /\ task' \in [Workers -> Tasks \cup {None}]
           /\ \A v \in Workers \ {w} : task'[v] = task[v]
           /\ w \in Operators => task'[w] = None /\ message' = message
           /\ \A e \in Events : w = Consumer(e) =>
                 /\ task'[w] = None
                 /\ message' = IF message[e] > MaxRetries
                               THEN [message EXCEPT ![e] = None] ELSE message
           /\ \A e \in Events : (w = Inline(e) /\ task[w].event = e) =>
                 /\ message' = message
                 /\ task'[w] # None
                 /\ task'[w].event = e /\ task'[w].stage = task[w].stage
                 /\ task[w].try < Attempts =>
                       /\ task'[w].step = First(task[w].stage)
                       /\ task'[w].try = task[w].try + 1
                 /\ ~(task[w].try < Attempts) =>
                       /\ task'[w].step = "dead"
                       /\ task'[w].try = task[w].try
<1>1. /\ task[w] \in Tasks /\ task[w].event \in Events /\ task[w].stage \in Stages
      /\ task[w].try \in Nat /\ task[w].try + 1 \in Nat
  BY TaskParts
<1>2. CASE w \in Operators
  <2>1. Work(w, None) /\ message' = message
    BY <1>2 DEF Fail
  <2> QED
    BY <1>2, <2>1, WorkSets, WorkerKinds
<1>3. CASE \E e \in Events : w = Consumer(e)
  <2>1. PICK e \in Events : w = Consumer(e)
    BY <1>3
  <2>2. w \notin Operators /\ w.by = "queue" /\ w.event = e
    BY <2>1, WorkerKinds
  <2>3. /\ Work(w, None)
        /\ message' = IF message[e] > MaxRetries THEN [message EXCEPT ![e] = None] ELSE message
    BY <2>2 DEF Fail
  <2> QED
    BY <2>1, <2>2, <2>3, WorkSets, WorkerKinds
<1>4. CASE \E e \in Events : w = Inline(e)
  <2>1. PICK e \in Events : w = Inline(e)
    BY <1>4
  <2>2. w \notin Operators /\ w.by # "queue" /\ w.event = e
    BY <2>1, WorkerKinds
  <2> DEFINE again == Begin(e, task[w].stage, task[w].try + 1)
             dead == [task[w] EXCEPT !.step = "dead"]
             u == IF task[w].try < Attempts THEN again ELSE dead
  <2>3. Work(w, u) /\ message' = message
    BY <2>2 DEF Fail, Step
  <2>4. /\ again \in Tasks /\ again # None
        /\ again.event = e /\ again.stage = task[w].stage /\ again.try = task[w].try + 1
        /\ again.step = First(task[w].stage)
    BY <1>1, <2>1, BeginIsTask
  <2>5. /\ dead \in Tasks /\ dead # None
        /\ dead.event = task[w].event /\ dead.stage = task[w].stage /\ dead.try = task[w].try
        /\ dead.step = "dead"
    BY <1>1, StepIsTask DEF Steps
  <2>6. /\ task' \in [Workers -> Tasks \cup {None}]
        /\ task'[w] = u
        /\ \A v \in Workers \ {w} : task'[v] = task[v]
    BY <2>3, <2>4, <2>5, WorkSets
  <2>7. \A f \in Events : w = Inline(f) => f = e
    BY <2>1, WorkerKinds
  <2> HIDE DEF again, dead
  <2> QED
    BY <2>1, <2>2, <2>3, <2>4, <2>5, <2>6, <2>7, WorkerKinds
<1> QED
  BY <1>2, <1>3, <1>4, WorkerKinds

-----------------------------------------------------------------------------
(* Every step keeps the types.                                              *)

\* A row of its own grows by a split.
LEMMA SplitRow ==
    ASSUME CascadeTypeOK, NEW w \in Workers, WorkerOK(w), WriteSplit(w)
    PROVE  LET e == task[w].event  i == task[w].row IN
           /\ e \in Events /\ i \in DOMAIN revenue[e]
           /\ revenue[e][i] \in Nat /\ revenue[e][i] < Splits
           /\ revenue' \in [Events -> Seq(Nat)]
           /\ \A f \in Events \ {e} : revenue'[f] = revenue[f]
           /\ DOMAIN revenue'[e] = DOMAIN revenue[e] /\ Len(revenue'[e]) = Len(revenue[e])
           /\ \A j \in DOMAIN revenue[e] : j # i => revenue'[e][j] = revenue[e][j]
           /\ revenue'[e][i] = revenue[e][i] + 1
<1> DEFINE e == task[w].event
           i == task[w].row
           rs == [revenue[e] EXCEPT ![i] = @ + 1]
<1>1. task[w] # None /\ e \in Events /\ i \in DOMAIN revenue[e] /\ revenue[e][i] < Splits
  BY TaskParts DEF WriteSplit, At, WorkerOK
<1>2. revenue[e] \in Seq(Nat) /\ revenue \in [Events -> Seq(Nat)]
  BY <1>1 DEF CascadeTypeOK
<1>3. /\ rs \in Seq(Nat) /\ DOMAIN rs = DOMAIN revenue[e] /\ Len(rs) = Len(revenue[e])
      /\ \A j \in DOMAIN revenue[e] : j # i => rs[j] = revenue[e][j]
      /\ rs[i] = revenue[e][i] + 1 /\ revenue[e][i] \in Nat
  <2> HIDE DEF e, i
  <2> QED
    BY <1>1, <1>2
<1>4. revenue' = [revenue EXCEPT ![e] = rs]
  BY DEF WriteSplit
<1> HIDE DEF rs
<1>5. /\ revenue' \in [Events -> Seq(Nat)] /\ revenue'[e] = rs
      /\ \A f \in Events \ {e} : revenue'[f] = revenue[f]
  <2> HIDE DEF e, i
  <2> QED
    BY <1>1, <1>2, <1>3, <1>4
<1> QED
  BY <1>1, <1>3, <1>5

\* A bill that starts with no split.
LEMMA FeeRow ==
    ASSUME CascadeTypeOK, NEW w \in Workers, RecordFee(w)
    PROVE  LET e == task[w].event IN
           /\ e \in Events
           /\ revenue' \in [Events -> Seq(Nat)]
           /\ \A f \in Events \ {e} : revenue'[f] = revenue[f]
           /\ Len(revenue'[e]) = Len(revenue[e]) + 1
           /\ \A j \in DOMAIN revenue[e] : j \in DOMAIN revenue'[e] /\ revenue'[e][j] = revenue[e][j]
           /\ revenue'[e][Len(revenue[e]) + 1] = 0
           /\ task' \in [Workers -> Tasks \cup {None}]
           /\ \A v \in Workers \ {w} : task'[v] = task[v]
           /\ task'[w] # None
           /\ task'[w].event = e /\ task'[w].stage = task[w].stage /\ task'[w].step = "split"
           /\ task'[w].try = task[w].try /\ task'[w].row = Len(revenue[e]) + 1
<1> DEFINE e == task[w].event
           rs == Append(revenue[e], 0)
           t == [task[w] EXCEPT !.step = "split", !.row = Len(revenue[e]) + 1]
<1>1. task[w] # None /\ e \in Events /\ task[w] \in Tasks
  BY TaskParts DEF RecordFee, At
<1>2. revenue[e] \in Seq(Nat) /\ revenue \in [Events -> Seq(Nat)]
  BY <1>1 DEF CascadeTypeOK
<1>3. /\ rs \in Seq(Nat) /\ Len(rs) = Len(revenue[e]) + 1
      /\ \A j \in DOMAIN revenue[e] : j \in DOMAIN rs /\ rs[j] = revenue[e][j]
      /\ rs[Len(revenue[e]) + 1] = 0
  <2> HIDE DEF e
  <2> QED
    BY <1>2
<1>4. revenue' = [revenue EXCEPT ![e] = rs] /\ Work(w, t)
  BY DEF RecordFee
<1>5. /\ t \in Tasks
      /\ t.event = e /\ t.stage = task[w].stage /\ t.step = "split"
      /\ t.try = task[w].try /\ t.row = Len(revenue[e]) + 1
  <2>1. Len(revenue[e]) + 1 \in Nat
    BY <1>2
  <2> QED
    BY <1>1, <2>1 DEF Tasks, Steps
<1> HIDE DEF rs, t
<1>6. /\ revenue' \in [Events -> Seq(Nat)] /\ revenue'[e] = rs
      /\ \A f \in Events \ {e} : revenue'[f] = revenue[f]
  <2> HIDE DEF e
  <2> QED
    BY <1>1, <1>2, <1>3, <1>4
<1>7. /\ task' \in [Workers -> Tasks \cup {None}] /\ task'[w] = t /\ t # None
      /\ \A v \in Workers \ {w} : task'[v] = task[v]
  BY <1>4, <1>5, WorkSets, NotNone
<1> QED
  BY <1>1, <1>3, <1>5, <1>6, <1>7

\* One more fault.
LEMMA FaultCounts ==
    ASSUME CascadeTypeOK, NEW e \in Events, Fault(e)
    PROVE  /\ faults' \in [Events -> Nat]
           /\ faults'[e] = faults[e] + 1
           /\ \A f \in Events \ {e} : faults'[f] = faults[f]
BY DEF CascadeTypeOK, Fault

\* The letter of a stage gets a status.
LEMMA LetterSets ==
    ASSUME CascadeTypeOK, NEW e \in Events, NEW s \in Stages, NEW x \in Letters,
           dlq' = [dlq EXCEPT ![e][s] = x]
    PROVE  /\ dlq' \in [Events -> [Stages -> Letters]]
           /\ dlq'[e][s] = x
           /\ \A r \in Stages \ {s} : dlq'[e][r] = dlq[e][r]
           /\ \A f \in Events \ {e} : dlq'[f] = dlq[f]
BY DEF CascadeTypeOK

\* An entry of message.
LEMMA MessageSets ==
    ASSUME CascadeTypeOK, NEW e \in Events, NEW x \in Nat \cup {None},
           message' = [message EXCEPT ![e] = x]
    PROVE  /\ message' \in [Events -> Nat \cup {None}]
           /\ message'[e] = x
           /\ \A f \in Events \ {e} : message'[f] = message[f]
BY DEF CascadeTypeOK

-----------------------------------------------------------------------------
(* A step is one worker's, on one event.                                    *)

\* What w does with e: nobody else moves, nothing else is written, and nothing
\* that is done is undone.
Moves(w, e) ==
    /\ w \in Operators \cup {Inline(e), Consumer(e)}
    /\ \A v \in Workers \ {w} : task'[v] = task[v]
    /\ \A f \in Events \ {e} :
          /\ fired'[f] = fired[f] /\ message'[f] = message[f]
          /\ recorded'[f] = recorded[f] /\ revenue'[f] = revenue[f]
          /\ dlq'[f] = dlq[f] /\ faults'[f] = faults[f]
          /\ f \in died => f \in died'
    /\ handled \subseteq handled'
    /\ fired[e] = "yes" => fired'[e] = "yes"
    /\ recorded[e] <= recorded'[e] /\ faults[e] <= faults'[e]
    /\ e \in died => e \in died'
    /\ \A s \in Stages : dlq[e][s] # "none" => dlq'[e][s] # "none"
    /\ \A i \in DOMAIN revenue[e] :
          /\ i \in DOMAIN revenue'[e]
          /\ \/ revenue'[e][i] = revenue[e][i]
             \/ /\ At(w, "split") /\ task[w].event = e /\ task[w].row = i
                /\ revenue[e][i] < Splits

\* The event of a task is its worker's.
LEMMA TaskEvent ==
    ASSUME CascadeInv, NEW w \in Workers, task[w] # None
    PROVE  /\ task[w].event \in Events
           /\ w \in Operators \cup {Inline(task[w].event), Consumer(task[w].event)}
           /\ \A e \in Events : (w = Inline(e) \/ w = Consumer(e)) => task[w].event = e
<1>1. CascadeTypeOK /\ \A e \in Events : InlineOK(e) /\ ConsumerOK(e)
  BY DEF CascadeInv, EventOK
<1>2. \A e \in Events : (w = Inline(e) \/ w = Consumer(e)) => task[w].event = e
  BY <1>1 DEF InlineOK, ConsumerOK
<1> QED
  BY <1>1, <1>2, TaskParts, WorkerKinds

\* fireCascade moves the producer.
LEMMA FireMoves ==
    ASSUME CascadeInv, NEW e \in Events, SendToQueue(e) \/ RunInline(e)
    PROVE  CascadeTypeOK' /\ Moves(Inline(e), e)
<1>1. CascadeTypeOK
  BY DEF CascadeInv
<1>2. Inline(e) \in Workers /\ 0 \in Nat
  BY WorkerKinds
<1>3. fired' \in [Events -> {"no", "yes"}] /\ fired'[e] = "yes"
      /\ \A f \in Events \ {e} : fired'[f] = fired[f]
  BY <1>1 DEF SendToQueue, RunInline, CascadeTypeOK
<1>4. message' \in [Events -> Nat \cup {None}]
      /\ \A f \in Events \ {e} : message'[f] = message[f]
  BY <1>1, <1>2, MessageSets DEF SendToQueue, RunInline, CascadeTypeOK
<1>5. faults' \in [Events -> Nat] /\ faults[e] <= faults'[e]
      /\ \A f \in Events \ {e} : faults'[f] = faults[f]
  <2>1. CASE faults' = faults
    BY <1>1, <2>1 DEF CascadeTypeOK
  <2>2. CASE Fault(e)
    BY <1>1, <2>2, FaultCounts DEF CascadeTypeOK
  <2> QED
    BY <2>1, <2>2 DEF SendToQueue, RunInline
<1>6. /\ task' \in [Workers -> Tasks \cup {None}]
      /\ \A v \in Workers \ {Inline(e)} : task'[v] = task[v]
  <2>1. CASE task' = task
    BY <1>1, <2>1 DEF CascadeTypeOK
  <2>2. CASE Work(Inline(e), Begin(e, "analytics", 1))
    <3>1. Begin(e, "analytics", 1) \in Tasks
      BY BeginIsTask DEF Stages
    <3> QED
      BY <1>1, <1>2, <2>2, <3>1, WorkSets
  <2> QED
    BY <2>1, <2>2 DEF SendToQueue, RunInline
<1>7. UNCHANGED <<tables, history>>
  BY DEF SendToQueue, RunInline
<1>8. CascadeTypeOK'
  BY <1>1, <1>3, <1>4, <1>5, <1>6, <1>7 DEF CascadeTypeOK, tables, history
<1>9. recorded[e] \in Nat
  BY <1>1 DEF CascadeTypeOK
<1> QED
  BY <1>3, <1>4, <1>5, <1>6, <1>7, <1>8, <1>9 DEF Moves, tables, history

\* A delivery moves the consumer.
LEMMA TakeMoves ==
    ASSUME CascadeInv, NEW e \in Events, TakeMessage(e)
    PROVE  CascadeTypeOK' /\ Moves(Consumer(e), e)
<1>1. CascadeTypeOK
  BY DEF CascadeInv
<1>2. Consumer(e) \in Workers
  BY WorkerKinds
<1>3. message[e] + 1 \in Nat /\ message' = [message EXCEPT ![e] = message[e] + 1]
  BY <1>1 DEF TakeMessage, CascadeTypeOK
<1>4. message' \in [Events -> Nat \cup {None}]
      /\ \A f \in Events \ {e} : message'[f] = message[f]
  BY <1>1, <1>3, MessageSets
<1>5. Begin(e, "analytics", 1) \in Tasks
  BY BeginIsTask DEF Stages
<1>6. /\ task' \in [Workers -> Tasks \cup {None}]
      /\ \A v \in Workers \ {Consumer(e)} : task'[v] = task[v]
  BY <1>1, <1>2, <1>5, WorkSets DEF TakeMessage
<1>7. UNCHANGED <<fired, tables, faults, history>>
  BY DEF TakeMessage
<1>8. CascadeTypeOK'
  BY <1>1, <1>4, <1>6, <1>7 DEF CascadeTypeOK, tables, history
<1>9. recorded[e] \in Nat /\ faults[e] \in Nat
  BY <1>1 DEF CascadeTypeOK
<1> QED
  BY <1>4, <1>6, <1>7, <1>8, <1>9 DEF Moves, tables, history

\* A call of a stage moves whoever runs it.
LEMMA StageMoves ==
    ASSUME CascadeInv, NEW w \in Workers, Stage(w)
    PROVE  task[w] # None /\ CascadeTypeOK' /\ Moves(w, task[w].event)
<1> DEFINE e == task[w].event
<1>1. CascadeTypeOK /\ WorkerOK(w)
  BY DEF CascadeInv
<1>2. task[w] # None
  BY DEF Stage, RecordEvent, RecordFee, WriteSplit, WriteDeadLetter, At
<1>3. /\ e \in Events /\ w \in Operators \cup {Inline(e), Consumer(e)}
      /\ recorded[e] \in Nat /\ faults[e] \in Nat
  BY <1>1, <1>2, TaskEvent DEF CascadeTypeOK
<1>4. CASE RecordEvent(w)
  <2>1. recorded' \in [Events -> Nat] /\ recorded'[e] = recorded[e] + 1
        /\ \A f \in Events \ {e} : recorded'[f] = recorded[f]
    BY <1>1, <1>3, <1>4 DEF RecordEvent, CascadeTypeOK
  <2>2. /\ task' \in [Workers -> Tasks \cup {None}]
        /\ \A v \in Workers \ {w} : task'[v] = task[v]
    BY <1>1, <1>2, <1>4, StageDoneSets DEF RecordEvent
  <2>3. UNCHANGED <<fired, message, revenue, dlq, faults, history>>
    BY <1>4 DEF RecordEvent
  <2>4. CascadeTypeOK'
    BY <1>1, <2>1, <2>2, <2>3 DEF CascadeTypeOK, history
  <2>5. Moves(w, e)
    BY <1>3, <2>1, <2>2, <2>3 DEF Moves, history
  <2> QED
    BY <1>2, <2>4, <2>5
<1>5. CASE RecordFee(w)
  <2>1. /\ revenue' \in [Events -> Seq(Nat)]
        /\ \A f \in Events \ {e} : revenue'[f] = revenue[f]
        /\ \A j \in DOMAIN revenue[e] : j \in DOMAIN revenue'[e] /\ revenue'[e][j] = revenue[e][j]
        /\ task' \in [Workers -> Tasks \cup {None}]
        /\ \A v \in Workers \ {w} : task'[v] = task[v]
    BY <1>1, <1>5, FeeRow
  <2>2. UNCHANGED <<fired, message, recorded, dlq, faults, history>>
    BY <1>5 DEF RecordFee
  <2>3. CascadeTypeOK'
    BY <1>1, <2>1, <2>2 DEF CascadeTypeOK, history
  <2>4. Moves(w, e)
    BY <1>3, <2>1, <2>2 DEF Moves, history
  <2> QED
    BY <1>2, <2>3, <2>4
<1>6. CASE WriteSplit(w)
  <2>1. /\ revenue' \in [Events -> Seq(Nat)]
        /\ \A f \in Events \ {e} : revenue'[f] = revenue[f]
        /\ DOMAIN revenue'[e] = DOMAIN revenue[e]
        /\ \A j \in DOMAIN revenue[e] : j # task[w].row => revenue'[e][j] = revenue[e][j]
        /\ revenue[e][task[w].row] < Splits
    BY <1>1, <1>6, SplitRow
  <2>2. /\ task' \in [Workers -> Tasks \cup {None}]
        /\ \A v \in Workers \ {w} : task'[v] = task[v]
    <3>1. CASE task' = task
      BY <1>1, <3>1 DEF CascadeTypeOK
    <3>2. CASE StageDone(w)
      BY <1>1, <1>2, <3>2, StageDoneSets
    <3> QED
      BY <1>6, <3>1, <3>2 DEF WriteSplit
  <2>3. UNCHANGED <<fired, message, recorded, dlq, faults, history>> /\ At(w, "split")
    BY <1>6 DEF WriteSplit
  <2>4. CascadeTypeOK'
    BY <1>1, <2>1, <2>2, <2>3 DEF CascadeTypeOK, history
  <2>5. Moves(w, e)
    BY <1>3, <2>1, <2>2, <2>3 DEF Moves, history
  <2> QED
    BY <1>2, <2>4, <2>5
<1>7. CASE WriteDeadLetter(w)
  <2> DEFINE s == task[w].stage
  <2>1. s \in Stages
    BY <1>1, <1>2, TaskParts
  <2>2. /\ dlq' \in [Events -> [Stages -> Letters]]
        /\ \A f \in Events \ {e} : dlq'[f] = dlq[f]
        /\ \A r \in Stages : dlq[e][r] # "none" => dlq'[e][r] # "none"
        /\ faults' \in [Events -> Nat] /\ faults[e] <= faults'[e]
        /\ \A f \in Events \ {e} : faults'[f] = faults[f]
    <3>1. CASE dlq' = [dlq EXCEPT ![e][s] = "pending"] /\ faults' = faults
      <4>1. "pending" \in Letters
        BY DEF Letters
      <4>2. faults \in [Events -> Nat]
        BY <1>1 DEF CascadeTypeOK
      <4>3. /\ dlq' \in [Events -> [Stages -> Letters]]
            /\ dlq'[e][s] = "pending"
            /\ \A r \in Stages \ {s} : dlq'[e][r] = dlq[e][r]
            /\ \A f \in Events \ {e} : dlq'[f] = dlq[f]
        BY <1>1, <1>3, <2>1, <3>1, <4>1, LetterSets
      <4> QED
        BY <1>3, <3>1, <4>2, <4>3
    <3>2. CASE dlq' = dlq /\ Fault(e)
      <4>1. dlq \in [Events -> [Stages -> Letters]]
        BY <1>1 DEF CascadeTypeOK
      <4> QED
        BY <1>1, <1>3, <3>2, <4>1, FaultCounts
    <3> QED
      BY <1>7, <3>1, <3>2 DEF WriteDeadLetter
  <2>3. /\ task' \in [Workers -> Tasks \cup {None}]
        /\ \A v \in Workers \ {w} : task'[v] = task[v]
    BY <1>1, <1>2, <1>7, StageDoneSets DEF WriteDeadLetter
  <2>4. UNCHANGED <<fired, message, recorded, revenue, history>>
    BY <1>7 DEF WriteDeadLetter
  <2>5. CascadeTypeOK'
    BY <1>1, <2>2, <2>3, <2>4 DEF CascadeTypeOK, history
  <2>6. Moves(w, e)
    BY <1>3, <2>2, <2>3, <2>4 DEF Moves, history
  <2> QED
    BY <1>2, <2>5, <2>6
<1> QED
  BY <1>4, <1>5, <1>6, <1>7 DEF Stage

\* The end of a task, by its return, a failed call or an ended isolate.
LEMMA EndMoves ==
    ASSUME CascadeInv, NEW w \in Workers,
           (w \notin Operators /\ Finish(w)) \/ CallFails(w) \/ Die(w)
    PROVE  task[w] # None /\ CascadeTypeOK' /\ Moves(w, task[w].event)
<1> DEFINE e == task[w].event
<1>1. CascadeTypeOK
  BY DEF CascadeInv
<1>2. task[w] # None
  BY DEF Finish, At, CallFails, Die
<1>3. /\ e \in Events /\ w \in Operators \cup {Inline(e), Consumer(e)}
      /\ recorded[e] \in Nat /\ faults[e] \in Nat
      /\ w \notin Operators => w.event = e
  BY <1>1, <1>2, TaskEvent, WorkerKinds DEF CascadeTypeOK
<1>4. message \in [Events -> Nat \cup {None}] /\ faults \in [Events -> Nat] /\ died \subseteq Events
  BY <1>1 DEF CascadeTypeOK
<1>5. CASE w \notin Operators /\ Finish(w)
  <2>1. /\ task' \in [Workers -> Tasks \cup {None}]
        /\ \A v \in Workers \ {w} : task'[v] = task[v]
    BY <1>1, <1>5, WorkSets DEF Finish
  <2>2. /\ message' \in [Events -> Nat \cup {None}]
        /\ \A f \in Events \ {e} : message'[f] = message[f]
    <3>1. message' = message \/ message' = [message EXCEPT ![e] = None]
      BY <1>3, <1>5 DEF Finish
    <3> QED
      BY <1>1, <1>3, <1>4, <3>1, MessageSets
  <2>3. UNCHANGED <<fired, tables, faults, history>>
    BY <1>5 DEF Finish
  <2>4. CascadeTypeOK'
    BY <1>1, <2>1, <2>2, <2>3 DEF CascadeTypeOK, tables, history
  <2>5. Moves(w, e)
    BY <1>3, <2>1, <2>2, <2>3 DEF Moves, tables, history
  <2> QED
    BY <1>2, <2>4, <2>5
<1>6. ASSUME Fail(w)
      PROVE  /\ task' \in [Workers -> Tasks \cup {None}]
             /\ \A v \in Workers \ {w} : task'[v] = task[v]
             /\ message' \in [Events -> Nat \cup {None}]
             /\ \A f \in Events \ {e} : message'[f] = message[f]
  <2>1. message' = message \/ message' = [message EXCEPT ![e] = None]
    BY <1>1, <1>2, <1>3, <1>6, FailSets
  <2>2. /\ message' \in [Events -> Nat \cup {None}]
        /\ \A f \in Events \ {e} : message'[f] = message[f]
    BY <1>1, <1>3, <1>4, <2>1, MessageSets
  <2> QED
    BY <1>1, <1>2, <1>6, <2>2, FailSets
<1>7. CASE CallFails(w)
  <2>1. Fail(w) /\ Fault(e) /\ UNCHANGED <<fired, tables, history>>
    BY <1>7 DEF CallFails
  <2>2. /\ faults' \in [Events -> Nat] /\ faults[e] <= faults'[e]
        /\ \A f \in Events \ {e} : faults'[f] = faults[f]
    BY <1>1, <1>3, <2>1, FaultCounts
  <2>3. CascadeTypeOK'
    BY <1>1, <1>6, <2>1, <2>2 DEF CascadeTypeOK, tables, history
  <2>4. Moves(w, e)
    BY <1>3, <1>6, <2>1, <2>2 DEF Moves, tables, history
  <2> QED
    BY <1>2, <2>3, <2>4
<1>8. CASE Die(w)
  <2>1. Fault(e) /\ UNCHANGED <<fired, tables, handled>>
    BY <1>8 DEF Die
  <2>2. /\ faults' \in [Events -> Nat] /\ faults[e] <= faults'[e]
        /\ \A f \in Events \ {e} : faults'[f] = faults[f]
    BY <1>1, <1>3, <2>1, FaultCounts
  <2>3. /\ task' \in [Workers -> Tasks \cup {None}]
        /\ \A v \in Workers \ {w} : task'[v] = task[v]
        /\ message' \in [Events -> Nat \cup {None}]
        /\ \A f \in Events \ {e} : message'[f] = message[f]
    <3>1. CASE Work(w, None) /\ message' = message
      BY <1>1, <1>4, <3>1, WorkSets
    <3> QED
      BY <1>6, <1>8, <3>1 DEF Die
  <2>4. died' \subseteq Events /\ died \subseteq died'
    BY <1>3, <1>4, <1>8, WorkerKinds DEF Die
  <2>5. CascadeTypeOK'
    BY <1>1, <2>1, <2>2, <2>3, <2>4 DEF CascadeTypeOK, tables
  <2>6. Moves(w, e)
    BY <1>3, <2>1, <2>2, <2>3, <2>4 DEF Moves, tables
  <2> QED
    BY <1>2, <2>5, <2>6
<1> QED
  BY <1>5, <1>7, <1>8

\* A replay moves its operator.
LEMMA ReplayMoves ==
    ASSUME CascadeInv, NEW o \in Operators, Replay(o)
    PROVE  /\ CascadeTypeOK'
           /\ \E e \in Events, s \in Stages :
                 /\ dlq[e][s] = "pending" /\ Moves(o, e) /\ task'[o] = Begin(e, s, 1)
<1>1. CascadeTypeOK /\ o \in Workers
  BY WorkerKinds DEF CascadeInv
<1>2. PICK e \in Events, s \in Stages : dlq[e][s] = "pending" /\ Work(o, Begin(e, s, 1))
  BY DEF Replay
<1>3. /\ task' \in [Workers -> Tasks \cup {None}]
      /\ task'[o] = Begin(e, s, 1)
      /\ \A v \in Workers \ {o} : task'[v] = task[v]
  BY <1>1, <1>2, WorkSets, BeginIsTask
<1>4. UNCHANGED <<fired, message, tables, faults, history>>
  BY DEF Replay
<1>5. CascadeTypeOK'
  BY <1>1, <1>3, <1>4 DEF CascadeTypeOK, tables, history
<1>6. recorded[e] \in Nat /\ faults[e] \in Nat
  BY <1>1 DEF CascadeTypeOK
<1>7. Moves(o, e)
  BY <1>3, <1>4, <1>6 DEF Moves, tables, history
<1> QED
  BY <1>2, <1>3, <1>5, <1>7

\* A resolution moves its operator.
LEMMA ResolveMoves ==
    ASSUME CascadeInv, NEW o \in Operators, Resolve(o)
    PROVE  task[o] # None /\ CascadeTypeOK' /\ Moves(o, task[o].event)
<1> DEFINE e == task[o].event
           s == task[o].stage
<1>1. CascadeTypeOK /\ o \in Workers /\ task[o] # None
  BY WorkerKinds DEF CascadeInv, Resolve, At
<1>2. e \in Events /\ s \in Stages
  BY <1>1, TaskParts
<1>3. "resolved" \in Letters /\ dlq' = [dlq EXCEPT ![e][s] = "resolved"]
  BY DEF Letters, Resolve
<1>4. /\ dlq' \in [Events -> [Stages -> Letters]]
      /\ dlq'[e][s] = "resolved"
      /\ \A r \in Stages \ {s} : dlq'[e][r] = dlq[e][r]
      /\ \A f \in Events \ {e} : dlq'[f] = dlq[f]
  BY <1>1, <1>2, <1>3, LetterSets
<1>5. /\ task' \in [Workers -> Tasks \cup {None}]
      /\ \A v \in Workers \ {o} : task'[v] = task[v]
  BY <1>1, WorkSets DEF Resolve
<1>6. UNCHANGED <<fired, message, recorded, revenue, faults, history>>
  BY DEF Resolve
<1>7. CascadeTypeOK'
  BY <1>1, <1>4, <1>5, <1>6 DEF CascadeTypeOK, history
<1>8. recorded[e] \in Nat /\ faults[e] \in Nat
  BY <1>1, <1>2 DEF CascadeTypeOK
<1>9. \A r \in Stages : dlq[e][r] # "none" => dlq'[e][r] # "none"
  BY <1>4
<1>10. Moves(o, e)
  BY <1>4, <1>5, <1>6, <1>8, <1>9 DEF Moves, history
<1> QED
  BY <1>1, <1>7, <1>10

\* A letter that is marked by hand moves nobody.
LEMMA HandMoves ==
    ASSUME CascadeInv, NEW e \in Events, NEW s \in Stages,
           NEW x \in {"resolved", "abandoned"}, MarkByHand(e, s, x)
    PROVE  CascadeTypeOK' /\ Moves(Inline(e), e)
<1>1. CascadeTypeOK
  BY DEF CascadeInv
<1>2. x \in Letters /\ x # "none"
  BY DEF Letters
<1>3. /\ dlq' \in [Events -> [Stages -> Letters]]
      /\ dlq'[e][s] = x
      /\ \A r \in Stages \ {s} : dlq'[e][r] = dlq[e][r]
      /\ \A f \in Events \ {e} : dlq'[f] = dlq[f]
  BY <1>1, <1>2, LetterSets DEF MarkByHand
<1>4. handled' \subseteq Events \X Stages /\ handled \subseteq handled'
  BY <1>1 DEF CascadeTypeOK, MarkByHand
<1>5. UNCHANGED <<fired, message, task, recorded, revenue, faults, died>>
  BY DEF MarkByHand
<1>6. CascadeTypeOK'
  BY <1>1, <1>3, <1>4, <1>5 DEF CascadeTypeOK
<1>7. recorded[e] \in Nat /\ faults[e] \in Nat
  BY <1>1 DEF CascadeTypeOK
<1>8. \A r \in Stages : dlq[e][r] # "none" => dlq'[e][r] # "none"
  BY <1>2, <1>3
<1> QED
  BY <1>3, <1>4, <1>5, <1>6, <1>7, <1>8 DEF Moves

-----------------------------------------------------------------------------
(* What a step leaves as it is.                                             *)

\* What is carried out stays so, and so does what is done.
LEMMA CarriedStays ==
    ASSUME CascadeTypeOK, CascadeTypeOK', NEW w \in Workers, NEW e \in Events, Moves(w, e)
    PROVE  \A f \in Events, s \in Stages :
               /\ CarriedOut(f, s) => CarriedOut(f, s)'
               /\ Done(f, s) => Done(f, s)'
<1> SUFFICES ASSUME NEW f \in Events, NEW s \in Stages
             PROVE  /\ CarriedOut(f, s) => CarriedOut(f, s)'
                    /\ Done(f, s) => Done(f, s)'
  OBVIOUS
<1>1. CASE f # e
  <2>1. recorded'[f] = recorded[f] /\ revenue'[f] = revenue[f] /\ dlq'[f] = dlq[f]
    BY <1>1 DEF Moves
  <2> QED
    BY <2>1 DEF CarriedOut, Done
<1>2. CASE f = e
  <2>1. CarriedOut(e, s) => CarriedOut(e, s)'
    <3>1. CASE s = "analytics"
      <4>1. recorded[e] <= recorded'[e] /\ recorded[e] \in Nat /\ recorded'[e] \in Nat
        BY DEF Moves, CascadeTypeOK
      <4> QED
        BY <3>1, <4>1 DEF CarriedOut
    <3>2. CASE s # "analytics"
      <4> SUFFICES ASSUME NEW i \in DOMAIN revenue[e], revenue[e][i] = Splits
                   PROVE  i \in DOMAIN revenue'[e] /\ revenue'[e][i] = Splits
        BY <3>2 DEF CarriedOut
      <4>1. ~(revenue[e][i] < Splits)
        BY CascadeAssumption
      <4> QED
        BY <4>1 DEF Moves
    <3> QED
      BY <3>1, <3>2
  <2>2. dlq[e][s] # "none" => dlq'[e][s] # "none"
    BY DEF Moves
  <2> QED
    BY <1>2, <2>1, <2>2 DEF Done
<1> QED
  BY <1>1, <1>2

\* The invariant of the others.
LEMMA OthersStay ==
    ASSUME CascadeInv, CascadeTypeOK', NEW w \in Workers, NEW e \in Events, Moves(w, e)
    PROVE  /\ \A v \in Workers \ {w} : WorkerOK(v)'
           /\ \A o \in Operators \ {w} : OperatorOK(o)'
           /\ \A f \in Events \ {e} : EventOK(f)'
<1>1. /\ CascadeTypeOK /\ RowsOwned
      /\ \A v \in Workers : WorkerOK(v)
      /\ \A o \in Operators : OperatorOK(o)
      /\ \A f \in Events : EventOK(f)
  BY DEF CascadeInv
<1>2. \A f \in Events, s \in Stages :
          /\ CarriedOut(f, s) => CarriedOut(f, s)'
          /\ Done(f, s) => Done(f, s)'
  BY <1>1, CarriedStays
<1>3. ASSUME NEW v \in Workers \ {w} PROVE WorkerOK(v)'
  <2> SUFFICES ASSUME task'[v] # None PROVE WorkerOK(v)'
    BY DEF WorkerOK
  <2>1. task'[v] = task[v] /\ task[v] # None /\ WorkerOK(v) /\ task[v].event \in Events
    BY <1>1, TaskParts DEF Moves
  <2>2. ASSUME task[v].step = "split"
        PROVE  /\ task[v].row \in DOMAIN revenue'[task[v].event]
               /\ revenue'[task[v].event][task[v].row] < Splits
    <3>1. /\ task[v].row \in DOMAIN revenue[task[v].event]
          /\ revenue[task[v].event][task[v].row] < Splits
      BY <2>1, <2>2 DEF WorkerOK
    <3>2. CASE task[v].event # e
      BY <2>1, <3>1, <3>2 DEF Moves
    <3>3. CASE task[v].event = e
      <4>1. ~(At(w, "split") /\ task[w].event = e /\ task[w].row = task[v].row)
        BY <1>1, <2>1, <2>2, <3>3 DEF RowsOwned, At
      <4> QED
        BY <3>1, <3>3, <4>1 DEF Moves
    <3> QED
      BY <3>2, <3>3
  <2> QED
    BY <2>1, <2>2 DEF WorkerOK
<1>4. ASSUME NEW o \in Operators \ {w} PROVE OperatorOK(o)'
  <2> SUFFICES ASSUME task'[o] # None PROVE OperatorOK(o)'
    BY DEF OperatorOK
  <2>1. o \in Workers
    BY WorkerKinds
  <2>2. task'[o] = task[o] /\ task[o] # None /\ OperatorOK(o)
        /\ task[o].event \in Events /\ task[o].stage \in Stages
    BY <1>1, <2>1, TaskParts DEF Moves
  <2>3. dlq[task[o].event][task[o].stage] # "none" => dlq'[task[o].event][task[o].stage] # "none"
    BY <2>2 DEF Moves
  <2> QED
    BY <1>2, <2>2, <2>3 DEF OperatorOK
<1>5. ASSUME NEW f \in Events \ {e} PROVE EventOK(f)'
  <2>1. /\ EventOK(f)
        /\ fired'[f] = fired[f] /\ message'[f] = message[f]
        /\ recorded'[f] = recorded[f] /\ revenue'[f] = revenue[f]
        /\ dlq'[f] = dlq[f] /\ faults'[f] = faults[f]
        /\ f \in died => f \in died'
        /\ handled \subseteq handled'
    BY <1>1 DEF Moves
  <2>2. /\ Inline(f) \in Workers \ {w} /\ Consumer(f) \in Workers \ {w}
        /\ task'[Inline(f)] = task[Inline(f)] /\ task'[Consumer(f)] = task[Consumer(f)]
    BY WorkerKinds DEF Moves
  <2>3. \A s \in Stages : /\ CarriedOut(f, s) => CarriedOut(f, s)'
                          /\ Done(f, s) => Done(f, s)'
    BY <1>2
  <2>4. "analytics" \in Stages /\ "commercial" \in Stages
    BY DEF Stages
  <2>5. InlineOK(f)'
    BY <2>1, <2>2, <2>3, <2>4 DEF EventOK, InlineOK
  <2>6. ConsumerOK(f)'
    BY <2>1, <2>2, <2>3, <2>4 DEF EventOK, ConsumerOK
  <2>7. FreshOK(f)' /\ BillsOK(f)'
    BY <2>1, <2>2 DEF EventOK, FreshOK, BillsOK
  <2>8. HeldOK(f)'
    BY <2>1, <2>2, <2>3 DEF EventOK, HeldOK
  <2>9. ResolvedOK(f)'
    BY <2>1, <2>3 DEF EventOK, ResolvedOK
  <2> QED
    BY <2>5, <2>6, <2>7, <2>8, <2>9 DEF EventOK
<1> QED
  BY <1>3, <1>4, <1>5

\* Rows stay owned if the mover does not come to write splits of a row that exists.
LEMMA RowsStayOwned ==
    ASSUME CascadeInv, NEW w \in Workers, NEW e \in Events, Moves(w, e),
           \/ task'[w] = task[w]
           \/ task'[w] # None => task'[w].step # "split"
           \/ task'[w].row \notin DOMAIN revenue[task'[w].event]
    PROVE  RowsOwned'
<1>1. RowsOwned /\ \A v \in Workers : WorkerOK(v)
  BY DEF CascadeInv
<1> SUFFICES ASSUME NEW v \in Workers, NEW u \in Workers, v # u,
                    At(v, "split")', At(u, "split")', task'[v].event = task'[u].event
             PROVE  task'[v].row # task'[u].row
  BY DEF RowsOwned
<1>2. \A x \in Workers \ {w} : task'[x] = task[x]
  BY DEF Moves
<1>3. CASE (v # w /\ u # w) \/ task'[w] = task[w]
  <2>1. task'[v] = task[v] /\ task'[u] = task[u]
    BY <1>2, <1>3
  <2> QED
    BY <1>1, <2>1 DEF RowsOwned, At
<1>4. CASE (v = w \/ u = w) /\ task'[w].row \notin DOMAIN revenue[task'[w].event]
  <2>1. \A x \in Workers \ {w} :
            At(x, "split")' => task'[x].row \in DOMAIN revenue[task'[x].event]
    BY <1>1, <1>2 DEF WorkerOK, At
  <2> QED
    BY <1>4, <2>1
<1> QED
  BY <1>3, <1>4 DEF At

\* A step keeps the invariant if it keeps the parts of its worker and event.
LEMMA KeptBy ==
    ASSUME CascadeInv, CascadeTypeOK', NEW w \in Workers, NEW e \in Events, Moves(w, e),
           RowsOwned', WorkerOK(w)', w \in Operators => OperatorOK(w)', EventOK(e)'
    PROVE  CascadeInv'
BY OthersStay DEF CascadeInv

\* The producer's part, when it is not the producer's step.
LEMMA InlineStays ==
    ASSUME CascadeInv, CascadeTypeOK', NEW w \in Workers, NEW e \in Events, Moves(w, e),
           task'[Inline(e)] = task[Inline(e)],
           dlq[e]["commercial"] = "none" => dlq'[e]["commercial"] = "none"
    PROVE  InlineOK(e)'
<1>1. CascadeTypeOK /\ InlineOK(e)
  BY DEF CascadeInv, EventOK
<1>2. /\ Done(e, "analytics") => Done(e, "analytics")'
      /\ Done(e, "commercial") => Done(e, "commercial")'
  BY <1>1, CarriedStays DEF Stages
<1>3. /\ faults[e] <= faults'[e] /\ faults[e] \in Nat /\ faults'[e] \in Nat
      /\ Tolerated \in Nat /\ Attempts \in Nat
  BY <1>1, CascadeAssumption DEF Moves, CascadeTypeOK, Tolerated
<1>4. faults'[e] <= Tolerated => faults[e] <= Tolerated
  BY <1>3
<1> SUFFICES ASSUME task[Inline(e)] # None PROVE InlineOK(e)'
  BY DEF InlineOK
<1>5. task[Inline(e)].try \in Nat
  BY <1>1, TaskParts, WorkerKinds
<1>6. /\ task[Inline(e)].try <= faults'[e] + 1
      /\ task[Inline(e)].step = "dead" => faults'[e] >= Attempts
  BY <1>1, <1>3, <1>5 DEF InlineOK
<1> QED
  BY <1>1, <1>2, <1>4, <1>6 DEF InlineOK

\* The consumer's part, when it is not the queue's step.
LEMMA ConsumerStays ==
    ASSUME CascadeInv, CascadeTypeOK', NEW w \in Workers, NEW e \in Events, Moves(w, e),
           task'[Consumer(e)] = task[Consumer(e)], message'[e] = message[e]
    PROVE  ConsumerOK(e)'
<1>1. CascadeTypeOK /\ ConsumerOK(e)
  BY DEF CascadeInv, EventOK
<1>2. /\ CarriedOut(e, "analytics") => CarriedOut(e, "analytics")'
      /\ CarriedOut(e, "commercial") => CarriedOut(e, "commercial")'
  BY <1>1, CarriedStays DEF Stages
<1>3. faults[e] <= faults'[e] /\ faults[e] \in Nat /\ faults'[e] \in Nat
  BY <1>1 DEF Moves, CascadeTypeOK
<1>4. message[e] # None => message[e] \in Nat
  BY <1>1 DEF CascadeTypeOK
<1>5. message[e] # None =>
          message[e] <= faults'[e] + (IF task[Consumer(e)] = None THEN 0 ELSE 1)
  BY <1>1, <1>3, <1>4 DEF ConsumerOK
<1> QED
  BY <1>1, <1>2, <1>5 DEF ConsumerOK

\* Who works on an event works on one that was fired.
LEMMA TaskFired ==
    ASSUME CascadeInv, NEW w \in Workers, task[w] # None
    PROVE  fired[task[w].event] = "yes"
<1> DEFINE e == task[w].event
<1>1. /\ CascadeTypeOK /\ e \in Events /\ task[w].stage \in Stages
      /\ w \in Operators \cup {Inline(e), Consumer(e)}
      /\ FreshOK(e) /\ ConsumerOK(e) /\ (w \in Operators => OperatorOK(w))
  BY TaskEvent, TaskParts DEF CascadeInv, EventOK
<1>2. fired[e] \in {"no", "yes"}
  BY <1>1 DEF CascadeTypeOK
<1>3. CASE w \in Operators
  BY <1>1, <1>2, <1>3 DEF FreshOK, OperatorOK
<1>4. CASE w = Inline(e)
  BY <1>1, <1>2, <1>4 DEF FreshOK
<1>5. CASE w = Consumer(e)
  BY <1>1, <1>2, <1>5 DEF FreshOK, ConsumerOK
<1> QED
  BY <1>1, <1>3, <1>4, <1>5

\* An event stays in hand if neither its message nor its producer lets go of it.
LEMMA HeldStays ==
    ASSUME CascadeInv, CascadeTypeOK', NEW w \in Workers, NEW e \in Events, Moves(w, e),
           fired[e] = "yes",
           message[e] # None => message'[e] # None,
           task[Inline(e)] # None => task'[Inline(e)] # None
    PROVE  HeldOK(e)' /\ FreshOK(e)'
<1>1. CascadeTypeOK /\ HeldOK(e)
  BY DEF CascadeInv, EventOK
<1>2. \A s \in Stages : Done(e, s) => Done(e, s)'
  BY <1>1, CarriedStays
<1>3. fired'[e] = "yes" /\ (e \in died => e \in died')
  BY DEF Moves
<1>4. faults'[e] <= Tolerated => faults[e] <= Tolerated
  <2>1. /\ faults[e] <= faults'[e] /\ faults[e] \in Nat /\ faults'[e] \in Nat
        /\ Tolerated \in Nat
    BY <1>1, CascadeAssumption DEF Moves, CascadeTypeOK, Tolerated
  <2> QED
    BY <2>1
<1> QED
  BY <1>1, <1>2, <1>3, <1>4 DEF HeldOK, FreshOK

\* Letters and bills that are not written stay good.
LEMMA TablesStay ==
    ASSUME CascadeInv, CascadeTypeOK', NEW w \in Workers, NEW e \in Events, Moves(w, e)
    PROVE  /\ dlq'[e] = dlq[e] => ResolvedOK(e)'
           /\ revenue'[e] = revenue[e] => BillsOK(e)'
<1>1. CascadeTypeOK /\ ResolvedOK(e) /\ BillsOK(e)
  BY DEF CascadeInv, EventOK
<1>2. \A s \in Stages : CarriedOut(e, s) => CarriedOut(e, s)'
  BY <1>1, CarriedStays
<1>3. handled \subseteq handled'
  BY DEF Moves
<1> QED
  BY <1>1, <1>2, <1>3 DEF ResolvedOK, BillsOK

\* Whoever is through with a stage that is done goes on rightly.
LEMMA AfterStage ==
    ASSUME CascadeInv, CascadeTypeOK', NEW w \in Workers, task[w] # None,
           NEW e \in Events, NEW s \in Stages, task[w].event = e, task[w].stage = s,
           Moves(w, e), StageDone(w), message' = message,
           w # Inline(e) => CarriedOut(e, s)' /\ dlq' = dlq,
           w = Inline(e) =>
               /\ task[w].step # "end"
               /\ faults'[e] <= Tolerated => Done(e, s)'
               /\ s = "analytics" => dlq'[e]["commercial"] = dlq[e]["commercial"]
    PROVE  /\ RowsOwned' /\ WorkerOK(w)' /\ (w \in Operators => OperatorOK(w)')
           /\ InlineOK(e)' /\ ConsumerOK(e)' /\ HeldOK(e)' /\ FreshOK(e)'
<1>1. /\ CascadeTypeOK /\ task[w].try \in Nat
      /\ w \in Operators \cup {Inline(e), Consumer(e)}
      /\ fired[e] = "yes"
      /\ InlineOK(e) /\ ConsumerOK(e) /\ (w \in Operators => OperatorOK(w))
  BY TaskEvent, TaskParts, TaskFired DEF CascadeInv, EventOK
<1>2. /\ \A v \in Workers \ {w} : task'[v] = task[v]
      /\ task'[w] # None /\ task'[w].event = e
      /\ w \in Operators => task'[w].step = "resolve" /\ task'[w].stage = s
      /\ (w \notin Operators /\ s = "analytics") => task'[w] = Begin(e, "commercial", 1)
      /\ (w \notin Operators /\ s # "analytics")
            => task'[w].step = "end" /\ task'[w].stage = s /\ task'[w].try = task[w].try
  BY <1>1, StageDoneSets
<1>3. /\ Begin(e, "commercial", 1).step = "fee" /\ Begin(e, "commercial", 1).stage = "commercial"
      /\ Begin(e, "commercial", 1).try = 1
  BY <1>1, BeginIsTask DEF Stages, First
<1>4. s = "analytics" \/ s = "commercial"
  BY <1>1 DEF Stages
<1>5. /\ Inline(e) \in Workers /\ Consumer(e) \in Workers
      /\ Inline(e) # Consumer(e)
      /\ Inline(e) \notin Operators /\ Consumer(e) \notin Operators
  BY <1>1, WorkerKinds
<1>6. task'[w].step # "split"
  BY <1>2, <1>3, <1>4
<1>7. RowsOwned'
  BY <1>1, <1>6, RowsStayOwned
<1>8. WorkerOK(w)'
  BY <1>2, <1>3, <1>4, <1>6 DEF WorkerOK
<1>9. ASSUME w \in Operators PROVE OperatorOK(w)'
  <2>1. w # Inline(e)
    BY <1>5, <1>9
  <2> QED
    BY <1>1, <1>2, <1>9, <2>1 DEF OperatorOK
<1>10. HeldOK(e)' /\ FreshOK(e)'
  <2>1. task[Inline(e)] # None => task'[Inline(e)] # None
    BY <1>2, <1>5
  <2> QED
    BY <1>1, <2>1, HeldStays
<1>11. InlineOK(e)'
  <2>1. CASE w # Inline(e)
    <3>1. task'[Inline(e)] = task[Inline(e)]
      BY <1>2, <1>5, <2>1
    <3> QED
      BY <1>1, <2>1, <3>1, InlineStays
  <2>2. CASE w = Inline(e)
    <3>1. /\ faults[e] <= faults'[e] /\ faults[e] \in Nat /\ faults'[e] \in Nat
          /\ Tolerated \in Nat /\ Attempts \in Nat \ {0}
      BY <1>1, CascadeAssumption DEF Moves, CascadeTypeOK, Tolerated
    <3>2. CASE s = "analytics"
      <4>1. task'[Inline(e)] = Begin(e, "commercial", 1)
        BY <1>2, <1>5, <2>2, <3>2
      <4>2. dlq'[e]["commercial"] = "none"
        BY <1>1, <2>2, <3>2 DEF InlineOK
      <4>3. faults'[e] <= Tolerated => Done(e, "analytics")'
        BY <2>2, <3>2
      <4>4. 1 <= Attempts /\ 1 <= faults'[e] + 1
        BY <3>1
      <4> QED
        BY <1>2, <1>3, <2>2, <4>1, <4>2, <4>3, <4>4 DEF InlineOK
    <3>3. CASE s = "commercial"
      <4>1. task'[w].step = "end" /\ task'[w].stage = "commercial" /\ task'[w].try = task[w].try
        BY <1>2, <1>5, <2>2, <3>3
      <4>2. task[w].try <= Attempts /\ task[w].try <= faults'[e] + 1
        BY <1>1, <2>2, <3>1 DEF InlineOK
      <4>3. faults'[e] <= Tolerated => Done(e, "analytics")' /\ Done(e, "commercial")'
        <5>1. faults'[e] <= Tolerated => Done(e, "analytics")
          BY <1>1, <2>2, <3>1, <3>3 DEF InlineOK
        <5>2. Done(e, "analytics") => Done(e, "analytics")'
          BY <1>1, CarriedStays DEF Stages
        <5> QED
          BY <2>2, <3>3, <5>1, <5>2
      <4> QED
        BY <1>2, <2>2, <4>1, <4>2, <4>3 DEF InlineOK
    <3> QED
      BY <1>4, <3>2, <3>3
  <2> QED
    BY <2>1, <2>2
<1>12. ConsumerOK(e)'
  <2>1. CASE w # Consumer(e)
    <3>1. task'[Consumer(e)] = task[Consumer(e)]
      BY <1>2, <1>5, <2>1
    <3> QED
      BY <1>1, <2>1, <3>1, ConsumerStays
  <2>2. CASE w = Consumer(e)
    <3>1. /\ faults[e] <= faults'[e] /\ faults[e] \in Nat /\ faults'[e] \in Nat
          /\ message[e] # None /\ message[e] \in Nat /\ message[e] <= faults[e] + 1
      BY <1>1, <2>2 DEF Moves, CascadeTypeOK, ConsumerOK
    <3>2. message'[e] # None /\ message'[e] <= faults'[e] + 1
      BY <3>1
    <3>3. CarriedOut(e, s)'
      BY <1>5, <2>2
    <3>4. task'[w].step \notin {"resolve", "dead"}
      BY <1>2, <1>3, <1>4, <1>5, <2>2
    <3>5. task'[w].stage = "commercial" => CarriedOut(e, "analytics")'
      <4>1. CASE s = "analytics"
        BY <3>3, <4>1
      <4>2. CASE s = "commercial"
        <5>1. CarriedOut(e, "analytics")
          BY <1>1, <2>2, <4>2 DEF ConsumerOK
        <5> QED
          BY <1>1, <5>1, CarriedStays DEF Stages
      <4> QED
        BY <1>4, <4>1, <4>2
    <3>6. task'[w].step = "end" => CarriedOut(e, "commercial")'
      BY <1>2, <1>3, <1>4, <1>5, <2>2, <3>3
    <3> QED
      BY <1>2, <2>2, <3>2, <3>4, <3>5, <3>6 DEF ConsumerOK
  <2> QED
    BY <2>1, <2>2
<1> QED
  BY <1>7, <1>8, <1>9, <1>10, <1>11, <1>12

-----------------------------------------------------------------------------
(* Every step keeps the invariant.                                          *)

\* The event is with the queue, or in line.
LEMMA FireKeeps ==
    ASSUME CascadeInv, NEW e \in Events, SendToQueue(e) \/ RunInline(e)
    PROVE  CascadeInv'
<1> DEFINE w == Inline(e)
<1>1. CascadeTypeOK /\ EventOK(e) /\ w \in Workers /\ w \notin Operators
  BY WorkerKinds DEF CascadeInv
<1>2. CascadeTypeOK' /\ Moves(w, e)
  BY FireMoves
<1>3. /\ fired[e] = "no" /\ fired'[e] = "yes"
      /\ message[e] = None /\ task[w] = None /\ task[Consumer(e)] = None
      /\ \A s \in Stages : dlq[e][s] = "none"
  BY <1>1 DEF SendToQueue, RunInline, EventOK, FreshOK, ConsumerOK, CascadeTypeOK
<1>4. UNCHANGED <<tables, history>>
  BY DEF SendToQueue, RunInline
<1>5. message'[e] # None => message'[e] = 0
  BY <1>1, <1>3 DEF SendToQueue, RunInline, CascadeTypeOK
<1>6. /\ Consumer(e) \in Workers /\ Consumer(e) # w
      /\ task'[Consumer(e)] = None
      /\ faults'[e] \in Nat /\ Attempts \in Nat \ {0}
  BY <1>2, <1>3, WorkerKinds, CascadeAssumption DEF Moves, CascadeTypeOK
<1>7. \/ task'[w] = task[w] /\ message'[e] # None
      \/ task'[w] = Begin(e, "analytics", 1)
  <2>1. CASE SendToQueue(e)
    BY <1>1, <2>1, NotNone DEF SendToQueue, CascadeTypeOK
  <2>2. CASE RunInline(e)
    <3>1. Begin(e, "analytics", 1) \in Tasks
      BY BeginIsTask DEF Stages
    <3> QED
      BY <1>1, <2>2, <3>1, WorkSets DEF RunInline
  <2> QED
    BY <2>1, <2>2
<1>8. /\ Begin(e, "analytics", 1) # None
      /\ Begin(e, "analytics", 1).event = e
      /\ Begin(e, "analytics", 1).step = "record"
      /\ Begin(e, "analytics", 1).stage = "analytics" /\ Begin(e, "analytics", 1).try = 1
  BY BeginIsTask DEF Stages, First
<1>9. ConsumerOK(e)'
  BY <1>5, <1>6 DEF ConsumerOK
<1>10. FreshOK(e)' /\ HeldOK(e)'
  BY <1>3, <1>7, <1>8 DEF FreshOK, HeldOK
<1>11. BillsOK(e)' /\ ResolvedOK(e)'
  BY <1>1, <1>2, <1>4, TablesStay DEF tables
<1>12. RowsOwned'
  BY <1>1, <1>2, <1>7, <1>8, RowsStayOwned
<1>13. CASE task'[w] = task[w]
  <2>1. WorkerOK(w)' /\ InlineOK(e)'
    BY <1>3, <1>13 DEF WorkerOK, InlineOK
  <2> QED
    BY <1>1, <1>2, <1>9, <1>10, <1>11, <1>12, <2>1, KeptBy DEF EventOK
<1>14. CASE task'[w] = Begin(e, "analytics", 1)
  <2>1. WorkerOK(w)'
    BY <1>8, <1>14 DEF WorkerOK
  <2>2. dlq'[e]["commercial"] = "none"
    BY <1>3, <1>4 DEF tables, Stages
  <2>3. 1 <= Attempts /\ 1 <= faults'[e] + 1
    BY <1>6
  <2>4. InlineOK(e)'
    BY <1>8, <1>14, <2>2, <2>3 DEF InlineOK
  <2> QED
    BY <1>1, <1>2, <1>9, <1>10, <1>11, <1>12, <2>1, <2>4, KeptBy DEF EventOK
<1> QED
  BY <1>7, <1>13, <1>14

\* A delivery.
LEMMA TakeKeeps ==
    ASSUME CascadeInv, NEW e \in Events, TakeMessage(e)
    PROVE  CascadeInv'
<1> DEFINE w == Consumer(e)
<1>1. CascadeTypeOK /\ EventOK(e) /\ w \in Workers /\ w \notin Operators
  BY WorkerKinds DEF CascadeInv
<1>2. CascadeTypeOK' /\ Moves(w, e)
  BY TakeMoves
<1>3. UNCHANGED <<fired, tables, faults, history>>
  BY DEF TakeMessage
<1>4. /\ message[e] # None /\ task[w] = None
      /\ message[e] \in Nat /\ message'[e] = message[e] + 1 /\ message'[e] # None
      /\ message[e] <= faults[e] /\ faults[e] \in Nat
      /\ fired[e] = "yes"
  BY <1>1, NotNone DEF TakeMessage, EventOK, ConsumerOK, FreshOK, CascadeTypeOK
<1>5. task'[w] = Begin(e, "analytics", 1)
  <2>1. Begin(e, "analytics", 1) \in Tasks
    BY BeginIsTask DEF Stages
  <2> QED
    BY <1>1, <2>1, WorkSets DEF TakeMessage
<1>6. /\ Begin(e, "analytics", 1) # None
      /\ Begin(e, "analytics", 1).event = e
      /\ Begin(e, "analytics", 1).step = "record"
      /\ Begin(e, "analytics", 1).stage = "analytics"
  BY BeginIsTask DEF Stages, First
<1>7. task'[Inline(e)] = task[Inline(e)]
  BY <1>1, <1>2, WorkerKinds DEF Moves
<1>8. ConsumerOK(e)'
  <2>1. message'[e] <= faults'[e] + 1
    BY <1>3, <1>4
  <2> QED
    BY <1>4, <1>5, <1>6, <2>1 DEF ConsumerOK
<1>9. InlineOK(e)'
  BY <1>1, <1>2, <1>3, <1>7, InlineStays DEF tables
<1>10. FreshOK(e)' /\ HeldOK(e)'
  BY <1>1, <1>2, <1>4, <1>7, HeldStays
<1>11. BillsOK(e)' /\ ResolvedOK(e)'
  BY <1>1, <1>2, <1>3, TablesStay DEF tables
<1>12. RowsOwned'
  BY <1>1, <1>2, <1>5, <1>6, RowsStayOwned
<1>13. WorkerOK(w)'
  BY <1>5, <1>6 DEF WorkerOK
<1> QED
  BY <1>1, <1>2, <1>8, <1>9, <1>10, <1>11, <1>12, <1>13, KeptBy DEF EventOK

\* The row of the analytics sink.
LEMMA RecordKeeps ==
    ASSUME CascadeInv, NEW w \in Workers, RecordEvent(w)
    PROVE  CascadeInv'
<1>1. PICK e \in Events, s \in Stages : task[w].event = e /\ task[w].stage = s
  BY TaskParts DEF RecordEvent, At, CascadeInv
<1>2. /\ CascadeTypeOK /\ WorkerOK(w) /\ task[w] # None /\ task[w].step = "record"
  BY DEF CascadeInv, RecordEvent, At
<1>3. s = "analytics"
  BY <1>1, <1>2 DEF WorkerOK
<1>4. CascadeTypeOK' /\ Moves(w, e)
  BY <1>1, StageMoves DEF Stage
<1>5. StageDone(w) /\ UNCHANGED <<fired, message, revenue, dlq, faults, history>>
  BY DEF RecordEvent
<1>6. CarriedOut(e, s)'
  <2>1. recorded[e] \in Nat /\ recorded'[e] = recorded[e] + 1
    BY <1>1, <1>2 DEF RecordEvent, CascadeTypeOK
  <2> QED
    BY <1>3, <2>1 DEF CarriedOut
<1>7. Done(e, s)'
  BY <1>6 DEF Done
<1>8. /\ RowsOwned' /\ WorkerOK(w)' /\ (w \in Operators => OperatorOK(w)')
      /\ InlineOK(e)' /\ ConsumerOK(e)' /\ HeldOK(e)' /\ FreshOK(e)'
  BY <1>1, <1>2, <1>4, <1>5, <1>6, <1>7, AfterStage
<1>9. BillsOK(e)' /\ ResolvedOK(e)'
  BY <1>4, <1>5, TablesStay
<1> QED
  BY <1>4, <1>8, <1>9, KeptBy DEF EventOK

\* A bill begins.
LEMMA FeeKeeps ==
    ASSUME CascadeInv, NEW w \in Workers, RecordFee(w)
    PROVE  CascadeInv'
<1>1. PICK e \in Events : task[w].event = e
  BY TaskParts DEF RecordFee, At, CascadeInv
<1>2. /\ CascadeTypeOK /\ WorkerOK(w) /\ EventOK(e) /\ task[w] # None /\ task[w].step = "fee"
      /\ (w \in Operators => OperatorOK(w))
      /\ w \in Operators \cup {Inline(e), Consumer(e)}
      /\ fired[e] = "yes"
  BY <1>1, TaskEvent, TaskFired DEF CascadeInv, RecordFee, At
<1>3. CascadeTypeOK' /\ Moves(w, e)
  BY <1>1, StageMoves DEF Stage
<1>4. UNCHANGED <<fired, message, recorded, dlq, faults, history>>
  BY DEF RecordFee
<1>5. /\ Len(revenue'[e]) = Len(revenue[e]) + 1
      /\ \A j \in DOMAIN revenue[e] : j \in DOMAIN revenue'[e] /\ revenue'[e][j] = revenue[e][j]
      /\ revenue'[e][Len(revenue[e]) + 1] = 0
      /\ \A v \in Workers \ {w} : task'[v] = task[v]
      /\ task'[w] # None
      /\ task'[w].event = e /\ task'[w].stage = task[w].stage /\ task'[w].step = "split"
      /\ task'[w].try = task[w].try /\ task'[w].row = Len(revenue[e]) + 1
  BY <1>1, <1>2, FeeRow
<1>6. /\ revenue[e] \in Seq(Nat) /\ revenue'[e] \in Seq(Nat) /\ Splits \in Nat \ {0}
  BY <1>2, <1>3, CascadeAssumption DEF CascadeTypeOK
<1>7. /\ DOMAIN revenue[e] = 1 .. Len(revenue[e]) /\ DOMAIN revenue'[e] = 1 .. Len(revenue'[e])
      /\ Len(revenue[e]) \in Nat
  BY <1>6
<1>8. RowsOwned'
  <2>1. task'[w].row \notin DOMAIN revenue[task'[w].event]
    BY <1>5, <1>7
  <2> QED
    BY <1>3, <2>1, RowsStayOwned
<1>9. WorkerOK(w)'
  <2>1. task'[w].row \in DOMAIN revenue'[e] /\ revenue'[e][task'[w].row] < Splits
    BY <1>5, <1>6, <1>7
  <2> QED
    BY <1>2, <1>5, <2>1 DEF WorkerOK
<1>10. /\ Inline(e) \in Workers /\ Consumer(e) \in Workers /\ Inline(e) # Consumer(e)
       /\ Inline(e) \notin Operators /\ Consumer(e) \notin Operators
  BY WorkerKinds
<1>11. \A f \in Events, s \in Stages : /\ CarriedOut(f, s) => CarriedOut(f, s)'
                                       /\ Done(f, s) => Done(f, s)'
  BY <1>2, <1>3, CarriedStays
<1>12. ASSUME w \in Operators PROVE OperatorOK(w)'
  BY <1>1, <1>2, <1>4, <1>5, <1>12 DEF OperatorOK
<1>13. InlineOK(e)'
  <2>1. CASE w = Inline(e)
    BY <1>2, <1>4, <1>5, <1>11, <2>1 DEF InlineOK, EventOK, Stages
  <2>2. CASE w # Inline(e)
    BY <1>3, <1>4, <1>5, <1>10, <2>2, InlineStays
  <2> QED
    BY <2>1, <2>2
<1>14. ConsumerOK(e)'
  <2>1. CASE w = Consumer(e)
    BY <1>2, <1>4, <1>5, <1>11, <2>1 DEF ConsumerOK, EventOK, Stages
  <2>2. CASE w # Consumer(e)
    BY <1>3, <1>4, <1>5, <1>10, <2>2, ConsumerStays
  <2> QED
    BY <2>1, <2>2
<1>15. HeldOK(e)' /\ FreshOK(e)'
  <2>1. task[Inline(e)] # None => task'[Inline(e)] # None
    BY <1>5, <1>10
  <2> QED
    BY <1>2, <1>3, <1>4, <2>1, HeldStays
<1>16. ResolvedOK(e)'
  BY <1>3, <1>4, TablesStay
<1>17. BillsOK(e)'
  <2> SUFFICES ASSUME NEW i \in DOMAIN revenue'[e] PROVE revenue'[e][i] <= Splits
    BY DEF BillsOK
  <2>1. CASE i \in DOMAIN revenue[e]
    BY <1>2, <1>5, <2>1 DEF EventOK, BillsOK
  <2>2. CASE i = Len(revenue[e]) + 1
    BY <1>5, <1>6, <2>2
  <2> QED
    BY <1>5, <1>7, <2>1, <2>2
<1> QED
  BY <1>3, <1>8, <1>9, <1>12, <1>13, <1>14, <1>15, <1>16, <1>17, KeptBy DEF EventOK

\* A split, and the end of the bill with its last one.
LEMMA SplitKeeps ==
    ASSUME CascadeInv, NEW w \in Workers, WriteSplit(w)
    PROVE  CascadeInv'
<1>1. PICK e \in Events, s \in Stages : task[w].event = e /\ task[w].stage = s
  BY TaskParts DEF WriteSplit, At, CascadeInv
<1> DEFINE i == task[w].row
<1>2. /\ CascadeTypeOK /\ WorkerOK(w) /\ EventOK(e) /\ task[w] # None /\ task[w].step = "split"
      /\ (w \in Operators => OperatorOK(w))
      /\ w \in Operators \cup {Inline(e), Consumer(e)}
      /\ fired[e] = "yes"
  BY <1>1, TaskEvent, TaskFired DEF CascadeInv, WriteSplit, At
<1>3. CascadeTypeOK' /\ Moves(w, e)
  BY <1>1, StageMoves DEF Stage
<1>4. UNCHANGED <<fired, message, recorded, dlq, faults, history>>
  BY DEF WriteSplit
<1>5. /\ i \in DOMAIN revenue[e] /\ revenue[e][i] \in Nat /\ revenue[e][i] < Splits
      /\ DOMAIN revenue'[e] = DOMAIN revenue[e]
      /\ \A j \in DOMAIN revenue[e] : j # i => revenue'[e][j] = revenue[e][j]
      /\ revenue'[e][i] = revenue[e][i] + 1
      /\ Splits \in Nat
  BY <1>1, <1>2, SplitRow, CascadeAssumption
<1>6. ResolvedOK(e)'
  BY <1>3, <1>4, TablesStay
<1>7. BillsOK(e)'
  BY <1>2, <1>5 DEF EventOK, BillsOK
<1>8. s = "commercial"
  BY <1>1, <1>2 DEF WorkerOK
<1>9. CASE revenue[e][i] + 1 = Splits
  <2>1. StageDone(w)
    BY <1>1, <1>9 DEF WriteSplit
  <2>2. CarriedOut(e, s)' /\ Done(e, s)'
    BY <1>5, <1>8, <1>9 DEF CarriedOut, Done
  <2>3. /\ RowsOwned' /\ WorkerOK(w)' /\ (w \in Operators => OperatorOK(w)')
        /\ InlineOK(e)' /\ ConsumerOK(e)' /\ HeldOK(e)' /\ FreshOK(e)'
    BY <1>1, <1>2, <1>3, <1>4, <2>1, <2>2, AfterStage
  <2> QED
    BY <1>3, <1>6, <1>7, <2>3, KeptBy DEF EventOK
<1>10. CASE revenue[e][i] + 1 # Splits
  <2>1. task' = task
    BY <1>1, <1>10 DEF WriteSplit
  <2>2. revenue'[e][i] < Splits
    BY <1>5, <1>10
  <2>3. WorkerOK(w)'
    BY <1>1, <1>2, <1>5, <2>1, <2>2 DEF WorkerOK
  <2>4. RowsOwned'
    BY <1>3, <2>1, RowsStayOwned
  <2>5. ASSUME w \in Operators PROVE OperatorOK(w)'
    BY <1>2, <1>4, <2>1, <2>5 DEF OperatorOK
  <2>6. InlineOK(e)' /\ ConsumerOK(e)' /\ HeldOK(e)' /\ FreshOK(e)'
    BY <1>2, <1>3, <1>4, <2>1, InlineStays, ConsumerStays, HeldStays
  <2> QED
    BY <1>3, <1>6, <1>7, <2>3, <2>4, <2>5, <2>6, KeptBy DEF EventOK
<1> QED
  BY <1>9, <1>10

\* A letter, or a letter that failed too.
LEMMA LetterKeeps ==
    ASSUME CascadeInv, NEW w \in Workers, WriteDeadLetter(w)
    PROVE  CascadeInv'
<1>1. PICK e \in Events, s \in Stages : task[w].event = e /\ task[w].stage = s
  BY TaskParts DEF WriteDeadLetter, At, CascadeInv
<1>2. /\ CascadeTypeOK /\ EventOK(e) /\ task[w] # None /\ task[w].step = "dead"
      /\ (w \in Operators => OperatorOK(w))
      /\ w \in Operators \cup {Inline(e), Consumer(e)}
  BY <1>1, TaskEvent DEF CascadeInv, WriteDeadLetter, At
<1>3. w = Inline(e)
  BY <1>2 DEF OperatorOK, EventOK, ConsumerOK
<1>4. CascadeTypeOK' /\ Moves(w, e)
  BY <1>1, StageMoves DEF Stage
<1>5. StageDone(w) /\ UNCHANGED <<fired, message, recorded, revenue, history>>
  BY DEF WriteDeadLetter
<1>6. faults[e] >= Attempts
  BY <1>2, <1>3 DEF EventOK, InlineOK
<1>7. /\ s = "analytics" => dlq'[e]["commercial"] = dlq[e]["commercial"]
      /\ \A r \in Stages : dlq'[e][r] = dlq[e][r] \/ dlq'[e][r] = "pending"
      /\ faults'[e] <= Tolerated => Done(e, s)'
  <2>1. CASE dlq' = [dlq EXCEPT ![e][s] = "pending"]
    <3>1. "pending" \in Letters
      BY DEF Letters
    <3>2. dlq'[e][s] = "pending" /\ \A r \in Stages \ {s} : dlq'[e][r] = dlq[e][r]
      BY <1>2, <2>1, <3>1, LetterSets
    <3>3. Done(e, s)'
      BY <3>2 DEF Done
    <3> QED
      BY <3>2, <3>3 DEF Stages
  <2>2. CASE dlq' = dlq /\ Fault(e)
    <3>1. faults'[e] = faults[e] + 1 /\ faults[e] \in Nat
      BY <1>2, <2>2, FaultCounts DEF CascadeTypeOK
    <3>2. ~(faults'[e] <= Tolerated)
      BY <1>6, <3>1, CascadeAssumption DEF Tolerated
    <3> QED
      BY <2>2, <3>2
  <2> QED
    BY <1>1, <2>1, <2>2 DEF WriteDeadLetter
<1>8. /\ RowsOwned' /\ WorkerOK(w)' /\ (w \in Operators => OperatorOK(w)')
      /\ InlineOK(e)' /\ ConsumerOK(e)' /\ HeldOK(e)' /\ FreshOK(e)'
  BY <1>1, <1>2, <1>3, <1>4, <1>5, <1>7, AfterStage
<1>9. BillsOK(e)'
  BY <1>4, <1>5, TablesStay
<1>10. ResolvedOK(e)'
  <2>1. \A r \in Stages : CarriedOut(e, r) => CarriedOut(e, r)'
    BY <1>2, <1>4, CarriedStays
  <2>2. handled \subseteq handled'
    BY <1>4 DEF Moves
  <2> QED
    BY <1>2, <1>7, <2>1, <2>2 DEF EventOK, ResolvedOK
<1> QED
  BY <1>4, <1>8, <1>9, <1>10, KeptBy DEF EventOK

\* A worker with nothing more to do disturbs its own part only.
LEMMA IdleKeeps ==
    ASSUME CascadeInv, CascadeTypeOK', NEW w \in Workers, NEW e \in Events, Moves(w, e),
           task'[w] = None
    PROVE  /\ RowsOwned' /\ WorkerOK(w)' /\ OperatorOK(w)'
           /\ w = Inline(e) => InlineOK(e)'
BY RowsStayOwned DEF WorkerOK, OperatorOK, InlineOK

\* fireCascade returns, or the message is acked: all is done.
LEMMA FinishKeeps ==
    ASSUME CascadeInv, NEW w \in Workers \ Operators, Finish(w)
    PROVE  CascadeInv'
<1>1. PICK e \in Events : task[w].event = e
  BY TaskParts DEF Finish, At, CascadeInv
<1>2. /\ CascadeTypeOK /\ EventOK(e) /\ task[w] # None /\ task[w].step = "end"
      /\ WorkerOK(w) /\ (w = Inline(e) \/ w = Consumer(e)) /\ fired[e] = "yes"
  BY <1>1, TaskEvent, TaskFired DEF CascadeInv, Finish, At
<1>3. CascadeTypeOK' /\ Moves(w, e)
  BY <1>1, EndMoves
<1>4. UNCHANGED <<fired, tables, faults, history>> /\ task'[w] = None
  BY <1>2, WorkSets DEF Finish
<1>5. faults[e] <= Tolerated => \A s \in Stages : Done(e, s)
  <2>1. task[w].stage = "commercial"
    BY <1>2 DEF WorkerOK
  <2>2. CASE w = Inline(e)
    BY <1>2, <2>1, <2>2 DEF EventOK, InlineOK, Stages
  <2>3. CASE w = Consumer(e)
    BY <1>2, <2>1, <2>3 DEF EventOK, ConsumerOK, Stages, Done
  <2> QED
    BY <1>2, <2>2, <2>3
<1>6. HeldOK(e)' /\ FreshOK(e)'
  <2>1. \A s \in Stages : Done(e, s) => Done(e, s)'
    BY <1>2, <1>3, CarriedStays
  <2> QED
    BY <1>2, <1>4, <1>5, <2>1 DEF HeldOK, FreshOK
<1>7. BillsOK(e)' /\ ResolvedOK(e)'
  BY <1>3, <1>4, TablesStay DEF tables
<1>8. RowsOwned' /\ WorkerOK(w)' /\ (w = Inline(e) => InlineOK(e)')
  BY <1>3, <1>4, IdleKeeps
<1>9. CASE w = Inline(e)
  <2>1. message' = message
    BY <1>9, WorkerKinds DEF Finish
  <2>2. task'[Consumer(e)] = task[Consumer(e)]
    BY <1>3, <1>9, WorkerKinds DEF Moves
  <2>3. ConsumerOK(e)'
    BY <1>3, <2>1, <2>2, ConsumerStays
  <2> QED
    BY <1>3, <1>6, <1>7, <1>8, <1>9, <2>3, KeptBy DEF EventOK
<1>10. CASE w = Consumer(e)
  <2>1. message'[e] = None
    <3>1. message' = [message EXCEPT ![e] = None]
      BY <1>10, WorkerKinds DEF Finish
    <3> QED
      BY <1>2, <3>1, MessageSets
  <2>2. task'[Inline(e)] = task[Inline(e)]
    BY <1>3, <1>10, WorkerKinds DEF Moves
  <2>3. InlineOK(e)'
    BY <1>3, <1>4, <2>2, InlineStays DEF tables
  <2>4. ConsumerOK(e)'
    BY <1>4, <1>10, <2>1 DEF ConsumerOK
  <2> QED
    BY <1>3, <1>6, <1>7, <1>8, <2>3, <2>4, KeptBy DEF EventOK
<1> QED
  BY <1>2, <1>9, <1>10

\* A call that failed, or an isolate that ended elsewhere than in the producer.
LEMMA FailKeeps ==
    ASSUME CascadeInv, CascadeTypeOK', NEW w \in Workers, NEW e \in Events,
           task[w] # None, task[w].event = e, Moves(w, e),
           Fail(w), Fault(e), UNCHANGED <<fired, tables, handled>>,
           w = Inline(e) => task[w].step \notin {"dead", "end"}
    PROVE  CascadeInv'
<1>1. /\ CascadeTypeOK /\ EventOK(e) /\ WorkerOK(w)
      /\ (w \in Operators => OperatorOK(w))
      /\ w \in Operators \cup {Inline(e), Consumer(e)} /\ fired[e] = "yes"
  BY TaskEvent, TaskFired DEF CascadeInv
<1>2. faults'[e] = faults[e] + 1 /\ faults[e] \in Nat
  BY <1>1, FaultCounts DEF CascadeTypeOK
<1>3. /\ Inline(e) \in Workers /\ Consumer(e) \in Workers /\ Inline(e) # Consumer(e)
      /\ Inline(e) \notin Operators /\ Consumer(e) \notin Operators
  BY WorkerKinds
<1>4. \A v \in Workers \ {w} : task'[v] = task[v]
  BY DEF Moves
<1>5. BillsOK(e)' /\ ResolvedOK(e)'
  BY TablesStay DEF tables
<1>6. CASE w \in Operators
  <2>1. task'[w] = None /\ message' = message
    BY <1>1, <1>6, FailSets
  <2>2. RowsOwned' /\ WorkerOK(w)' /\ OperatorOK(w)'
    BY <2>1, IdleKeeps
  <2>3. task'[Inline(e)] = task[Inline(e)] /\ task'[Consumer(e)] = task[Consumer(e)]
    BY <1>3, <1>4, <1>6
  <2>4. InlineOK(e)' /\ ConsumerOK(e)' /\ HeldOK(e)' /\ FreshOK(e)'
    BY <1>1, <2>1, <2>3, InlineStays, ConsumerStays, HeldStays DEF tables
  <2> QED
    BY <1>5, <2>2, <2>4, KeptBy DEF EventOK
<1>7. CASE w = Consumer(e)
  <2>1. /\ task'[w] = None
        /\ message' = IF message[e] > MaxRetries THEN [message EXCEPT ![e] = None] ELSE message
    BY <1>1, <1>7, FailSets
  <2>2. RowsOwned' /\ WorkerOK(w)'
    BY <2>1, IdleKeeps
  <2>3. task'[Inline(e)] = task[Inline(e)]
    BY <1>3, <1>4, <1>7
  <2>4. InlineOK(e)'
    BY <2>3, InlineStays DEF tables
  <2>5. message[e] # None /\ message[e] \in Nat /\ message[e] <= faults[e] + 1
    BY <1>1, <1>7 DEF EventOK, ConsumerOK, CascadeTypeOK
  <2>6. CASE message[e] > MaxRetries
    <3>1. message'[e] = None
      BY <1>1, <2>1, <2>6, MessageSets
    <3>2. ~(faults'[e] <= Tolerated)
      BY <1>2, <2>5, <2>6, CascadeAssumption DEF Tolerated
    <3>3. ConsumerOK(e)'
      BY <1>7, <2>1, <3>1 DEF ConsumerOK
    <3>4. HeldOK(e)' /\ FreshOK(e)'
      BY <1>1, <3>2 DEF HeldOK, FreshOK
    <3> QED
      BY <1>3, <1>5, <1>7, <2>2, <2>4, <3>3, <3>4, KeptBy DEF EventOK
  <2>7. CASE ~(message[e] > MaxRetries)
    <3>1. message' = message
      BY <2>1, <2>7
    <3>2. message'[e] <= faults'[e]
      BY <1>2, <2>5, <3>1
    <3>3. faults'[e] + 0 = faults'[e]
      BY <1>2
    <3>4. ConsumerOK(e)'
      BY <1>7, <2>1, <3>2, <3>3 DEF ConsumerOK
    <3>5. HeldOK(e)' /\ FreshOK(e)'
      BY <1>1, <2>3, <3>1, HeldStays
    <3> QED
      BY <1>3, <1>5, <1>7, <2>2, <2>4, <3>4, <3>5, KeptBy DEF EventOK
  <2> QED
    BY <2>6, <2>7
<1>8. CASE w = Inline(e)
  <2> DEFINE t == task[w]
             u == task'[w]
  <2>1. /\ message' = message
        /\ u # None /\ u.event = e /\ u.stage = t.stage
        /\ t.try < Attempts => u.step = First(t.stage) /\ u.try = t.try + 1
        /\ ~(t.try < Attempts) => u.step = "dead" /\ u.try = t.try
    BY <1>1, <1>8, FailSets
  <2>2. /\ t.try \in Nat /\ t.stage \in Stages
        /\ t.event = e /\ t.step # "end" /\ t.try <= Attempts /\ t.try <= faults[e] + 1
        /\ dlq[e]["commercial"] = "none"
        /\ faults[e] <= Tolerated => (t.stage = "commercial" => Done(e, "analytics"))
    BY <1>1, <1>8, TaskParts DEF EventOK, InlineOK
  <2>3. /\ u.try <= Attempts /\ u.try <= faults'[e] + 1
        /\ u.step = "dead" => faults'[e] >= Attempts
    <3>1. CASE t.try < Attempts
      <4>1. u.step = First(t.stage) /\ u.try = t.try + 1
        BY <2>1, <3>1
      <4>2. u.step # "dead"
        BY <4>1 DEF First
      <4> QED
        BY <1>2, <2>2, <3>1, <4>1, <4>2, CascadeAssumption
    <3>2. CASE ~(t.try < Attempts)
      <4>1. u.try = t.try
        BY <2>1, <3>2
      <4>2. t.try = Attempts
        BY <2>2, <3>2, CascadeAssumption
      <4> QED
        BY <1>2, <2>2, <4>1, <4>2
    <3> QED
      BY <3>1, <3>2
  <2>4. /\ u.step = "record" => u.stage = "analytics"
        /\ u.step = "fee" => u.stage = "commercial"
        /\ u.step \notin {"resolve", "split", "end"}
    BY <2>1, <2>2 DEF First, Stages
  <2>5. WorkerOK(w)' /\ RowsOwned'
    BY <2>4, RowsStayOwned DEF WorkerOK
  <2>6. faults'[e] <= Tolerated => (u.stage = "commercial" => Done(e, "analytics")')
    <3>1. Done(e, "analytics") => Done(e, "analytics")'
      BY <1>1, CarriedStays DEF Stages
    <3>2. faults'[e] <= Tolerated => faults[e] <= Tolerated
      BY <1>2, CascadeAssumption DEF Tolerated
    <3> QED
      BY <2>1, <2>2, <3>1, <3>2
  <2>7. dlq'[e]["commercial"] = "none"
    BY <2>2 DEF tables
  <2>8. InlineOK(e)'
    BY <1>8, <2>1, <2>3, <2>4, <2>6, <2>7 DEF InlineOK
  <2>9. task'[Consumer(e)] = task[Consumer(e)]
    BY <1>3, <1>4, <1>8
  <2>10. ConsumerOK(e)' /\ HeldOK(e)' /\ FreshOK(e)'
    BY <1>1, <1>8, <2>1, <2>9, ConsumerStays, HeldStays
  <2> QED
    BY <1>3, <1>5, <1>8, <2>5, <2>8, <2>10, KeptBy DEF EventOK
<1> QED
  BY <1>1, <1>6, <1>7, <1>8

\* A failed call, or an isolate that ends.
LEMMA BreakKeeps ==
    ASSUME CascadeInv, NEW w \in Workers, CallFails(w) \/ Die(w)
    PROVE  CascadeInv'
<1>1. PICK e \in Events : task[w].event = e
  BY TaskParts DEF CallFails, Die, CascadeInv
<1>2. /\ CascadeTypeOK /\ EventOK(e) /\ task[w] # None /\ fired[e] = "yes"
      /\ w \in Operators \cup {Inline(e), Consumer(e)}
  BY <1>1, TaskEvent, TaskFired DEF CascadeInv, CallFails, Die
<1>3. CascadeTypeOK' /\ Moves(w, e)
  BY <1>1, EndMoves
<1>4. CASE CallFails(w)
  BY <1>1, <1>2, <1>3, <1>4, FailKeeps DEF CallFails, history
<1>5. CASE Die(w) /\ w # Inline(e)
  <2>1. w \notin {Inline(f) : f \in Events}
    BY <1>2, <1>5, WorkerKinds
  <2> QED
    BY <1>1, <1>2, <1>3, <1>5, <2>1, FailKeeps DEF Die
<1>6. CASE Die(w) /\ w = Inline(e)
  <2>1. Work(w, None) /\ message' = message /\ died' = died \cup {w.event}
        /\ UNCHANGED <<fired, tables, handled>>
    BY <1>6 DEF Die
  <2>2. task'[w] = None /\ e \in died'
    BY <1>2, <1>6, <2>1, WorkSets, WorkerKinds
  <2>3. RowsOwned' /\ WorkerOK(w)' /\ InlineOK(e)'
    BY <1>3, <1>6, <2>2, IdleKeeps
  <2>4. task'[Consumer(e)] = task[Consumer(e)]
    BY <1>3, <1>6, WorkerKinds DEF Moves
  <2>5. ConsumerOK(e)'
    BY <1>3, <2>1, <2>4, ConsumerStays
  <2>6. HeldOK(e)' /\ FreshOK(e)'
    BY <1>2, <2>1, <2>2 DEF HeldOK, FreshOK
  <2>7. BillsOK(e)' /\ ResolvedOK(e)'
    BY <1>3, <2>1, TablesStay DEF tables
  <2> QED
    BY <1>3, <1>6, <2>3, <2>5, <2>6, <2>7, KeptBy, WorkerKinds DEF EventOK
<1> QED
  BY <1>4, <1>5, <1>6

\* An operator runs the stage of a letter again.
LEMMA ReplayKeeps ==
    ASSUME CascadeInv, NEW o \in Operators, Replay(o)
    PROVE  CascadeInv'
<1>1. /\ CascadeTypeOK' /\ CascadeTypeOK /\ o \in Workers /\ task[o] = None
      /\ UNCHANGED <<fired, message, tables, faults, history>>
  BY ReplayMoves, WorkerKinds DEF CascadeInv, Replay
<1>2. PICK e \in Events, s \in Stages :
          dlq[e][s] = "pending" /\ Moves(o, e) /\ task'[o] = Begin(e, s, 1)
  BY ReplayMoves
<1>3. /\ task'[o].event = e /\ task'[o].stage = s
      /\ task'[o].step = First(s) /\ task'[o].step \in {"record", "fee"}
      /\ task'[o].step = "record" => s = "analytics"
      /\ task'[o].step = "fee" => s = "commercial"
  BY <1>2, BeginIsTask DEF First, Stages
<1>4. RowsOwned' /\ WorkerOK(o)'
  BY <1>1, <1>2, <1>3, RowsStayOwned DEF WorkerOK
<1>5. OperatorOK(o)'
  BY <1>1, <1>2, <1>3 DEF OperatorOK, tables
<1>6. task'[Inline(e)] = task[Inline(e)] /\ task'[Consumer(e)] = task[Consumer(e)]
  BY <1>2, WorkerKinds DEF Moves
<1>7. EventOK(e) /\ fired[e] = "yes"
  <2>1. EventOK(e)
    BY DEF CascadeInv
  <2> QED
    BY <1>1, <1>2, <2>1 DEF EventOK, FreshOK, CascadeTypeOK
<1>8. InlineOK(e)' /\ ConsumerOK(e)' /\ HeldOK(e)' /\ FreshOK(e)'
  BY <1>1, <1>2, <1>6, <1>7, InlineStays, ConsumerStays, HeldStays DEF tables
<1>9. BillsOK(e)' /\ ResolvedOK(e)'
  BY <1>1, <1>2, TablesStay DEF tables
<1> QED
  BY <1>1, <1>2, <1>4, <1>5, <1>8, <1>9, KeptBy DEF EventOK

\* The event's part when only a letter that was there is marked.
LEMMA MarkKeeps ==
    ASSUME CascadeInv, CascadeTypeOK', NEW w \in Workers, NEW e \in Events, Moves(w, e),
           fired[e] = "yes", w \notin {Inline(e), Consumer(e)} \/ task'[w] = task[w],
           UNCHANGED <<message, revenue>>,
           dlq[e]["commercial"] = "none" => dlq'[e]["commercial"] = "none",
           ResolvedOK(e)'
    PROVE  EventOK(e)'
<1>1. task'[Inline(e)] = task[Inline(e)] /\ task'[Consumer(e)] = task[Consumer(e)]
  BY WorkerKinds DEF Moves
<1>2. InlineOK(e)' /\ ConsumerOK(e)' /\ HeldOK(e)' /\ FreshOK(e)'
  BY <1>1, InlineStays, ConsumerStays, HeldStays
<1>3. BillsOK(e)'
  BY TablesStay
<1> QED
  BY <1>2, <1>3 DEF EventOK

\* The operator marks what it carried out.
LEMMA ResolveKeeps ==
    ASSUME CascadeInv, NEW o \in Operators, Resolve(o)
    PROVE  CascadeInv'
<1>1. o \in Workers /\ task[o] # None /\ task[o].step = "resolve"
  BY WorkerKinds DEF Resolve, At
<1>2. PICK e \in Events, s \in Stages : task[o].event = e /\ task[o].stage = s
  BY <1>1, TaskParts DEF CascadeInv
<1>3. /\ CascadeTypeOK /\ OperatorOK(o) /\ EventOK(e) /\ fired[e] = "yes"
  BY <1>1, <1>2, TaskFired DEF CascadeInv
<1>4. CascadeTypeOK' /\ Moves(o, e)
  BY <1>2, ResolveMoves
<1>5. UNCHANGED <<fired, message, recorded, revenue, faults, history>> /\ task'[o] = None
  BY <1>1, <1>3, WorkSets DEF Resolve
<1>6. /\ dlq'[e][s] = "resolved"
      /\ \A r \in Stages \ {s} : dlq'[e][r] = dlq[e][r]
  <2>1. "resolved" \in Letters /\ dlq' = [dlq EXCEPT ![e][s] = "resolved"]
    BY <1>2 DEF Letters, Resolve
  <2> QED
    BY <1>3, <2>1, LetterSets
<1>7. dlq[e][s] # "none" /\ CarriedOut(e, s)
  BY <1>1, <1>2, <1>3 DEF OperatorOK
<1>8. ResolvedOK(e)'
  <2>1. \A r \in Stages : CarriedOut(e, r) => CarriedOut(e, r)'
    BY <1>1, <1>3, <1>4, CarriedStays
  <2>2. handled \subseteq handled'
    BY <1>4 DEF Moves
  <2> QED
    BY <1>3, <1>6, <1>7, <2>1, <2>2 DEF EventOK, ResolvedOK
<1>9. EventOK(e)'
  <2>1. o \notin {Inline(e), Consumer(e)}
    BY WorkerKinds
  <2>2. dlq[e]["commercial"] = "none" => dlq'[e]["commercial"] = "none"
    BY <1>6, <1>7 DEF Stages
  <2> QED
    BY <1>1, <1>3, <1>4, <1>5, <1>8, <2>1, <2>2, MarkKeeps
<1>10. RowsOwned' /\ WorkerOK(o)' /\ OperatorOK(o)'
  BY <1>1, <1>4, <1>5, IdleKeeps
<1> QED
  BY <1>1, <1>4, <1>9, <1>10, KeptBy

\* Someone marks a letter.
LEMMA HandKeeps ==
    ASSUME CascadeInv, NEW e \in Events, NEW s \in Stages,
           NEW x \in {"resolved", "abandoned"}, MarkByHand(e, s, x)
    PROVE  CascadeInv'
<1> DEFINE w == Inline(e)
<1>1. /\ CascadeTypeOK /\ EventOK(e) /\ w \in Workers /\ w \notin Operators /\ WorkerOK(w)
      /\ dlq[e][s] = "pending"
  BY WorkerKinds DEF CascadeInv, MarkByHand
<1>2. fired[e] = "yes"
  BY <1>1 DEF EventOK, FreshOK, CascadeTypeOK
<1>3. CascadeTypeOK' /\ Moves(w, e)
  BY HandMoves
<1>4. UNCHANGED <<fired, message, task, recorded, revenue, faults, died>>
      /\ handled' = handled \cup {<<e, s>>}
  BY DEF MarkByHand
<1>5. /\ dlq'[e][s] = x
      /\ \A r \in Stages \ {s} : dlq'[e][r] = dlq[e][r]
  <2>1. x \in Letters
    BY DEF Letters
  <2> QED
    BY <1>1, <2>1, LetterSets DEF MarkByHand
<1>6. ResolvedOK(e)'
  <2>1. \A r \in Stages : CarriedOut(e, r) => CarriedOut(e, r)'
    BY <1>1, <1>3, CarriedStays
  <2> QED
    BY <1>1, <1>4, <1>5, <2>1 DEF EventOK, ResolvedOK
<1>7. EventOK(e)'
  <2>1. dlq[e]["commercial"] = "none" => dlq'[e]["commercial"] = "none"
    BY <1>1, <1>5 DEF Stages
  <2> QED
    BY <1>1, <1>2, <1>3, <1>4, <1>6, <2>1, MarkKeeps
<1>8. RowsOwned' /\ WorkerOK(w)'
  BY <1>1, <1>3, <1>4, RowsStayOwned DEF WorkerOK
<1> QED
  BY <1>1, <1>3, <1>7, <1>8, KeptBy

\* A step that writes nothing.
LEMMA StutterKeeps ==
    ASSUME CascadeInv, UNCHANGED vars
    PROVE  CascadeInv'
<1>1. UNCHANGED <<fired, message, task, recorded, revenue, dlq, faults, died, handled>>
  BY DEF vars, tables, history
<1>2. CascadeTypeOK' /\ RowsOwned'
  BY <1>1 DEF CascadeInv, CascadeTypeOK, RowsOwned, At
<1>3. /\ \A w \in Workers : WorkerOK(w)'
      /\ \A o \in Operators : OperatorOK(o)'
  BY <1>1 DEF CascadeInv, WorkerOK, OperatorOK, CarriedOut
<1>4. ASSUME NEW e \in Events PROVE EventOK(e)'
  <2>1. EventOK(e)
    BY DEF CascadeInv
  <2>2. InlineOK(e)' /\ ConsumerOK(e)' /\ FreshOK(e)'
    BY <1>1, <2>1 DEF EventOK, InlineOK, ConsumerOK, FreshOK, Done, CarriedOut
  <2>3. HeldOK(e)' /\ BillsOK(e)' /\ ResolvedOK(e)'
    BY <1>1, <2>1 DEF EventOK, HeldOK, BillsOK, ResolvedOK, Done, CarriedOut
  <2> QED
    BY <2>2, <2>3 DEF EventOK
<1> QED
  BY <1>2, <1>3, <1>4 DEF CascadeInv

\* The inductive invariant of the cascade: tries and deliveries are paid for by
\* faults, whoever leaves a stage behind left it done or with a letter, and two
\* workers never write splits of one row.
THEOREM CascadeInductive == Spec => []CascadeInv
<1>1. Init => CascadeInv
  <2> SUFFICES ASSUME Init PROVE CascadeInv
    OBVIOUS
  <2>1. CascadeTypeOK
    BY DEF Init, CascadeTypeOK, Letters
  <2>2. \A w \in Workers : task[w] = None
    BY DEF Init
  <2>3. RowsOwned /\ (\A w \in Workers : WorkerOK(w)) /\ (\A o \in Operators : OperatorOK(o))
    BY <2>2, WorkerKinds DEF RowsOwned, At, WorkerOK, OperatorOK
  <2>4. ASSUME NEW e \in Events PROVE EventOK(e)
    <3>1. task[Inline(e)] = None /\ task[Consumer(e)] = None
      BY <2>2, WorkerKinds
    <3>2. /\ fired[e] = "no" /\ message[e] = None /\ faults[e] = 0 /\ revenue[e] = <<>>
          /\ \A s \in Stages : dlq[e][s] = "none"
      BY DEF Init
    <3> QED
      BY <3>1, <3>2 DEF EventOK, InlineOK, ConsumerOK, FreshOK, HeldOK, BillsOK, ResolvedOK
  <2> QED
    BY <2>1, <2>3, <2>4 DEF CascadeInv
<1>2. CascadeInv /\ [Next]_vars => CascadeInv'
  <2> SUFFICES ASSUME CascadeInv, [Next]_vars PROVE CascadeInv'
    OBVIOUS
  <2>1. CASE \E e \in Events : SendToQueue(e) \/ RunInline(e) \/ TakeMessage(e)
    BY <2>1, FireKeeps, TakeKeeps
  <2>2. CASE \E w \in Workers : Progress(w)
    <3>1. PICK w \in Workers : Progress(w)
      BY <2>2
    <3> QED
      BY <3>1, RecordKeeps, FeeKeeps, SplitKeeps, LetterKeeps, FinishKeeps DEF Progress, Stage
  <2>3. CASE \E w \in Workers : CallFails(w) \/ Die(w)
    BY <2>3, BreakKeeps
  <2>4. CASE \E o \in Operators : Replay(o) \/ Resolve(o)
    BY <2>4, ReplayKeeps, ResolveKeeps
  <2>5. CASE \E e \in Events, s \in Stages, x \in {"resolved", "abandoned"} : MarkByHand(e, s, x)
    BY <2>5, HandKeeps
  <2>6. CASE UNCHANGED vars
    BY <2>6, StutterKeeps
  <2> QED
    BY <2>1, <2>2, <2>3, <2>4, <2>5, <2>6 DEF Next
<1> QED
  BY <1>1, <1>2, PTL DEF Spec

\* No fired event is lost: once nobody has it, every stage was carried out or
\* has a letter, for any number of tries, deliveries, events and operators.
THEOREM NothingLostHolds == Spec => []NothingLost
<1>1. CascadeInv => NothingLost
  <2> SUFFICES ASSUME CascadeInv, NEW e \in Events,
                      fired[e] = "yes", message[e] = None, ~Working(e),
                      e \notin died, faults[e] <= Tolerated,
                      NEW s \in Stages
               PROVE  CarriedOut(e, s) \/ dlq[e][s] # "none"
    BY DEF NothingLost
  <2>1. HeldOK(e) /\ InlineOK(e)
    BY DEF CascadeInv, EventOK
  <2>2. task[Inline(e)] = None
    BY <2>1, WorkerKinds DEF Working, InlineOK
  <2> QED
    BY <2>1, <2>2 DEF HeldOK, Done
<1> QED
  BY <1>1, CascadeInductive, PTL

\* A letter that reads resolved was carried out, or someone marked it by hand,
\* however many operators replay it at once.
THEOREM ResolvedIsDoneHolds == Spec => []ResolvedIsDone
<1>1. CascadeInv => ResolvedIsDone
  BY DEF CascadeInv, EventOK, ResolvedOK, ResolvedIsDone
<1> QED
  BY <1>1, CascadeInductive, PTL

-----------------------------------------------------------------------------
(* How often an event is billed.                                            *)

\* Of some operators there are no more than of all.
LEMMA OperatorSets ==
    ASSUME NEW T, T \subseteq Operators
    PROVE  /\ IsFiniteSet(T) /\ Cardinality(T) \in Nat
           /\ Cardinality(Operators) \in Nat /\ Cardinality(T) <= Cardinality(Operators)
           /\ \A S : S \subseteq T => Cardinality(S) \in Nat /\ Cardinality(S) <= Cardinality(T)
<1>1. /\ IsFiniteSet(T) /\ Cardinality(T) <= Cardinality(Operators)
      /\ Cardinality(Operators) \in Nat
  BY CascadeAssumption, FS_Subset, FS_CardinalityType
<1>2. ASSUME NEW S, S \subseteq T
      PROVE  Cardinality(S) \in Nat /\ Cardinality(S) <= Cardinality(T)
  BY <1>1, <1>2, FS_Subset, FS_CardinalityType
<1> QED
  BY <1>1, <1>2, FS_CardinalityType

\* The counts are numbers, and no more operators may bill than there are.
LEMMA Counts ==
    ASSUME CascadeTypeOK, NEW e \in Events
    PROVE  /\ Len(revenue[e]) \in Nat /\ faults[e] \in Nat
           /\ InlineBills(e) \in {0, 1} /\ ConsumerBills(e) \in {0, 1}
           /\ OperatorsMayBill(e) \subseteq Operators
           /\ OperatorBills(e) \in Nat /\ OperatorBills(e) <= Cardinality(Operators)
           /\ Cardinality(Operators) \in Nat /\ LetterBills(e) \in Int
<1>1. revenue[e] \in Seq(Nat) /\ faults[e] \in Nat
  BY DEF CascadeTypeOK
<1>2. OperatorsMayBill(e) \subseteq Operators
  BY DEF OperatorsMayBill
<1> QED
  BY <1>1, <1>2, OperatorSets DEF InlineBills, ConsumerBills, OperatorBills, LetterBills

\* And so they are after a step.
LEMMA CountsNext ==
    ASSUME CascadeTypeOK', NEW e \in Events
    PROVE  /\ Len(revenue'[e]) \in Nat /\ faults'[e] \in Nat
           /\ InlineBills(e)' \in {0, 1} /\ ConsumerBills(e)' \in {0, 1}
           /\ OperatorsMayBill(e)' \subseteq Operators
           /\ OperatorBills(e)' \in Nat /\ OperatorBills(e)' <= Cardinality(Operators)
           /\ Cardinality(Operators) \in Nat /\ LetterBills(e)' \in Int
<1>1. revenue'[e] \in Seq(Nat) /\ faults'[e] \in Nat
  BY DEF CascadeTypeOK
<1>2. OperatorsMayBill(e)' \subseteq Operators
  BY DEF OperatorsMayBill
<1> QED
  BY <1>1, <1>2, OperatorSets DEF InlineBills, ConsumerBills, OperatorBills, LetterBills

\* No operator comes to bill when none leaves a bill that he had begun, and no
\* letter becomes pending.
LEMMA OperatorsShrink ==
    ASSUME CascadeTypeOK, CascadeTypeOK', NEW w \in Workers, NEW e \in Events, Moves(w, e),
           NEW f \in Events,
           dlq'[f]["commercial"] = "pending" => dlq[f]["commercial"] = "pending",
           w \in OperatorsMayBill(f)' => w \in OperatorsMayBill(f)
    PROVE  /\ OperatorsMayBill(f)' \subseteq OperatorsMayBill(f)
           /\ OperatorBills(f)' <= OperatorBills(f)
<1>1. ASSUME NEW o \in OperatorsMayBill(f)' PROVE o \in OperatorsMayBill(f)
  <2>1. CASE o = w
    BY <1>1, <2>1
  <2>2. CASE o # w
    <3>1. o \in Operators /\ o \in Workers /\ task'[o] = task[o]
      BY <2>2, WorkerKinds DEF OperatorsMayBill, Moves
    <3> QED
      BY <1>1, <3>1 DEF OperatorsMayBill, Replaying
  <2> QED
    BY <2>1, <2>2
<1>2. OperatorsMayBill(f)' \subseteq OperatorsMayBill(f)
  BY <1>1
<1>3. OperatorsMayBill(f) \subseteq Operators
  BY Counts
<1> QED
  BY <1>2, <1>3, OperatorSets DEF OperatorBills

\* An operator who did not and does not bill the event may do so if a letter is
\* pending, before and after.
LEMMA OperatorElsewhere ==
    ASSUME NEW w \in Workers, NEW f \in Events,
           dlq'[f]["commercial"] = "pending" => dlq[f]["commercial"] = "pending",
           ~Replaying(w, f), ~Replaying(w, f)'
    PROVE  w \in OperatorsMayBill(f)' => w \in OperatorsMayBill(f)
BY DEF OperatorsMayBill

\* The producer and the consumer count as they did if they did not move.
LEMMA CountsStay ==
    ASSUME NEW e \in Events
    PROVE  /\ (fired'[e] = fired[e] /\ task'[Inline(e)] = task[Inline(e)])
                 => InlineBills(e)' = InlineBills(e)
           /\ (message'[e] = message[e] /\ task'[Consumer(e)] = task[Consumer(e)])
                 => ConsumerBills(e)' = ConsumerBills(e)
           /\ dlq'[e]["commercial"] = dlq[e]["commercial"] => LetterBills(e)' = LetterBills(e)
<1>1. ASSUME fired'[e] = fired[e], task'[Inline(e)] = task[Inline(e)]
      PROVE  InlineBills(e)' = InlineBills(e)
  <2>1. InlineMayBill(e)' <=> InlineMayBill(e)
    BY <1>1 DEF InlineMayBill, Inline
  <2> QED
    BY <2>1 DEF InlineBills
<1>2. ASSUME message'[e] = message[e], task'[Consumer(e)] = task[Consumer(e)]
      PROVE  ConsumerBills(e)' = ConsumerBills(e)
  <2>1. ConsumerMayBill(e)' <=> ConsumerMayBill(e)
    BY <1>2 DEF ConsumerMayBill, Consumer
  <2> QED
    BY <2>1 DEF ConsumerBills
<1> QED
  BY <1>1, <1>2 DEF LetterBills

\* The bound on the bills of an event holds after a step if what was added to
\* the bills, written and to come, is paid for: nothing was added; or a fault
\* pays for one; or the new bill was to come; or the letter pays for the
\* operators, and the producer gives up its bill.
LEMMA Paid ==
    ASSUME CascadeTypeOK, CascadeTypeOK', NEW e \in Events, BillsCounted(e),
           LET l == Len(revenue[e])  l2 == Len(revenue'[e])
               k == WorkerBills(e)
               k2 == WorkerBills(e)'
               o == OperatorBills(e)  o2 == OperatorBills(e)'
               m == Means(e)  m2 == Means(e)'
           IN \/ l2 = l /\ k2 <= k /\ o2 <= o /\ m2 >= m
              \/ l2 = l /\ m2 = m + 1 /\ ((k2 <= k + 1 /\ o2 <= o) \/ (k2 <= k /\ o2 <= o + 1))
              \/ l2 = l + 1 /\ m2 = m /\ ((k2 + 1 <= k /\ o2 <= o) \/ (k2 <= k /\ o2 + 1 <= o))
              \/ l2 = l /\ k2 + 1 <= k /\ m2 = m + (Cardinality(Operators) - 1)
    PROVE  BillsCounted(e)'
<1> DEFINE l == Len(revenue[e])
           k == WorkerBills(e)
           o == OperatorBills(e)
           m == Means(e)
           l2 == Len(revenue'[e])
           k2 == WorkerBills(e)'
           o2 == OperatorBills(e)'
           m2 == Means(e)'
           n == Cardinality(Operators)
<1>1. /\ l \in Nat /\ o \in Nat /\ n \in Nat /\ l2 \in Nat /\ o2 \in Nat /\ o2 <= n
      /\ faults[e] \in Nat /\ faults'[e] \in Nat
      /\ LetterBills(e) \in Int /\ LetterBills(e)' \in Int
      /\ InlineBills(e) \in Int /\ ConsumerBills(e) \in Int
      /\ InlineBills(e)' \in Int /\ ConsumerBills(e)' \in Int
  BY Counts, CountsNext
<1>2. /\ k \in Int /\ k2 \in Int
      /\ m \in Int /\ m2 \in Int
  <2>1. k \in Int /\ k2 \in Int
    BY <1>1 DEF WorkerBills
  <2>2. m \in Int
    BY <1>1 DEF Means
  <2>3. m2 \in Int
    BY <1>1 DEF Means
  <2> QED
    BY <2>1, <2>2, <2>3
<1>3. Due(e) = l + k + o /\ Due(e)' = l2 + k2 + o2
  BY DEF Due
<1>4. l + k + o <= m
  BY <1>3 DEF BillsCounted
<1>5. \/ l2 = l /\ k2 <= k /\ o2 <= o /\ m2 >= m
      \/ l2 = l /\ m2 = m + 1 /\ ((k2 <= k + 1 /\ o2 <= o) \/ (k2 <= k /\ o2 <= o + 1))
      \/ l2 = l + 1 /\ m2 = m /\ ((k2 + 1 <= k /\ o2 <= o) \/ (k2 <= k /\ o2 + 1 <= o))
      \/ l2 = l /\ k2 + 1 <= k /\ m2 = m + (n - 1)
  OBVIOUS
<1>6. l \in Nat /\ o \in Nat /\ n \in Nat /\ l2 \in Nat /\ o2 \in Nat /\ o2 <= n
  BY <1>1
<1> HIDE DEF l, k, o, m, l2, k2, o2, m2, n
<1>7. l2 + k2 + o2 <= m2
  <2>1. CASE l2 = l /\ k2 <= k /\ o2 <= o /\ m2 >= m
    BY <1>2, <1>4, <1>6, <2>1
  <2>2. CASE l2 = l /\ m2 = m + 1 /\ ((k2 <= k + 1 /\ o2 <= o) \/ (k2 <= k /\ o2 <= o + 1))
    BY <1>2, <1>4, <1>6, <2>2
  <2>3. CASE l2 = l + 1 /\ m2 = m /\ ((k2 + 1 <= k /\ o2 <= o) \/ (k2 <= k /\ o2 + 1 <= o))
    BY <1>2, <1>4, <1>6, <2>3
  <2>4. CASE l2 = l /\ k2 + 1 <= k /\ m2 = m + (n - 1)
    BY <1>2, <1>4, <1>6, <2>4
  <2> QED
    BY <1>5, <2>1, <2>2, <2>3, <2>4
<1> QED
  BY <1>3, <1>7 DEF BillsCounted, m2

\* What the bills are paid with grows by the faults, if by nothing else.
LEMMA MeansGrow ==
    ASSUME CascadeTypeOK, CascadeTypeOK', NEW e \in Events, LetterBills(e)' = LetterBills(e)
    PROVE  /\ faults'[e] = faults[e] => Means(e)' = Means(e) /\ Means(e)' >= Means(e)
           /\ faults'[e] = faults[e] + 1 => Means(e)' = Means(e) + 1 /\ Means(e)' >= Means(e)
<1>1. faults[e] \in Nat /\ faults'[e] \in Nat /\ LetterBills(e) \in Int
  BY Counts, CountsNext
<1> QED
  BY <1>1 DEF Means

\* The bound holds if no count grows, and no fault is taken back.
LEMMA NothingAdded ==
    ASSUME CascadeTypeOK, CascadeTypeOK', NEW e \in Events, BillsCounted(e),
           Len(revenue'[e]) = Len(revenue[e]),
           InlineBills(e)' <= InlineBills(e), ConsumerBills(e)' <= ConsumerBills(e),
           OperatorBills(e)' <= OperatorBills(e),
           faults'[e] = faults[e] \/ faults'[e] = faults[e] + 1,
           LetterBills(e)' = LetterBills(e)
    PROVE  BillsCounted(e)'
<1>1. /\ InlineBills(e) \in Int /\ ConsumerBills(e) \in Int
      /\ InlineBills(e)' \in Int /\ ConsumerBills(e)' \in Int
  BY Counts, CountsNext
<1>2. Means(e)' >= Means(e)
  BY MeansGrow
<1>3. WorkerBills(e)' <= WorkerBills(e)
  BY <1>1 DEF WorkerBills
<1> QED
  BY <1>2, <1>3, Paid

\* What a fault pays for: the worker it hit may bill again.
LEMMA FaultPays ==
    ASSUME CascadeTypeOK, CascadeTypeOK', NEW e \in Events, BillsCounted(e),
           revenue'[e] = revenue[e], LetterBills(e)' = LetterBills(e),
           faults'[e] = faults[e] + 1,
           \/ /\ InlineBills(e)' = InlineBills(e) /\ ConsumerBills(e)' = ConsumerBills(e)
              /\ OperatorBills(e)' <= OperatorBills(e) + 1
           \/ /\ InlineBills(e)' = InlineBills(e) \/ ConsumerBills(e)' = ConsumerBills(e)
              /\ OperatorBills(e)' <= OperatorBills(e)
    PROVE  BillsCounted(e)'
<1>1. /\ InlineBills(e) \in {0, 1} /\ ConsumerBills(e) \in {0, 1}
      /\ InlineBills(e)' \in {0, 1} /\ ConsumerBills(e)' \in {0, 1}
  BY Counts, CountsNext
<1>2. Means(e)' = Means(e) + 1
  BY MeansGrow
<1>3. CASE /\ InlineBills(e)' = InlineBills(e) /\ ConsumerBills(e)' = ConsumerBills(e)
           /\ OperatorBills(e)' <= OperatorBills(e) + 1
  <2>1. WorkerBills(e)' <= WorkerBills(e)
    BY <1>1, <1>3 DEF WorkerBills
  <2> QED
    BY <1>2, <1>3, <2>1, Paid
<1>4. CASE /\ InlineBills(e)' = InlineBills(e) \/ ConsumerBills(e)' = ConsumerBills(e)
           /\ OperatorBills(e)' <= OperatorBills(e)
  <2>1. WorkerBills(e)' <= WorkerBills(e) + 1
    BY <1>1, <1>4 DEF WorkerBills
  <2>2. Len(revenue'[e]) = Len(revenue[e]) /\ OperatorBills(e)' <= OperatorBills(e)
    BY <1>4
  <2> QED
    BY <1>2, <2>1, <2>2, Paid
<1> QED
  BY <1>3, <1>4

\* The counts of the other events.
LEMMA CountOthers ==
    ASSUME CascadeInv, CascadeTypeOK', CountInv,
           NEW w \in Workers, NEW e \in Events, Moves(w, e),
           w \in Operators => /\ task[w] # None => task[w].event = e
                              /\ task'[w] # None => task'[w].event = e,
           BillsCounted(e)'
    PROVE  CountInv'
<1> SUFFICES ASSUME NEW f \in Events, f # e PROVE BillsCounted(f)'
  BY DEF CountInv
<1>1. /\ fired'[f] = fired[f] /\ message'[f] = message[f] /\ revenue'[f] = revenue[f]
      /\ dlq'[f] = dlq[f] /\ faults'[f] = faults[f]
      /\ task'[Inline(f)] = task[Inline(f)] /\ task'[Consumer(f)] = task[Consumer(f)]
  BY WorkerKinds DEF Moves
<1>2. /\ InlineBills(f)' = InlineBills(f) /\ ConsumerBills(f)' = ConsumerBills(f)
      /\ LetterBills(f)' = LetterBills(f)
  BY <1>1, CountsStay
<1>3. OperatorBills(f)' <= OperatorBills(f)
  <2>1. w \in OperatorsMayBill(f)' => w \in OperatorsMayBill(f)
    <3>1. CASE w \notin Operators
      BY <3>1 DEF OperatorsMayBill
    <3>2. CASE w \in Operators
      <4>1. ~Replaying(w, f) /\ ~Replaying(w, f)'
        BY <3>2 DEF Replaying
      <4> QED
        BY <1>1, <4>1, OperatorElsewhere
    <3> QED
      BY <3>1, <3>2
  <2> QED
    BY <1>1, <2>1, OperatorsShrink DEF CascadeInv
<1>4. CascadeTypeOK
  BY DEF CascadeInv
<1>5. BillsCounted(f)
  BY DEF CountInv
<1>6. faults'[f] \in Nat /\ InlineBills(f) \in Int /\ ConsumerBills(f) \in Int
  BY <1>4, Counts, CountsNext
<1> QED
  BY <1>1, <1>2, <1>3, <1>4, <1>5, <1>6, NothingAdded

\* The bill is the queue's to write, or the producer's.
LEMMA FireCounts ==
    ASSUME CascadeInv, CountInv, NEW e \in Events, SendToQueue(e) \/ RunInline(e)
    PROVE  CountInv'
<1> DEFINE w == Inline(e)
<1>1. /\ CascadeTypeOK /\ EventOK(e) /\ w \in Workers /\ w \notin Operators /\ BillsCounted(e)
  BY WorkerKinds DEF CascadeInv, CountInv
<1>2. CascadeTypeOK' /\ Moves(w, e)
  BY FireMoves
<1>3. /\ fired[e] = "no" /\ fired'[e] = "yes"
      /\ message[e] = None /\ task[w] = None /\ task[Consumer(e)] = None
      /\ task'[Consumer(e)] = None
  BY <1>1, <1>2, WorkerKinds
     DEF SendToQueue, RunInline, EventOK, FreshOK, ConsumerOK, CascadeTypeOK, Moves
<1>4. revenue' = revenue /\ dlq' = dlq
  BY DEF SendToQueue, RunInline, tables
<1>5. LetterBills(e)' = LetterBills(e)
  BY <1>4, CountsStay
<1>6. OperatorBills(e)' <= OperatorBills(e)
  <2>1. w \notin OperatorsMayBill(e)'
    BY <1>1 DEF OperatorsMayBill
  <2> QED
    BY <1>1, <1>2, <1>4, <2>1, OperatorsShrink
<1>7. InlineBills(e) = 1 /\ ConsumerBills(e) = 0
  BY <1>3 DEF InlineBills, InlineMayBill, ConsumerBills, ConsumerMayBill
<1>8. CASE SendToQueue(e)
  <2>1. task'[w] = None /\ faults' = faults
    BY <1>3, <1>8 DEF SendToQueue
  <2>2. InlineBills(e)' = 0
    BY <1>3, <2>1 DEF InlineBills, InlineMayBill
  <2>3. ConsumerBills(e)' \in {0, 1}
    BY <1>1, <1>2, Counts, CountsNext
  <2>4. WorkerBills(e)' <= WorkerBills(e)
    BY <1>7, <2>2, <2>3 DEF WorkerBills
  <2>5. BillsCounted(e)'
    BY <1>1, <1>2, <1>4, <1>5, <1>6, <2>1, <2>4, MeansGrow, Paid
  <2> QED
    BY <1>1, <1>2, <2>5, CountOthers
<1>9. CASE RunInline(e)
  <2>1. task'[w] = Begin(e, "analytics", 1)
    <3>1. Begin(e, "analytics", 1) \in Tasks
      BY BeginIsTask DEF Stages
    <3> QED
      BY <1>1, <1>9, <3>1, WorkSets DEF RunInline
  <2>2. InlineBills(e)' = 1
    <3>1. task'[w] # None /\ task'[w].stage # "commercial"
      BY <2>1, BeginIsTask DEF Stages
    <3> QED
      BY <3>1 DEF InlineBills, InlineMayBill
  <2>3. CASE UNCHANGED <<message, faults>>
    <3>1. ConsumerBills(e)' = 0
      BY <1>3, <2>3 DEF ConsumerBills, ConsumerMayBill
    <3>2. faults'[e] = faults[e] /\ revenue'[e] = revenue[e]
      BY <1>4, <2>3
    <3>3. BillsCounted(e)'
      BY <1>1, <1>2, <1>5, <1>6, <1>7, <2>2, <3>1, <3>2, NothingAdded
    <3> QED
      BY <1>1, <1>2, <3>3, CountOthers
  <2>4. CASE Fault(e)
    <3>1. faults'[e] = faults[e] + 1 /\ revenue'[e] = revenue[e]
      BY <1>1, <1>4, <2>4, FaultCounts
    <3>2. BillsCounted(e)'
      BY <1>1, <1>2, <1>5, <1>6, <1>7, <2>2, <3>1, FaultPays
    <3> QED
      BY <1>1, <1>2, <3>2, CountOthers
  <2> QED
    BY <1>9, <2>3, <2>4 DEF RunInline
<1> QED
  BY <1>8, <1>9

\* A delivery bills what its message was to bill.
LEMMA TakeCounts ==
    ASSUME CascadeInv, CountInv, NEW e \in Events, TakeMessage(e)
    PROVE  CountInv'
<1> DEFINE w == Consumer(e)
<1>1. /\ CascadeTypeOK /\ w \in Workers /\ w \notin Operators /\ BillsCounted(e)
  BY WorkerKinds DEF CascadeInv, CountInv
<1>2. CascadeTypeOK' /\ Moves(w, e)
  BY TakeMoves
<1>3. UNCHANGED <<fired, revenue, dlq, faults>>
  BY DEF TakeMessage, tables
<1>4. /\ LetterBills(e)' = LetterBills(e)
      /\ InlineBills(e)' = InlineBills(e)
  BY <1>1, <1>2, <1>3, CountsStay, WorkerKinds DEF Moves
<1>5. OperatorBills(e)' <= OperatorBills(e)
  <2>1. w \notin OperatorsMayBill(e)'
    BY <1>1 DEF OperatorsMayBill
  <2> QED
    BY <1>1, <1>2, <1>3, <2>1, OperatorsShrink
<1>6. ConsumerBills(e) = 1
  BY DEF TakeMessage, ConsumerBills, ConsumerMayBill
<1>7. /\ ConsumerBills(e)' <= 1 /\ InlineBills(e)' <= InlineBills(e)
      /\ faults'[e] = faults[e] /\ revenue'[e] = revenue[e]
  BY <1>1, <1>2, <1>3, <1>4, Counts, CountsNext
<1>8. BillsCounted(e)'
  BY <1>1, <1>2, <1>4, <1>5, <1>6, <1>7, NothingAdded
<1> QED
  BY <1>1, <1>2, <1>8, CountOthers

\* Who is through with a stage is not to bill more than before.
LEMMA AfterStageCounts ==
    ASSUME CascadeInv, CascadeTypeOK', NEW w \in Workers, task[w] # None,
           NEW e \in Events, NEW s \in Stages, task[w].event = e, task[w].stage = s,
           Moves(w, e), StageDone(w), UNCHANGED <<fired, message>>,
           dlq'[e]["commercial"] = dlq[e]["commercial"],
           s = "commercial" => task[w].step # "fee"
    PROVE  /\ InlineBills(e)' <= InlineBills(e) /\ ConsumerBills(e)' <= ConsumerBills(e)
           /\ OperatorBills(e)' <= OperatorBills(e)
           /\ w \in Operators => task'[w].event = e
<1>1. /\ CascadeTypeOK /\ w \in Operators \cup {Inline(e), Consumer(e)}
      /\ fired[e] = "yes" /\ ConsumerOK(e)
  BY TaskEvent, TaskFired DEF CascadeInv, EventOK
<1>2. /\ task'[w] # None /\ task'[w].event = e
      /\ w \in Operators => task'[w].step = "resolve" /\ task'[w].stage = s
      /\ (w \notin Operators /\ s = "analytics") => task'[w] = Begin(e, "commercial", 1)
      /\ (w \notin Operators /\ s # "analytics") => task'[w].step = "end" /\ task'[w].stage = s
      /\ \A v \in Workers \ {w} : task'[v] = task[v]
  BY <1>1, StageDoneSets
<1>3. s = "analytics" \/ s = "commercial"
  BY DEF Stages
<1>4. /\ Inline(e) \in Workers /\ Consumer(e) \in Workers /\ Inline(e) # Consumer(e)
      /\ Inline(e) \notin Operators /\ Consumer(e) \notin Operators
  BY WorkerKinds
<1>5. /\ InlineBills(e) \in {0, 1} /\ ConsumerBills(e) \in {0, 1}
      /\ InlineBills(e)' \in {0, 1} /\ ConsumerBills(e)' \in {0, 1}
  BY <1>1, Counts, CountsNext
<1>6. InlineBills(e)' <= InlineBills(e)
  <2>1. CASE w # Inline(e)
    BY <1>2, <1>4, <1>5, <2>1, CountsStay
  <2>2. CASE w = Inline(e) /\ s = "analytics"
    <3>1. InlineBills(e) = 1
      BY <2>2 DEF InlineBills, InlineMayBill
    <3> QED
      BY <1>5, <3>1
  <2>3. CASE w = Inline(e) /\ s = "commercial"
    <3>1. InlineBills(e)' = 0
      BY <1>1, <1>2, <1>4, <2>3 DEF InlineBills, InlineMayBill
    <3> QED
      BY <1>5, <3>1
  <2> QED
    BY <1>3, <2>1, <2>2, <2>3
<1>7. ConsumerBills(e)' <= ConsumerBills(e)
  <2>1. CASE w # Consumer(e)
    BY <1>2, <1>4, <1>5, <2>1, CountsStay
  <2>2. CASE w = Consumer(e) /\ s = "analytics"
    <3>1. ConsumerBills(e) = 1
      BY <1>1, <2>2 DEF ConsumerBills, ConsumerMayBill, ConsumerOK
    <3> QED
      BY <1>5, <3>1
  <2>3. CASE w = Consumer(e) /\ s = "commercial"
    <3>1. ConsumerBills(e)' = 0
      BY <1>2, <1>4, <2>3 DEF ConsumerBills, ConsumerMayBill
    <3> QED
      BY <1>5, <3>1
  <2> QED
    BY <1>3, <2>1, <2>2, <2>3
<1>8. OperatorBills(e)' <= OperatorBills(e)
  <2>1. w \in OperatorsMayBill(e)' => w \in OperatorsMayBill(e)
    <3>1. CASE w \notin Operators
      BY <3>1 DEF OperatorsMayBill
    <3>2. CASE w \in Operators /\ s = "commercial"
      <4>1. w \notin OperatorsMayBill(e)'
        BY <1>2, <3>2 DEF OperatorsMayBill, Replaying
      <4> QED
        BY <4>1
    <3>3. CASE w \in Operators /\ s = "analytics"
      <4>1. ~Replaying(w, e) /\ ~Replaying(w, e)'
        BY <1>2, <3>3 DEF Replaying
      <4> QED
        BY <4>1, OperatorElsewhere
    <3> QED
      BY <1>3, <3>1, <3>2, <3>3
  <2> QED
    BY <1>1, <2>1, OperatorsShrink
<1> QED
  BY <1>2, <1>6, <1>7, <1>8

\* A row of the analytics sink is no bill.
LEMMA RecordCounts ==
    ASSUME CascadeInv, CountInv, NEW w \in Workers, RecordEvent(w)
    PROVE  CountInv'
<1>1. PICK e \in Events, s \in Stages : task[w].event = e /\ task[w].stage = s
  BY TaskParts DEF RecordEvent, At, CascadeInv
<1>2. /\ CascadeTypeOK /\ WorkerOK(w) /\ task[w] # None /\ task[w].step = "record" /\ BillsCounted(e)
  BY DEF CascadeInv, RecordEvent, At, CountInv
<1>3. CascadeTypeOK' /\ Moves(w, e)
  BY <1>1, StageMoves DEF Stage
<1>4. StageDone(w) /\ UNCHANGED <<fired, message, revenue, dlq, faults, history>>
  BY DEF RecordEvent
<1>5. /\ InlineBills(e)' <= InlineBills(e) /\ ConsumerBills(e)' <= ConsumerBills(e)
      /\ OperatorBills(e)' <= OperatorBills(e)
      /\ w \in Operators => task'[w].event = e
  BY <1>1, <1>2, <1>3, <1>4, AfterStageCounts
<1>6. LetterBills(e)' = LetterBills(e)
  BY <1>4, CountsStay
<1>7. BillsCounted(e)'
  BY <1>2, <1>3, <1>4, <1>5, <1>6, NothingAdded
<1> QED
  BY <1>1, <1>3, <1>5, <1>7, CountOthers

\* A bill that begins was to come.
LEMMA FeeCounts ==
    ASSUME CascadeInv, CountInv, NEW w \in Workers, RecordFee(w)
    PROVE  CountInv'
<1>1. PICK e \in Events : task[w].event = e
  BY TaskParts DEF RecordFee, At, CascadeInv
<1>2. /\ CascadeTypeOK /\ WorkerOK(w) /\ ConsumerOK(e) /\ BillsCounted(e)
      /\ task[w] # None /\ task[w].step = "fee"
      /\ w \in Operators \cup {Inline(e), Consumer(e)} /\ fired[e] = "yes"
  BY <1>1, TaskEvent, TaskFired DEF CascadeInv, CountInv, EventOK, RecordFee, At
<1>3. CascadeTypeOK' /\ Moves(w, e)
  BY <1>1, StageMoves DEF Stage
<1>4. UNCHANGED <<fired, message, dlq, faults>>
  BY DEF RecordFee
<1>5. /\ Len(revenue'[e]) = Len(revenue[e]) + 1
      /\ \A v \in Workers \ {w} : task'[v] = task[v]
      /\ task'[w] # None
      /\ task'[w].event = e /\ task'[w].stage = task[w].stage /\ task'[w].step = "split"
  BY <1>1, <1>2, FeeRow
<1>6. task[w].stage = "commercial"
  BY <1>2 DEF WorkerOK
<1>7. /\ Inline(e) \in Workers /\ Consumer(e) \in Workers /\ Inline(e) # Consumer(e)
      /\ Inline(e) \notin Operators /\ Consumer(e) \notin Operators
  BY WorkerKinds
<1>8. LetterBills(e)' = LetterBills(e) /\ Means(e)' = Means(e)
  BY <1>2, <1>3, <1>4, CountsStay, MeansGrow
<1>9. w \notin OperatorsMayBill(e)'
  BY <1>5, <1>6 DEF OperatorsMayBill, Replaying
<1>10. OperatorsMayBill(e)' \subseteq OperatorsMayBill(e) /\ OperatorBills(e)' <= OperatorBills(e)
  BY <1>2, <1>3, <1>4, <1>9, OperatorsShrink
<1>11. /\ InlineBills(e) \in {0, 1} /\ ConsumerBills(e) \in {0, 1}
       /\ InlineBills(e)' \in {0, 1} /\ ConsumerBills(e)' \in {0, 1}
  BY <1>2, <1>3, Counts, CountsNext
<1>12. CASE w = Inline(e)
  <2>1. ConsumerBills(e)' = ConsumerBills(e)
    BY <1>4, <1>5, <1>7, <1>12, CountsStay
  <2>2. InlineBills(e) = 1
    BY <1>2, <1>12 DEF InlineBills, InlineMayBill
  <2>3. InlineBills(e)' = 0
    BY <1>2, <1>4, <1>5, <1>6, <1>12 DEF InlineBills, InlineMayBill
  <2>4. WorkerBills(e)' + 1 <= WorkerBills(e)
    BY <1>11, <2>1, <2>2, <2>3 DEF WorkerBills
  <2>5. BillsCounted(e)'
    BY <1>2, <1>3, <1>5, <1>8, <1>10, <2>4, Paid
  <2> QED
    BY <1>1, <1>3, <1>5, <2>5, CountOthers
<1>13. CASE w = Consumer(e)
  <2>1. InlineBills(e)' = InlineBills(e)
    BY <1>4, <1>5, <1>7, <1>13, CountsStay
  <2>2. ConsumerBills(e) = 1
    BY <1>2, <1>13 DEF ConsumerBills, ConsumerMayBill, ConsumerOK
  <2>3. ConsumerBills(e)' = 0
    BY <1>5, <1>6, <1>13 DEF ConsumerBills, ConsumerMayBill
  <2>4. WorkerBills(e)' + 1 <= WorkerBills(e)
    BY <1>11, <2>1, <2>2, <2>3 DEF WorkerBills
  <2>5. BillsCounted(e)'
    BY <1>2, <1>3, <1>5, <1>8, <1>10, <2>4, Paid
  <2> QED
    BY <1>1, <1>3, <1>5, <2>5, CountOthers
<1>14. CASE w \in Operators
  <2>1. InlineBills(e)' = InlineBills(e) /\ ConsumerBills(e)' = ConsumerBills(e)
    BY <1>4, <1>5, <1>7, <1>14, CountsStay
  <2>2. w \in OperatorsMayBill(e)
    BY <1>1, <1>2, <1>6, <1>14 DEF OperatorsMayBill, Replaying
  <2>3. OperatorBills(e)' + 1 <= OperatorBills(e)
    <3> DEFINE T == OperatorsMayBill(e)
    <3>1. T \subseteq Operators /\ IsFiniteSet(T) /\ w \in T
      BY <1>2, <2>2, Counts, OperatorSets
    <3>2. OperatorsMayBill(e)' \subseteq T \ {w}
      BY <1>9, <1>10
    <3> HIDE DEF T
    <3>3. /\ IsFiniteSet(T \ {w}) /\ Cardinality(T \ {w}) = Cardinality(T) - 1
      BY <3>1, FS_RemoveElement
    <3>4. T \ {w} \subseteq Operators
      BY <3>1
    <3>5. /\ Cardinality(OperatorsMayBill(e)') \in Nat
          /\ Cardinality(OperatorsMayBill(e)') <= Cardinality(T \ {w})
      BY <3>2, <3>4, OperatorSets
    <3>6. Cardinality(T) \in Nat
      BY <3>1, OperatorSets
    <3>7. Cardinality(OperatorsMayBill(e)') + 1 <= Cardinality(T)
      BY <3>3, <3>5, <3>6
    <3> QED
      BY <3>7 DEF OperatorBills, T
  <2>4. WorkerBills(e)' <= WorkerBills(e)
    BY <1>11, <2>1 DEF WorkerBills
  <2>5. BillsCounted(e)'
    BY <1>2, <1>3, <1>5, <1>8, <2>3, <2>4, Paid
  <2> QED
    BY <1>1, <1>3, <1>5, <2>5, CountOthers
<1> QED
  BY <1>2, <1>12, <1>13, <1>14

\* A split makes no new bill.
LEMMA SplitCounts ==
    ASSUME CascadeInv, CountInv, NEW w \in Workers, WriteSplit(w)
    PROVE  CountInv'
<1>1. PICK e \in Events, s \in Stages : task[w].event = e /\ task[w].stage = s
  BY TaskParts DEF WriteSplit, At, CascadeInv
<1>2. /\ CascadeTypeOK /\ WorkerOK(w) /\ task[w] # None /\ task[w].step = "split" /\ BillsCounted(e)
  BY DEF CascadeInv, WriteSplit, At, CountInv
<1>3. CascadeTypeOK' /\ Moves(w, e)
  BY <1>1, StageMoves DEF Stage
<1>4. UNCHANGED <<fired, message, recorded, dlq, faults, history>>
  BY DEF WriteSplit
<1>5. Len(revenue'[e]) = Len(revenue[e])
  BY <1>1, <1>2, SplitRow
<1>6. LetterBills(e)' = LetterBills(e)
  BY <1>4, CountsStay
<1>7. /\ InlineBills(e)' <= InlineBills(e) /\ ConsumerBills(e)' <= ConsumerBills(e)
      /\ OperatorBills(e)' <= OperatorBills(e)
      /\ (w \in Operators /\ task'[w] # None) => task'[w].event = e
  <2>1. CASE StageDone(w)
    BY <1>1, <1>2, <1>3, <1>4, <2>1, AfterStageCounts
  <2>2. CASE task' = task
    <3>1. InlineBills(e)' = InlineBills(e) /\ ConsumerBills(e)' = ConsumerBills(e)
      BY <1>4, <2>2, CountsStay
    <3>2. /\ InlineBills(e) \in {0, 1} /\ ConsumerBills(e) \in {0, 1}
      BY <1>2, Counts
    <3>3. w \in OperatorsMayBill(e)' => w \in OperatorsMayBill(e)
      BY <1>4, <2>2 DEF OperatorsMayBill, Replaying
    <3>4. OperatorBills(e)' <= OperatorBills(e)
      BY <1>2, <1>3, <1>4, <3>3, OperatorsShrink
    <3> QED
      BY <1>1, <2>2, <3>1, <3>2, <3>4
  <2> QED
    BY <2>1, <2>2 DEF WriteSplit
<1>8. BillsCounted(e)'
  BY <1>2, <1>3, <1>4, <1>5, <1>6, <1>7, NothingAdded
<1> QED
  BY <1>1, <1>3, <1>7, <1>8, CountOthers

\* With a letter the producer leaves its bill to the operators.
LEMMA LetterCounts ==
    ASSUME CascadeInv, CountInv, NEW w \in Workers, WriteDeadLetter(w)
    PROVE  CountInv'
<1>1. PICK e \in Events, s \in Stages : task[w].event = e /\ task[w].stage = s
  BY TaskParts DEF WriteDeadLetter, At, CascadeInv
<1>2. /\ CascadeTypeOK /\ EventOK(e) /\ task[w] # None /\ task[w].step = "dead"
      /\ (w \in Operators => OperatorOK(w)) /\ BillsCounted(e) /\ fired[e] = "yes"
      /\ w \in Operators \cup {Inline(e), Consumer(e)}
  BY <1>1, TaskEvent, TaskFired DEF CascadeInv, CountInv, WriteDeadLetter, At
<1>3. w = Inline(e) /\ w \notin Operators
  BY <1>2, WorkerKinds DEF OperatorOK, EventOK, ConsumerOK
<1>4. CascadeTypeOK' /\ Moves(w, e)
  BY <1>1, StageMoves DEF Stage
<1>5. StageDone(w) /\ UNCHANGED <<fired, message, recorded, revenue, history>>
  BY DEF WriteDeadLetter
<1>6. CASE dlq'[e]["commercial"] = dlq[e]["commercial"]
           /\ (faults'[e] = faults[e] \/ faults'[e] = faults[e] + 1)
  <2>1. /\ InlineBills(e)' <= InlineBills(e) /\ ConsumerBills(e)' <= ConsumerBills(e)
        /\ OperatorBills(e)' <= OperatorBills(e)
    BY <1>1, <1>2, <1>4, <1>5, <1>6, AfterStageCounts
  <2>2. LetterBills(e)' = LetterBills(e)
    BY <1>6, CountsStay
  <2>3. BillsCounted(e)'
    BY <1>2, <1>4, <1>5, <1>6, <2>1, <2>2, NothingAdded
  <2> QED
    BY <1>3, <1>4, <2>3, CountOthers
<1>7. CASE dlq' = [dlq EXCEPT ![e][s] = "pending"] /\ s = "commercial" /\ faults' = faults
  <2>1. dlq[e]["commercial"] = "none"
    BY <1>2, <1>3 DEF EventOK, InlineOK
  <2>2. dlq'[e]["commercial"] = "pending"
    BY <1>2, <1>7, LetterSets DEF Letters
  <2>3. LetterBills(e) = 0 /\ LetterBills(e)' = Cardinality(Operators) - 1
    BY <2>1, <2>2 DEF LetterBills
  <2>4. Means(e)' = Means(e) + (Cardinality(Operators) - 1)
    <3>1. faults[e] \in Nat /\ faults'[e] = faults[e] /\ Cardinality(Operators) \in Nat
      BY <1>2, <1>7, Counts
    <3> QED
      BY <2>3, <3>1 DEF Means
  <2>5. /\ task'[w].step = "end" /\ task'[w].stage = "commercial" /\ task'[w] # None
        /\ \A v \in Workers \ {w} : task'[v] = task[v]
    BY <1>1, <1>2, <1>3, <1>5, <1>7, StageDoneSets
  <2>6. InlineBills(e) = 1
    BY <1>2, <1>3 DEF InlineBills, InlineMayBill
  <2>7. InlineBills(e)' = 0
    BY <1>2, <1>3, <1>5, <2>5 DEF InlineBills, InlineMayBill
  <2>8. ConsumerBills(e)' = ConsumerBills(e) /\ ConsumerBills(e) \in {0, 1}
    BY <1>2, <1>3, <1>5, <2>5, CountsStay, Counts, WorkerKinds
  <2>9. WorkerBills(e)' + 1 <= WorkerBills(e)
    BY <2>6, <2>7, <2>8 DEF WorkerBills
  <2>10. BillsCounted(e)'
    BY <1>2, <1>4, <1>5, <2>4, <2>9, Paid
  <2> QED
    BY <1>3, <1>4, <2>10, CountOthers
<1>8. CASE dlq' = [dlq EXCEPT ![e][s] = "pending"] /\ faults' = faults
  <2>1. CASE s = "commercial"
    BY <1>7, <1>8, <2>1
  <2>2. CASE s # "commercial"
    <3>1. dlq'[e]["commercial"] = dlq[e]["commercial"]
      BY <1>2, <1>8, <2>2, LetterSets DEF Letters, Stages
    <3> QED
      BY <1>6, <1>8, <3>1
  <2> QED
    BY <2>1, <2>2
<1>9. CASE dlq' = dlq /\ Fault(e)
  BY <1>2, <1>6, <1>9, FaultCounts
<1> QED
  BY <1>1, <1>8, <1>9 DEF WriteDeadLetter

\* Who ends after all was done had billed.
LEMMA FinishCounts ==
    ASSUME CascadeInv, CountInv, NEW w \in Workers \ Operators, Finish(w)
    PROVE  CountInv'
<1>1. PICK e \in Events : task[w].event = e
  BY TaskParts DEF Finish, At, CascadeInv
<1>2. /\ CascadeTypeOK /\ task[w] # None /\ task[w].step = "end" /\ BillsCounted(e)
      /\ WorkerOK(w) /\ (w = Inline(e) \/ w = Consumer(e)) /\ fired[e] = "yes"
  BY <1>1, TaskEvent, TaskFired DEF CascadeInv, CountInv, Finish, At
<1>3. CascadeTypeOK' /\ Moves(w, e)
  BY <1>1, EndMoves
<1>4. UNCHANGED <<fired, revenue, dlq, faults>> /\ task'[w] = None
  BY <1>2, WorkSets DEF Finish, tables
<1>5. LetterBills(e)' = LetterBills(e)
  BY <1>4, CountsStay
<1>6. OperatorBills(e)' <= OperatorBills(e)
  <2>1. w \notin OperatorsMayBill(e)'
    BY DEF OperatorsMayBill
  <2> QED
    BY <1>2, <1>3, <1>4, <2>1, OperatorsShrink
<1>7. /\ InlineBills(e) \in {0, 1} /\ ConsumerBills(e) \in {0, 1}
  BY <1>2, Counts
<1>8. InlineBills(e)' <= InlineBills(e) /\ ConsumerBills(e)' <= ConsumerBills(e)
  <2>1. CASE w = Inline(e)
    <3>1. message' = message /\ task'[Consumer(e)] = task[Consumer(e)]
      BY <1>3, <2>1, WorkerKinds DEF Finish, Moves
    <3>2. ConsumerBills(e)' = ConsumerBills(e)
      BY <3>1, CountsStay
    <3>3. InlineBills(e)' = 0
      BY <1>2, <1>4, <2>1 DEF InlineBills, InlineMayBill
    <3> QED
      BY <1>7, <3>2, <3>3
  <2>2. CASE w = Consumer(e)
    <3>1. message' = [message EXCEPT ![e] = None] /\ task'[Inline(e)] = task[Inline(e)]
      BY <1>3, <2>2, WorkerKinds DEF Finish, Moves
    <3>2. message'[e] = None
      BY <1>2, <3>1, MessageSets
    <3>3. ConsumerBills(e)' = 0
      BY <3>2 DEF ConsumerBills, ConsumerMayBill
    <3>4. InlineBills(e)' = InlineBills(e)
      BY <1>4, <3>1, CountsStay
    <3> QED
      BY <1>7, <3>3, <3>4
  <2> QED
    BY <1>2, <2>1, <2>2
<1>9. BillsCounted(e)'
  BY <1>2, <1>3, <1>4, <1>5, <1>6, <1>8, NothingAdded
<1> QED
  BY <1>3, <1>4, <1>9, CountOthers

\* A fault lets its worker bill once more.
LEMMA BreakCounts ==
    ASSUME CascadeInv, CountInv, NEW w \in Workers, CallFails(w) \/ Die(w)
    PROVE  CountInv'
<1>1. PICK e \in Events : task[w].event = e
  BY TaskParts DEF CallFails, Die, CascadeInv
<1>2. /\ CascadeTypeOK /\ task[w] # None /\ fired[e] = "yes" /\ BillsCounted(e)
      /\ w \in Operators \cup {Inline(e), Consumer(e)}
  BY <1>1, TaskEvent, TaskFired DEF CascadeInv, CountInv, CallFails, Die
<1>3. CascadeTypeOK' /\ Moves(w, e)
  BY <1>1, EndMoves
<1>4. UNCHANGED <<fired, revenue, dlq>> /\ faults'[e] = faults[e] + 1
  BY <1>1, <1>2, FaultCounts DEF CallFails, Die, tables
<1>5. LetterBills(e)' = LetterBills(e)
  BY <1>4, CountsStay
<1>6. /\ Inline(e) \in Workers /\ Consumer(e) \in Workers /\ Inline(e) # Consumer(e)
      /\ Inline(e) \notin Operators /\ Consumer(e) \notin Operators
  BY WorkerKinds
<1>7. \A v \in Workers \ {w} : task'[v] = task[v]
  BY <1>3 DEF Moves
<1>8. ASSUME w \in {Inline(e), Consumer(e)} PROVE OperatorBills(e)' <= OperatorBills(e)
  <2>1. w \notin OperatorsMayBill(e)'
    BY <1>6, <1>8 DEF OperatorsMayBill
  <2> QED
    BY <1>2, <1>3, <1>4, <2>1, OperatorsShrink
<1>9. CASE w = Inline(e)
  <2>1. message' = message
    BY <1>1, <1>2, <1>9, FailSets DEF CallFails, Die
  <2>2. ConsumerBills(e)' = ConsumerBills(e)
    BY <1>6, <1>7, <1>9, <2>1, CountsStay
  <2>3. BillsCounted(e)'
    BY <1>2, <1>3, <1>4, <1>5, <1>8, <1>9, <2>2, FaultPays
  <2> QED
    BY <1>3, <1>6, <1>9, <2>3, CountOthers
<1>10. CASE w = Consumer(e)
  <2>1. InlineBills(e)' = InlineBills(e)
    BY <1>4, <1>6, <1>7, <1>10, CountsStay
  <2>2. BillsCounted(e)'
    BY <1>2, <1>3, <1>4, <1>5, <1>8, <1>10, <2>1, FaultPays
  <2> QED
    BY <1>3, <1>6, <1>10, <2>2, CountOthers
<1>11. CASE w \in Operators
  <2>1. w \notin {Inline(f) : f \in Events}
    BY <1>11, WorkerKinds
  <2>2. task'[w] = None /\ message' = message
    BY <1>2, <1>11, <2>1, FailSets DEF CallFails, Die
  <2>3. InlineBills(e)' = InlineBills(e) /\ ConsumerBills(e)' = ConsumerBills(e)
    BY <1>4, <1>6, <1>7, <1>11, <2>2, CountsStay
  <2>4. OperatorBills(e)' <= OperatorBills(e) + 1
    <3> DEFINE T == OperatorsMayBill(e)
               S == OperatorsMayBill(e)'
    <3>1. T \subseteq Operators /\ S \subseteq T \cup {w}
      <4>1. T \subseteq Operators
        BY <1>2, Counts
      <4>2. ASSUME NEW o \in S, o # w PROVE o \in T
        <5>1. o \in Operators /\ o \in Workers /\ task'[o] = task[o]
          BY <1>7, <4>2, WorkerKinds DEF OperatorsMayBill
        <5> QED
          BY <1>4, <4>2, <5>1 DEF OperatorsMayBill, Replaying
      <4> QED
        BY <4>1, <4>2
    <3> HIDE DEF S, T
    <3>2. /\ IsFiniteSet(T \cup {w}) /\ Cardinality(T) \in Nat
          /\ Cardinality(T \cup {w}) = (IF w \in T THEN Cardinality(T) ELSE Cardinality(T) + 1)
      BY <3>1, OperatorSets, FS_AddElement
    <3>3. T \cup {w} \subseteq Operators
      BY <1>11, <3>1
    <3>4. Cardinality(S) \in Nat /\ Cardinality(S) <= Cardinality(T \cup {w})
      BY <3>1, <3>3, OperatorSets
    <3>5. Cardinality(S) <= Cardinality(T) + 1
      BY <3>2, <3>4
    <3> QED
      BY <3>5 DEF OperatorBills, S, T
  <2>5. BillsCounted(e)'
    BY <1>2, <1>3, <1>4, <1>5, <2>3, <2>4, FaultPays
  <2> QED
    BY <1>1, <1>3, <2>2, <2>5, CountOthers
<1> QED
  BY <1>2, <1>9, <1>10, <1>11

\* A replay is one that was to come.
LEMMA ReplayCounts ==
    ASSUME CascadeInv, CountInv, NEW o \in Operators, Replay(o)
    PROVE  CountInv'
<1>1. /\ CascadeTypeOK' /\ CascadeTypeOK /\ o \in Workers /\ task[o] = None
      /\ UNCHANGED <<fired, message, revenue, dlq, faults>>
  BY ReplayMoves, WorkerKinds DEF CascadeInv, Replay, tables
<1>2. PICK e \in Events, s \in Stages :
          dlq[e][s] = "pending" /\ Moves(o, e) /\ task'[o] = Begin(e, s, 1)
  BY ReplayMoves
<1>3. task'[o].event = e /\ task'[o].stage = s
  BY <1>2, BeginIsTask
<1>4. task'[Inline(e)] = task[Inline(e)] /\ task'[Consumer(e)] = task[Consumer(e)]
  BY <1>2, WorkerKinds DEF Moves
<1>5. /\ InlineBills(e)' = InlineBills(e) /\ ConsumerBills(e)' = ConsumerBills(e)
      /\ LetterBills(e)' = LetterBills(e)
  BY <1>1, <1>4, CountsStay
<1>6. OperatorBills(e)' <= OperatorBills(e)
  <2>1. o \in OperatorsMayBill(e)' => o \in OperatorsMayBill(e)
    <3>1. CASE s = "commercial"
      BY <1>1, <1>2, <3>1 DEF OperatorsMayBill, Replaying
    <3>2. CASE s # "commercial"
      <4>1. ~Replaying(o, e) /\ ~Replaying(o, e)'
        BY <1>1, <1>3, <3>2 DEF Replaying
      <4> QED
        BY <1>1, <4>1, OperatorElsewhere
    <3> QED
      BY <3>1, <3>2
  <2> QED
    BY <1>1, <1>2, <2>1, OperatorsShrink
<1>7. InlineBills(e) \in Int /\ ConsumerBills(e) \in Int /\ BillsCounted(e)
  BY <1>1, Counts DEF CountInv
<1>8. InlineBills(e)' <= InlineBills(e) /\ ConsumerBills(e)' <= ConsumerBills(e)
  BY <1>5, <1>7
<1>9. BillsCounted(e)'
  BY <1>1, <1>5, <1>6, <1>7, <1>8, NothingAdded
<1> QED
  BY <1>1, <1>2, <1>3, <1>9, CountOthers

\* A letter that is marked ends the replays that have not begun.
LEMMA MarkCounts ==
    ASSUME CascadeInv, CountInv, CascadeTypeOK', NEW w \in Workers, NEW e \in Events,
           Moves(w, e), w \notin {Inline(e), Consumer(e)} \/ task'[w] = task[w],
           UNCHANGED <<fired, message, revenue, faults>>,
           dlq'[e]["commercial"] = "none" <=> dlq[e]["commercial"] = "none",
           dlq'[e]["commercial"] = "pending" => dlq[e]["commercial"] = "pending",
           w \in OperatorsMayBill(e)' => w \in OperatorsMayBill(e),
           w \in Operators => /\ task[w] # None => task[w].event = e
                              /\ task'[w] # None => task'[w].event = e
    PROVE  CountInv'
<1>1. task'[Inline(e)] = task[Inline(e)] /\ task'[Consumer(e)] = task[Consumer(e)]
  BY WorkerKinds DEF Moves
<1>2. InlineBills(e)' = InlineBills(e) /\ ConsumerBills(e)' = ConsumerBills(e)
  BY <1>1, CountsStay
<1>3. LetterBills(e)' = LetterBills(e)
  BY DEF LetterBills
<1>4. CascadeTypeOK /\ BillsCounted(e)
  BY DEF CascadeInv, CountInv
<1>5. OperatorBills(e)' <= OperatorBills(e)
  BY <1>4, OperatorsShrink
<1>6. InlineBills(e) \in Int /\ ConsumerBills(e) \in Int
  BY <1>4, Counts
<1>7. InlineBills(e)' <= InlineBills(e) /\ ConsumerBills(e)' <= ConsumerBills(e)
  BY <1>2, <1>6
<1>8. BillsCounted(e)'
  BY <1>3, <1>4, <1>5, <1>7, NothingAdded
<1> QED
  BY <1>8, CountOthers

\* A resolution by the operator who replayed.
LEMMA ResolveCounts ==
    ASSUME CascadeInv, CountInv, NEW o \in Operators, Resolve(o)
    PROVE  CountInv'
<1>1. o \in Workers /\ task[o] # None /\ task[o].step = "resolve"
  BY WorkerKinds DEF Resolve, At
<1>2. PICK e \in Events, s \in Stages : task[o].event = e /\ task[o].stage = s
  BY <1>1, TaskParts DEF CascadeInv
<1>3. /\ CascadeTypeOK /\ OperatorOK(o)
  BY DEF CascadeInv
<1>4. CascadeTypeOK' /\ Moves(o, e)
  BY <1>2, ResolveMoves
<1>5. UNCHANGED <<fired, message, revenue, faults>> /\ task'[o] = None
  BY <1>1, <1>3, WorkSets DEF Resolve
<1>6. dlq'[e][s] = "resolved" /\ \A r \in Stages \ {s} : dlq'[e][r] = dlq[e][r]
  <2>1. "resolved" \in Letters /\ dlq' = [dlq EXCEPT ![e][s] = "resolved"]
    BY <1>2 DEF Letters, Resolve
  <2> QED
    BY <1>3, <2>1, LetterSets
<1>7. dlq[e][s] # "none"
  BY <1>1, <1>2, <1>3 DEF OperatorOK
<1>8. /\ dlq'[e]["commercial"] = "none" <=> dlq[e]["commercial"] = "none"
      /\ dlq'[e]["commercial"] = "pending" => dlq[e]["commercial"] = "pending"
  BY <1>6, <1>7 DEF Stages
<1>9. o \in OperatorsMayBill(e)' => o \in OperatorsMayBill(e)
  <2>1. CASE s = "commercial"
    <3>1. o \notin OperatorsMayBill(e)'
      BY <1>5, <1>6, <2>1 DEF OperatorsMayBill, Replaying
    <3> QED
      BY <3>1
  <2>2. CASE s # "commercial"
    <3>1. ~Replaying(o, e) /\ ~Replaying(o, e)'
      BY <1>2, <1>5, <2>2 DEF Replaying
    <3> QED
      BY <1>1, <1>8, <3>1, OperatorElsewhere
  <2> QED
    BY <2>1, <2>2
<1>10. o \notin {Inline(e), Consumer(e)}
  BY WorkerKinds
<1> QED
  BY <1>1, <1>2, <1>4, <1>5, <1>8, <1>9, <1>10, MarkCounts

\* A letter that is marked by hand.
LEMMA HandCounts ==
    ASSUME CascadeInv, CountInv, NEW e \in Events, NEW s \in Stages,
           NEW x \in {"resolved", "abandoned"}, MarkByHand(e, s, x)
    PROVE  CountInv'
<1> DEFINE w == Inline(e)
<1>1. CascadeTypeOK /\ w \in Workers /\ w \notin Operators /\ dlq[e][s] = "pending"
  BY WorkerKinds DEF CascadeInv, MarkByHand
<1>2. CascadeTypeOK' /\ Moves(w, e)
  BY HandMoves
<1>3. UNCHANGED <<fired, message, task, revenue, faults>>
  BY DEF MarkByHand
<1>4. dlq'[e][s] = x /\ \A r \in Stages \ {s} : dlq'[e][r] = dlq[e][r]
  <2>1. x \in Letters
    BY DEF Letters
  <2> QED
    BY <1>1, <2>1, LetterSets DEF MarkByHand
<1>5. /\ dlq'[e]["commercial"] = "none" <=> dlq[e]["commercial"] = "none"
      /\ dlq'[e]["commercial"] = "pending" => dlq[e]["commercial"] = "pending"
  BY <1>1, <1>4 DEF Stages
<1>6. w \notin OperatorsMayBill(e)'
  BY <1>1 DEF OperatorsMayBill
<1> QED
  BY <1>1, <1>2, <1>3, <1>5, <1>6, MarkCounts

\* A step that writes nothing counts nothing.
LEMMA StutterCounts ==
    ASSUME CountInv, UNCHANGED vars
    PROVE  CountInv'
<1>1. UNCHANGED <<fired, message, task, revenue, dlq, faults>>
  BY DEF vars, tables
<1> SUFFICES ASSUME NEW e \in Events PROVE BillsCounted(e)'
  BY DEF CountInv
<1>2. /\ InlineBills(e)' = InlineBills(e) /\ ConsumerBills(e)' = ConsumerBills(e)
      /\ LetterBills(e)' = LetterBills(e)
  BY <1>1, CountsStay
<1>3. OperatorsMayBill(e)' = OperatorsMayBill(e)
  BY <1>1 DEF OperatorsMayBill, Replaying
<1>4. Due(e)' = Due(e) /\ Means(e)' = Means(e)
  BY <1>1, <1>2, <1>3 DEF Due, Means, WorkerBills, OperatorBills
<1> QED
  BY <1>4 DEF CountInv, BillsCounted

\* Written bills and bills to come never exceed one, the faults, and what a
\* letter allows its operators.
THEOREM BillsAreCounted == Spec => []CountInv
<1>1. Init => CountInv
  <2> SUFFICES ASSUME Init, NEW e \in Events PROVE BillsCounted(e)
    BY DEF CountInv
  <2>1. /\ fired[e] = "no" /\ message[e] = None /\ revenue[e] = <<>> /\ faults[e] = 0
        /\ dlq[e]["commercial"] = "none"
    BY DEF Init, Stages
  <2>2. InlineBills(e) = 1 /\ ConsumerBills(e) = 0 /\ LetterBills(e) = 0
    BY <2>1 DEF InlineBills, InlineMayBill, ConsumerBills, ConsumerMayBill, LetterBills
  <2>3. OperatorsMayBill(e) = {}
    BY <2>1, WorkerKinds DEF Init, OperatorsMayBill, Replaying
  <2>4. OperatorBills(e) = 0
    BY <2>3, FS_EmptySet DEF OperatorBills
  <2>5. Len(revenue[e]) = 0
    BY <2>1
  <2>6. Due(e) = 1 /\ Means(e) = 1
    BY <2>1, <2>2, <2>4, <2>5 DEF Due, Means, WorkerBills
  <2> QED
    BY <2>6 DEF BillsCounted
<1>2. CascadeInv /\ CountInv /\ [Next]_vars => CountInv'
  <2> SUFFICES ASSUME CascadeInv, CountInv, [Next]_vars PROVE CountInv'
    OBVIOUS
  <2>1. CASE \E e \in Events : SendToQueue(e) \/ RunInline(e) \/ TakeMessage(e)
    BY <2>1, FireCounts, TakeCounts
  <2>2. CASE \E w \in Workers : Progress(w)
    <3>1. PICK w \in Workers : Progress(w)
      BY <2>2
    <3> QED
      BY <3>1, RecordCounts, FeeCounts, SplitCounts, LetterCounts, FinishCounts
         DEF Progress, Stage
  <2>3. CASE \E w \in Workers : CallFails(w) \/ Die(w)
    BY <2>3, BreakCounts
  <2>4. CASE \E o \in Operators : Replay(o) \/ Resolve(o)
    BY <2>4, ReplayCounts, ResolveCounts
  <2>5. CASE \E e \in Events, s \in Stages, x \in {"resolved", "abandoned"} : MarkByHand(e, s, x)
    BY <2>5, HandCounts
  <2>6. CASE UNCHANGED vars
    BY <2>6, StutterCounts
  <2> QED
    BY <2>1, <2>2, <2>3, <2>4, <2>5, <2>6 DEF Next
<1> QED
  BY <1>1, <1>2, CascadeInductive, PTL DEF Spec

\* An event is billed once, and once more at most for each fault and for each
\* further operator who replays its letter at the same time, for any number of
\* operators, tries and deliveries; no bill has too many splits.
THEOREM BilledPerFaultHolds == Spec => []BilledPerFault
<1>1. CascadeInv /\ CountInv => BilledPerFault
  <2> SUFFICES ASSUME CascadeInv, CountInv, NEW e \in Events
               PROVE  /\ Len(revenue[e]) <= 1 + faults[e]
                            + (IF dlq[e]["commercial"] = "none" THEN 0
                               ELSE Cardinality(Operators) - 1)
                      /\ \A i \in DOMAIN revenue[e] : revenue[e][i] <= Splits
    BY DEF BilledPerFault
  <2>1. CascadeTypeOK /\ BillsOK(e) /\ BillsCounted(e)
    BY DEF CascadeInv, EventOK, CountInv
  <2>2. /\ Len(revenue[e]) \in Nat /\ faults[e] \in Nat
        /\ InlineBills(e) \in {0, 1} /\ ConsumerBills(e) \in {0, 1}
        /\ OperatorBills(e) \in Nat /\ LetterBills(e) \in Int
    BY <2>1, Counts
  <2>3. WorkerBills(e) \in Nat
    BY <2>2 DEF WorkerBills
  <2>4. Means(e) \in Int
    BY <2>2 DEF Means
  <2>5. Len(revenue[e]) + WorkerBills(e) + OperatorBills(e) <= Means(e)
    BY <2>1 DEF BillsCounted, Due
  <2>6. Len(revenue[e]) <= Means(e)
    BY <2>2, <2>3, <2>4, <2>5
  <2> QED
    BY <2>1, <2>6 DEF BillsOK, Means, LetterBills
<1> QED
  BY <1>1, CascadeInductive, BillsAreCounted, PTL
=============================================================================
