---------------------------- MODULE SettlementDvp ----------------------------
(***************************************************************************)
(* routes/settlement-dvp.ts behind the idempotency middleware: one row per  *)
(* settlement cycle, two legs to confirm, an administrator's release.  Each *)
(* request reads the row (creating it if need be), and writes what follows  *)
(* from what it read; requests interleave between the two.                  *)
(***************************************************************************)
EXTENDS Idempotency

CONSTANTS
    Cycles,
    Readers, Confirmers, Releasers   \* scopes with READ_, CONFIRM_, RELEASE_ROLES

Legs == {"cash", "energy"}

\* Rows, and answers with what tells them apart.
Statuses == {"open", "cash_in", "energy_in", "locked", "released"}
Locks == [status : Statuses, confirmed : SUBSET Legs, locked_at : Nat \cup {None}]
Replies == [status : {200, 403, 409}, of : Calls,
            result : Statuses \cup {"forbidden", "duplicate", "key"}]

ASSUME DvpAssumption ==
    /\ \A c \in Calls : /\ c.body.op \in Legs \cup {"view", "release"}
                        /\ c.body.cycle \in Cycles
                        /\ c.body.op = "view" => c.key = None
    /\ None \notin Nat \cup Locks \cup Replies

VARIABLES
    rows,   \* settlement_dvp_locks by cycle_id
    read    \* of each delivery: the row its handler has read

vars == <<mw_vars, rows, read>>

Created == [status |-> "open", confirmed |-> {}, locked_at |-> None]

Init ==
    /\ MwInit
    /\ rows = [c \in Cycles |-> None]
    /\ read = [d \in Deliveries |-> None]

Op(d) == call[d].body.op
Cycle(d) == call[d].body.cycle
Row(d) == rows[Cycle(d)]
Write(d, row) == rows' = [rows EXCEPT ![Cycle(d)] = row]

Allowed(c) ==
    c.scope \in CASE c.body.op = "view" -> Readers
                  [] c.body.op = "release" -> Releasers
                  [] OTHER -> Confirmers

\* What the checks on a row that was read refuse.
Refused(op, row) ==
    \/ op \in Legs /\ row.status \in {"locked", "released"}
    \/ op = "release" /\ row.status = "released"

\* With a row in hand: GET answers it, a check refuses, or the UPDATE is next.
Consider(d, row) ==
    IF Op(d) = "view" THEN Respond(d, Response(200, call[d], row.status)) /\ UNCHANGED read
    ELSE IF Refused(Op(d), row)
         THEN Respond(d, Response(409, call[d], row.status)) /\ UNCHANGED read
    ELSE /\ Go(d, "update")
         /\ read' = [read EXCEPT ![d] = row]
         /\ UNCHANGED response

\* The role check, and ensureLockRow's first SELECT.
Enter(d) ==
    /\ at[d] = "handler"
    /\ IF ~Allowed(call[d])
       THEN Respond(d, Response(403, call[d], "forbidden")) /\ UNCHANGED read
       ELSE IF Row(d) = None THEN Go(d, "create") /\ UNCHANGED <<response, read>>
       ELSE Consider(d, Row(d))
    /\ UNCHANGED <<clock, keys, call, rows>>

\* INSERT: cycle_id is the primary key, and the error handler turns the
\* violation into a 409.
Create(d) ==
    /\ at[d] = "create"
    /\ IF Row(d) = None
       THEN Write(d, Created) /\ Go(d, "select") /\ UNCHANGED response
       ELSE Respond(d, Response(409, call[d], "duplicate")) /\ UNCHANGED rows
    /\ UNCHANGED <<clock, keys, call, read>>

Select(d) ==
    /\ at[d] = "select"
    /\ Consider(d, Row(d))
    /\ UNCHANGED <<clock, keys, call, rows>>

\* Mutant: the other leg counts as confirmed once the row is not open.
StatusEager(leg, row) ==
    IF row.status # "open" THEN "locked"
    ELSE IF leg = "cash" THEN "cash_in" ELSE "energy_in"

\* nextStatusAfter, for a row that is neither locked nor released.
StatusAfter(leg, row) ==
    IF row.confirmed \cup {leg} = Legs THEN "locked"
    ELSE IF leg = "cash" THEN "cash_in" ELSE "energy_in"

\* Mutants: locked_at is written as it is computed; the whole row is written
\* back as it was read.
WrittenStamping(d, status) ==
    [Row(d) EXCEPT !.status = status,
                   !.confirmed = IF Op(d) \in Legs THEN @ \cup {Op(d)} ELSE @,
                   !.locked_at = IF status = "locked" THEN clock ELSE @]
WrittenWhole(d, status) ==
    [read[d] EXCEPT !.status = status,
                    !.confirmed = IF Op(d) \in Legs THEN @ \cup {Op(d)} ELSE @]

\* The columns an UPDATE sets: the other leg's are left alone, and
\* locked_at = COALESCE(locked_at, ?).
Written(d, status) ==
    [Row(d) EXCEPT !.status = status,
                   !.confirmed = IF Op(d) \in Legs THEN @ \cup {Op(d)} ELSE @,
                   !.locked_at = IF status = "locked" /\ @ = None THEN clock ELSE @]

\* UPDATE ... WHERE cycle_id = ?, with the status that follows from what was
\* read.
Update(d) ==
    /\ at[d] = "update"
    /\ LET status == IF Op(d) = "release" THEN "released" ELSE StatusAfter(Op(d), read[d]) IN
       /\ Write(d, Written(d, status))
       /\ Respond(d, Response(200, call[d], status))
    /\ read' = [read EXCEPT ![d] = None]
    /\ UNCHANGED <<clock, keys, call>>

Handler(d) == Enter(d) \/ Create(d) \/ Select(d) \/ Update(d)

Next ==
    \/ \E d \in Deliveries : Handler(d)
    \/ \E d \in Deliveries :
          /\ Middleware(d)
          /\ rows' = rows
          /\ read' = IF at'[d] = "out" THEN [read EXCEPT ![d] = None] ELSE read
    \/ Tick /\ UNCHANGED <<rows, read>>

Spec == Init /\ [][Next]_vars

-----------------------------------------------------------------------------
(* Properties.                                                              *)

\* Delivery versus payment: a cycle that reads locked has both legs confirmed,
\* and a time at which it was locked, although the status comes from a row that
\* other confirmations and a release have changed since.
LockedMeansBoth ==
    \A c \in Cycles : (rows[c] # None /\ rows[c].status = "locked") =>
        rows[c].confirmed = Legs /\ rows[c].locked_at # None

\* A row once locked keeps the time of its first lock, and no confirmation is
\* taken back, however late a request writes what it computed.
ConfirmationsStay ==
    [][\A c \in Cycles : rows[c] # None =>
          /\ rows'[c] # None
          /\ rows[c].confirmed \subseteq rows'[c].confirmed
          /\ rows[c].locked_at # None => rows'[c].locked_at = rows[c].locked_at]_vars

\* A confirmation that anyone was told of, first hand or from the stored
\* answer of a key, is in the row, and so is the lock it announced.
ToldIsTrue ==
    \A r \in {response[d] : d \in Deliveries}
             \cup {keys[k].response : k \in {k \in Keys : keys[k] # None}} :
        (r # None /\ r.status = 200 /\ r.of.body.op \in Legs) =>
            LET row == rows[r.of.body.cycle] IN
            /\ r.of.body.op \in row.confirmed
            /\ r.result = "locked" => row.confirmed = Legs /\ row.locked_at # None

\* Nobody is given the answer of another call: of another caller's, or of one
\* with another body, whichever delivery of a key stores first.
AnswerIsOwn ==
    \A d \in Deliveries : response[d] # None => response[d].of = call[d]

\* For the life of a key its answer is one, also when two first deliveries ran.
AnswerStays ==
    [][\A k \in Keys : (keys[k] # None /\ clock <= keys[k].expires) => keys'[k] = keys[k]]_vars
=============================================================================
