------------------------------ MODULE DvpProofs ------------------------------
(***************************************************************************)
(* Theorems on the settlement locks behind the idempotency middleware: what *)
(* a request computes from an old row agrees with the row it writes, and    *)
(* what a caller was told stays true.                                       *)
(***************************************************************************)
EXTENDS SettlementDvp, TLAPS

Steps == {"out", "clean", "find", "handler", "create", "select", "update", "store"}
Answers == [scope : {c.scope : c \in Calls}, body : {c.body : c \in Calls},
            response : Replies, expires : Nat]

DvpTypeOK ==
    /\ clock \in Nat
    /\ rows \in [Cycles -> Locks \cup {None}]
    /\ keys \in [Keys -> Answers \cup {None}]
    /\ call \in [Deliveries -> Calls \cup {None}]
    /\ at \in [Deliveries -> Steps]
    /\ response \in [Deliveries -> Replies \cup {None}]
    /\ read \in [Deliveries -> Locks \cup {None}]

RowOK(c) ==
    (rows[c] # None /\ rows[c].status = "locked")
        => rows[c].confirmed = Legs /\ rows[c].locked_at # None

\* The row of an accepted confirmation has it, and the lock it announced.
Told(r) ==
    (r.status = 200 /\ r.of.body.op \in Legs) =>
        LET row == rows[r.of.body.cycle] IN
        /\ row # None
        /\ r.of.body.op \in row.confirmed
        /\ r.result = "locked" => row.confirmed = Legs /\ row.locked_at # None

\* The row in hand is an older one: it may lack confirmations, and has no others.
ReadOK(d) ==
    /\ read[d] # None /\ rows[Cycle(d)] # None
    /\ read[d].confirmed \subseteq rows[Cycle(d)].confirmed
    /\ Op(d) # "view"

DeliveryOK(d) ==
    /\ at[d] # "out" => call[d] # None
    /\ at[d] \in {"clean", "find", "store"} => call[d].key # None
    /\ at[d] = "store" => response[d] # None
    /\ response[d] # None => response[d].of = call[d] /\ Told(response[d])
    /\ at[d] = "select" => rows[Cycle(d)] # None
    /\ at[d] = "update" => ReadOK(d)

KeyOK(k) ==
    keys[k] # None =>
        LET r == keys[k].response IN
        /\ r.of.key = k /\ r.of.scope = keys[k].scope /\ r.of.body = keys[k].body
        /\ Told(r)

DvpInv ==
    /\ DvpTypeOK
    /\ \A c \in Cycles : RowOK(c)
    /\ \A d \in Deliveries : DeliveryOK(d)
    /\ \A k \in Keys : KeyOK(k)

-----------------------------------------------------------------------------
(* What is told stays true.                                                 *)

\* No row goes, and none loses a confirmation or the time of its lock.
RowsStay ==
    \A c \in Cycles : rows[c] # None =>
        /\ rows'[c] # None
        /\ rows[c].confirmed \subseteq rows'[c].confirmed
        /\ rows[c].locked_at # None => rows'[c].locked_at = rows[c].locked_at

LEMMA ToldStays ==
    ASSUME DvpTypeOK', RowsStay, NEW r \in Replies, Told(r)
    PROVE  Told(r)'
<1> SUFFICES ASSUME r.status = 200, r.of.body.op \in Legs
             PROVE  LET row == rows'[r.of.body.cycle] IN
                    /\ row # None
                    /\ r.of.body.op \in row.confirmed
                    /\ r.result = "locked" => row.confirmed = Legs /\ row.locked_at # None
  BY DEF Told
<1>1. PICK c \in Cycles : c = r.of.body.cycle
  BY DvpAssumption DEF Replies
<1>2. /\ rows[c] # None /\ r.of.body.op \in rows[c].confirmed
      /\ r.result = "locked" => rows[c].confirmed = Legs /\ rows[c].locked_at # None
  BY <1>1 DEF Told
<1>3. /\ rows'[c] # None /\ rows[c].confirmed \subseteq rows'[c].confirmed
      /\ rows[c].locked_at # None => rows'[c].locked_at = rows[c].locked_at
  BY <1>2 DEF RowsStay
<1>4. rows'[c].confirmed \subseteq Legs
  BY <1>3 DEF DvpTypeOK, Locks
<1>5. r.of.body.op \in rows'[c].confirmed
  BY <1>2, <1>3
<1>6. ASSUME r.result = "locked" PROVE rows'[c].confirmed = Legs /\ rows'[c].locked_at # None
  <2>1. rows[c].confirmed = Legs /\ rows[c].locked_at # None
    BY <1>2, <1>6
  <2>2. Legs \subseteq rows'[c].confirmed
    BY <1>3, <2>1
  <2> QED
    BY <1>3, <1>4, <2>1, <2>2
<1> QED
  BY <1>1, <1>3, <1>5, <1>6

\* One delivery moves.
LEMMA OneMoves ==
    ASSUME DvpInv, DvpTypeOK', RowsStay, NEW d \in Deliveries, DeliveryOK(d)',
           \A c \in Cycles : RowOK(c)', \A k \in Keys : KeyOK(k)',
           \A q \in Deliveries \ {d} : /\ call'[q] = call[q] /\ at'[q] = at[q]
                                       /\ response'[q] = response[q] /\ read'[q] = read[q]
    PROVE  DvpInv'
<1>1. ASSUME NEW q \in Deliveries PROVE DeliveryOK(q)'
  <2>1. CASE q = d
    BY <2>1
  <2>2. CASE q # d
    <3>1. /\ call'[q] = call[q] /\ at'[q] = at[q]
          /\ response'[q] = response[q] /\ read'[q] = read[q] /\ DeliveryOK(q)
      BY <2>2 DEF DvpInv
    <3>2. response[q] # None => response[q] \in Replies
      BY DEF DvpInv, DvpTypeOK
    <3>3. response[q] # None => Told(response[q])'
      <4>1. ASSUME response[q] # None PROVE Told(response[q])'
        <5>1. PICK r \in Replies : r = response[q] /\ r = response'[q]
          BY <3>1, <3>2, <4>1
        <5>2. Told(r)
          BY <3>1, <4>1, <5>1 DEF DeliveryOK
        <5>3. Told(r)'
          BY <5>2, ToldStays
        <5> QED
          BY <5>1, <5>3
      <4> QED
        BY <4>1
    <3>4. call[q] # None => Cycle(q) \in Cycles
      BY DvpAssumption DEF DvpInv, DvpTypeOK, Cycle
    <3>5. Cycle(q)' = Cycle(q) /\ Op(q)' = Op(q)
      BY <3>1 DEF Cycle, Op
    <3>6. at[q] = "select" => rows'[Cycle(q)] # None
      BY <3>1, <3>4 DEF DeliveryOK, RowsStay
    <3>7. at[q] = "update" => ReadOK(q)'
      <4> SUFFICES ASSUME at[q] = "update" PROVE ReadOK(q)'
        OBVIOUS
      <4>1. ReadOK(q) /\ Cycle(q) \in Cycles
        BY <3>1, <3>4 DEF DeliveryOK
      <4>2. rows'[Cycle(q)] # None /\ rows[Cycle(q)].confirmed \subseteq rows'[Cycle(q)].confirmed
        BY <4>1 DEF ReadOK, RowsStay
      <4> QED
        BY <3>1, <3>5, <4>1, <4>2 DEF ReadOK
    <3>8. response'[q] # None => response'[q].of = call'[q] /\ Told(response[q])'
      BY <3>1, <3>3 DEF DeliveryOK
    <3> QED
      BY <3>1, <3>5, <3>6, <3>7, <3>8 DEF DeliveryOK
  <2> QED
    BY <2>1, <2>2
<1> QED
  BY <1>1 DEF DvpInv

\* Stored answers stay true, and some may go.
LEMMA KeysStay ==
    ASSUME DvpInv, DvpTypeOK', RowsStay, \A k \in Keys : keys'[k] \in {keys[k], None}
    PROVE  \A k \in Keys : KeyOK(k)'
<1> SUFFICES ASSUME NEW k \in Keys, keys'[k] # None PROVE KeyOK(k)'
  BY DEF KeyOK
<1>1. PICK a \in Answers : a = keys[k] /\ a = keys'[k]
  BY DEF DvpInv, DvpTypeOK
<1>2. PICK r \in Replies : r = a.response
  BY DEF Answers
<1>3. /\ r.of.key = k /\ r.of.scope = a.scope /\ r.of.body = a.body /\ Told(r)
  BY <1>1, <1>2 DEF DvpInv, KeyOK
<1>4. Told(r)'
  BY <1>3, ToldStays
<1> QED
  BY <1>1, <1>2, <1>3, <1>4 DEF KeyOK

LEMMA SameRows ==
    ASSUME DvpInv, UNCHANGED rows
    PROVE  RowsStay /\ \A c \in Cycles : RowOK(c)'
BY DEF DvpInv, RowsStay, RowOK

-----------------------------------------------------------------------------
(* The handler.                                                             *)

\* A delivery under way has a call, and its operation and cycle are known.
LEMMA UnderWay ==
    ASSUME DvpInv, NEW d \in Deliveries, at[d] # "out"
    PROVE  /\ call[d] \in Calls /\ Op(d) \in Legs \cup {"view", "release"} /\ Cycle(d) \in Cycles
           /\ DeliveryOK(d) /\ (call[d].key # None => call[d].key \in Keys)
<1>1. call[d] \in Calls /\ DeliveryOK(d)
  BY DEF DvpInv, DvpTypeOK, DeliveryOK
<1> QED
  BY <1>1, DvpAssumption, IdempotencyAssumption DEF Op, Cycle

\* The handler answers: the reply is of its call, and true.
LEMMA RespondInv ==
    ASSUME DvpInv, NEW d \in Deliveries, at[d] # "out", NEW r \in Replies, r.of = call[d],
           Respond(d, r), UNCHANGED <<clock, keys, call>>,
           rows' \in [Cycles -> Locks \cup {None}], RowsStay, \A c \in Cycles : RowOK(c)',
           Told(r)', read' \in {read, [read EXCEPT ![d] = None]}
    PROVE  DvpInv'
<1> USE IdempotencyAssumption, DvpAssumption
<1>1. call[d] \in Calls
  BY UnderWay
<1>a. ~(r.status >= 500)
  <2>1. r.status \in {200, 403, 409}
    BY DEF Replies
  <2> QED
    BY <2>1
<1>2. response' = [response EXCEPT ![d] = r]
      /\ at' = [at EXCEPT ![d] = IF call[d].key = None THEN "out" ELSE "store"]
  BY <1>a DEF Respond, Go, Give
<1>3. DvpTypeOK'
  BY <1>2 DEF DvpInv, DvpTypeOK, Steps
<1>4. \A q \in Deliveries \ {d} : /\ call'[q] = call[q] /\ at'[q] = at[q]
                                  /\ response'[q] = response[q] /\ read'[q] = read[q]
  BY <1>2 DEF DvpInv, DvpTypeOK
<1>5. response'[d] = r /\ at'[d] = IF call[d].key = None THEN "out" ELSE "store"
  BY <1>2 DEF DvpInv, DvpTypeOK
<1>6. r # None
  BY DEF Replies
<1>7. DeliveryOK(d)'
  BY <1>1, <1>5, <1>6 DEF DeliveryOK
<1>8. \A k \in Keys : KeyOK(k)'
  BY <1>3, KeysStay
<1> QED
  BY <1>3, <1>4, <1>7, <1>8, OneMoves

\* A reply that confirms nothing.
LEMMA RefusalInv ==
    ASSUME DvpInv, NEW d \in Deliveries, at[d] # "out", NEW r \in Replies, r.of = call[d],
           r.status # 200 \/ Op(d) = "view",
           Respond(d, r), UNCHANGED <<clock, keys, call, rows, read>>
    PROVE  DvpInv'
<1>1. Told(r)'
  BY DEF Told, Op, Legs
<1>2. rows' \in [Cycles -> Locks \cup {None}]
  BY DEF DvpInv, DvpTypeOK
<1> QED
  BY <1>1, <1>2, SameRows, RespondInv

\* It goes on to another of its steps.
LEMMA GoOnInv ==
    ASSUME DvpInv, NEW d \in Deliveries, at[d] # "out", NEW s \in {"create", "select", "update"},
           Go(d, s), UNCHANGED <<clock, keys, call, response>>,
           rows' \in [Cycles -> Locks \cup {None}], RowsStay, \A c \in Cycles : RowOK(c)',
           read' \in [Deliveries -> Locks \cup {None}],
           \A q \in Deliveries \ {d} : read'[q] = read[q],
           s = "select" => rows'[Cycle(d)] # None, s = "update" => ReadOK(d)'
    PROVE  DvpInv'
<1>1. at' = [at EXCEPT ![d] = s]
  BY DEF Go
<1>2. DvpTypeOK'
  BY <1>1 DEF DvpInv, DvpTypeOK, Steps
<1>3. \A q \in Deliveries \ {d} : /\ call'[q] = call[q] /\ at'[q] = at[q]
                                  /\ response'[q] = response[q] /\ read'[q] = read[q]
  BY <1>1 DEF DvpInv, DvpTypeOK
<1>4. at'[d] = s /\ call'[d] # None
  BY <1>1, UnderWay, IdempotencyAssumption DEF DvpInv, DvpTypeOK
<1>5. response[d] # None => response[d].of = call[d] /\ Told(response[d])'
  <2>1. ASSUME response[d] # None PROVE response[d].of = call[d] /\ Told(response[d])'
    <3>1. PICK r \in Replies : r = response[d] /\ r = response'[d]
      BY <2>1 DEF DvpInv, DvpTypeOK
    <3>2. r.of = call[d] /\ Told(r)
      BY <2>1, <3>1 DEF DvpInv, DeliveryOK
    <3>3. Told(r)'
      BY <1>2, <3>2, ToldStays
    <3> QED
      BY <3>1, <3>2, <3>3
  <2> QED
    BY <2>1
<1>6. DeliveryOK(d)'
  BY <1>4, <1>5 DEF DeliveryOK, Cycle
<1>7. \A k \in Keys : KeyOK(k)'
  BY <1>2, KeysStay
<1> QED
  BY <1>2, <1>3, <1>6, <1>7, OneMoves

\* With the row in hand.
LEMMA ConsiderInv ==
    ASSUME DvpInv, NEW d \in Deliveries, at[d] # "out", Row(d) # None,
           Consider(d, Row(d)), UNCHANGED <<clock, keys, call, rows>>
    PROVE  DvpInv'
<1>1. /\ call[d] \in Calls /\ Op(d) \in Legs \cup {"view", "release"} /\ Cycle(d) \in Cycles
  BY UnderWay
<1>2. PICK row \in Locks : row = Row(d) /\ row = rows[Cycle(d)]
  BY <1>1 DEF DvpInv, DvpTypeOK, Row
<1>3. \A n \in {200, 409} : Response(n, call[d], row.status) \in Replies
  BY <1>1 DEF Response, Replies, Statuses, Locks
<1>4. \A n \in {200, 409} : LET r == Response(n, call[d], row.status) IN
                            r.status = n /\ r.of = call[d]
  BY DEF Response
<1>5. CASE Op(d) = "view"
  <2>1. Respond(d, Response(200, call[d], row.status)) /\ UNCHANGED read
    BY <1>2, <1>5 DEF Consider
  <2> QED
    BY <1>3, <1>4, <1>5, <2>1, RefusalInv
<1>6. CASE Op(d) # "view" /\ Refused(Op(d), row)
  <2>1. Respond(d, Response(409, call[d], row.status)) /\ UNCHANGED read
    BY <1>2, <1>6 DEF Consider
  <2> QED
    BY <1>3, <1>4, <2>1, RefusalInv
<1>7. CASE Op(d) # "view" /\ ~Refused(Op(d), row)
  <2>1. Go(d, "update") /\ read' = [read EXCEPT ![d] = row] /\ UNCHANGED response
    BY <1>2, <1>7 DEF Consider
  <2>2. /\ read' \in [Deliveries -> Locks \cup {None}] /\ read'[d] = row
        /\ \A q \in Deliveries \ {d} : read'[q] = read[q]
    BY <2>1 DEF DvpInv, DvpTypeOK
  <2>3. ReadOK(d)'
    <3>1. Cycle(d)' = Cycle(d) /\ Op(d)' = Op(d) /\ rows'[Cycle(d)] = row
      BY <1>2 DEF Cycle, Op
    <3>2. row # None
      BY <1>2
    <3> QED
      BY <1>7, <2>2, <3>1, <3>2 DEF ReadOK
  <2>4. rows' \in [Cycles -> Locks \cup {None}]
    BY DEF DvpInv, DvpTypeOK
  <2> QED
    BY <2>1, <2>2, <2>3, <2>4, SameRows, GoOnInv
<1> QED
  BY <1>5, <1>6, <1>7

LEMMA EnterInv == ASSUME DvpInv, NEW d \in Deliveries, Enter(d) PROVE DvpInv'
<1>0. at[d] # "out" /\ UNCHANGED <<clock, keys, call, rows>>
  BY DEF Enter
<1>1. call[d] \in Calls
  BY <1>0, UnderWay
<1>2. CASE ~Allowed(call[d])
  <2>1. Respond(d, Response(403, call[d], "forbidden")) /\ UNCHANGED read
    BY <1>2 DEF Enter
  <2>2. PICK r \in Replies : r = Response(403, call[d], "forbidden")
    BY <1>1 DEF Response, Replies, Statuses
  <2>3. r.status = 403 /\ r.of = call[d]
    BY <2>2 DEF Response
  <2> QED
    BY <1>0, <2>1, <2>2, <2>3, RefusalInv
<1>3. CASE Allowed(call[d]) /\ Row(d) = None
  <2>1. Go(d, "create") /\ UNCHANGED <<response, read>>
    BY <1>3 DEF Enter
  <2>2. rows' \in [Cycles -> Locks \cup {None}] /\ read' \in [Deliveries -> Locks \cup {None}]
    BY <1>0, <2>1 DEF DvpInv, DvpTypeOK
  <2> QED
    BY <1>0, <2>1, <2>2, SameRows, GoOnInv
<1>4. CASE Allowed(call[d]) /\ Row(d) # None
  <2>1. Consider(d, Row(d))
    BY <1>4 DEF Enter
  <2> QED
    BY <1>0, <1>4, <2>1, ConsiderInv
<1> QED
  BY <1>2, <1>3, <1>4

LEMMA CreateInv == ASSUME DvpInv, NEW d \in Deliveries, Create(d) PROVE DvpInv'
<1> USE DvpAssumption
<1>0. at[d] # "out" /\ UNCHANGED <<clock, keys, call, read>>
  BY DEF Create
<1>1. call[d] \in Calls /\ Cycle(d) \in Cycles
  BY <1>0, UnderWay
<1>2. CASE Row(d) = None
  <2>1. rows' = [rows EXCEPT ![Cycle(d)] = Created] /\ Go(d, "select") /\ UNCHANGED response
    BY <1>2 DEF Create, Write
  <2>2. Created \in Locks /\ Created # None /\ Created.status # "locked"
    BY DEF Created, Locks, Statuses
  <2>3. /\ rows' \in [Cycles -> Locks \cup {None}] /\ rows'[Cycle(d)] = Created
        /\ \A c \in Cycles : c # Cycle(d) => rows'[c] = rows[c]
    BY <1>1, <2>1, <2>2 DEF DvpInv, DvpTypeOK
  <2>4. RowsStay
    BY <1>2, <2>3 DEF RowsStay, Row
  <2>5. \A c \in Cycles : RowOK(c)'
    BY <2>2, <2>3 DEF RowOK, DvpInv
  <2>6. read' \in [Deliveries -> Locks \cup {None}]
    BY <1>0 DEF DvpInv, DvpTypeOK
  <2>7. rows'[Cycle(d)] # None
    BY <2>2, <2>3
  <2> HIDE DEF Created
  <2> QED
    BY <1>0, <2>1, <2>3, <2>4, <2>5, <2>6, <2>7, GoOnInv
<1>3. CASE Row(d) # None
  <2>1. Respond(d, Response(409, call[d], "duplicate")) /\ UNCHANGED rows
    BY <1>3 DEF Create
  <2>2. PICK r \in Replies : r = Response(409, call[d], "duplicate")
    BY <1>1 DEF Response, Replies, Statuses
  <2>3. r.status = 409 /\ r.of = call[d]
    BY <2>2 DEF Response
  <2> QED
    BY <1>0, <2>1, <2>2, <2>3, RefusalInv
<1> QED
  BY <1>2, <1>3

LEMMA SelectInv == ASSUME DvpInv, NEW d \in Deliveries, Select(d) PROVE DvpInv'
<1>1. at[d] # "out" /\ Row(d) # None /\ UNCHANGED <<clock, keys, call, rows>>
  BY DEF Select, DvpInv, DeliveryOK, Row
<1> QED
  BY <1>1, ConsiderInv DEF Select

\* The row that is written has what was read and what came since; it is locked
\* only when both legs are in.
LEMMA WrittenRow ==
    ASSUME DvpInv, NEW d \in Deliveries, at[d] = "update",
           NEW status, status = IF Op(d) = "release" THEN "released" ELSE StatusAfter(Op(d), read[d])
    PROVE  LET old == Row(d)  new == Written(d, status) IN
           /\ old \in Locks /\ new \in Locks /\ new.status = status
           /\ old.confirmed \subseteq new.confirmed
           /\ Op(d) \in Legs => Op(d) \in new.confirmed
           /\ old.locked_at # None => new.locked_at = old.locked_at
           /\ status = "locked" => new.confirmed = Legs /\ new.locked_at # None
<1> USE DvpAssumption
<1>1. /\ Op(d) \in Legs \cup {"release"} /\ Cycle(d) \in Cycles /\ ReadOK(d)
      /\ read[d] \in Locks
  BY UnderWay DEF DeliveryOK, ReadOK, DvpInv, DvpTypeOK
<1>2. PICK old \in Locks : old = Row(d) /\ read[d].confirmed \subseteq old.confirmed
  BY <1>1 DEF ReadOK, Row, DvpInv, DvpTypeOK
<1>3. PICK new : new = Written(d, status)
  OBVIOUS
<1>4. new = [old EXCEPT !.status = status,
                        !.confirmed = IF Op(d) \in Legs THEN @ \cup {Op(d)} ELSE @,
                        !.locked_at = IF status = "locked" /\ @ = None THEN clock ELSE @]
  BY <1>2, <1>3 DEF Written
<1>5. /\ new = [status |-> status,
                confirmed |-> IF Op(d) \in Legs THEN old.confirmed \cup {Op(d)} ELSE old.confirmed,
                locked_at |-> IF status = "locked" /\ old.locked_at = None THEN clock
                              ELSE old.locked_at]
  BY <1>4 DEF Locks
<1>6. clock \in Nat /\ clock # None
  BY DEF DvpInv, DvpTypeOK
<1>7. status \in {"cash_in", "energy_in", "locked", "released"}
  BY <1>1 DEF StatusAfter
<1>8. status = "locked" => Op(d) \in Legs /\ read[d].confirmed \cup {Op(d)} = Legs
  BY <1>1 DEF StatusAfter
<1>9. old.confirmed \subseteq Legs /\ old.locked_at \in Nat \cup {None}
  BY DEF Locks
<1>10. new \in Locks
  BY <1>5, <1>6, <1>7, <1>9 DEF Locks, Statuses
<1>11. status = "locked" => new.confirmed = Legs /\ new.locked_at # None
  BY <1>2, <1>5, <1>6, <1>8, <1>9
<1>12. /\ new.status = status /\ old.confirmed \subseteq new.confirmed
       /\ Op(d) \in Legs => Op(d) \in new.confirmed
       /\ old.locked_at # None => new.locked_at = old.locked_at
  BY <1>5
<1> QED
  BY <1>2, <1>3, <1>10, <1>11, <1>12

LEMMA UpdateInv == ASSUME DvpInv, NEW d \in Deliveries, Update(d) PROVE DvpInv' /\ RowsStay
<1> USE DvpAssumption
<1>0. at[d] = "update" /\ UNCHANGED <<clock, keys, call>>
      /\ read' = [read EXCEPT ![d] = None]
  BY DEF Update
<1>1. call[d] \in Calls /\ Cycle(d) \in Cycles /\ Op(d) \in Legs \cup {"view", "release"}
  BY <1>0, UnderWay
<1>2. PICK status : status = IF Op(d) = "release" THEN "released" ELSE StatusAfter(Op(d), read[d])
  OBVIOUS
<1>3. PICK new : new = Written(d, status)
  OBVIOUS
<1>4. /\ rows[Cycle(d)] \in Locks /\ new \in Locks /\ new.status = status
      /\ rows[Cycle(d)].confirmed \subseteq new.confirmed
      /\ Op(d) \in Legs => Op(d) \in new.confirmed
      /\ rows[Cycle(d)].locked_at # None => new.locked_at = rows[Cycle(d)].locked_at
      /\ status = "locked" => new.confirmed = Legs /\ new.locked_at # None
  BY <1>0, <1>2, <1>3, WrittenRow DEF Row
<1>5. rows' = [rows EXCEPT ![Cycle(d)] = new] /\ Respond(d, Response(200, call[d], status))
  BY <1>2, <1>3 DEF Update, Write
<1>6. /\ rows' \in [Cycles -> Locks \cup {None}] /\ rows'[Cycle(d)] = new
      /\ \A c \in Cycles : c # Cycle(d) => rows'[c] = rows[c]
  BY <1>1, <1>4, <1>5 DEF DvpInv, DvpTypeOK
<1>7. new # None
  BY <1>4
<1>8. RowsStay
  BY <1>4, <1>6, <1>7 DEF RowsStay
<1>9. \A c \in Cycles : RowOK(c)'
  BY <1>4, <1>6 DEF RowOK, DvpInv
<1>10. PICK r \in Replies : r = Response(200, call[d], status)
  BY <1>1, <1>4 DEF Response, Replies, Statuses, Locks
<1>11. r.status = 200 /\ r.of = call[d] /\ r.result = status
  BY <1>10 DEF Response
<1>12. Told(r)'
  BY <1>4, <1>6, <1>7, <1>11 DEF Told, Op, Cycle
<1>13. Respond(d, r) /\ at[d] # "out" /\ read' \in {read, [read EXCEPT ![d] = None]}
  BY <1>0, <1>5, <1>10
<1>14. DvpInv'
  BY <1>0, <1>6, <1>8, <1>9, <1>11, <1>12, <1>13, RespondInv
<1> QED
  BY <1>8, <1>14

-----------------------------------------------------------------------------
(* The middleware.                                                          *)

\* What the composition adds to a step of the middleware.
Aside(d) ==
    rows' = rows /\ read' = IF at'[d] = "out" THEN [read EXCEPT ![d] = None] ELSE read

\* A step of the middleware that leaves the stored answers, or drops some.
LEMMA PassInv ==
    ASSUME DvpInv, NEW d \in Deliveries, NEW s \in Steps \ {"update", "select"}, Go(d, s), Aside(d),
           clock' \in Nat, NEW c \in Calls, call' = [call EXCEPT ![d] = c],
           NEW r \in Replies \cup {None}, response' = [response EXCEPT ![d] = r],
           keys' \in [Keys -> Answers \cup {None}], \A k \in Keys : keys'[k] \in {keys[k], None},
           s \in {"clean", "find", "store"} => c.key # None, s = "store" => r # None,
           r # None => r.of = c /\ Told(r)
    PROVE  DvpInv'
<1> USE IdempotencyAssumption
<1>1. at' = [at EXCEPT ![d] = s]
  BY DEF Go
<1>2. DvpTypeOK'
  BY <1>1 DEF DvpInv, DvpTypeOK, Aside
<1>3. \A q \in Deliveries \ {d} : /\ call'[q] = call[q] /\ at'[q] = at[q]
                                  /\ response'[q] = response[q] /\ read'[q] = read[q]
  BY <1>1 DEF DvpInv, DvpTypeOK, Aside
<1>4. at'[d] = s /\ call'[d] = c /\ response'[d] = r /\ c # None
  BY <1>1 DEF DvpInv, DvpTypeOK
<1>5. RowsStay /\ \A b \in Cycles : RowOK(b)'
  BY SameRows DEF Aside
<1>6. r # None => Told(r)'
  BY <1>2, <1>5, ToldStays
<1>7. DeliveryOK(d)'
  BY <1>4, <1>6 DEF DeliveryOK
<1>8. \A k \in Keys : KeyOK(k)'
  BY <1>2, <1>5, KeysStay
<1> QED
  BY <1>2, <1>3, <1>5, <1>7, <1>8, OneMoves

\* One that ends the delivery, or hands it to the handler.
LEMMA LeaveInv ==
    ASSUME DvpInv, NEW d \in Deliveries, NEW s \in {"out", "handler"}, Go(d, s), Aside(d),
           clock' \in Nat, NEW c \in Calls, call' = [call EXCEPT ![d] = c],
           NEW r \in Replies \cup {None}, response' = [response EXCEPT ![d] = r],
           keys' \in [Keys -> Answers \cup {None}], \A k \in Keys : keys'[k] \in {keys[k], None},
           r # None => r.of = c /\ Told(r)
    PROVE  DvpInv'
<1>1. s \in Steps \ {"update", "select"} /\ s \notin {"clean", "find", "store"}
  BY DEF Steps
<1> QED
  BY <1>1, PassInv

\* The call and the response of a delivery under way.
LEMMA InHand ==
    ASSUME DvpInv, NEW d \in Deliveries, at[d] # "out"
    PROVE  /\ call = [call EXCEPT ![d] = call[d]]
           /\ response = [response EXCEPT ![d] = response[d]]
           /\ response[d] \in Replies \cup {None}
           /\ response[d] # None => response[d].of = call[d] /\ Told(response[d])
           /\ keys \in [Keys -> Answers \cup {None}] /\ clock \in Nat
BY DEF DvpInv, DvpTypeOK, DeliveryOK

LEMMA DeliverInv == ASSUME DvpInv, NEW d \in Deliveries, Deliver(d), Aside(d) PROVE DvpInv'
<1>1. PICK c \in Calls : /\ call' = [call EXCEPT ![d] = c]
                         /\ Go(d, IF c.key = None THEN "handler" ELSE "clean")
  BY DEF Deliver
<1>2. UNCHANGED <<clock, keys>> /\ response' = [response EXCEPT ![d] = None]
  BY DEF Deliver, Give
<1>3. /\ clock' \in Nat /\ keys' \in [Keys -> Answers \cup {None}]
      /\ \A k \in Keys : keys'[k] \in {keys[k], None}
  BY <1>2 DEF DvpInv, DvpTypeOK
<1>4. PICK s \in Steps \ {"update", "select"} :
           s = IF c.key = None THEN "handler" ELSE "clean"
  BY DEF Steps
<1> QED
  BY <1>1, <1>2, <1>3, <1>4, PassInv

LEMMA CleanInv == ASSUME DvpInv, NEW d \in Deliveries, Clean(d), Aside(d) PROVE DvpInv'
<1>1. at[d] = "clean" /\ Go(d, "find") /\ UNCHANGED <<clock, call, response>>
  BY DEF Clean
<1>2. /\ keys' \in [Keys -> Answers \cup {None}]
      /\ \A k \in Keys : keys'[k] \in {keys[k], None}
  BY DEF Clean, DvpInv, DvpTypeOK
<1>3. call[d] \in Calls /\ call[d].key # None
  BY <1>1, UnderWay DEF DeliveryOK
<1>4. PICK s \in Steps \ {"update", "select"} : s = "find"
  BY DEF Steps
<1>5. PICK r \in Replies \cup {None} : r = response[d]
  BY <1>1, InHand
<1> QED
  BY <1>1, <1>2, <1>3, <1>4, <1>5, InHand, PassInv

\* An answer that is replayed is of the call that is made.
LEMMA ReplayOwn ==
    ASSUME DvpInv, NEW d \in Deliveries, at[d] = "find", keys[call[d].key] # None,
           keys[call[d].key].scope = call[d].scope, keys[call[d].key].body = call[d].body
    PROVE  /\ keys[call[d].key].response \in Replies
           /\ keys[call[d].key].response.of = call[d]
           /\ Told(keys[call[d].key].response)
<1>1. call[d] \in Calls /\ call[d].key \in Keys
  BY UnderWay DEF DeliveryOK
<1>2. PICK a \in Answers : a = keys[call[d].key]
  BY <1>1 DEF DvpInv, DvpTypeOK
<1>3. PICK r \in Replies : r = a.response
  BY DEF Answers
<1>4. KeyOK(call[d].key)
  BY <1>1 DEF DvpInv
<1>5. /\ r.of.key = call[d].key /\ r.of.scope = call[d].scope /\ r.of.body = call[d].body
      /\ Told(r)
  BY <1>2, <1>3, <1>4 DEF KeyOK
<1>6. r.of \in Calls
  BY DEF Replies
<1>7. r.of = call[d]
  BY <1>1, <1>5, <1>6, IdempotencyAssumption
<1> QED
  BY <1>2, <1>3, <1>5, <1>7

LEMMA FindInv == ASSUME DvpInv, NEW d \in Deliveries, Find(d), Aside(d) PROVE DvpInv'
<1>0. at[d] = "find" /\ UNCHANGED <<clock, keys, call>>
  BY DEF Find
<1>1. PICK c \in Calls : c = call[d] /\ call' = [call EXCEPT ![d] = c]
  BY <1>0, UnderWay, InHand
<1>2. /\ clock' \in Nat /\ keys' \in [Keys -> Answers \cup {None}]
      /\ \A k \in Keys : keys'[k] \in {keys[k], None}
  BY <1>0 DEF DvpInv, DvpTypeOK
<1>3. CASE keys[c.key] = None
  <2>1. Go(d, "handler") /\ response' = response
    BY <1>1, <1>3 DEF Find
  <2>2. PICK s \in {"out", "handler"} : s = "handler"
    OBVIOUS
  <2>3. PICK r \in Replies \cup {None} : r = response[d]
    BY <1>0, InHand
  <2>4. /\ response' = [response EXCEPT ![d] = r]
        /\ r # None => r.of = c /\ Told(r)
    BY <1>0, <1>1, <2>1, <2>3, InHand
  <2> QED
    BY <1>1, <1>2, <2>1, <2>2, <2>4, LeaveInv
<1>4. CASE keys[c.key] # None
  <2>1. PICK r \in Replies :
             /\ Go(d, "out") /\ response' = [response EXCEPT ![d] = r]
             /\ r.of = c /\ Told(r)
    <3>1. CASE keys[c.key].scope # c.scope \/ keys[c.key].body # c.body
      <4>1. Go(d, "out") /\ response' = [response EXCEPT ![d] = Response(409, c, "key")]
        BY <1>1, <1>4, <3>1 DEF Find, Answer, Give
      <4>2. PICK r \in Replies : r = Response(409, c, "key")
        BY DEF Response, Replies
      <4>3. r.status = 409 /\ r.of = c
        BY <4>2 DEF Response
      <4> QED
        <5>1. Told(r)
          BY <4>3 DEF Told
        <5> QED
          BY <4>1, <4>2, <4>3, <5>1
    <3>2. CASE keys[c.key].scope = c.scope /\ keys[c.key].body = c.body
      <4>1. Go(d, "out") /\ response' = [response EXCEPT ![d] = keys[c.key].response]
        BY <1>1, <1>4, <3>2 DEF Find, Answer, Give
      <4> QED
        BY <1>0, <1>1, <1>4, <3>2, <4>1, ReplayOwn
    <3> QED
      BY <3>1, <3>2
  <2>2. PICK s \in {"out", "handler"} : s = "out"
    OBVIOUS
  <2> QED
    BY <1>1, <1>2, <2>1, <2>2, LeaveInv
<1> QED
  BY <1>3, <1>4

LEMMA DieInv == ASSUME DvpInv, NEW d \in Deliveries, Die(d), Aside(d) PROVE DvpInv'
<1>0. at[d] # "out" /\ UNCHANGED <<clock, keys, call>>
      /\ Go(d, "out") /\ response' = [response EXCEPT ![d] = None]
  BY DEF Die, Answer, Give
<1>1. PICK c \in Calls : c = call[d] /\ call' = [call EXCEPT ![d] = c]
  BY <1>0, UnderWay, InHand
<1>2. /\ clock' \in Nat /\ keys' \in [Keys -> Answers \cup {None}]
      /\ \A k \in Keys : keys'[k] \in {keys[k], None}
  BY <1>0 DEF DvpInv, DvpTypeOK
<1>3. PICK s \in {"out", "handler"} : s = "out"
  OBVIOUS
<1> QED
  BY <1>0, <1>1, <1>2, <1>3, LeaveInv

\* The first answer of a key is stored.
LEMMA StoreInv == ASSUME DvpInv, NEW d \in Deliveries, Store(d), Aside(d) PROVE DvpInv'
<1> USE IdempotencyAssumption
<1>0. at[d] = "store" /\ Go(d, "out") /\ UNCHANGED <<clock, call, response>>
  BY DEF Store
<1>1. PICK c \in Calls : c = call[d] /\ c.key \in Keys
  BY <1>0, UnderWay DEF DeliveryOK
<1>2. PICK r \in Replies : r = response[d] /\ r.of = c /\ Told(r)
  BY <1>0, <1>1, UnderWay, InHand DEF DeliveryOK
<1>3. CASE keys' = keys
  <2>1. /\ clock' \in Nat /\ keys' \in [Keys -> Answers \cup {None}]
        /\ \A k \in Keys : keys'[k] \in {keys[k], None}
    BY <1>0, <1>3 DEF DvpInv, DvpTypeOK
  <2>2. call' = [call EXCEPT ![d] = c] /\ response' = [response EXCEPT ![d] = r]
    BY <1>0, <1>1, <1>2, InHand
  <2>3. PICK s \in {"out", "handler"} : s = "out"
    OBVIOUS
  <2> QED
    BY <1>0, <1>2, <2>1, <2>2, <2>3, LeaveInv
<1>4. CASE keys' # keys
  <2>1. keys' = [keys EXCEPT ![c.key] = [scope |-> c.scope, body |-> c.body, response |-> r,
                                         expires |-> clock + Ttl]]
    BY <1>1, <1>2, <1>4 DEF Store
  <2>2. PICK a \in Answers : a = [scope |-> c.scope, body |-> c.body, response |-> r,
                                  expires |-> clock + Ttl]
    <3>1. clock + Ttl \in Nat
      BY DEF DvpInv, DvpTypeOK
    <3> QED
      BY <3>1 DEF Answers
  <2>3. /\ keys' \in [Keys -> Answers \cup {None}] /\ keys'[c.key] = a
        /\ \A k \in Keys : k # c.key => keys'[k] = keys[k]
    BY <1>1, <2>1, <2>2 DEF DvpInv, DvpTypeOK
  <2>4. at' = [at EXCEPT ![d] = "out"] /\ rows' = rows /\ read' = [read EXCEPT ![d] = None]
    BY <1>0 DEF Go, Aside, DvpInv, DvpTypeOK
  <2>5. DvpTypeOK'
    BY <1>0, <2>3, <2>4 DEF DvpInv, DvpTypeOK, Steps
  <2>6. RowsStay /\ \A b \in Cycles : RowOK(b)'
    BY <2>4, SameRows
  <2>7. \A q \in Replies : Told(q) => Told(q)'
    BY <2>5, <2>6, ToldStays
  <2>8. \A k \in Keys : KeyOK(k)'
    <3> SUFFICES ASSUME NEW k \in Keys, keys'[k] # None PROVE KeyOK(k)'
      BY DEF KeyOK
    <3>1. CASE k = c.key
      <4>1. a.response = r /\ a.scope = c.scope /\ a.body = c.body
        BY <2>2
      <4> QED
        BY <1>2, <2>3, <2>7, <3>1, <4>1 DEF KeyOK
    <3>2. CASE k # c.key
      <4>1. PICK b \in Answers : b = keys[k] /\ b = keys'[k]
        BY <2>3, <3>2 DEF DvpInv, DvpTypeOK
      <4>2. PICK q \in Replies : q = b.response
        BY DEF Answers
      <4>3. /\ q.of.key = k /\ q.of.scope = b.scope /\ q.of.body = b.body /\ Told(q)
        BY <4>1, <4>2 DEF DvpInv, KeyOK
      <4> QED
        BY <2>7, <4>1, <4>2, <4>3 DEF KeyOK
    <3> QED
      BY <3>1, <3>2
  <2>9. \A q \in Deliveries \ {d} : /\ call'[q] = call[q] /\ at'[q] = at[q]
                                    /\ response'[q] = response[q] /\ read'[q] = read[q]
    BY <1>0, <2>4 DEF DvpInv, DvpTypeOK
  <2>10. DeliveryOK(d)'
    <3>1. at'[d] = "out" /\ response'[d] = r /\ call'[d] = c
      BY <1>0, <1>1, <1>2, <2>4 DEF DvpInv, DvpTypeOK
    <3> QED
      BY <1>2, <2>7, <3>1 DEF DeliveryOK
  <2> QED
    BY <2>5, <2>6, <2>8, <2>9, <2>10, OneMoves
<1> QED
  BY <1>3, <1>4

-----------------------------------------------------------------------------
(* The invariant is inductive, and no step takes a row back.                *)

LEMMA InitInv == Init => DvpInv
BY DEF Init, MwInit, DvpInv, DvpTypeOK, Steps, RowOK, DeliveryOK, KeyOK

\* Nothing that the invariant is about but the clock.
LEMMA StillInv ==
    ASSUME DvpInv, clock' \in Nat, UNCHANGED <<keys, call, at, response, rows, read>>
    PROVE  DvpInv'
<1>1. DvpTypeOK'
  BY DEF DvpInv, DvpTypeOK
<1>2. \A c \in Cycles : RowOK(c)'
  BY DEF DvpInv, RowOK
<1>3. \A d \in Deliveries : DeliveryOK(d)'
  BY DEF DvpInv, DeliveryOK, Told, ReadOK, Cycle, Op
<1>4. \A k \in Keys : KeyOK(k)'
  BY DEF DvpInv, KeyOK, Told
<1> QED
  BY <1>1, <1>2, <1>3, <1>4 DEF DvpInv

LEMMA NextInv == DvpInv /\ [Next]_vars => DvpInv' /\ RowsStay
<1> SUFFICES ASSUME DvpInv, [Next]_vars PROVE DvpInv' /\ RowsStay
  OBVIOUS
<1> USE IdempotencyAssumption
<1>1. ASSUME NEW d \in Deliveries, Handler(d) PROVE DvpInv' /\ RowsStay
  <2>1. CASE Enter(d)
    BY <2>1, EnterInv, SameRows DEF Enter
  <2>2. CASE Create(d)
    <3>1. RowsStay
      BY <2>2, UnderWay, DvpAssumption
         DEF Create, Write, Row, Created, RowsStay, DvpInv, DvpTypeOK
    <3> QED
      BY <2>2, <3>1, CreateInv
  <2>3. CASE Select(d)
    BY <2>3, SelectInv, SameRows DEF Select
  <2>4. CASE Update(d)
    BY <2>4, UpdateInv
  <2> QED
    BY <1>1, <2>1, <2>2, <2>3, <2>4 DEF Handler
<1>2. ASSUME NEW d \in Deliveries, Middleware(d), Aside(d) PROVE DvpInv' /\ RowsStay
  <2>1. RowsStay
    BY <1>2, SameRows DEF Aside
  <2> QED
    BY <1>2, <2>1, DeliverInv, CleanInv, FindInv, StoreInv, DieInv DEF Middleware
<1>3. CASE Tick /\ UNCHANGED <<rows, read>>
  <2>1. clock' \in Nat
    BY <1>3 DEF Tick, DvpInv, DvpTypeOK
  <2> QED
    BY <1>3, <2>1, StillInv, SameRows DEF Tick
<1>4. CASE UNCHANGED vars
  <2>1. clock' \in Nat
    BY <1>4 DEF vars, mw_vars, DvpInv, DvpTypeOK
  <2> QED
    BY <1>4, <2>1, StillInv, SameRows DEF vars, mw_vars
<1> QED
  BY <1>1, <1>2, <1>3, <1>4 DEF Next, Aside

LEMMA InvHolds == Spec => []DvpInv
<1>1. Init => DvpInv
  BY InitInv
<1>2. DvpInv /\ [Next]_vars => DvpInv'
  BY NextInv
<1> QED
  BY <1>1, <1>2, PTL DEF Spec

\* A cycle that reads locked has both legs and a time, however many requests
\* write what they computed from older rows.
THEOREM LockedMeansBothHolds == Spec => []LockedMeansBoth
<1>1. DvpInv => LockedMeansBoth
  BY DEF DvpInv, RowOK, LockedMeansBoth
<1> QED
  BY <1>1, InvHolds, PTL

\* No confirmation is taken back, and the time of the first lock stays.
THEOREM ConfirmationsStayHolds == Spec => ConfirmationsStay
<1>1. DvpInv /\ [Next]_vars =>
        [\A c \in Cycles : rows[c] # None =>
          /\ rows'[c] # None
          /\ rows[c].confirmed \subseteq rows'[c].confirmed
          /\ rows[c].locked_at # None => rows'[c].locked_at = rows[c].locked_at]_vars
  BY NextInv DEF RowsStay
<1> QED
  BY <1>1, InvHolds, PTL DEF Spec, ConfirmationsStay

\* Whatever answer a caller holds, or a key will give, about a confirmation is
\* true of the row.
THEOREM ToldIsTrueHolds == Spec => []ToldIsTrue
<1>1. DvpInv => ToldIsTrue
  <2> SUFFICES ASSUME DvpInv,
                      NEW r \in {response[d] : d \in Deliveries}
                            \cup {keys[k].response : k \in {k \in Keys : keys[k] # None}},
                      r # None, r.status = 200, r.of.body.op \in Legs
               PROVE  LET row == rows[r.of.body.cycle] IN
                      /\ r.of.body.op \in row.confirmed
                      /\ r.result = "locked" => row.confirmed = Legs /\ row.locked_at # None
    BY DEF ToldIsTrue
  <2>1. Told(r)
    BY DEF DvpInv, DeliveryOK, KeyOK
  <2> QED
    BY <2>1 DEF Told
<1> QED
  BY <1>1, InvHolds, PTL

\* Nobody is given the answer of another call, whichever delivery of a key was
\* stored.
THEOREM AnswerIsOwnHolds == Spec => []AnswerIsOwn
<1>1. DvpInv => AnswerIsOwn
  BY DEF DvpInv, DeliveryOK, AnswerIsOwn
<1> QED
  BY <1>1, InvHolds, PTL

\* A later time is not on an earlier day.
LEMMA DaysInOrder ==
    ASSUME NEW a \in Nat, NEW b \in Nat, a <= b
    PROVE  ~DatePassed(b, a)
<1>1. DayLength \in Nat \ {0}
  BY IdempotencyAssumption
<1>2. a \div DayLength <= b \div DayLength
  BY <1>1
<1>3. a \div DayLength \in Nat /\ b \div DayLength \in Nat
  BY <1>1
<1> QED
  BY <1>2, <1>3 DEF DatePassed

\* A key has one answer until it expires: the clean-up takes none before, and
\* of two first deliveries the first to store stays.
THEOREM AnswerStaysHolds == Spec => AnswerStays
<1>1. DvpInv /\ [Next]_vars =>
        [\A k \in Keys : (keys[k] # None /\ clock <= keys[k].expires) => keys'[k] = keys[k]]_vars
  <2> SUFFICES ASSUME DvpInv, [Next]_vars, NEW k \in Keys, keys[k] # None,
                      clock <= keys[k].expires
               PROVE  keys'[k] = keys[k]
    OBVIOUS
  <2>1. ~DatePassed(keys[k].expires, clock)
    <3>1. keys[k].expires \in Nat /\ clock \in Nat
      BY DEF DvpInv, DvpTypeOK, Answers
    <3> QED
      BY <3>1, DaysInOrder
  <2>2. CASE keys' = keys
    BY <2>2
  <2>3. ASSUME NEW d \in Deliveries, Clean(d) PROVE keys'[k] = keys[k]
    BY <2>1, <2>3 DEF Clean
  <2>4. ASSUME NEW d \in Deliveries, Store(d) PROVE keys'[k] = keys[k]
    <3>1. call[d].key \in Keys
      BY <2>4, UnderWay DEF Store, DeliveryOK
    <3> QED
      BY <2>4, <3>1 DEF Store, DvpInv, DvpTypeOK
  <2> QED
    BY <2>2, <2>3, <2>4 DEF Next, Handler, Enter, Create, Select, Update, Middleware, Deliver,
       Find, Die, Tick, vars, mw_vars
<1> QED
  BY <1>1, InvHolds, PTL DEF Spec, AnswerStays
=============================================================================
