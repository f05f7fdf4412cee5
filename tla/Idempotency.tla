----------------------------- MODULE Idempotency -----------------------------
(***************************************************************************)
(* middleware/idempotency.ts: a write that carries an Idempotency-Key is    *)
(* answered from the stored response of its key, or runs its handler and    *)
(* stores the response.  Nothing is reserved in between: the key is looked  *)
(* up before the handler and stored after it.  Each action is one awaited   *)
(* call; the handler belongs to the module that extends this one.           *)
(***************************************************************************)
EXTENDS Naturals

CONSTANTS
    Deliveries,  \* requests in flight: a client's call, or its retry
    Keys,
    Calls,       \* the calls clients make: key (or None), scope, body
    None,
    Ttl,         \* TTL_HOURS
    DayLength,   \* units of the clock in a day of UTC
    MaxTime      \* bound: the clock

ASSUME IdempotencyAssumption ==
    /\ \A c \in Calls : c.key \in Keys \cup {None}
    /\ \A b, c \in Calls : (b.key = c.key /\ b.scope = c.scope /\ b.body = c.body) => b = c
    /\ None \notin Keys \cup Calls
    /\ DayLength \in Nat \ {0} /\ Ttl \in Nat /\ MaxTime \in Nat

VARIABLES
    clock,
    keys,      \* idempotency_keys by key
    call,      \* of each delivery: the call it carries
    at,        \* and its step
    response   \* the response it is about to store, or gave

mw_vars == <<clock, keys, call, at, response>>

\* A response has a status and says of which call it is the answer (of: not in
\* the code; it tells apart what the bodies tell apart).
Response(status, c, result) == [status |-> status, of |-> c, result |-> result]

MwInit ==
    /\ clock = 0
    /\ keys = [k \in Keys |-> None]
    /\ call = [d \in Deliveries |-> None]
    /\ at = [d \in Deliveries |-> "out"]
    /\ response = [d \in Deliveries |-> None]

Go(d, step) == at' = [at EXCEPT ![d] = step]
Give(d, r) == response' = [response EXCEPT ![d] = r]
Answer(d, r) == Go(d, "out") /\ Give(d, r)

\* A call arrives, for the first time or again; one without a key goes to its
\* handler.
Deliver(d) ==
    /\ at[d] = "out"
    /\ \E c \in Calls :
          /\ call' = [call EXCEPT ![d] = c]
          /\ Go(d, IF c.key = None THEN "handler" ELSE "clean")
    /\ Give(d, None)
    /\ UNCHANGED <<clock, keys>>

\* expires_at is written by toISOString and compared with datetime('now') as
\* text: only an earlier date makes it less.
DatePassed(expires, t) == expires \div DayLength < t \div DayLength

\* DELETE ... WHERE expires_at < datetime('now'); its errors are ignored.
Clean(d) ==
    /\ at[d] = "clean"
    /\ \/ keys' = [k \in Keys |-> IF keys[k] # None /\ DatePassed(keys[k].expires, clock)
                                  THEN None ELSE keys[k]]
       \/ UNCHANGED keys
    /\ Go(d, "find")
    /\ UNCHANGED <<clock, call, response>>

\* Mutant: the request hash is not compared.
FindAnyBody(d) ==
    /\ at[d] = "find"
    /\ LET c == call[d]  row == keys[c.key] IN
       IF row = None THEN Go(d, "handler") /\ UNCHANGED response
       ELSE IF row.scope # c.scope THEN Answer(d, Response(409, c, "key"))
       ELSE Answer(d, row.response)
    /\ UNCHANGED <<clock, keys, call>>

\* SELECT by the key alone; the row's scope and hash are compared, and its
\* response is replayed.
Find(d) ==
    /\ at[d] = "find"
    /\ LET c == call[d]  row == keys[c.key] IN
       IF row = None THEN Go(d, "handler") /\ UNCHANGED response
       ELSE IF row.scope # c.scope \/ row.body # c.body
            THEN Answer(d, Response(409, c, "key"))
       ELSE Answer(d, row.response)
    /\ UNCHANGED <<clock, keys, call>>

\* The handler's part: its response, which goes on to be stored unless it is a
\* server error or the call has no key.
Respond(d, r) ==
    /\ Go(d, IF r.status >= 500 \/ call[d].key = None THEN "out" ELSE "store")
    /\ Give(d, r)

\* Mutant: INSERT OR REPLACE.
StoreReplacing(d) ==
    /\ at[d] = "store"
    /\ keys' = [keys EXCEPT ![call[d].key] =
                   [scope |-> call[d].scope, body |-> call[d].body,
                    response |-> response[d], expires |-> clock + Ttl]]
    /\ Go(d, "out")
    /\ UNCHANGED <<clock, call, response>>

\* INSERT OR IGNORE: the first response of a key stays; errors are ignored.
Store(d) ==
    /\ at[d] = "store"
    /\ \/ /\ keys[call[d].key] = None
          /\ keys' = [keys EXCEPT ![call[d].key] =
                         [scope |-> call[d].scope, body |-> call[d].body,
                          response |-> response[d], expires |-> clock + Ttl]]
       \/ UNCHANGED keys
    /\ Go(d, "out")
    /\ UNCHANGED <<clock, call, response>>

\* The isolate ends, or the client gives up: no answer.
Die(d) ==
    /\ at[d] # "out"
    /\ Answer(d, None)
    /\ UNCHANGED <<clock, keys, call>>

Tick ==
    /\ clock < MaxTime
    /\ clock' = clock + 1
    /\ UNCHANGED <<keys, call, at, response>>

Middleware(d) == Deliver(d) \/ Clean(d) \/ Find(d) \/ Store(d) \/ Die(d)
=============================================================================
