----------------------------- MODULE TradeOrders -----------------------------
(***************************************************************************)
(* routes/trading.ts: orders, their margin reservations, and the requests   *)
(* that match, cancel, amend and expire them.  A match works under the lock *)
(* of its pair of orders, on rows it read one by one; the other requests,   *)
(* and the order book a new order may be sent to, take no lock.  Each       *)
(* action is one awaited D1 call.                                           *)
(***************************************************************************)
EXTENDS AdvisoryLocks, Sequences, FiniteSetsExt

CONSTANTS
    Orders,
    Terms,        \* of each order: side, owner, volume, type, good_till (or None), and
                  \* whether it is placed with auto_match
    Rate,         \* margin per unit of volume
    Admins,       \* holders with the admin role
    MatchAsks,    \* the matches that are asked for
    Editors,      \* requests to cancel or amend, and expiry sweeps
    NewVolumes,   \* volumes an amendment may ask for
    MaxMatches,   \* bound: a match is asked for while there are fewer
    Amendable     \* bound: the orders that may be amended, each once

Pair(buy, sell) == {buy, sell}

ASSUME TradeAssumption ==
    /\ \A o \in Orders : /\ Terms[o].side \in {"buy", "sell"} /\ Terms[o].volume \in Nat \ {0}
                        /\ Terms[o].type \in {"limit", "ioc", "fok", "market"}
                        /\ Terms[o].auto_match \in BOOLEAN
    /\ MatchAsks \subseteq [buy : Orders, sell : Orders, volume : Nat, by : Holders]
    /\ LockKeys = {Pair(a.buy, a.sell) : a \in MatchAsks}
    /\ Rate \in Nat /\ NewVolumes \subseteq Nat \ {0}
    /\ MaxMatches \in Nat /\ Amendable \subseteq Orders

VARIABLES
    orders,        \* trade_orders: status, volume, remaining_volume_mwh
    matches,       \* the rows of trade_matches that POST /match inserted, in order
    reservations,  \* margin_reservations of each order, in the order of insertion
    amended,       \* the orders with rows in trade_order_amendments
    booked,        \* what came of each order in the order book, "no" before it gets there
    match,         \* of each match request: what it asked for and has read
    edit           \* of each other request: what it does and has read

tables == <<orders, matches, reservations, amended, booked>>
vars == <<lock_vars, orders, matches, reservations, amended, booked, match, edit>>

Statuses == {"none", "open", "partial", "matched", "cancelled", "expired"}
Live(row) == row.status \in {"open", "partial"}

Row == [status : Statuses, volume : Nat, remaining : Nat]
Margin == [id : Nat, amount : Int]
Reading == [at : {"buy", "sell", "buy_margin", "sell_margin", "batch"}, ask : MatchAsks,
            buy : Row \cup {None}, sell : Row \cup {None},
            buy_margin : Margin, sell_margin : Margin]
Edit == [op : {"cancel", "expire", "amend"}, on : SUBSET Orders, row : Row \cup {None},
         volume : Nat]

ASSUME TradeNoneAssumption == None \notin Row \cup Reading \cup Edit

Init ==
    /\ LocksInit
    /\ orders = [o \in Orders |-> [status |-> "none", volume |-> 0, remaining |-> 0]]
    /\ matches = <<>>
    /\ reservations = [o \in Orders |-> <<>>]
    /\ amended = {}
    /\ booked = [o \in Orders |-> "no"]
    /\ match = [p \in Callers |-> None]
    /\ edit = [e \in Editors |-> None]

Reserved(o) == {i \in DOMAIN reservations[o] : reservations[o][i].status = "reserved"}
Reservation(amount) == [amount |-> amount, status |-> "reserved"]
NoMargin == [id |-> 0, amount |-> 0]
Minimum(a, b) == IF a <= b THEN a ELSE b

\* POST /orders, once its gates passed: the row and its margin in one batch.
Place(o) ==
    /\ orders[o].status = "none"
    /\ orders' = [orders EXCEPT ![o] = [status |-> "open", volume |-> Terms[o].volume,
                                        remaining |-> Terms[o].volume]]
    /\ reservations' = [reservations EXCEPT ![o] = Append(@, Reservation(Rate * Terms[o].volume))]
    /\ UNCHANGED <<lock_vars, matches, amended, booked, match, edit>>

\* With auto_match the request then sends the order to the order book, a Durable
\* Object that does one order at a time and writes to its row by id alone.
Post(o, outcome) ==
    /\ Terms[o].auto_match /\ orders[o].status # "none" /\ booked[o] = "no"
    /\ booked' = [booked EXCEPT ![o] = outcome]
    /\ UNCHANGED <<lock_vars, matches, reservations, amended, match, edit>>

\* No fill: a limit order rests, open and with what it was placed for, whatever
\* became of the row since.
Rest(o) ==
    /\ Terms[o].type = "limit" /\ orders[o].remaining >= orders[o].volume
    /\ orders' = [orders EXCEPT ![o].status = "open", ![o].remaining = Terms[o].volume]
    /\ Post(o, "done")

\* No fill: any other order is cancelled, and its margin stays reserved.
CancelUnfilled(o) ==
    /\ Terms[o].type # "limit"
    /\ orders' = [orders EXCEPT ![o].status = "cancelled"]
    /\ Post(o, "cancelled")

\* The tables refuse the status 'partially_filled' of a resting order that was
\* matched since, and the row of trade_fills of any fill; the row of
\* trade_matches that the book inserted before it stays, of use to nobody.
FailToPost(o) ==
    /\ \/ Terms[o].type = "limit" /\ orders[o].remaining < orders[o].volume
       \/ \E q \in Orders : /\ orders[q].status # "none"
                            /\ Terms[q].side # Terms[o].side /\ Terms[q].owner # Terms[o].owner
    /\ Post(o, "done") /\ UNCHANGED orders

-----------------------------------------------------------------------------
(* POST /match                                                              *)

\* The reads of a match, in turn, and the batch.
Goto(p, m) == match' = [match EXCEPT ![p] = m]
At(p, step) == phase[p] = "inside" /\ match[p].at = step

AskMatch(p) ==
    /\ Len(matches) < MaxMatches
    /\ \E a \in MatchAsks :
          /\ orders[a.buy].status # "none" /\ orders[a.sell].status # "none"
          /\ Call(p, Pair(a.buy, a.sell), a.by)
          /\ Goto(p, [at |-> "buy", ask |-> a, buy |-> None, sell |-> None,
                      buy_margin |-> NoMargin, sell_margin |-> NoMargin])
    /\ UNCHANGED <<tables, edit>>

Lock(p) ==
    /\ Insert(p) \/ Steal(p) \/ Release(p) \/ Abandon(p)
    /\ match' = IF phase'[p] = "out" THEN [match EXCEPT ![p] = None] ELSE match
    /\ UNCHANGED <<tables, edit>>

ReadBuy(p) ==
    /\ At(p, "buy")
    /\ Goto(p, [match[p] EXCEPT !.at = "sell", !.buy = orders[match[p].ask.buy]])
    /\ UNCHANGED <<lock_vars, tables, edit>>

\* The checks.
Matchable(a, buy, sell) ==
    /\ Terms[a.buy].side = "buy" /\ Terms[a.sell].side = "sell"
    /\ Live(buy) /\ Live(sell)
    /\ a.by \in {Terms[a.buy].owner, Terms[a.sell].owner} \cup Admins
    /\ Terms[a.buy].owner # Terms[a.sell].owner

Filling(a, buy, sell) == Minimum(a.volume, Minimum(buy.remaining, sell.remaining))

\* The second row, and the checks on both; a check that fails throws out of the
\* lock.
ReadSell(p) ==
    /\ At(p, "sell")
    /\ LET m == match[p]  sell == orders[m.ask.sell] IN
       IF Matchable(m.ask, m.buy, sell) /\ Filling(m.ask, m.buy, sell) > 0
       THEN /\ Goto(p, [m EXCEPT !.at = "buy_margin", !.sell = sell])
            /\ UNCHANGED phase
       ELSE Go(p, "release") /\ UNCHANGED match
    /\ UNCHANGED <<clock, locks, lease, overrun, tables, edit>>

\* SELECT ... WHERE status = 'reserved' LIMIT 1
MarginOf(o) ==
    IF Reserved(o) = {} THEN {NoMargin}
    ELSE {[id |-> i, amount |-> reservations[o][i].amount] : i \in Reserved(o)}

ReadMargin(p) ==
    /\ \/ /\ At(p, "buy_margin")
          /\ \E r \in MarginOf(match[p].ask.buy) :
                Goto(p, [match[p] EXCEPT !.at = "sell_margin", !.buy_margin = r])
       \/ /\ At(p, "sell_margin")
          /\ \E r \in MarginOf(match[p].ask.sell) :
                Goto(p, [match[p] EXCEPT !.at = "batch", !.sell_margin = r])
    /\ UNCHANGED <<lock_vars, tables, edit>>

\* An order row after a fill of what was read of it; its volume is not written.
After(row, fill) ==
    [row EXCEPT !.remaining = @ - fill,
                !.status = IF row.remaining = fill THEN "matched" ELSE "partial"]

\* Mutant: the residual keeps the whole amount.
ConsumeAndKeep(rs, margin, row, fill) ==
    IF margin = NoMargin THEN rs
    ELSE IF row.remaining = fill THEN [rs EXCEPT ![margin.id].status = "consumed"]
    ELSE LET part == (margin.amount * fill) \div row.remaining IN
         Append([rs EXCEPT ![margin.id].amount = part, ![margin.id].status = "consumed"],
                Reservation(margin.amount))

\* A full fill consumes the reservation that was read; a partial one consumes
\* its share and reserves the rest in a new row.
Consume(rs, margin, row, fill) ==
    IF margin = NoMargin THEN rs
    ELSE IF row.remaining = fill THEN [rs EXCEPT ![margin.id].status = "consumed"]
    ELSE LET part == (margin.amount * fill) \div row.remaining IN
         Append([rs EXCEPT ![margin.id].amount = part, ![margin.id].status = "consumed"],
                Reservation(margin.amount - part))

\* The batch: the match, both rows from what was read, both reservations.
Fill(p) ==
    /\ At(p, "batch")
    /\ LET m == match[p]  a == m.ask  fill == Filling(a, m.buy, m.sell) IN
       /\ matches' = Append(matches, [buy |-> a.buy, sell |-> a.sell, volume |-> fill])
       /\ orders' = [orders EXCEPT
             ![a.buy] = [After(m.buy, fill) EXCEPT !.volume = orders[a.buy].volume],
             ![a.sell] = [After(m.sell, fill) EXCEPT !.volume = orders[a.sell].volume]]
       /\ reservations' = [reservations EXCEPT
             ![a.buy] = Consume(@, m.buy_margin, m.buy, fill),
             ![a.sell] = Consume(@, m.sell_margin, m.sell, fill)]
    /\ Go(p, "release")
    /\ UNCHANGED <<clock, locks, lease, overrun, amended, booked, match, edit>>

-----------------------------------------------------------------------------
(* Cancel, amend, expire: a read, and a batch on the row as it is by then.  *)

Editing(e, x) == edit' = [edit EXCEPT ![e] = x]
Released(rs) == [i \in DOMAIN rs |-> IF rs[i].status = "reserved"
                                     THEN [rs[i] EXCEPT !.status = "released"] ELSE rs[i]]
WithStatus(os, status) ==
    [o \in Orders |-> IF o \in os THEN [orders[o] EXCEPT !.status = status] ELSE orders[o]]

ReadCancel(e) ==
    /\ edit[e] = None
    /\ \E o \in Orders :
          /\ orders[o].status = "open"
          /\ Editing(e, [op |-> "cancel", on |-> {o}, row |-> None, volume |-> 0])
    /\ UNCHANGED <<lock_vars, tables, match>>

\* Past their good_till, in any live state.
ReadExpired(e) ==
    /\ edit[e] = None
    /\ LET lapsed == {o \in Orders : /\ Live(orders[o]) /\ Terms[o].good_till # None
                                     /\ Terms[o].good_till <= clock} IN
       /\ lapsed # {}
       /\ Editing(e, [op |-> "expire", on |-> lapsed, row |-> None, volume |-> 0])
    /\ UNCHANGED <<lock_vars, tables, match>>

\* To another volume, or to the same one at another price; what is left must
\* pass the gates, which refuse a volume of nothing.
ReadAmend(e) ==
    /\ edit[e] = None
    /\ \E o \in Amendable \ amended, v \in NewVolumes :
          /\ Live(orders[o])
          /\ v > orders[o].volume - orders[o].remaining
          /\ Editing(e, [op |-> "amend", on |-> {o}, row |-> orders[o], volume |-> v])
    /\ UNCHANGED <<lock_vars, tables, match>>

\* Mutant: the margin stays.
EndOrdersOnly(e) ==
    /\ edit[e] # None /\ edit[e].op # "amend"
    /\ orders' = WithStatus(edit[e].on, IF edit[e].op = "cancel" THEN "cancelled" ELSE "expired")
    /\ Editing(e, None)
    /\ UNCHANGED <<lock_vars, reservations, matches, amended, booked, match>>

\* The batch of cancel and of expire: the status by id, and the margin.
EndOrders(e) ==
    /\ edit[e] # None /\ edit[e].op # "amend"
    /\ orders' = WithStatus(edit[e].on, IF edit[e].op = "cancel" THEN "cancelled" ELSE "expired")
    /\ reservations' = [o \in Orders |-> IF o \in edit[e].on THEN Released(reservations[o])
                                        ELSE reservations[o]]
    /\ Editing(e, None)
    /\ UNCHANGED <<lock_vars, matches, amended, booked, match>>

\* The batch of amend: volume and remainder from what was read, new margin.
Amend(e) ==
    /\ edit[e] # None /\ edit[e].op = "amend"
    /\ \E o \in edit[e].on :
          LET rest == edit[e].volume - (edit[e].row.volume - edit[e].row.remaining) IN
          /\ orders' = [orders EXCEPT ![o].volume = edit[e].volume, ![o].remaining = rest]
          /\ reservations' = [reservations EXCEPT ![o] =
                                 Append(Released(@), Reservation(Rate * rest))]
          /\ amended' = amended \cup {o}
    /\ Editing(e, None)
    /\ UNCHANGED <<lock_vars, matches, booked, match>>

-----------------------------------------------------------------------------
PlaceOrder(o) == Place(o) \/ Rest(o) \/ CancelUnfilled(o) \/ FailToPost(o)
MatchOrders(p) == AskMatch(p) \/ Lock(p) \/ ReadBuy(p) \/ ReadSell(p) \/ ReadMargin(p) \/ Fill(p)
EditOrder(e) == ReadCancel(e) \/ ReadExpired(e) \/ ReadAmend(e) \/ EndOrders(e) \/ Amend(e)

Next ==
    \/ \E o \in Orders : PlaceOrder(o)
    \/ \E p \in Callers : MatchOrders(p)
    \/ \E e \in Editors : EditOrder(e)
    \/ Tick /\ UNCHANGED <<tables, match, edit>>

Spec == Init /\ [][Next]_vars

-----------------------------------------------------------------------------
(* Properties.                                                              *)

MatchesOf(o) == {i \in DOMAIN matches : o \in {matches[i].buy, matches[i].sell}}
Filled(o) == MapThenSumSet(LAMBDA i : matches[i].volume, MatchesOf(o))
Partners(o) == UNION {{matches[i].buy, matches[i].sell} \ {o} : i \in MatchesOf(o)}

\* Nothing but one pair's lock had to guard the order.
Guarded(o) ==
    /\ orders[o].status # "none" /\ o \notin amended
    /\ Cardinality(Partners(o)) <= 1
    /\ \A k \in overrun : o \notin k

\* The lock does what it is for: an order that was filled against one other
\* only is filled by what its row says and never beyond its volume, in whatever
\* order matches, cancels and expiries of both sides read and write.
PairConserves ==
    \A o \in Orders : Guarded(o) =>
        Filled(o) + orders[o].remaining = orders[o].volume /\ orders[o].remaining >= 0

\* Its margin is split and consumed without loss, also when a cancel released
\* it after a match had read it.
MarginConserved ==
    \A o \in Orders : Guarded(o) =>
        MapThenSumSet(LAMBDA i : reservations[o][i].amount, DOMAIN reservations[o])
            = Rate * Terms[o].volume

\* An order that reads cancelled or expired holds no margin, whatever matches
\* were under way when it was ended and whatever the order book wrote, unless it
\* was amended or the order book cancelled it.
Ended(o) == orders[o].status \in {"cancelled", "expired"} /\ booked[o] # "cancelled"
EndedFreesMargin ==
    \A o \in Orders : (Ended(o) /\ o \notin amended) => Reserved(o) = {}

\* "two callers can't both observe the same open state and double-fill": what
\* was matched of an order never exceeds its volume.
NeverOverfilled ==
    \A o \in Orders : o \in amended \/ Filled(o) <= orders[o].volume

-----------------------------------------------------------------------------
(* What they rest on.                                                       *)

TradeTypeOK ==
    /\ orders \in [Orders -> Row]
    /\ matches \in Seq([buy : Orders, sell : Orders, volume : Nat])
    /\ reservations \in [Orders -> Seq([amount : Int,
                                        status : {"reserved", "consumed", "released"}])]
    /\ amended \subseteq Orders
    /\ booked \in [Orders -> {"no", "done", "cancelled"}]
    /\ match \in [Callers -> Reading \cup {None}]
    /\ \A p \in Callers : match[p] = None <=> phase[p] = "out"
    /\ edit \in [Editors -> Edit \cup {None}]

\* Nobody but p, under its lock, fills or amends order o.
Alone(p, o) ==
    /\ o \notin amended /\ Partners(o) \subseteq lease[p].key
    /\ \A k \in overrun : o \notin k

\* What p read of an order is what is left of it, and the reservation that it
\* read is as large as it was.
RowRead(p, o, row) ==
    row \in Row /\ (Alone(p, o) => row.remaining = orders[o].remaining)
MarginRead(p, o, margin) ==
    margin # NoMargin =>
        /\ margin.id \in DOMAIN reservations[o]
        /\ Alone(p, o) => reservations[o][margin.id].amount = margin.amount

MatchOK(p) ==
    LET m == match[p] IN
    /\ lease[p].key = Pair(m.ask.buy, m.ask.sell)
    /\ orders[m.ask.buy].status # "none" /\ orders[m.ask.sell].status # "none"
    /\ ~Working(p) => m.at = "buy"
    /\ phase[p] = "inside" =>
          /\ m.at # "buy" => RowRead(p, m.ask.buy, m.buy)
          /\ m.at \notin {"buy", "sell"} =>
                /\ RowRead(p, m.ask.sell, m.sell)
                /\ Matchable(m.ask, m.buy, m.sell) /\ Filling(m.ask, m.buy, m.sell) > 0
          /\ m.at \in {"sell_margin", "batch"} => MarginRead(p, m.ask.buy, m.buy_margin)
          /\ m.at = "batch" => MarginRead(p, m.ask.sell, m.sell_margin)

EditOK(e) ==
    /\ \A o \in edit[e].on : orders[o].status # "none"
    /\ edit[e].op = "amend" =>
          edit[e].row \in Row /\ edit[e].volume > edit[e].row.volume - edit[e].row.remaining

\* An order that was not placed has nothing, and only an amendment writes a
\* volume.
OrderOK(o) ==
    /\ orders[o].status = "none" =>
          reservations[o] = <<>> /\ MatchesOf(o) = {} /\ o \notin amended
    /\ (orders[o].status # "none" /\ o \notin amended) => orders[o].volume = Terms[o].volume
    /\ IsFiniteSet(Partners(o))

TradeInv ==
    /\ LocksInv /\ TradeTypeOK
    /\ \A p \in Callers : match[p] # None => MatchOK(p)
    /\ \A e \in Editors : edit[e] # None => EditOK(e)
    /\ \A o \in Orders : OrderOK(o)
    /\ PairConserves /\ MarginConserved /\ EndedFreesMargin
=============================================================================
