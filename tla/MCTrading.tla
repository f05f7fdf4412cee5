------------------------------ MODULE MCTrading ------------------------------
(* A bid and two offers of other owners; the bid can lapse, and the order   *)
(* book gets the bid and the offer that is for now or never.                *)
EXTENDS TradeOrders, Matching

CONSTANTS ann, bob, cy, spot, bid, ask1, ask2, c1, c2, e1

MCTerms ==
    (bid :> [side |-> "buy", owner |-> ann, volume |-> 2, type |-> "limit", good_till |-> 1,
             auto_match |-> TRUE]) @@
    (ask1 :> [side |-> "sell", owner |-> bob, volume |-> 2, type |-> "ioc", good_till |-> None,
              auto_match |-> TRUE]) @@
    (ask2 :> [side |-> "sell", owner |-> cy, volume |-> 1, type |-> "limit", good_till |-> None,
              auto_match |-> FALSE])

MCAsks == {[buy |-> bid, sell |-> ask1, volume |-> 1, by |-> ann],
           [buy |-> bid, sell |-> ask2, volume |-> 2, by |-> cy]}
\* Both offers are matched in full, by their owners.
FullAsks == {[buy |-> bid, sell |-> ask1, volume |-> 2, by |-> bob],
             [buy |-> bid, sell |-> ask2, volume |-> 1, by |-> cy]}
MCKeys == {Pair(a.buy, a.sell) : a \in MCAsks}

Order(side, owner, price, remaining, posted, type) ==
    [id |-> 0, side |-> side, owner |-> owner, shard |-> spot, price |-> price,
     remaining |-> remaining, posted |-> posted, type |-> type]

MCTakers ==
    {Order(side, ann, price, remaining, 0, type) :
        side \in {"buy", "sell"}, price \in {1, 2, Null}, remaining \in {1, 3},
        type \in {"limit", "market", "fok"}}

\* Sellers and buyers of equal terms, one of them without a price, and orders
\* that must not match: the taker's own and an exhausted one.
MCMakers ==
    {Order(side, bob, price, remaining, posted, "limit") :
        side \in {"buy", "sell"}, price \in {1, 2}, remaining \in {1, 2}, posted \in {1, 2}}
    \cup {Order("sell", bob, Null, 1, 1, "market"), Order("sell", ann, 1, 1, 1, "limit"),
          Order("buy", bob, 2, 0, 1, "limit")}

\* The order book is called on its own, with every order and book.
MCInit == Init /\ snapshot \in Calls
MCNext == snapshot = Null /\ Next /\ UNCHANGED snapshot
MCSpec == MCInit /\ [][MCNext]_<<vars, snapshot>>

Symmetric == Permutations(Callers)
=============================================================================
