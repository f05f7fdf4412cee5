------------------------------- MODULE Matching -------------------------------
(***************************************************************************)
(* utils/matching.ts: matchOrder, which the order book's Durable Object     *)
(* calls with an incoming order and a snapshot of the book.  A book is a    *)
(* sequence, as Array.sort is stable; a price is Null where the code has    *)
(* null.                                                                    *)
(***************************************************************************)
EXTENDS Integers, SequencesExt

CONSTANTS
    Null,
    Takers, Makers,  \* bounds: incoming and resting orders
    MaxBook          \* bound: resting orders in a book

\* An order as the book holds it; what a limit order asks is its price.
BookOrders ==
    LET all == Makers \cup Takers IN
    [id : Nat, side : {"buy", "sell"}, owner : {o.owner : o \in all},
     shard : {o.shard : o \in all}, price : Int \cup {Null}, remaining : Nat,
     posted : Int, type : {"limit", "market", "ioc", "fok"}]

ASSUME MatchingAssumption ==
    /\ Makers \cup Takers \subseteq BookOrders
    /\ Null \notin Int \cup BookOrders /\ MaxBook \in Nat

VARIABLE snapshot    \* the call: an incoming order and a book, or Null

Calls == {Null} \cup [taker : Takers, book : UNION {[1..n -> Makers] : n \in 0..MaxBook}]

Opposite(side) == IF side = "buy" THEN "sell" ELSE "buy"

\* The filter: the other side of the taker's shard, nothing exhausted, no
\* self-match.
Eligible(taker, maker) ==
    /\ maker.side = Opposite(taker.side)
    /\ maker.shard = taker.shard
    /\ maker.remaining > 0
    /\ maker.owner # taker.owner

\* Mutant: the best price for a seller is the lowest one, too.
CheaperPrice(side, a, b) == a # Null /\ (b = Null \/ a < b)

\* compareBookPriority: a price that is null counts as infinitely bad.
BetterPrice(side, a, b) ==
    /\ a # Null
    /\ b = Null \/ (IF side = "buy" THEN a < b ELSE a > b)

\* Equal prices go by posted_at; two null ones do not (infinity less infinity
\* is no number, and leaves the order of the book).
Preferred(side, a, b) ==
    \/ BetterPrice(side, a.price, b.price)
    \/ a.price = b.price /\ a.price # Null /\ a.posted < b.posted

\* What the filter leaves, and a stable sort: a candidate comes behind as many
\* as are ahead of it.
EligibleIn(taker, book) == {i \in DOMAIN book : Eligible(taker, book[i])}

Ahead(side, book, i, j) ==
    \/ Preferred(side, book[i], book[j])
    \/ ~Preferred(side, book[j], book[i]) /\ i < j

Rank(taker, book, i) ==
    Cardinality({j \in EligibleIn(taker, book) : Ahead(taker.side, book, j, i)}) + 1

Candidates(taker, book) ==
    [n \in 1..Cardinality(EligibleIn(taker, book)) |->
        book[CHOOSE i \in EligibleIn(taker, book) : Rank(taker, book, i) = n]]

Crosses(taker, maker) ==
    \/ taker.type = "market" \/ taker.price = Null \/ maker.price = Null
    \/ ~BetterPrice(taker.side, taker.price, maker.price)

\* Both loops break at the first candidate that does not cross.
Reach(taker, candidates) ==
    SelectInSeq(candidates \o <<Null>>, LAMBDA m : m = Null \/ ~Crosses(taker, m)) - 1

\* Mutant: a fill-or-kill order executes what there is.
KilledNever(taker, candidates) == FALSE

Killed(taker, candidates) ==
    /\ taker.type = "fok"
    /\ FoldLeft(LAMBDA v, m : v + m.remaining, 0,
                SubSeq(candidates, 1, Reach(taker, candidates))) < taker.remaining

\* The maker's price wins.
FillPrice(taker, maker) ==
    IF maker.price # Null THEN maker.price ELSE IF taker.price # Null THEN taker.price ELSE 0

\* The loop: each maker in turn gives what it has or what is left to fill.
Take(taker, done, maker) ==
    LET volume == IF done.left < maker.remaining THEN done.left ELSE maker.remaining IN
    IF volume <= 0 THEN done
    ELSE [fills |-> Append(done.fills, [maker |-> maker.id, volume |-> volume,
                                        price |-> FillPrice(taker, maker),
                                        rest |-> maker.remaining - volume]),
          left |-> done.left - volume]

Fills(taker, candidates) ==
    FoldLeft(LAMBDA done, maker : Take(taker, done, maker),
             [fills |-> <<>>, left |-> taker.remaining],
             SubSeq(candidates, 1, Reach(taker, candidates)))

matchOrder(taker, book) ==
    LET candidates == Candidates(taker, book) IN
    IF Killed(taker, candidates) THEN [fills |-> <<>>, left |-> taker.remaining]
    ELSE Fills(taker, candidates)
-----------------------------------------------------------------------------
(* Properties of the call.                                                  *)

\* The maker's price is within the taker's limit, if there are both.
Within(taker, maker) ==
    \/ taker.type = "market" \/ taker.price = Null \/ maker.price = Null
    \/ taker.side = "buy" /\ maker.price <= taker.price
    \/ taker.side = "sell" /\ maker.price >= taker.price

\* What is filled of the order at the i-th place, which is its id here.
FilledOf(fills, i) ==
    FoldLeft(LAMBDA v, f : IF f.maker = i THEN v + f.volume ELSE v, 0, fills)

Numbered(book) == [i \in DOMAIN book |-> [book[i] EXCEPT !.id = i]]
Result == matchOrder(snapshot.taker, Numbered(snapshot.book))

\* Price-time priority: before a resting order is touched, every eligible one
\* at a better price, or at the same price and posted earlier, is exhausted.
\* One without a price comes behind all that have one and cross.
PriceTimePriority ==
    snapshot # Null =>
        LET taker == snapshot.taker
            book == snapshot.book
            fills == Result.fills
            Better(a, b) == \/ taker.side = "buy" /\ a.price < b.price
                            \/ taker.side = "sell" /\ a.price > b.price
                            \/ a.price = b.price /\ a.posted < b.posted
        IN \A i, j \in DOMAIN book :
              (/\ Eligible(taker, book[i]) /\ book[i].price # Null
               /\ IF book[j].price = Null THEN Within(taker, book[i])
                  ELSE Better(book[i], book[j])
               /\ FilledOf(fills, j) > 0)
              => FilledOf(fills, i) = book[i].remaining

\* All that can trade does: in a book of priced orders the taker gets what the
\* eligible ones within its limit hold, up to its own volume, or nothing if it
\* is fill-or-kill and that is too little; none gives more than it has.
AllThatCanTrades ==
    (snapshot # Null /\ \A i \in DOMAIN snapshot.book : snapshot.book[i].price # Null) =>
        LET taker == snapshot.taker
            book == snapshot.book
            result == Result
            Offer(i) == IF Eligible(taker, book[i]) /\ Within(taker, book[i])
                        THEN book[i].remaining ELSE 0
            offered == MapThenSumSet(Offer, DOMAIN book)
            due == IF taker.type = "fok" /\ offered < taker.remaining THEN 0
                   ELSE IF offered < taker.remaining THEN offered ELSE taker.remaining
        IN /\ result.left = taker.remaining - due
           /\ due = MapThenSumSet(LAMBDA i : FilledOf(result.fills, i), DOMAIN book)
           /\ \A i \in DOMAIN book : FilledOf(result.fills, i) <= Offer(i)
=============================================================================
