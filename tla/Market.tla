------------------------------- MODULE Market -------------------------------
(***************************************************************************)
(* cpp-concepts/src/buy_sell.cpp: the orders of one record come in, one    *)
(* after another, and are matched with the book of their share, by either  *)
(* executeTrade or executeTrade2 (which addNewOrder calls).                *)
(***************************************************************************)
EXTENDS Threads, SequencesExt

CONSTANTS Sizes, Prices,
          Incoming  \* how many orders the record has

Actions == {"BUY", "SELL", "BID", "OFFER", "unknown"}
Invalid == "unknown"   \* Action::None
Order(action, size, price, count) ==
  [action |-> action, size |-> size, price |-> price, count |-> count,
   traded |-> 0]
isOffer(o) == o.action \in {"OFFER", "SELL"}
isMine(o) == o.action \in {"BUY", "SELL"}
empty(o) == o.size = o.traded
remaining(o) == o.size - o.traded

\* The order of a side of the book: the better price, then the older one.
Before(o, p) ==
  \/ o.price = p.price /\ o.count < p.count
  \/ IF isOffer(o) THEN o.price < p.price ELSE o.price > p.price
canTrade(o, p) ==
  /\ isOffer(o) # isOffer(p)
  /\ IF isOffer(o) THEN o.price <= p.price ELSE o.price >= p.price

\* As much as either order was for, whatever it has traded before.
saleSize(o, p) == Min({o.size, p.size})
Bought(o, n) == [o EXCEPT !.traded = @ + n]
Profit(o, p) ==
  IF isMine(o) = isMine(p) THEN 0
  ELSE saleSize(o, p) * Max({o.price - p.price, p.price - o.price})

\* The sides of the book, and the first order of a side.
NoOrder == [action |-> "none"]
OwnSide(o) == IF isOffer(o) THEN "mOffers" ELSE "mBids"
OtherSide(o) == IF isOffer(o) THEN "mBids" ELSE "mOffers"
Best(side) ==
  IF side = {} THEN NoOrder
  ELSE CHOOSE o \in side : \A p \in side \ {o} : Before(o, p)
After(side, o) == Best({p \in side : Before(o, p)})
IfLeft(o) == IF empty(o) THEN {} ELSE {o}
-----------------------------------------------------------------------------
New == mem.order
Others == mem.book[OtherSide(New)]
Tradable(o) == IF o = NoOrder THEN FALSE ELSE canTrade(New, o)

\* The memory after a trade of the new order with o, which leaves o out.
Traded(o) ==
  [mem EXCEPT !.order = Bought(@, saleSize(New, o)),
              !.mProfit = @ + Profit(New, o),
              !.total = @ + remaining(o),
              !.book[OtherSide(New)] = @ \ {o}]
PutBack(memory, orders) ==
  [memory EXCEPT !.book[OtherSide(New)] = @ \cup orders]

\* A new order that is not filled goes to its own side.
Settled(memory) ==
  [memory EXCEPT !.book[OwnSide(memory.order)] = @ \cup IfLeft(memory.order),
                 !.order = NoOrder, !.total = 0, !.it = NoOrder]

\* executeTrade takes the best order as long as it can trade with it; what
\* is left of the last one goes back, when the new order is filled.
executeTrade ==
  LET o == Best(Others)
      left == Bought(o, saleSize(New, o))
  IN \/ /\ ~Tradable(o)
        /\ Goes("main", "matching", "start", Settled(mem))
     \/ /\ Tradable(o)
        /\ IF empty(Traded(o).order)
           THEN Goes("main", "matching", "start",
                     Settled(PutBack(Traded(o), IfLeft(left))))
           ELSE Goes("main", "matching", "matching", Traded(o))

\* executeTrade2 walks the other side through a view, and erases the order
\* its iterator is at.  One that goes back takes the place, and the memory,
\* of the erased one; otherwise the next order is read of freed memory.
matchTrade(o) == Tradable(o) /\ remaining(New) > mem.total
executeTrade2 ==
  LET o == mem.it
      left == Bought(o, saleSize(New, o))
      rest == Others \ {o}
  IN \/ ~matchTrade(o) /\ Goes("main", "matching", "start", Settled(mem))
     \/ /\ matchTrade(o) /\ ~empty(left)
        /\ Goes("main", "matching", "matching",
                [PutBack(Traded(o), {left}) EXCEPT !.it = After(rest, o)])
     \/ /\ matchTrade(o) /\ empty(left)
        /\ \/ \E next \in rest \cup {NoOrder} :
                Goes("main", "matching", "matching",
                     [Traded(o) EXCEPT !.it = next])
           \/ Goes("main", "matching", "crashed", mem)

\* The next order of the record; a blank at its end gives the last one again.
processOrder(action, size, price) ==
  LET order == Order(action, size, price, mem.sCount)
      rest == [mem EXCEPT !.left = @ - 1]
  IN /\ mem.left > 0
     /\ IF action = Invalid THEN Goes("main", "start", "start", rest)
        ELSE Goes("main", "start", "matching",
                  [rest EXCEPT !.sCount = @ + 1, !.order = order,
                               !.it = Best(mem.book[OtherSide(order)])])
processRecord ==
  \E a \in Actions, s \in Sizes, p \in Prices : processOrder(a, s, p)

\* The sum of the exposures, but that ?: binds weaker than + does.
exposure(side, action) ==
  LET plus(sum, o) ==
        IF sum + (IF o.action = action THEN 1 ELSE 0) # 0
        THEN o.price * remaining(o) ELSE 0
  IN FoldLeft(plus, 0, SetToSortSeq(mem.book[side], Before))
trade ==
  /\ mem.left = 0
  /\ Goes("main", "start", "done",
          [mem EXCEPT !.result = <<mem.mProfit, exposure("mBids", "BUY"),
                                   exposure("mOffers", "SELL")>>])

MarketInit ==
  \E f \in {"executeTrade", "executeTrade2"} :
    Calls("market", {"main"},
          [by |-> f, left |-> Incoming, sCount |-> 0, mProfit |-> 0,
           book |-> [mBids |-> {}, mOffers |-> {}], order |-> NoOrder,
           it |-> NoOrder, total |-> 0, result |-> <<>>])
MarketStep(t) ==
  /\ demo = "market" /\ t = "main"
  /\ \/ processRecord \/ trade
     \/ /\ at[t] = "matching"
        /\ \/ mem.by = "executeTrade" /\ executeTrade
           \/ mem.by = "executeTrade2" /\ executeTrade2
-----------------------------------------------------------------------------
\* Whichever function is used, and whatever executeTrade2 reads of freed
\* memory, every order stands on its own side, once, and not when what it has
\* traded is what it is for (it may have traded more).  Between two orders
\* executeTrade, which nothing calls, leaves no two in the book that could be
\* traded; executeTrade2, which addNewOrder calls (buy_sell.cpp:271), does, and
\* of that book nothing more is said here.
Uncrossed == \A b \in mem.book.mBids, o \in mem.book.mOffers : ~canTrade(b, o)
Stands ==
  LET orders == mem.book.mBids \cup mem.book.mOffers
  IN /\ \A o \in mem.book.mBids : ~isOffer(o)
     /\ \A o \in mem.book.mOffers : isOffer(o)
     /\ \A o \in orders : ~empty(o) /\ o.count < mem.sCount
     /\ \A o, p \in orders : o.count = p.count => o = p
BookKept ==
  demo = "market" => /\ Stands
                     /\ mem.by = "executeTrade" /\ at["main"] = "start" =>
                          Uncrossed
=============================================================================
