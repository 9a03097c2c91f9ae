---------------------------- MODULE GoldenBook ----------------------------
(***************************************************************************)
(* The reference order book of golden_model/src/book.py: one step applies  *)
(* one parsed ITCH message.  It is both a component of its own (the Python *)
(* model keeps redundant structures that must agree) and the abstract      *)
(* specification that the hardware book of rtl/orderbook implements.       *)
(*                                                                         *)
(* A Python dict is a function whose DOMAIN is the set of its keys.        *)
(***************************************************************************)
EXTENDS Itch, FiniteSets

CONSTANTS
  StrictCross, \* Book(strict_cross=...): a crossed book aborts
  MaxEvents    \* bound: anomalies and counted crosses that are explored

Order == [loc : Locates, side : Sides, px : Prices, qty : 1..MaxShares]

ASSUME BookAssumption ==
  /\ IsFiniteSet(Refs)
  /\ StrictCross \in BOOLEAN
  /\ MaxEvents \in Nat

VARIABLES
  orders,      \* ref -> Order, the live orders
  levels,      \* <<locate, side>> -> (price -> aggregated quantity)
  best,        \* <<locate, side>> -> cached best price, or NoPrice
  lastBbo,     \* locate -> BBO of its last event (a partial function)
  trading,     \* locate -> trading state code (a partial function)
  marketHours,
  anomalies,
  crosses,     \* cross_events
  liveCount,   \* locate -> live_per_locate
  aborted      \* why the run stopped with InvariantError, or "no"

vars == <<orders, levels, best, lastBbo, trading, marketHours, anomalies,
          crosses, liveCount, aborted>>

Keys == Locates \X Sides
NoPrice == -1

\* Dictionary assignment and deletion.
Put(d, k, v) == [x \in DOMAIN d \cup {k} |-> IF x = k THEN v ELSE d[x]]
Drop(d, k) == [x \in DOMAIN d \ {k} |-> d[x]]
QtyAt(level, p) == IF p \in DOMAIN level THEN level[p] ELSE 0

(***************************************************************************)
(* Levels and the best-price cache                                         *)
(***************************************************************************)
Extreme(side, S) ==
  IF S = {} THEN NoPrice
  ELSE CHOOSE p \in S : \A q \in S : p = q \/ Better(side, p, q)

\* Mutants of LevelAdd: a better price does not reach the cache; a quantity
\* replaces the one before it.
LevelAdd_CachesFirst(b, k, p, delta) ==
  [levels |-> [b.levels EXCEPT ![k] = Put(@, p, QtyAt(@, p) + delta)],
   best |-> [b.best EXCEPT ![k] = IF @ = NoPrice THEN p ELSE @]]

LevelAdd_Overwrites(b, k, p, delta) ==
  [levels |-> [b.levels EXCEPT ![k] = Put(@, p, IF delta > 0 THEN delta ELSE 0)],
   best |-> [b.best EXCEPT ![k] = p]]

\* _level_add on the pair of structures it updates, b = [levels, best].
LevelAdd(b, k, p, delta) ==
  LET qty == QtyAt(b.levels[k], p) + delta
      level == IF qty = 0 THEN Drop(b.levels[k], p)
               ELSE Put(b.levels[k], p, qty)
      cached == b.best[k]
      newBest == IF cached = NoPrice \/ Better(k[2], p, cached) THEN p
                 ELSE IF p = cached /\ qty = 0
                      THEN Extreme(k[2], DOMAIN level)
                      ELSE cached
  IN [levels |-> [b.levels EXCEPT ![k] = level],
      best |-> [b.best EXCEPT ![k] = newBest]]

\* LevelAdd raises InvariantError instead.
Negative(k, p, delta) == QtyAt(levels[k], p) + delta < 0

Book == [levels |-> levels, best |-> best]

(***************************************************************************)
(* Events                                                                  *)
(***************************************************************************)
\* A side of the BBO: price and quantity of the best level, zeros if none.
Top(b, k) ==
  IF b.best[k] = NoPrice THEN <<0, 0>>
  ELSE <<b.best[k], b.levels[k][b.best[k]]>>

Bbo(b, l) == <<Top(b, <<l, "B">>), Top(b, <<l, "S">>)>>

Crossed(bbo) == bbo[1][1] # 0 /\ bbo[2][1] # 0 /\ bbo[1][1] >= bbo[2][1]

Continuous(l) == marketHours /\ l \in DOMAIN trading /\ trading[l] = "T"

\* Mutant of Emit: the event shows the book as it was before the message.
Emit_Before(b, l) ==
  lastBbo' = Put(lastBbo, l, Bbo(Book, l)) /\ UNCHANGED <<crosses, aborted>>

\* _emit for locate l, once the book has become b.
Emit(b, l) ==
  LET crossing == Continuous(l) /\ Crossed(Bbo(b, l))
  IN IF crossing /\ StrictCross
     THEN aborted' = "cross" /\ UNCHANGED <<crosses, lastBbo>>
     ELSE /\ crosses' = IF crossing THEN crosses + 1 ELSE crosses
          /\ lastBbo' = Put(lastBbo, l, Bbo(b, l))
          /\ UNCHANGED aborted

SetBook(b) == levels' = b.levels /\ best' = b.best

Abort(why) ==
  /\ aborted' = why
  /\ UNCHANGED <<orders, levels, best, lastBbo, trading, marketHours,
                 anomalies, crosses, liveCount>>

Anomaly ==
  /\ anomalies' = anomalies + 1
  /\ UNCHANGED <<orders, levels, best, lastBbo, trading, marketHours,
                 crosses, liveCount, aborted>>

Session == <<trading, marketHours, anomalies>>

(***************************************************************************)
(* One action per message kind                                             *)
(***************************************************************************)
SystemEvent(m) ==
  /\ m.type = "S"
  /\ marketHours' = IF m.code = "Q" THEN TRUE
                    ELSE IF m.code = "M" THEN FALSE ELSE marketHours
  /\ UNCHANGED <<orders, levels, best, lastBbo, trading, anomalies, crosses,
                 liveCount, aborted>>

TradingAction(m) ==
  /\ m.type = "H"
  /\ trading' = Put(trading, m.loc, m.code)
  /\ UNCHANGED <<orders, levels, best, lastBbo, marketHours, anomalies,
                 crosses, liveCount, aborted>>

\* Types that do not touch the book.
Other(m) == m.type \in {"R", "I"} /\ UNCHANGED vars

\* live_per_locate once n orders of locate l came or went.
Counted(l, n) == [liveCount EXCEPT ![l] = @ + n]

OrderOf(m) == [loc |-> m.loc, side |-> m.side, px |-> m.px, qty |-> m.qty]
KeyOf(o) == <<o.loc, o.side>>

Add(m) ==
  /\ m.type \in AddTypes
  /\ IF m.ref \in DOMAIN orders THEN Abort("duplicate")
     ELSE IF m.qty = 0 THEN Abort("quantity")
     ELSE LET b == LevelAdd(Book, <<m.loc, m.side>>, m.px, m.qty)
          IN /\ orders' = Put(orders, m.ref, OrderOf(m))
             /\ liveCount' = Counted(m.loc, 1)
             /\ SetBook(b)
             /\ Emit(b, m.loc)
             /\ UNCHANGED Session

\* _remove followed by _emit for locate l.
Remove(r, l) ==
  LET o == orders[r]
      b == LevelAdd(Book, KeyOf(o), o.px, -o.qty)
  IN IF Negative(KeyOf(o), o.px, -o.qty) THEN Abort("negative")
     ELSE /\ orders' = Drop(orders, r)
          /\ liveCount' = Counted(o.loc, -1)
          /\ SetBook(b)
          /\ Emit(b, l)
          /\ UNCHANGED Session

Shrink(r, shares) ==
  LET o == orders[r]
      b == LevelAdd(Book, KeyOf(o), o.px, -shares)
  IN IF Negative(KeyOf(o), o.px, -shares) THEN Abort("negative")
     ELSE /\ orders' = [orders EXCEPT ![r].qty = @ - shares]
          /\ SetBook(b)
          /\ Emit(b, o.loc)
          /\ UNCHANGED <<liveCount, Session>>

\* Execute (E, C) and cancel (X): _reduce, then _emit for the order's locate.
Reduce(m) ==
  /\ m.type \in ReduceTypes
  /\ IF m.ref \notin DOMAIN orders THEN Anomaly
     ELSE IF m.qty > orders[m.ref].qty THEN Abort("overexecuted")
     ELSE IF m.qty = orders[m.ref].qty
          THEN Remove(m.ref, orders[m.ref].loc)
          ELSE Shrink(m.ref, m.qty)

\* Delete emits for the locate of the message, not for the order's.
Delete(m) ==
  /\ m.type = "D"
  /\ IF m.ref \notin DOMAIN orders THEN Anomaly ELSE Remove(m.ref, m.loc)

\* The orders after a replace.
Replaced(m) ==
  Put(Drop(orders, m.ref), m.new,
      [orders[m.ref] EXCEPT !.px = m.px, !.qty = m.qty])

\* Replace keeps locate and side of the original order; both halves are
\* applied before the one event.
Replace(m) ==
  /\ m.type = "U"
  /\ IF m.ref \notin DOMAIN orders THEN Anomaly
     ELSE IF m.qty = 0 THEN Abort("quantity")
     ELSE IF m.new \in DOMAIN orders THEN Abort("duplicate")
     ELSE LET o == orders[m.ref]
              k == KeyOf(o)
              b == LevelAdd(LevelAdd(Book, k, o.px, -o.qty), k, m.px, m.qty)
          IN IF Negative(k, o.px, -o.qty) THEN Abort("negative")
             ELSE /\ orders' = Replaced(m)
                  /\ SetBook(b)
                  /\ Emit(b, o.loc)
                  /\ UNCHANGED <<liveCount, Session>>

(***************************************************************************)
(* The specification                                                       *)
(***************************************************************************)
Init ==
  /\ orders = [r \in {} |-> {}]
  /\ levels = [k \in Keys |-> [p \in {} |-> 0]]
  /\ best = [k \in Keys |-> NoPrice]
  /\ lastBbo = [l \in {} |-> {}]
  /\ trading = [l \in {} |-> "-"]
  /\ marketHours = FALSE
  /\ anomalies = 0
  /\ crosses = 0
  /\ liveCount = [l \in Locates |-> 0]
  /\ aborted = "no"

\* apply(): the run goes on until an invariant aborts it.
Apply(m) ==
  /\ aborted = "no"
  /\ anomalies + crosses < MaxEvents
  /\ \/ SystemEvent(m)
     \/ TradingAction(m)
     \/ Add(m)
     \/ Reduce(m)
     \/ Delete(m)
     \/ Replace(m)
     \/ Other(m)

Next == \E m \in Msgs : Apply(m)

Spec == Init /\ [][Next]_vars

(***************************************************************************)
(* Properties                                                              *)
(***************************************************************************)
TopType == Nat \X Nat

TypeOK ==
  /\ DOMAIN orders \subseteq Refs /\ orders \in [DOMAIN orders -> Order]
  /\ DOMAIN levels = Keys
  /\ \A k \in Keys : /\ DOMAIN levels[k] \subseteq Prices
                     /\ \A p \in DOMAIN levels[k] : levels[k][p] \in Nat \ {0}
                     /\ levels[k] = [p \in DOMAIN levels[k] |-> levels[k][p]]
  /\ best \in [Keys -> Prices \cup {NoPrice}]
  /\ marketHours \in BOOLEAN
  /\ anomalies \in Nat /\ crosses \in Nat
  /\ liveCount \in [Locates -> Int]
  /\ DOMAIN lastBbo \subseteq Locates
  /\ DOMAIN trading \subseteq Locates
  /\ aborted \in {"no", "duplicate", "quantity", "overexecuted", "negative",
                  "cross"}

\* The orders resting at a level, and the unit shares they hold.
At(k, p) ==
  {r \in DOMAIN orders : KeyOf(orders[r]) = k /\ orders[r].px = p}
SharesAt(k, p) == UNION {{r} \X (1..orders[r].qty) : r \in At(k, p)}

\* check_deep(), after every message instead of every million: a level holds
\* exactly the shares of the orders resting at its price, and a level that
\* holds none does not exist.
LevelsMatchOrders ==
  \A k \in Keys, p \in Prices :
    QtyAt(levels[k], p) = Cardinality(SharesAt(k, p))

\* The best-price cache, which _level_add maintains without looking at the
\* other levels unless the best one empties, is the extreme live price.
BestIsExtreme ==
  \A k \in Keys :
    IF best[k] = NoPrice THEN DOMAIN levels[k] = {}
    ELSE /\ best[k] \in DOMAIN levels[k]
         /\ \A p \in DOMAIN levels[k] : p = best[k] \/ Better(k[2], best[k], p)

\* live_per_locate counts the live orders of each locate: replace, which
\* swaps one order for another, must not count twice.
LiveCountMatches ==
  \A l \in Locates :
    liveCount[l] = Cardinality({r \in DOMAIN orders : orders[r].loc = l})

\* The negative-level check of _level_add can never be what stops a run:
\* every reduction is bounded by the order that it reduces.
NeverNegative == aborted # "negative"

\* The structures of the book say the same of the same orders, after every
\* message and also when one of them stopped the run halfway: types, levels,
\* live counts, and no level that is reduced by more than it holds.
Consistent == TypeOK /\ LevelsMatchOrders /\ LiveCountMatches /\ NeverNegative

\* Whatever a message changes, the event it produces is for the locate it
\* changed: the last BBO emitted for a locate is its present one.
LastBboCurrent ==
  aborted = "no" =>
    \A l \in Locates :
      Bbo(Book, l) = IF l \in DOMAIN lastBbo THEN lastBbo[l]
                     ELSE <<<<0, 0>>, <<0, 0>>>>

\* With strict_cross an event that would show a crossed book in continuous
\* trading stops the run: no message carries an uncrossed book into a crossed
\* one, whichever order, side or locate it is about.
StrictStaysUncrossed ==
  [][\A l \in Locates :
       /\ StrictCross /\ Continuous(l) /\ aborted' = "no"
       /\ ~Crossed(Bbo(Book, l))
       => ~Crossed(Bbo(Book, l))']_vars

=============================================================================
