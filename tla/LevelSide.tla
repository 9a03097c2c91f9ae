----------------------------- MODULE LevelSide -----------------------------
(***************************************************************************)
(* One side of one symbol: the level pipeline of rtl/orderbook works on    *)
(* the P slots of its list, beside the orders that rest on the side, which *)
(* are what golden_model/src/book.py derives its unbounded levels from.    *)
(* An insert into a full list pushes the worst level out.                  *)
(***************************************************************************)
EXTENDS LevelList, FiniteSets

CONSTANT
  MinReduce    \* the smallest share count of an execute or a cancel

ASSUME SideAssumption ==
  /\ IsFiniteSet(Refs)
  /\ MaxShares < QLim
  /\ MinReduce \in {0, 1}

VARIABLES
  side,        \* which side this is
  list,        \* lv_price / lv_qty of the side
  orders,      \* the orders of the side: ref -> price and quantity
  signalled,   \* an operation so far raised the error pulse
  pushedOut    \* an insert so far pushed the worst level out

vars == <<side, list, orders, signalled, pushedOut>>

\* One pass of the level pipeline.
Pipeline(px, delta) ==
  LET op == [side |-> side, px |-> px, delta |-> delta]
      d == Decode(list, op)
  IN /\ list' = Materialize(list, d, px)
     /\ signalled' = (signalled \/ DecodeError(d))
     /\ pushedOut' = (pushedOut \/ (d.mode = "INSERT" /\ ZeroSlots(list) = {}))
     /\ UNCHANGED side

\* An order of q shares arrives at price p.
Add(r, p, q) ==
  /\ r \notin DOMAIN orders
  /\ orders' = [x \in DOMAIN orders \cup {r} |->
                  IF x = r THEN [px |-> p, qty |-> q] ELSE orders[x]]
  /\ Pipeline(p, Signed(q))

\* An order loses q of the shares it holds, perhaps all of them.
Reduce(r, q) ==
  /\ r \in DOMAIN orders /\ q <= orders[r].qty
  /\ orders' = IF q = orders[r].qty
               THEN [x \in DOMAIN orders \ {r} |-> orders[x]]
               ELSE [orders EXCEPT ![r].qty = @ - q]
  /\ Pipeline(orders[r].px, Negate(q))

Init ==
  /\ side \in Sides
  /\ list = EmptySide
  /\ orders = [r \in {} |-> {}]
  /\ signalled = FALSE
  /\ pushedOut = FALSE

Next ==
  \/ \E r \in Refs, p \in Prices, q \in 1..MaxShares : Add(r, p, q)
  \/ \E r \in Refs, q \in MinReduce..MaxShares : Reduce(r, q)

Spec == Init /\ [][Next]_vars

(***************************************************************************)
(* Properties                                                              *)
(***************************************************************************)
TypeOK ==
  /\ side \in Sides
  /\ list \in [Slots -> Level]
  /\ DOMAIN orders \subseteq Refs
  /\ orders \in [DOMAIN orders -> [px : Prices, qty : 1..MaxShares]]
  /\ signalled \in BOOLEAN
  /\ pushedOut \in BOOLEAN

\* The levels are a strictly ordered prefix of the slots: no empty level in
\* front of a live one, no price twice, best first, whatever overflowed.  The
\* insert position, the emission of slot 0 and the top-N depth rely on it.
Ordered ==
  \A i, j \in Slots :
    i < j /\ list[j].qty # 0 =>
      list[i].qty # 0 /\ Better(side, list[i].px, list[j].px)

\* The unit shares resting at a price.
At(p) == {r \in DOMAIN orders : orders[r].px = p}
SharesAt(p) == UNION {{r} \X (1..orders[r].qty) : r \in At(p)}
QtyAt(p) == Cardinality(SharesAt(p))

\* As long as nothing was signalled nor pushed out, the list holds exactly
\* the levels that the orders make up.
Agrees ==
  ~signalled /\ ~pushedOut =>
    /\ \A i \in Slots : list[i].qty # 0 => list[i].qty = QtyAt(list[i].px)
    /\ \A r \in DOMAIN orders : EqSlots(list, orders[r].px) # {}

\* The comments on the pipeline and the tests of the depth say that what it
\* discards after an overflow never leaves a phantom: every price on the list
\* is the price of a live order.
NoPhantom == \A i \in Slots : list[i].qty # 0 => At(list[i].px) # {}

=============================================================================
