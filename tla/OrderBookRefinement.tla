------------------------ MODULE OrderBookRefinement ------------------------
(***************************************************************************)
(* The engine of rtl/orderbook implements the reference book of            *)
(* golden_model/src/book.py, on feeds whose price levels fit the P slots   *)
(* of a side.                                                              *)
(*                                                                         *)
(* The reference step is the cycle of ST_APPLY.  From there to the end of  *)
(* the message's tail the mapping completes what the pipeline registers    *)
(* still owe: the level operation in the level pipeline, the add half of a *)
(* replace, and the event on its way out.                                  *)
(***************************************************************************)
EXTENDS OrderBook

CONSTANTS
  RefLoc       \* the locate of the symbol that a reference belongs to

\* The feed numbers an order once: its messages all name its symbol.
FeedNumbers ==
  /\ RefLoc \in [Refs -> Locates]
  /\ \A m \in Msgs : /\ m.type \in LookupTypes => m.loc = RefLoc[m.ref]
                     /\ m.type = "U" => m.loc = RefLoc[m.new]

VARIABLES
  emitted,     \* history: the locates that had an event so far
  golden       \* the reference state that this state stands for, Abstract

(***************************************************************************)
(* What the pipeline owes                                                  *)
(***************************************************************************)
InLevels == st \in {"LV2", "LV2B", "LV3"}
OwesEvent == emitOk /\ (InLevels \/ st \in {"UADD", "EMIT_A", "EMIT_B", "EMIT_C"})

\* The price -> quantity dictionary of a list of levels, and what it becomes
\* when delta shares come to the level of price p.
LevelMap(list) ==
  [p \in {list[i].px : i \in NonEmpty(list)} |->
     list[CHOOSE i \in NonEmpty(list) : list[i].px = p].qty]
Adjusted(map, p, delta) ==
  LET qty == delta + (IF p \in DOMAIN map THEN map[p] ELSE 0)
  IN [x \in {y \in DOMAIN map \cup {p} : y # p \/ qty # 0} |->
        IF x = p THEN qty ELSE map[x]]

\* The dictionary of a side once the operations under way are done.
FinalMap(k) ==
  LET written == LevelMap(lvl[k])
      first == IF InLevels /\ k = lv.key
               THEN Adjusted(written, lv.op.px, lv.op.delta) ELSE written
  IN IF uadd.on /\ k = <<cur.sym, uadd.side>>
     THEN Adjusted(first, uadd.px, uadd.qty) ELSE first

(***************************************************************************)
(* The reference state                                                     *)
(***************************************************************************)
LiveSlots == IF st = "INVAL" THEN {} ELSE {i \in TabSlots : tab[i].valid}
TableRefs == {tab[i].ref : i \in LiveSlots}
SlotOf(r) == CHOOSE i \in LiveSlots : tab[i].ref = r
OrderFrom(r, e) ==
  [loc |-> RefLoc[r], side |-> e.side, px |-> e.px, qty |-> e.qty]

gOrders ==
  [r \in TableRefs \cup (IF uadd.on THEN {uadd.ref} ELSE {}) |->
     IF uadd.on /\ r = uadd.ref THEN OrderFrom(r, uadd)
     ELSE OrderFrom(r, tab[SlotOf(r)])]

Known(l) == LocLookup(l) # Unlisted
BestOf(side, S) ==
  IF S = {} THEN -1
  ELSE CHOOSE p \in S : \A q \in S : p = q \/ Better(side, p, q)
gTrading ==
  [l \in {x \in Locates : Known(x) /\ tstate[LocLookup(x)] # "none"} |->
     tstate[LocLookup(l)]]

Top(side, map) ==
  IF DOMAIN map = {} THEN <<0, 0>>
  ELSE <<BestOf(side, DOMAIN map), map[BestOf(side, DOMAIN map)]>>

gLevels ==
  [k \in Locates \X Sides |->
     IF Known(k[1]) THEN FinalMap(<<LocLookup(k[1]), k[2]>>) ELSE [p \in {} |-> 0]]

\* The event on its way out, and whether it will be counted as a cross.
OwedBbo == <<Top("B", FinalMap(<<cur.sym, "B">>)), Top("S", FinalMap(<<cur.sym, "S">>))>>
OwesCross ==
  OwesEvent /\ marketOpen /\ tstate[cur.sym] = "T" /\ Crossed(OwedBbo)

gLastBbo ==
  [l \in emitted |-> IF OwesEvent /\ l = cur.msg.loc THEN OwedBbo
                     ELSE prev[LocLookup(l)]]
gCrosses == IF OwesCross THEN crosses + 1 ELSE crosses

Abstract ==
  [orders |-> gOrders, levels |-> gLevels, lastBbo |-> gLastBbo,
   trading |-> gTrading, crosses |-> gCrosses]

\* What the reference keeps besides, of the orders and levels that it has.
gBest == [k \in Locates \X Sides |-> BestOf(k[2], DOMAIN golden.levels[k])]
gLiveCount ==
  [l \in Locates |-> Cardinality({r \in DOMAIN golden.orders : RefLoc[r] = l})]

Golden == INSTANCE GoldenBook WITH
  orders <- golden.orders, levels <- golden.levels, best <- gBest,
  lastBbo <- golden.lastBbo, trading <- golden.trading,
  marketHours <- marketOpen, anomalies <- anomalies,
  crosses <- golden.crosses, liveCount <- gLiveCount, aborted <- "no",
  StrictCross <- FALSE, MaxEvents <- 2 * MaxMsgs + 1

\* The price levels of the feed fit the engine: a side has at most P of them,
\* of a quantity that QW bits hold.
LevelsFit ==
  \A k \in Locates \X Sides :
    /\ Cardinality(DOMAIN golden.levels[k]) <= P
    /\ \A p \in DOMAIN golden.levels[k] : golden.levels[k][p] < QLim

(***************************************************************************)
(* The specification with its history variables                            *)
(***************************************************************************)
RInit == Init /\ emitted = {} /\ golden = Abstract
RNext ==
  /\ Next
  /\ emitted' = IF st = "APPLY" /\ ~cur.bad /\ emitOk'
                THEN emitted \cup {cur.msg.loc} ELSE emitted
  /\ golden' = Abstract'
RSpec == RInit /\ [][RNext]_<<vars, emitted, golden>>

(***************************************************************************)
(* Properties                                                              *)
(***************************************************************************)
\* The engine does nothing that the reference book could not do.
ImplementsGolden == Golden!Spec

\* The messages on which the reference run aborts.
Rejected(m) ==
  LET live == DOMAIN golden.orders
  IN CASE m.type \in AddTypes -> m.ref \in live \/ m.qty = 0
       [] m.type \in ReduceTypes -> m.ref \in live /\ m.qty > golden.orders[m.ref].qty
       [] m.type = "U" -> m.ref \in live /\ (m.qty = 0 \/ m.new \in live)
       [] OTHER -> FALSE

\* A hashed table of bounded probing may have no room where the dict has.
OutOfRoom(m) ==
  \/ m.type \in AddTypes /\ NoRoom(m.ref)
  \/ m.type = "U" /\ m.ref \in DOMAIN golden.orders /\ NoRoom(m.new)

\* Every message of a listed symbol does in ST_APPLY what apply() does with
\* that very message.  Where apply() aborts, or the table has no room, the
\* message is refused as a whole: the error pulse rises and nothing changes,
\* the order that a replace names included.
AppliesMessage ==
  [][st = "APPLY" /\ ~cur.bad =>
       IF Rejected(cur.msg) \/ OutOfRoom(cur.msg)
       THEN error' /\ UNCHANGED Golden!vars
       ELSE Golden!Apply(cur.msg)]_<<vars, emitted, golden>>

=============================================================================
