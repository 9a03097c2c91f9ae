----------------------------- MODULE LevelList -----------------------------
(***************************************************************************)
(* The price levels of one side of one symbol in rtl/orderbook: a fixed    *)
(* array of P slots, best level first, and the level pipeline that adds a  *)
(* signed quantity to the level of a price (launch_lv, decode_lv2a/b,      *)
(* materialize_write).  Operators only: OrderBook spreads them over the    *)
(* clock cycles of the pipeline, LevelSide exercises them on their own.    *)
(***************************************************************************)
EXTENDS Itch

CONSTANTS
  P,           \* levels per side
  QLim         \* 2^QW: quantities are unsigned QW-bit numbers

ASSUME LevelAssumption == P \in Nat \ {0} /\ QLim \in Nat \ {0, 1}

Slots == 0..P-1
Level == [px : Prices \cup {0}, qty : 0..QLim-1]
EmptyLevel == [px |-> 0, qty |-> 0]
EmptySide == [i \in Slots |-> EmptyLevel]

\* A word of QW bits read as a two's complement number.
Signed(x) == IF 2 * x < QLim THEN x ELSE x - QLim
\* The mutant is the one's complement.
Negate_Bits(x) == Signed(QLim - 1 - x)
Negate(x) == Signed((QLim - x) % QLim)

(***************************************************************************)
(* launch_lv: the per-slot predicates, as the sets of slots they hold at   *)
(***************************************************************************)
EqSlots(list, price) ==
  {i \in Slots : list[i].qty # 0 /\ list[i].px = price}
ZeroSlots(list) == {i \in Slots : list[i].qty = 0}
BeatenSlots(list, side, price) ==
  {i \in Slots : list[i].qty # 0 /\ Better(side, price, list[i].px)}

\* first_one: the lowest slot of the set; the tree answers P-1 on none.
FirstOne(S) ==
  IF S = {} THEN P - 1 ELSE CHOOSE i \in S : \A j \in S : i <= j

(***************************************************************************)
(* decode_lv2a and decode_lv2b for op = [side, px, delta], launched over   *)
(* the copy list of the side.  In an INSERT, last is the slot that the     *)
(* shift right ends in: the first empty one, or P-1 when there is none and *)
(* the worst level falls off the list.                                     *)
(***************************************************************************)
Keep == [mode |-> "NONE", at |-> 0, last |-> 0, qty |-> 0]

\* Bit 32 of the candidate sum is clear; the mutant looks at its sign only.
Fits_Sign(sum) == sum >= 0
Fits(sum) == sum \in 0..QLim-1

\* Where an absent price goes: before the first level it beats, or at the end;
\* in the mutant always at the end.
InsertAt_End(zero, beaten) == FirstOne(zero)
InsertAt(zero, beaten) == FirstOne(IF beaten # {} THEN beaten ELSE zero)

Decode(list, op) ==
  LET eq == EqSlots(list, op.px)
      zero == ZeroSlots(list)
      beaten == BeatenSlots(list, op.side, op.px)
      found == FirstOne(eq)
      sum == list[found].qty + op.delta
      insert == [mode |-> "INSERT", last |-> FirstOne(zero),
                 at |-> InsertAt(zero, beaten), qty |-> op.delta]
  IN IF eq = {}
     THEN IF op.delta < 0 \/ (zero = {} /\ beaten = {}) THEN Keep ELSE insert
     ELSE IF ~Fits(sum) THEN Keep
     ELSE IF sum = 0 THEN [Keep EXCEPT !.mode = "REMOVE", !.at = found]
     ELSE [Keep EXCEPT !.mode = "UPDATE", !.at = found, !.qty = sum]

\* lverr: the operation was discarded.
DecodeError(d) == d.mode = "NONE"

(***************************************************************************)
(* materialize_write: the new list for the decoded operation               *)
(***************************************************************************)
Removed(list, at) ==
  [i \in Slots |-> IF i < at THEN list[i]
                   ELSE IF i < P - 1 THEN list[i+1] ELSE EmptyLevel]
Inserted(list, d, px) ==
  [i \in Slots |-> IF i < d.at \/ i > d.last THEN list[i]
                   ELSE IF i = d.at THEN [px |-> px, qty |-> d.qty]
                   ELSE list[i-1]]
Updated(list, d) == [list EXCEPT ![d.at].qty = d.qty]

Materialize(list, d, px) ==
  CASE d.mode = "REMOVE" -> Removed(list, d.at)
    [] d.mode = "INSERT" -> Inserted(list, d, px)
    [] d.mode = "UPDATE" -> Updated(list, d)
    [] OTHER -> list

=============================================================================
