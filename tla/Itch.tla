------------------------------- MODULE Itch -------------------------------
(***************************************************************************)
(* The ITCH 5.0 messages of the pipeline, as the book sees them: the       *)
(* fields of golden_model/itch/messages.py that the order book reads.      *)
(***************************************************************************)
EXTENDS Integers

CONSTANTS
  Refs,        \* order reference numbers
  Locates,     \* stock locate codes
  Prices,      \* prices that orders carry
  MaxShares,   \* largest share count of a message
  Msgs         \* the messages the feed may carry, a subset of Message

Sides == {"B", "S"}
AddTypes == {"A", "F"}
ReduceTypes == {"E", "C", "X"}
LookupTypes == AddTypes \cup ReduceTypes \cup {"D", "U"}
\* I stands for every type that is read by its header only.
Types == LookupTypes \cup {"S", "H", "R", "I"}

\* System event codes and trading states: Q and M delimit market hours,
\* T is continuous trading, "-" stands for every other code.
Codes == {"Q", "M", "T", "-"}

\* A field that a type does not have is never read.
Message ==
  [type : Types, loc : Locates, ref : Refs, new : Refs, side : Sides,
   px : Prices, qty : 0..MaxShares, code : Codes]

\* The absence of a message.
Blank == [type |-> "none", loc |-> 0, ref |-> 0, new |-> 0, side |-> "B",
          px |-> 0, qty |-> 0, code |-> "-"]

\* Prices have four bytes: there is a largest one.
ASSUME MessageAssumption ==
  /\ Prices \subseteq Nat
  /\ Prices # {} => \E top \in Prices : \A p \in Prices : p <= top
  /\ MaxShares \in Nat
  /\ Msgs \subseteq Message

\* Whether price p is closer to the top of a side than q.
Better(side, p, q) == IF side = "B" THEN p > q ELSE p < q

=============================================================================
