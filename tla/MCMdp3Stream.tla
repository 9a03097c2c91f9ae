--------------------------- MODULE MCMdp3Stream ---------------------------
(***************************************************************************)
(* Mdp3Stream on packets with messages of real sizes.                      *)
(***************************************************************************)
EXTENDS Mdp3Stream

M(size, tpl, n1, n2, bad) ==
  [size |-> size, tpl |-> tpl, signed |-> TRUE, n1 |-> n1, n2 |-> n2, badRefs |-> bad]

Bare == M(10, 0, 0, 0, {})      \* a passthrough without a body
Odd == M(15, 0, 0, 0, {})       \* one with a body of a word and a byte
Older == [M(24, 47, 0, 0, {}) EXCEPT !.signed = FALSE]
Empty == M(24, 47, 0, 0, {})    \* a group without entries
Order == M(64, 47, 1, 0, {})    \* 47 with an entry
Price == M(64, 46, 1, 0, {})    \* 46 with a price
OrderOnly == M(56, 46, 0, 1, {1}) \* 46 with an order that refers to nothing
Both == M(88, 46, 1, 1, {})     \* 46 with a price and an order of it
Snapshot == M(94, 52, 1, 0, {})
Depth == M(70, 53, 1, 0, {})
Short2 == M(60, 46, 0, 2, {})   \* a second group that is longer
Short == M(30, 47, 1, 0, {})    \* a group that is longer than the message
Tiny == M(9, 0, 0, 0, {})       \* a size that is less than the prefix
Huge == M(300, 0, 0, 0, {})     \* one that is more than the buffer

Of(seq, msgs, size) == [seq |-> seq, msgs |-> msgs, size |-> size, badBeat |-> 0]
BadAt(p, beat) == [p EXCEPT !.badBeat = beat]

\* Packets whose messages fill them, and packets with a defect: a header and
\* a message that are cut, sizes that cannot be, two bytes too many, a bad
\* tkeep in the header and in the first message.
Traffic ==
  { Of(1, <<Bare, Odd, Bare>>, 47),
    Of(2, <<Older, Empty>>, 60),
    Of(1, <<Price>>, 76),
    Of(2, <<OrderOnly, Odd>>, 83),
    Of(2, <<Order>>, 76),
    Of(1, <<Both, Bare>>, 110),
    Of(2, <<Snapshot>>, 106),
    Of(2, <<Depth, Short2>>, 142),
    Of(1, <<Short, Bare>>, 52),
    Of(1, <<>>, 8),
    Of(1, <<Bare, Order>>, 40),
    Of(2, <<Bare, Tiny, Bare>>, 41),
    Of(2, <<Bare, Huge>>, 50),
    Of(1, <<Odd>>, 29),
    BadAt(Of(1, <<Odd>>, 27), 2),
    BadAt(Of(1, <<Odd>>, 27), 7) }

\* The proofs are about such packets.
ASSUME TrafficAssumption == TrafficFits

=============================================================================
