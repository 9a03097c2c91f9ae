---------------------------- MODULE MCDatagrams ----------------------------
(***************************************************************************)
(* A few datagrams for ItchParser.                                         *)
(***************************************************************************)
EXTENDS ItchParser

M(type) == [type |-> type, len |-> ExpLen[type]]

Dg(msgs) ==
  LET d == [sess |-> 1, skip |-> 0, count |-> Len(msgs), msgs |-> msgs,
            size |-> 1, badBeat |-> 0]
  IN [d EXCEPT !.size = Whole(d)]

\* P fills the queue to the last byte, I does not fit in it, S is the
\* shortest register, H has none.
Good ==
  {Dg(<<M("D"), M("P"), M("A")>>),
   Dg(<<M("A"), M("I"), M("S")>>),
   Dg(<<M("H"), M("I")>>),
   Dg(<<>>),
   [Dg(<<M("I"), M("X")>>) EXCEPT !.sess = 2],
   [Dg(<<M("S"), M("D")>>) EXCEPT !.skip = 1]}

\* Cut in the last message, before it and in the header; a malformed tkeep
\* behind a captured message and in the header; a count too large, too small
\* and 0; a length that is not the type's; a message without common header.
Truncated(d, cut) == [d EXCEPT !.size = @ - cut]
Bad ==
  {Truncated(Dg(<<M("D"), M("A")>>), 7),
   Truncated(Dg(<<M("D"), M("A")>>), 37),
   Truncated(Dg(<<>>), 8),
   [Dg(<<M("D"), M("S"), M("X")>>) EXCEPT !.badBeat = 9],
   [Dg(<<M("D"), M("S")>>) EXCEPT !.badBeat = 2],
   [Dg(<<M("D"), M("S")>>) EXCEPT !.count = 3],
   [Dg(<<M("D"), M("S")>>) EXCEPT !.count = 1],
   [Dg(<<M("S")>>) EXCEPT !.count = 0],
   Dg(<<[type |-> "A", len |-> 35], M("S")>>),
   Dg(<<[type |-> "other", len |-> 9], M("S")>>)}

Mix == Good \cup Bad

\* On a bus of eight bytes the front of the I comes to stand 45 bytes before
\* a beat's end.
Crossing == {Dg(<<M("D"), M("F"), M("I"), M("S")>>)}

=============================================================================
