----------------------- MODULE MCOrderBookRefinement -----------------------
EXTENDS OrderBookRefinement

Msg(type, loc, ref) == [Blank EXCEPT !.type = type, !.loc = loc, !.ref = ref,
                                     !.new = ref, !.px = 1]
EmptyTable == [i \in TabSlots |-> Hole]
Boots == {EmptyTable}

\* Orders 0 and 4 are of symbol 1 and share a hash; locate 0 carries the
\* system events.
SymbolOf == [r \in Refs |-> 1]

TradeMsgs ==
  {[Msg("A", 1, 0) EXCEPT !.qty = 2, !.px = 2],
   [Msg("A", 1, 4) EXCEPT !.qty = 1, !.side = "S"],
   [Msg("X", 1, 0) EXCEPT !.qty = 1],
   Msg("D", 1, 4),
   [Msg("U", 1, 0) EXCEPT !.new = 4, !.qty = 1],
   [Msg("S", 0, 0) EXCEPT !.code = "Q"],
   [Msg("H", 1, 0) EXCEPT !.code = "T"]}

ASSUME FeedNumbers

=============================================================================
