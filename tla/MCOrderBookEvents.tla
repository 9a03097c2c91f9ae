------------------------- MODULE MCOrderBookEvents -------------------------
(***************************************************************************)
(* OrderBookEvents on a feed of more symbols than the engine has books.    *)
(***************************************************************************)
EXTENDS OrderBookEvents

Msg(type, loc, ref) == [Blank EXCEPT !.type = type, !.loc = loc, !.ref = ref,
                                     !.new = ref, !.px = 1, !.qty = 1]
Boots == {[i \in TabSlots |-> Hole]}

\* Reference r is an order of locate r; locate 0 carries the system events.
EventMsgs ==
  {Msg("A", r, r) : r \in Refs \ {0}}
  \cup {Msg("D", 1, 1), [Msg("S", 0, 0) EXCEPT !.code = "Q"],
        [Msg("H", 1, 1) EXCEPT !.code = "T"]}

\* What the theorems about the ports assume of the feed.
ASSUME FeedAssumption == NamedLocates /\ RealReductions

=============================================================================
