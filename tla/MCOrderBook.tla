---------------------------- MODULE MCOrderBook ----------------------------
(***************************************************************************)
(* OrderBook on small tables and feeds.                                    *)
(***************************************************************************)
EXTENDS OrderBook

Msg(type, loc, ref) == [Blank EXCEPT !.type = type, !.loc = loc, !.ref = ref,
                                     !.new = ref, !.px = 1]

\* The order table is empty at power-up, or full of what was there before a
\* reset.
Stale(i) == NewEntry(IF i \in Refs THEN i ELSE 0, "B", 1, 1)
EmptyTable == [i \in TabSlots |-> Hole]
Boots == {EmptyTable, [i \in TabSlots |-> Stale(i)]}

\* References 0 and NSLOT share a hash and 3 comes before them: with PROBE = 2
\* their windows overlap around the end of the table, and not all fit.
Replace(r, n) == [Msg("U", 1, r) EXCEPT !.new = n, !.qty = 1]

CollisionMsgs ==
  {[Msg("A", 1, r) EXCEPT !.qty = 1] : r \in Refs}
  \cup {Msg("D", 1, 0), Msg("D", 1, 3)}
  \cup {Replace(0, 3), Replace(4, 0), Replace(3, 4)}

=============================================================================
