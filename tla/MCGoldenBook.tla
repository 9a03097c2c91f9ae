--------------------------- MODULE MCGoldenBook ---------------------------
(***************************************************************************)
(* GoldenBook on small sets.  Every message names the locate of the order  *)
(* it is about, as the exchange's feed does.                               *)
(***************************************************************************)
EXTENDS GoldenBook

CONSTANT WithSession \* send S and H messages too

LocOf(r) == IF r < 3 THEN 1 ELSE 2

Any == [Blank EXCEPT !.type = "R", !.loc = 1, !.ref = 1, !.new = 1, !.px = 1]

BookMsgs ==
  {[Any EXCEPT !.type = "A", !.loc = LocOf(r), !.ref = r, !.side = s,
                 !.px = p, !.qty = q] :
     r \in Refs, s \in Sides, p \in Prices, q \in 0..MaxShares}
  \cup {[Any EXCEPT !.type = "X", !.loc = LocOf(r), !.ref = r, !.qty = q] :
     r \in Refs, q \in 0..MaxShares}
  \cup {[Any EXCEPT !.type = "D", !.loc = LocOf(r), !.ref = r] : r \in Refs}
  \cup {[Any EXCEPT !.type = "U", !.loc = LocOf(r[1]), !.ref = r[1],
                      !.new = r[2], !.px = p, !.qty = q] :
     r \in {x \in Refs \X Refs : LocOf(x[1]) = LocOf(x[2])},
     p \in Prices, q \in 0..MaxShares}

SessionMsgs ==
  {[Any EXCEPT !.type = "S", !.code = c] : c \in {"Q", "M", "-"}}
  \cup {[Any EXCEPT !.type = "H", !.loc = l, !.code = c] :
     l \in Locates, c \in {"T", "-"}}

MCMsgs == BookMsgs \cup {Any} \cup (IF WithSession THEN SessionMsgs ELSE {})

=============================================================================
