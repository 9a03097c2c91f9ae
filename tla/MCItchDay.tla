----------------------------- MODULE MCItchDay -----------------------------
(***************************************************************************)
(* ItchDay on short files: two symbols, two orders of the first that meet  *)
(* at one price or cross, and every kind of message that a reader refuses. *)
(***************************************************************************)
EXTENDS ItchDay

Any == [Blank EXCEPT !.type = "R", !.loc = 1, !.ref = 1, !.new = 1, !.px = 1]
Of(r) == [Any EXCEPT !.loc = IF r = 3 THEN 2 ELSE 1, !.ref = r]

Buy1 == [Of(1) EXCEPT !.type = "A", !.qty = 2]
Buy2 == [Of(2) EXCEPT !.type = "F", !.qty = 2]
Sell2 == [Of(2) EXCEPT !.type = "A", !.qty = 1, !.side = "S"]
Sell3 == [Of(3) EXCEPT !.type = "A", !.qty = 1, !.side = "S", !.px = 2]
Cut1 == [Of(1) EXCEPT !.type = "X", !.qty = 1]
Gone1 == [Of(1) EXCEPT !.type = "D"]
New1 == [Of(1) EXCEPT !.type = "U", !.new = 4, !.qty = 1, !.px = 2]
Noii == [Any EXCEPT !.type = "I", !.loc = 0]
Open9 == [Any EXCEPT !.type = "S", !.loc = 0, !.code = "Q"]
Trade1 == [Any EXCEPT !.type = "H", !.code = "T"]

MCMsgs == {Any, Buy1, Buy2, Sell2, Sell3, Cut1, Gone1, New1, Noii, Open9, Trade1}

It(m) == [decl |-> Length[m.type], msg |-> m]
Whole(s) == [items |-> s, tail |-> "whole"]
Refused == {[decl |-> 35, msg |-> Buy1], [decl |-> 9, msg |-> Blank],
            [decl |-> 0, msg |-> Blank]}

MCDays ==
  {Whole(<<It(Buy1), It(b), It(c)>>) :
     b \in {Buy2, Sell3, Cut1, New1}, c \in {Gone1, Cut1, New1, Noii}}
  \cup {Whole(<<It(a), It(Buy1), It(b)>>) :
           a \in {Any, Sell3, Noii}, b \in {Any, Gone1}}
  \cup {Whole(<<It(Open9), It(Trade1), It(Buy1), It(a), It(Gone1)>>) :
           a \in {Sell2, Buy2}}
  \cup {Whole(<<It(Buy1), bad, It(Gone1)>>) : bad \in Refused}
  \cup {Whole(<<It(Any), It(Any), It(Sell3)>>)}

MCCalls ==
  {[limit |-> None, subset |-> {1, 2}, sink |-> TRUE, maxPayload |-> 100,
    perPacket |-> None],
   [limit |-> 2, subset |-> {1}, sink |-> TRUE, maxPayload |-> 1400,
    perPacket |-> 1],
   [limit |-> None, subset |-> {}, sink |-> FALSE, maxPayload |-> 40,
    perPacket |-> 2]}

=============================================================================
