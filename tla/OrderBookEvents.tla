-------------------------- MODULE OrderBookEvents --------------------------
(***************************************************************************)
(* What the consumers of rtl/orderbook see: OrderBook with the history of  *)
(* the messages that changed the book and of the halves of the BBO/depth   *)
(* pairs that the two consumers took, and with the fairness under which    *)
(* every message and every event gets through.                             *)
(***************************************************************************)
EXTENDS OrderBook, Sequences

VARIABLES
  applied,     \* messages that went through ST_APPLY
  effects,     \* locates of the messages that owe an event, in order
  bboTaken,    \* events that the consumer of the BBO port took, in order
  depthTaken   \* depths that the consumer of the depth port took, in order

history == <<applied, effects, bboTaken, depthTaken>>
hvars == <<vars, history>>

BboOnPort == [loc |-> out.loc, bbo |-> out.bbo]

Record(rdy) ==
  /\ applied' = IF st = "APPLY" THEN applied + 1 ELSE applied
  /\ effects' = IF st = "APPLY" /\ ~cur.bad /\ emitOk'
                THEN Append(effects, cur.msg.loc) ELSE effects
  /\ bboTaken' = IF out.bboValid /\ rdy.bbo
                 THEN Append(bboTaken, BboOnPort) ELSE bboTaken
  /\ depthTaken' = IF out.depthValid /\ rdy.depth
                   THEN Append(depthTaken, out.depth) ELSE depthTaken

HInit ==
  Init /\ applied = 0 /\ effects = <<>> /\ bboTaken = <<>> /\ depthTaken = <<>>

HCycle(w, rdy) == Cycle(w, rdy) /\ Record(rdy)

HNext == \E w \in Offers, rdy \in Readiness : HCycle(w, rdy)

\* The clock runs; the parser finishes a message that it began to send; each
\* consumer takes what it is offered, each in its own time.
Fairness ==
  /\ WF_hvars(HNext)
  /\ WF_hvars(bus.k > 0 /\ \E rdy \in Readiness : HCycle(bus, rdy))
  /\ WF_hvars(\E w \in Offers, rdy \in Readiness : rdy.bbo /\ HCycle(w, rdy))
  /\ WF_hvars(\E w \in Offers, rdy \in Readiness : rdy.depth /\ HCycle(w, rdy))

HSpec == HInit /\ [][HNext]_hvars /\ Fairness

(***************************************************************************)
(* The feed                                                                *)
(***************************************************************************)
\* No message has the locate that the symbol map is reset to.
NamedLocates == \A m \in Msgs : m.loc # NoLocate

\* Who executes or cancels takes a share.
RealReductions == \A m \in Msgs : m.type \in ReduceTypes => m.qty > 0

(***************************************************************************)
(* Properties                                                              *)
(***************************************************************************)
\* The message in flight has changed the table and its event is not out yet.
Owed ==
  IF emitOk /\ st \in {"LV2", "LV2B", "LV3", "UADD", "EMIT_A", "EMIT_B", "EMIT_C"}
  THEN <<cur.msg.loc>> ELSE <<>>

LocOf(event) == event.loc
Locs(events) == [i \in DOMAIN events |-> LocOf(events[i])]
OnPort(valid, x) == IF valid THEN <<x>> ELSE <<>>

\* Retention: what was taken, what a port still holds and what is on its way
\* are exactly the effects in their order, however late either consumer is:
\* no half of a pair is lost, repeated or overtaken.
Delivered ==
  /\ Locs(bboTaken) \o OnPort(out.bboValid, out.loc) \o Owed = effects
  /\ Len(depthTaken) + (IF out.depthValid THEN 1 ELSE 0) + Len(Owed)
       = Len(effects)

\* The two ports travel apart and only the BBO names its locate: the k-th
\* depth must still be the k-th event's, its best levels those of the BBO.
Best(depth) == <<PxQty(depth.B[1]), PxQty(depth.S[1])>>

PairsAgree ==
  LET bbos == bboTaken \o OnPort(out.bboValid, BboOnPort)
      depths == depthTaken \o OnPort(out.depthValid, out.depth)
  IN \A i \in DOMAIN bbos \cap DOMAIN depths : bbos[i].bbo = Best(depths[i])

\* A message works on its own symbol's book, from its w0 through the double
\* buffer and the swap, while other symbols register; and no two symbols
\* share a book.
Belongs(r) ==
  IF r.bad THEN locCnt = NSYM /\ \A i \in SymIdx : locMap[i] # r.msg.loc
  ELSE r.sym < locCnt /\ locMap[r.sym] = r.msg.loc

SymbolRight ==
  /\ cur.msg # Blank => Belongs(cur)
  /\ nx.active => Belongs(nx)
  /\ \A i, j \in 0..locCnt-1 : locMap[i] = locMap[j] => i = j

\* A message of a locate outside the subset raises the error pulse as its w0
\* is taken (SEC-NSYM-01), whether the engine is idle or in a tail.
BadSymbolSignalled ==
  [][/\ (st = "W0" /\ st' = "TS" /\ cur'.bad => error')
     /\ (~nx.active /\ nx'.active /\ nx'.bad => error')]_hvars

\* Every message whose first word was taken gets to ST_APPLY: no wait for the
\* probe, a port or the double buffer is for ever.
EveryMessageApplied ==
  \A n \in 1..MaxMsgs : started >= n ~> applied >= n

\* Every effect reaches both consumers.
EveryEffectTaken ==
  \A n \in 1..MaxMsgs :
    Len(effects) >= n ~> Len(bboTaken) >= n /\ Len(depthTaken) >= n

=============================================================================
