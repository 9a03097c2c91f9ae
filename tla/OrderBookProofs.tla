-------------------------- MODULE OrderBookProofs --------------------------
(***************************************************************************)
(* The engine of rtl/orderbook, for every bus width, table, set of symbols *)
(* and feed, in three invariants that hold together (EngineInv):           *)
(*                                                                         *)
(*   - ReceiveInv: the in-flight registers, the double buffer and the swap *)
(*     between them never lose a word, take one twice or give one to       *)
(*     another message, and what takes effect has arrived in full;         *)
(*   - ProbeInv: from the cycle that arms it to ST_APPLY, each run of the  *)
(*     probe is pending, walking a known part of its window, or over with  *)
(*     a result that is true of the table;                                 *)
(*   - BookInv: the table holds each order once, within reach of its hash, *)
(*     also between the two halves of a replace, and the level pipeline    *)
(*     works on a copy of the list that it will replace.                   *)
(*                                                                         *)
(* and of what its consumers see, on top of these:                         *)
(*                                                                         *)
(*   - SymbolInv: the map of the symbols holds a locate once, and what is  *)
(*     in flight or buffered has the place of its own;                     *)
(*   - PortInv: taken, held and owed events are the effects, in order;     *)
(*   - ListInv: every list is sorted and ends where it is empty, and what  *)
(*     goes to the ports was selected from such lists.                     *)
(***************************************************************************)
EXTENDS OrderBookEvents, LevelListProofs

(***************************************************************************)
(* The inductive invariant: which words have been stored, and which is to  *)
(* come, in each state of the receive FSM                                  *)
(***************************************************************************)
InFlight == [msg : Msgs \cup {Blank}, sym : SymIdx, bad : BOOLEAN, bi : Nat,
             left : Nat, acc : SUBSET Nat]
Buffer == [active : BOOLEAN, done : BOOLEAN, st : 0..2, msg : Msgs \cup {Blank},
           sym : SymIdx, bad : BOOLEAN, bi : Nat, left : Nat, acc : SUBSET Nat]

\* The part of TypeOK that the receive path touches.
ReceiveType ==
  /\ st \in States
  /\ cur \in InFlight
  /\ nx \in Buffer
  /\ locCnt \in 0..NSYM

\* A message whose word bi is to come next; all before it are stored.
Partial(r) ==
  /\ r.msg \in Msgs
  /\ r.bi < BodyWords(r.msg)
  /\ r.left = BodyWords(r.msg) - r.bi
  /\ r.acc = 0..r.bi-1

\* A message whose body has arrived.
Complete(r) == r.msg \in Msgs /\ r.acc = 0..BodyWords(r.msg)-1

\* The double buffer while it may receive.
NxInv ==
  \/ nx = NxEmpty /\ bus = Idle
  \/ /\ nx.active /\ ~nx.done /\ nx.st = 1
     /\ Partial(nx) /\ nx.bi = 0
     /\ bus = [msg |-> nx.msg, k |-> 1]
  \/ /\ nx.active /\ ~nx.done /\ nx.st = 2
     /\ Partial(nx)
     /\ bus = [msg |-> nx.msg, k |-> 2 + nx.bi]
  \/ /\ nx.active /\ nx.done
     /\ Complete(nx)
     /\ bus = Idle

\* The in-flight message while it is received.
CurInv ==
  /\ st \in {"INVAL", "W0"} => bus = Idle
  /\ st = "TS" => /\ Partial(cur) /\ cur.bi = 0
                  /\ bus = [msg |-> cur.msg, k |-> 1]
  /\ st = "BODY" => /\ Partial(cur)
                    /\ bus = [msg |-> cur.msg, k |-> 2 + cur.bi]

ReceiveInv ==
  /\ ReceiveType
  /\ IF InTail THEN Complete(cur) /\ NxInv ELSE CurInv /\ nx = NxEmpty

(***************************************************************************)
(* Messages, symbols and the words that the sender drives                  *)
(***************************************************************************)
\* Every message has a body.
LEMMA BodyWordsType ==
  ASSUME NEW m \in Msgs
  PROVE  BodyWords(m) \in Nat \ {0}
<1>1. m.type \in Types \ {"I"}
  BY MessageAssumption, EngineAssumption DEF Message
<1>2. BodyBytes(m.type) \in 1..29
  BY <1>1 DEF BodyBytes, Types, LookupTypes, AddTypes, ReduceTypes
<1>3. WordBytes \in {4, 8}
  BY EngineAssumption DEF WordBytes
<1>4. \A b \in 1..29 : (b + 4 - 1) \div 4 \in Nat \ {0}
                       /\ (b + 8 - 1) \div 8 \in Nat \ {0}
  OBVIOUS
<1> QED
  BY <1>2, <1>3, <1>4 DEF BodyWords

\* A message is given a book that exists.
LEMMA SymOfType ==
  ASSUME locCnt \in 0..NSYM, NEW l
  PROVE  SymOf(l) \in SymIdx /\ BadSym(l) \in BOOLEAN
<1>1. NSYM \in Nat \ {0} /\ Unlisted \notin SymIdx
  BY EngineAssumption DEF SymIdx, Unlisted
<1>2. LocLookup(l) = Unlisted \/ LocLookup(l) \in SymIdx
  <2> DEFINE hits == {i \in SymIdx : locMap[i] = l}
  <2>1. CASE hits # {}
    <3>1. \E x \in hits : \A y \in hits : x <= y
      <4>1. hits \in SUBSET Nat
        BY <1>1 DEF SymIdx
      <4> HIDE DEF hits
      <4> QED
        BY <2>1, <4>1, LowestExists
    <3> QED
      BY <2>1, <3>1 DEF LocLookup
  <2>2. CASE hits = {}
    BY <2>2 DEF LocLookup
  <2> QED
    BY <2>1, <2>2
<1>3. LocLookup(l) = Unlisted /\ locCnt # NSYM => locCnt < NSYM /\ locCnt \in SymIdx
  BY <1>1 DEF SymIdx
<1>4. 0 \in SymIdx
  BY <1>1 DEF SymIdx
<1> QED
  BY <1>2, <1>3, <1>4 DEF SymOf, Registers, BadSym

\* Registration never runs past the map.
LEMMA RegisterType ==
  ASSUME locCnt \in 0..NSYM, NEW new, NEW w, Register(new, w)
  PROVE  locCnt' \in 0..NSYM
BY EngineAssumption DEF Register, Registers

\* What the sender drives: nothing, the word under way, or a first word.
LEMMA OfferCases ==
  ASSUME NEW w \in Offers, bus.k \in Nat
  PROVE  \/ w = NoWord
         \/ bus.k > 0 /\ w = bus
         \/ bus.k = 0 /\ \E m \in Msgs : w = [msg |-> m, k |-> 0]
BY DEF Offers

(***************************************************************************)
(* What each cycle does to the receive path                                *)
(***************************************************************************)
Tails == States \ {"INVAL", "W0", "TS", "BODY"}

\* swap_next, as the receive path sees it.
Swaps ==
  /\ UNCHANGED locCnt
  /\ IF ~nx.active THEN st' = "W0" /\ UNCHANGED <<cur, nx>>
     ELSE /\ cur' = Buffered /\ nx' = NxEmpty
          /\ IF nx.done THEN st' \in Tails
             ELSE st' = IF nx.st = 1 THEN "TS" ELSE "BODY"

\* A cycle of a tail: the double buffer receives, unless the tail is over
\* and no word is waiting.
Receiving(w) ==
  /\ st \in Tails \ {"SWAP"} /\ st' \in Tails
  /\ st' \in {"WAIT_PROBE", "APPLY"} => st = "WAIT_PROBE"
  /\ UNCHANGED cur
  /\ NxRecv(w)

Ending(w) == st \in Tails \ {"SWAP"} /\ ~Receives(w) /\ Swaps

Opening(w) ==
  /\ st = "W0"
  /\ IF w = NoWord THEN UNCHANGED <<st, cur, locCnt>>
     ELSE /\ cur' = [msg |-> w.msg, sym |-> SymOf(w.msg.loc),
                     bad |-> BadSym(w.msg.loc), bi |-> 0,
                     left |-> BodyWords(w.msg), acc |-> {}]
          /\ Register(TRUE, w)
          /\ st' = "TS"
  /\ UNCHANGED nx

Stamping(w) ==
  /\ st = "TS"
  /\ st' = IF w = NoWord THEN "TS" ELSE "BODY"
  /\ UNCHANGED <<cur, nx, locCnt>>

Filling(w) ==
  /\ st = "BODY"
  /\ IF w = NoWord THEN UNCHANGED <<st, cur>>
     ELSE LET acc == Store(cur.acc, cur.bi, w, cur.msg)
          IN IF cur.left <= 1
             THEN st' \in Tails /\ cur' = [cur EXCEPT !.acc = acc]
             ELSE UNCHANGED st /\ cur' = [cur EXCEPT !.acc = acc, !.bi = @ + 1,
                                                     !.left = @ - 1]
  /\ UNCHANGED <<nx, locCnt>>

Clearing == st = "INVAL" /\ st' \in {"INVAL", "W0"} /\ UNCHANGED <<cur, nx, locCnt>>

LEMMA CycleKinds ==
  ASSUME NEW w, NEW rdy, Cycle(w, rdy)
  PROVE  \/ Clearing \/ Opening(w) \/ Stamping(w) \/ Filling(w)
         \/ Receiving(w) \/ Ending(w) \/ (st = "SWAP" /\ Swaps)
<1> USE DEF Tails, States
<1>1. Inval => Clearing
  BY DEF Inval, Clearing, recvVars
<1>2. W0(w) => Opening(w)
  BY DEF W0, Opening
<1>3. TS(w) => Stamping(w)
  BY DEF TS, Stamping, recvVars
<1>4. Body(w) => Filling(w)
  BY DEF Body, Filling
<1>5. SwapNext /\ UNCHANGED locCnt => Swaps
  BY DEF SwapNext, Swaps
<1>6. st \in Tails \ {"SWAP"} /\ EndTail(w) => Receiving(w) \/ Ending(w)
  BY <1>5 DEF EndTail, Receiving, Ending
<1>7. WaitProbe(w) => Receiving(w)
  BY DEF WaitProbe, Background, Receiving
<1>8. ApplyDiscard(w) => Receiving(w) \/ Ending(w)
  BY <1>6 DEF ApplyDiscard
<1>9. st = "APPLY" /\ (ToLevels(w) \/ Fruitless(w)) => Receiving(w)
  BY DEF ToLevels, Fruitless, Background, Receiving
<1>10. ApplyAdd(w) \/ ApplyReduce(w) \/ ApplyDelete(w) \/ ApplyReplace(w) => Receiving(w)
  BY <1>9 DEF ApplyAdd, ApplyReduce, ApplyDelete, ApplyReplace, Applies, Refuse, Unknown
<1>11. ApplySession(w) => Receiving(w) \/ Ending(w)
  BY <1>6 DEF ApplySession, Applies
<1>12. Lv2(w) \/ Lv2b(w) \/ Lv3(w) \/ Uadd(w) => Receiving(w)
  BY DEF Lv2, Lv2b, Lv3, Uadd, Background, Receiving
<1>13. EmitA(w) \/ EmitB(w) \/ EmitWait(w) => Receiving(w)
  BY DEF EmitA, EmitB, EmitWait, Background, Receiving
<1>14. EmitNothing(w) \/ Emit(w, rdy) => Receiving(w) \/ Ending(w)
  BY <1>6 DEF EmitNothing, Emit
<1>15. Swap => st = "SWAP" /\ Swaps
  BY <1>5 DEF Swap
<1> QED
  BY <1>1, <1>2, <1>3, <1>4, <1>7, <1>8, <1>10, <1>11, <1>12, <1>13, <1>14,
     <1>15 DEF Cycle, Quiet

(***************************************************************************)
(* The invariant is inductive                                              *)
(***************************************************************************)
\* What a transferred word leaves on the bus.
LEMMA WordSent ==
  ASSUME NEW m, NEW k \in Nat, NEW w, w = [msg |-> m, k |-> k], Send(w), TReady
  PROVE  /\ w # NoWord
         /\ bus' = IF k = LastWord(m) THEN Idle ELSE [msg |-> m, k |-> k + 1]
<1>1. w # NoWord
  BY DEF NoWord
<1> QED
  BY <1>1 DEF Send

LEMMA NothingSent ==
  ASSUME NEW w, Send(w), w = NoWord \/ ~TReady
  PROVE  bus' = bus
BY DEF Send, inputVars

\* The word that a message waits for goes to its slot.
LEMMA WordStored ==
  ASSUME NEW r, Partial(r), r.bi \in Nat,
         NEW w, w = [msg |-> r.msg, k |-> 2 + r.bi]
  PROVE  Store(r.acc, r.bi, w, r.msg) = 0..r.bi
<1>1. w.msg = r.msg /\ w.k = r.bi + 2
  OBVIOUS
<1>2. Store(r.acc, r.bi, w, r.msg) = r.acc \cup {r.bi}
  BY <1>1 DEF Store
<1>3. (0..r.bi-1) \cup {r.bi} = 0..r.bi
  OBVIOUS
<1> QED
  BY <1>2, <1>3 DEF Partial

\* The input is open while a message is received into its registers.
LEMMA ReadyOutsideTail ==
  ASSUME nx = NxEmpty, st \in {"W0", "TS", "BODY"}
  PROVE  TReady
BY DEF TReady, NxEmpty

\* ST_W0: the first word opens the in-flight registers.
LEMMA OpeningKeeps ==
  ASSUME ReceiveInv, NEW w \in Offers, Send(w), Opening(w)
  PROVE  ReceiveInv'
<1>1. /\ nx = NxEmpty /\ nx' = nx /\ bus = Idle /\ TReady
      /\ locCnt \in 0..NSYM /\ cur \in InFlight /\ nx \in Buffer
  BY ReadyOutsideTail DEF ReceiveInv, InTail, CurInv, Opening, ReceiveType
<1>2. CASE w = NoWord
  BY <1>1, <1>2, NothingSent
     DEF Opening, ReceiveInv, InTail, CurInv, ReceiveType, States
<1>3. CASE w # NoWord
  <2>1. PICK m \in Msgs : w = [msg |-> m, k |-> 0]
    BY <1>1, <1>3, OfferCases DEF Idle
  <2>2. BodyWords(m) \in Nat \ {0}
    BY BodyWordsType
  <2>3. bus' = [msg |-> m, k |-> 1]
    BY <1>1, <2>1, <2>2, WordSent DEF LastWord
  <2>4. /\ cur' = [msg |-> m, sym |-> SymOf(m.loc), bad |-> BadSym(m.loc),
                   bi |-> 0, left |-> BodyWords(m), acc |-> {}]
        /\ st' = "TS" /\ Register(TRUE, w)
    BY <1>3, <2>1 DEF Opening
  <2>5. locCnt' \in 0..NSYM
    BY <1>1, <2>4, RegisterType
  <2>6. cur' \in InFlight
    BY <1>1, <2>2, <2>4, SymOfType DEF InFlight
  <2>7. Partial(cur')
    BY <2>2, <2>4 DEF Partial
  <2> QED
    BY <1>1, <2>3, <2>4, <2>5, <2>6, <2>7
       DEF ReceiveInv, InTail, CurInv, ReceiveType, States
<1> QED
  BY <1>2, <1>3

\* ST_TS: the second word is passed over.
LEMMA StampingKeeps ==
  ASSUME ReceiveInv, NEW w \in Offers, Send(w), Stamping(w)
  PROVE  ReceiveInv'
<1>1. /\ nx = NxEmpty /\ nx' = nx /\ cur' = cur /\ locCnt' = locCnt /\ TReady
      /\ Partial(cur) /\ cur.bi = 0 /\ bus = [msg |-> cur.msg, k |-> 1]
  BY ReadyOutsideTail DEF ReceiveInv, InTail, CurInv, Stamping
<1>2. CASE w = NoWord
  BY <1>1, <1>2, NothingSent
     DEF Stamping, ReceiveInv, InTail, CurInv, ReceiveType, States
<1>3. CASE w # NoWord
  <2>1. w = [msg |-> cur.msg, k |-> 1]
    BY <1>1, <1>3, OfferCases
  <2>2. BodyWords(cur.msg) \in Nat \ {0}
    BY <1>1, BodyWordsType DEF Partial
  <2>3. bus' = [msg |-> cur.msg, k |-> 2]
    BY <1>1, <2>1, <2>2, WordSent DEF LastWord
  <2> QED
    BY <1>1, <1>3, <2>3
       DEF Stamping, ReceiveInv, InTail, CurInv, ReceiveType, States
<1> QED
  BY <1>2, <1>3

\* ST_BODY: each word goes to its slot, the last one ends the reception.
LEMMA FillingKeeps ==
  ASSUME ReceiveInv, NEW w \in Offers, Send(w), Filling(w)
  PROVE  ReceiveInv'
<1>1. /\ nx = NxEmpty /\ nx' = nx /\ locCnt' = locCnt /\ TReady
      /\ Partial(cur) /\ bus = [msg |-> cur.msg, k |-> 2 + cur.bi]
      /\ cur \in InFlight
  BY ReadyOutsideTail DEF ReceiveInv, InTail, CurInv, Filling, ReceiveType
<1>2. CASE w = NoWord
  BY <1>1, <1>2, NothingSent
     DEF Filling, ReceiveInv, InTail, CurInv, ReceiveType, States
<1>3. CASE w # NoWord
  <2>1. cur.bi \in Nat /\ cur.left \in Nat
    BY <1>1 DEF InFlight
  <2>2. w = [msg |-> cur.msg, k |-> 2 + cur.bi]
    BY <1>1, <1>3, <2>1, OfferCases
  <2>3. BodyWords(cur.msg) \in Nat \ {0}
    BY <1>1, BodyWordsType DEF Partial
  <2>4. bus' = IF cur.bi + 1 = BodyWords(cur.msg) THEN Idle
               ELSE [msg |-> cur.msg, k |-> 2 + (cur.bi + 1)]
    BY <1>1, <2>1, <2>2, <2>3, WordSent DEF LastWord
  <2>5. Store(cur.acc, cur.bi, w, cur.msg) = 0..cur.bi
    BY <1>1, <2>1, <2>2, WordStored
  <2>6. CASE cur.left <= 1
    <3>1. cur.bi + 1 = BodyWords(cur.msg)
      BY <1>1, <2>1, <2>3, <2>6 DEF Partial
    <3>2. st' \in Tails /\ cur' = [cur EXCEPT !.acc = 0..cur.bi]
      BY <1>3, <2>5, <2>6 DEF Filling
    <3>3. cur' \in InFlight
      BY <1>1, <2>1, <3>2 DEF InFlight
    <3>4. Complete(cur')
      BY <1>1, <2>1, <2>3, <3>1, <3>2 DEF Complete, Partial, InFlight
    <3> QED
      BY <1>1, <2>4, <3>1, <3>2, <3>3, <3>4
         DEF ReceiveInv, InTail, NxInv, ReceiveType, States, Tails
  <2>7. CASE ~(cur.left <= 1)
    <3>1. cur.bi + 1 # BodyWords(cur.msg) /\ cur.bi + 1 < BodyWords(cur.msg)
      BY <1>1, <2>1, <2>3, <2>7 DEF Partial
    <3>2. /\ st' = st /\ st = "BODY"
          /\ cur' = [cur EXCEPT !.acc = 0..cur.bi, !.bi = @ + 1, !.left = @ - 1]
      BY <1>3, <2>5, <2>7 DEF Filling
    <3>3. cur' \in InFlight
      <4>1. cur.left - 1 \in Nat /\ cur.bi + 1 \in Nat /\ 0..cur.bi \in SUBSET Nat
        BY <2>1, <2>7
      <4> QED
        BY <1>1, <3>2, <4>1 DEF InFlight
    <3>4. Partial(cur') /\ cur'.bi = cur.bi + 1 /\ cur'.msg = cur.msg
      BY <1>1, <2>1, <2>3, <3>1, <3>2 DEF Partial, InFlight
    <3> QED
      BY <1>1, <2>4, <3>1, <3>2, <3>3, <3>4
         DEF ReceiveInv, InTail, CurInv, ReceiveType, States
  <2> QED
    BY <2>6, <2>7
<1> QED
  BY <1>2, <1>3

\* A tail: the double buffer opens, fills and completes.
LEMMA ReceivingKeeps ==
  ASSUME ReceiveInv, NEW w \in Offers, Send(w), Receiving(w)
  PROVE  ReceiveInv'
<1>1. /\ Complete(cur) /\ NxInv /\ cur' = cur /\ st' \in Tails
      /\ cur \in InFlight /\ nx \in Buffer /\ locCnt \in 0..NSYM
      /\ TReady <=> ~nx.done
  BY DEF ReceiveInv, InTail, Receiving, ReceiveType, Tails, TReady
<1>2. locCnt' \in 0..NSYM
  BY <1>1, RegisterType DEF Receiving, NxRecv
<1>3. SUFFICES nx' \in Buffer /\ NxInv'
  BY <1>1, <1>2 DEF ReceiveInv, InTail, ReceiveType, Tails, Complete
<1>4. CASE ~Receives(w)
  <2>1. nx' = nx /\ bus' = bus
    BY <1>1, <1>4, NothingSent DEF Receiving, NxRecv, Receives
  <2> QED
    BY <1>1, <2>1 DEF NxInv
<1>5. CASE Receives(w)
  <2>1. w # NoWord /\ ~nx.done /\ TReady /\ nx' = NxAfter(w)
    BY <1>1, <1>5 DEF Receiving, NxRecv, Receives
  <2>2. CASE ~nx.active
    <3>1. bus = Idle
      BY <1>1, <2>2 DEF NxInv
    <3>2. PICK m \in Msgs : w = [msg |-> m, k |-> 0]
      BY <2>1, <3>1, OfferCases DEF Idle
    <3>3. BodyWords(m) \in Nat \ {0}
      BY BodyWordsType
    <3>4. bus' = [msg |-> m, k |-> 1]
      BY <2>1, <3>2, <3>3, WordSent DEF LastWord
    <3>5. nx' = [active |-> TRUE, done |-> FALSE, st |-> 1, msg |-> m,
                 sym |-> SymOf(m.loc), bad |-> BadSym(m.loc), bi |-> 0,
                 left |-> BodyWords(m), acc |-> {}]
      BY <2>1, <2>2, <3>2 DEF NxAfter
    <3>6. nx' \in Buffer
      BY <1>1, <3>3, <3>5, SymOfType DEF Buffer
    <3>7. Partial(nx')
      BY <3>3, <3>5 DEF Partial
    <3> QED
      BY <3>4, <3>5, <3>6, <3>7 DEF NxInv
  <2>3. CASE nx.active
    <3>1. /\ Partial(nx) /\ nx.bi \in Nat /\ nx.left \in Nat
          /\ nx.st = 1 => nx.bi = 0 /\ bus = [msg |-> nx.msg, k |-> 1]
          /\ nx.st # 1 => nx.st = 2 /\ bus = [msg |-> nx.msg, k |-> 2 + nx.bi]
      BY <1>1, <2>1, <2>3 DEF NxInv, NxEmpty, Buffer
    <3>2. BodyWords(nx.msg) \in Nat \ {0}
      BY <3>1, BodyWordsType DEF Partial
    <3>3. w = bus
      BY <2>1, <3>1, OfferCases
    <3>4. CASE nx.st = 1
      <4>1. bus' = [msg |-> nx.msg, k |-> 2]
        BY <2>1, <3>1, <3>2, <3>3, <3>4, WordSent DEF LastWord
      <4>2. nx' = [nx EXCEPT !.st = 2]
        BY <2>1, <2>3, <3>4 DEF NxAfter
      <4>3. nx' \in Buffer /\ Partial(nx')
        BY <1>1, <3>1, <4>2 DEF Buffer, Partial
      <4>4. nx'.active /\ ~nx'.done /\ nx'.st = 2 /\ nx'.msg = nx.msg /\ nx'.bi = 0
        BY <1>1, <2>1, <2>3, <3>1, <3>4, <4>2 DEF Buffer
      <4> QED
        BY <4>1, <4>3, <4>4 DEF NxInv
    <3>5. CASE nx.st # 1
      <4>1. w = [msg |-> nx.msg, k |-> 2 + nx.bi]
        BY <3>1, <3>3, <3>5
      <4>2. bus' = IF nx.bi + 1 = BodyWords(nx.msg) THEN Idle
                   ELSE [msg |-> nx.msg, k |-> 2 + (nx.bi + 1)]
        BY <2>1, <3>1, <3>2, <4>1, WordSent DEF LastWord
      <4>3. Store(nx.acc, nx.bi, w, nx.msg) = 0..nx.bi
        BY <3>1, <4>1, WordStored
      <4>4. CASE nx.left <= 1
        <5>1. nx.bi + 1 = BodyWords(nx.msg)
          BY <3>1, <3>2, <4>4 DEF Partial
        <5>2. nx' = [nx EXCEPT !.acc = 0..nx.bi, !.done = TRUE]
          BY <1>1, <2>1, <2>3, <3>5, <4>3, <4>4 DEF NxAfter, Buffer
        <5>3. nx' \in Buffer
          <6>1. 0..nx.bi \in SUBSET Nat
            BY <3>1
          <6> QED
            BY <1>1, <5>2, <6>1 DEF Buffer
        <5>4. Complete(nx') /\ nx'.active /\ nx'.done
          BY <1>1, <2>3, <3>1, <3>2, <5>1, <5>2 DEF Complete, Partial, Buffer
        <5> QED
          BY <4>2, <5>1, <5>3, <5>4 DEF NxInv
      <4>5. CASE ~(nx.left <= 1)
        <5>1. nx.bi + 1 # BodyWords(nx.msg) /\ nx.bi + 1 < BodyWords(nx.msg)
          BY <3>1, <3>2, <4>5 DEF Partial
        <5>2. nx' = [nx EXCEPT !.acc = 0..nx.bi, !.bi = @ + 1, !.left = @ - 1]
          BY <1>1, <2>1, <2>3, <3>5, <4>3, <4>5 DEF NxAfter, Buffer
        <5>3. nx.left - 1 \in Nat /\ nx.bi + 1 \in Nat /\ 0..nx.bi \in SUBSET Nat
          BY <3>1, <4>5
        <5>4. nx' \in Buffer
          BY <1>1, <5>2, <5>3 DEF Buffer
        <5>5. /\ Partial(nx') /\ nx'.bi = nx.bi + 1 /\ nx'.msg = nx.msg
              /\ nx'.active /\ ~nx'.done /\ nx'.st = 2
          BY <1>1, <2>1, <2>3, <3>1, <3>2, <3>5, <5>1, <5>2 DEF Partial, Buffer
        <5> QED
          BY <4>2, <5>1, <5>4, <5>5 DEF NxInv
      <4> QED
        BY <4>4, <4>5
    <3> QED
      BY <3>4, <3>5
  <2> QED
    BY <2>2, <2>3
<1> QED
  BY <1>4, <1>5

\* The swap hands the buffered message over as it stands.
LEMMA SwapsKeeps ==
  ASSUME ReceiveInv, NEW w \in Offers, Send(w), st \in Tails, Swaps,
         w = NoWord \/ ~TReady
  PROVE  ReceiveInv'
<1>1. /\ Complete(cur) /\ NxInv /\ bus' = bus /\ locCnt' \in 0..NSYM
      /\ cur \in InFlight /\ nx \in Buffer
  BY NothingSent DEF ReceiveInv, InTail, ReceiveType, Tails, Swaps
<1>2. NxEmpty \in Buffer
  BY <1>1, EngineAssumption DEF NxEmpty, Buffer, SymIdx
<1>3. CASE ~nx.active
  <2>1. nx = NxEmpty /\ bus = Idle
    BY <1>1, <1>3 DEF NxInv
  <2> QED
    BY <1>1, <1>3, <2>1
       DEF Swaps, ReceiveInv, InTail, CurInv, ReceiveType, States
<1>4. CASE nx.active
  <2>1. cur' = Buffered /\ nx' = NxEmpty
    BY <1>4 DEF Swaps
  <2>2. cur' \in InFlight /\ cur'.msg = nx.msg /\ cur'.bi = nx.bi
        /\ cur'.left = nx.left /\ cur'.acc = nx.acc
    BY <1>1, <2>1 DEF Buffered, InFlight, Buffer
  <2>3. CASE nx.done
    <3>1. Complete(nx) /\ bus = Idle /\ st' \in Tails
      BY <1>1, <1>4, <2>3 DEF NxInv, NxEmpty, Swaps
    <3> QED
      BY <1>1, <1>2, <2>1, <2>2, <3>1
         DEF ReceiveInv, InTail, ReceiveType, States, Tails, NxInv, Complete
  <2>4. CASE ~nx.done /\ nx.st = 1
    <3>1. Partial(nx) /\ nx.bi = 0 /\ bus = [msg |-> nx.msg, k |-> 1] /\ st' = "TS"
      BY <1>1, <1>4, <2>4 DEF NxInv, NxEmpty, Swaps
    <3> QED
      BY <1>1, <1>2, <2>1, <2>2, <3>1
         DEF ReceiveInv, InTail, ReceiveType, States, CurInv, Partial
  <2>5. CASE ~nx.done /\ nx.st # 1
    <3>1. Partial(nx) /\ bus = [msg |-> nx.msg, k |-> 2 + nx.bi] /\ st' = "BODY"
      BY <1>1, <1>4, <2>5 DEF NxInv, NxEmpty, Swaps
    <3> QED
      BY <1>1, <1>2, <2>1, <2>2, <3>1
         DEF ReceiveInv, InTail, ReceiveType, States, CurInv, Partial
  <2> QED
    BY <2>3, <2>4, <2>5
<1> QED
  BY <1>3, <1>4

\* ST_INVAL: nothing is received while the table is cleared.
LEMMA ClearingKeeps ==
  ASSUME ReceiveInv, NEW w \in Offers, Send(w), Clearing
  PROVE  ReceiveInv'
<1>1. bus' = bus
  BY NothingSent DEF Clearing, TReady
<1> QED
  BY <1>1 DEF Clearing, ReceiveInv, InTail, CurInv, ReceiveType, States

LEMMA ReceiveInvInit == Init => ReceiveInv
<1> SUFFICES ASSUME Init PROVE ReceiveInv
  OBVIOUS
<1>1. NSYM \in Nat \ {0} /\ 0 \in SymIdx
  BY EngineAssumption DEF SymIdx, Unlisted
<1>2. cur \in InFlight /\ nx \in Buffer
  BY <1>1 DEF Init, NoMsg, NxEmpty, InFlight, Buffer
<1> QED
  BY <1>1, <1>2 DEF Init, ReceiveInv, InTail, CurInv, ReceiveType, States

LEMMA ReceiveInvNext == ReceiveInv /\ [Next]_vars => ReceiveInv'
<1> SUFFICES ASSUME ReceiveInv, [Next]_vars PROVE ReceiveInv'
  OBVIOUS
<1>1. ASSUME NEW w \in Offers, NEW rdy \in Readiness, Cycle(w, rdy)
      PROVE  ReceiveInv'
  <2>1. Send(w)
    BY <1>1 DEF Cycle
  <2>2. CASE Clearing
    BY <2>1, <2>2, ClearingKeeps
  <2>3. CASE Opening(w)
    BY <2>1, <2>3, OpeningKeeps
  <2>4. CASE Stamping(w)
    BY <2>1, <2>4, StampingKeeps
  <2>5. CASE Filling(w)
    BY <2>1, <2>5, FillingKeeps
  <2>6. CASE Receiving(w)
    BY <2>1, <2>6, ReceivingKeeps
  <2>7. CASE Ending(w)
    <3>1. w = NoWord \/ ~TReady
      BY <2>7 DEF Ending, Receives, TReady, Tails
    <3> QED
      BY <2>1, <2>7, <3>1, SwapsKeeps DEF Ending
  <2>8. CASE st = "SWAP" /\ Swaps
    <3>1. ~TReady /\ st \in Tails
      BY <2>8 DEF TReady, Tails, States
    <3> QED
      BY <2>1, <2>8, <3>1, SwapsKeeps
  <2> QED
    BY <1>1, <2>2, <2>3, <2>4, <2>5, <2>6, <2>7, <2>8, CycleKinds
<1>2. CASE UNCHANGED vars
  <2>1. bus' = bus /\ st' = st /\ cur' = cur /\ nx' = nx /\ locCnt' = locCnt
    BY <1>2 DEF vars, inputVars, recvVars
  <2> QED
    BY <2>1 DEF ReceiveInv, ReceiveType, InTail, NxInv, CurInv
<1> QED
  BY <1>1, <1>2 DEF Next

(***************************************************************************)
(* The order table as a ring                                               *)
(***************************************************************************)
\* How far slot s is behind the hash of ref, and the slot n behind it.
Offset(ref, s) == (s - Hash(ref)) % NSLOT
At(ref, n) == (Hash(ref) + n) % NSLOT

\* Distances on a ring of NSLOT slots.
LEMMA Ring ==
  ASSUME NEW h \in 0..NSLOT-1
  PROVE  /\ \A n \in Nat : (h + n) % NSLOT \in 0..NSLOT-1
         /\ \A n \in 0..NSLOT-1 : (((h + n) % NSLOT) - h) % NSLOT = n
         /\ \A s \in 0..NSLOT-1 : (s - h) % NSLOT \in 0..NSLOT-1
                                 /\ (h + ((s - h) % NSLOT)) % NSLOT = s
         /\ \A n \in Nat : n + 2 < NSLOT =>
              (((h + n) % NSLOT) + 2) % NSLOT = (h + (n + 2)) % NSLOT
<1>1. NSLOT \in Nat \ {0} /\ h \in 0..NSLOT-1
  BY EngineAssumption
<1>2. \A a \in 0..2*NSLOT-1 : a % NSLOT = IF a < NSLOT THEN a ELSE a - NSLOT
  BY <1>1
<1>3. \A n \in Nat : (h + n) % NSLOT \in 0..NSLOT-1
  BY <1>1
<1>4. \A n \in 0..NSLOT-1 : (h + n) % NSLOT = IF h + n < NSLOT THEN h + n ELSE h + n - NSLOT
  BY <1>1
<1>5. \A s \in 0..NSLOT-1 : (s - h) % NSLOT = IF h <= s THEN s - h ELSE s - h + NSLOT
  BY <1>1
<1>6. \A n \in 0..NSLOT-1 : (((h + n) % NSLOT) - h) % NSLOT = n
  BY <1>1, <1>4, <1>5
<1>7. \A s \in 0..NSLOT-1 : (s - h) % NSLOT \in 0..NSLOT-1
                            /\ (h + ((s - h) % NSLOT)) % NSLOT = s
  BY <1>1, <1>4, <1>5
<1>8. ASSUME NEW n \in Nat, n + 2 < NSLOT
      PROVE  (((h + n) % NSLOT) + 2) % NSLOT = (h + (n + 2)) % NSLOT
  <2>1. n \in 0..NSLOT-1 /\ n + 2 \in 0..NSLOT-1
    BY <1>1, <1>8
  <2>2. (h + n) % NSLOT = IF h + n < NSLOT THEN h + n ELSE h + n - NSLOT
    BY <1>4, <2>1
  <2>3. (h + (n + 2)) % NSLOT = IF h + (n + 2) < NSLOT THEN h + (n + 2) ELSE h + (n + 2) - NSLOT
    BY <1>4, <2>1
  <2>4. ((h + n) % NSLOT) + 2 \in 0..2*NSLOT-1
    BY <1>1, <2>1, <2>2
  <2> QED
    BY <1>1, <1>2, <2>1, <2>2, <2>3, <2>4
<1> QED
  BY <1>3, <1>6, <1>7, <1>8

\* The slots of a walk, in order, are those behind the hash, each once; and the
\* address that the engine computes from the slot it looks at.
LEMMA RingSlots ==
  ASSUME NEW ref \in Int
  PROVE  /\ Hash(ref) \in TabSlots
         /\ \A n \in Nat : At(ref, n) \in TabSlots
         /\ \A n \in TabSlots : Offset(ref, At(ref, n)) = n
         /\ \A s \in TabSlots : Offset(ref, s) \in TabSlots /\ At(ref, Offset(ref, s)) = s
         /\ \A n \in Nat : n + 2 < NSLOT => (At(ref, n) + 2) % NSLOT = At(ref, n + 2)
<1>1. Hash(ref) \in 0..NSLOT-1
  BY EngineAssumption DEF Hash
<1>2. \A n \in Nat : At(ref, n) \in TabSlots
  BY <1>1, Ring, Zenon DEF At, TabSlots
<1>3. \A n \in TabSlots : Offset(ref, At(ref, n)) = n
  BY <1>1, Ring, Zenon DEF At, Offset, TabSlots
<1>4. ASSUME NEW s \in TabSlots
      PROVE  Offset(ref, s) \in TabSlots /\ At(ref, Offset(ref, s)) = s
  <2>1. s \in 0..NSLOT-1
    BY DEF TabSlots
  <2>2. /\ (s - Hash(ref)) % NSLOT \in 0..NSLOT-1
        /\ (Hash(ref) + ((s - Hash(ref)) % NSLOT)) % NSLOT = s
    BY <1>1, <2>1, Ring
  <2> QED
    BY <2>2 DEF At, Offset, TabSlots
<1>5. \A n \in Nat : n + 2 < NSLOT => (At(ref, n) + 2) % NSLOT = At(ref, n + 2)
  BY <1>1, Ring, Zenon DEF At
<1> QED
  BY <1>1, <1>2, <1>3, <1>4, <1>5 DEF TabSlots

(***************************************************************************)
(* What a walk of n slots over table t has seen                            *)
(***************************************************************************)
Has(t, s, ref) == t[s].valid /\ t[s].ref = ref
Clear(t, ref, n) == \A s \in TabSlots : Offset(ref, s) < n => ~Has(t, s, ref)
SomeHole(t, ref, n) == \E s \in TabSlots : Offset(ref, s) < n /\ ~t[s].valid

\* s is the first hole within n slots.
HoleAt(t, ref, n, s) ==
  /\ s \in TabSlots /\ Offset(ref, s) < n /\ ~t[s].valid
  /\ \A r \in TabSlots : Offset(ref, r) < Offset(ref, s) => t[r].valid

LEMMA NothingSeen ==
  ASSUME NEW t, NEW ref \in Int
  PROVE  Clear(t, ref, 0) /\ ~SomeHole(t, ref, 0)
<1>1. \A s \in TabSlots : Offset(ref, s) \in TabSlots
  BY RingSlots, Zenon
<1>2. \A x \in TabSlots : ~(x < 0)
  BY EngineAssumption DEF TabSlots
<1> QED
  BY <1>1, <1>2, Zenon DEF Clear, SomeHole

\* One slot more.
LEMMA SeenNext ==
  ASSUME NEW t, NEW ref \in Int, NEW n \in TabSlots
  PROVE  /\ Clear(t, ref, n) /\ ~Has(t, At(ref, n), ref) => Clear(t, ref, n + 1)
         /\ SomeHole(t, ref, n + 1) <=> SomeHole(t, ref, n) \/ ~t[At(ref, n)].valid
         /\ ~SomeHole(t, ref, n) /\ ~t[At(ref, n)].valid =>
              HoleAt(t, ref, n + 1, At(ref, n))
         /\ \A s : HoleAt(t, ref, n, s) => HoleAt(t, ref, n + 1, s)
<1>0. TabSlots \subseteq Nat
  BY EngineAssumption DEF TabSlots
<1>1. n \in Int /\ \A s \in TabSlots : Offset(ref, s) \in Int
  <2>1. \A s \in TabSlots : Offset(ref, s) \in TabSlots
    BY RingSlots, Zenon
  <2>2. \A x \in TabSlots : x \in Int
    BY <1>0
  <2> QED
    BY <2>1, <2>2, Zenon
<1>2. At(ref, n) \in TabSlots /\ Offset(ref, At(ref, n)) = n
  BY <1>0, RingSlots, Zenon
<1>3. ASSUME NEW s \in TabSlots
      PROVE  Offset(ref, s) < n + 1 <=> Offset(ref, s) < n \/ s = At(ref, n)
  <2>1. Offset(ref, s) = n => s = At(ref, n)
    BY RingSlots
  <2>2. Offset(ref, s) < n + 1 <=> Offset(ref, s) < n \/ Offset(ref, s) = n
    BY <1>1
  <2>3. s = At(ref, n) => Offset(ref, s) = n
    BY <1>2
  <2> QED
    BY <2>1, <2>2, <2>3
<1>4. \A s \in TabSlots : Offset(ref, s) < n => Offset(ref, s) < n + 1
  BY <1>1
<1> HIDE DEF Offset, At
<1>5. Clear(t, ref, n) /\ ~Has(t, At(ref, n), ref) => Clear(t, ref, n + 1)
  BY <1>3, Zenon DEF Clear
<1>6. SomeHole(t, ref, n + 1) <=> SomeHole(t, ref, n) \/ ~t[At(ref, n)].valid
  BY <1>2, <1>3, Zenon DEF SomeHole
<1>7. ~SomeHole(t, ref, n) /\ ~t[At(ref, n)].valid => HoleAt(t, ref, n + 1, At(ref, n))
  <2>1. n < n + 1
    BY <1>1
  <2> QED
    BY <1>2, <2>1, Zenon DEF SomeHole, HoleAt
<1>8. \A s : HoleAt(t, ref, n, s) => HoleAt(t, ref, n + 1, s)
  BY <1>4, Zenon DEF HoleAt
<1> QED
  BY <1>5, <1>6, <1>7, <1>8

(***************************************************************************)
(* Tables                                                                  *)
(***************************************************************************)
GoodEntry(e) ==
  e.ref \in Refs /\ e.side \in Sides /\ e.px \in Prices /\ e.qty \in 1..MaxShares

\* Every valid slot is an order's, within reach of its hash, and its only one.
SoundTable(t) ==
  \A i \in TabSlots :
    t[i].valid => /\ GoodEntry(t[i])
                  /\ Offset(t[i].ref, i) < PROBE
                  /\ \A j \in TabSlots : Has(t, j, t[i].ref) => j = i

\* A reference that a whole walk has not met is nowhere in the table.
LEMMA ClearIsAbsent ==
  ASSUME NEW t, NEW ref, SoundTable(t), Clear(t, ref, PROBE)
  PROVE  \A s \in TabSlots : ~Has(t, s, ref)
BY DEF SoundTable, Clear, Has

LEMMA RemovalSound ==
  ASSUME NEW t, SoundTable(t), DOMAIN t = TabSlots, NEW s \in TabSlots
  PROVE  SoundTable([t EXCEPT ![s] = Hole])
<1> DEFINE u == [t EXCEPT ![s] = Hole]
<1>1. \A i \in TabSlots : u[i] = IF i = s THEN Hole ELSE t[i]
  OBVIOUS
<1>2. ~Hole.valid
  BY DEF Hole
<1> HIDE DEF u
<1>3. SoundTable(u)
  BY <1>1, <1>2, ZenonT(60) DEF SoundTable, Has
<1> QED
  BY <1>3 DEF u

LEMMA PlacementSound ==
  ASSUME NEW t, SoundTable(t), DOMAIN t = TabSlots, NEW s \in TabSlots,
         NEW e, GoodEntry(e), Offset(e.ref, s) < PROBE,
         \A j \in TabSlots : Has(t, j, e.ref) => j = s
  PROVE  SoundTable([t EXCEPT ![s] = e])
<1> DEFINE u == [t EXCEPT ![s] = e]
<1>1. \A i \in TabSlots : u[i] = IF i = s THEN e ELSE t[i]
  OBVIOUS
<1> HIDE DEF u
<1>2. SUFFICES ASSUME NEW i \in TabSlots, u[i].valid
               PROVE  /\ GoodEntry(u[i]) /\ Offset(u[i].ref, i) < PROBE
                      /\ \A j \in TabSlots : Has(u, j, u[i].ref) => j = i
  BY DEF SoundTable, u
<1>3. CASE i = s
  BY <1>1, <1>3, Zenon DEF Has
<1>4. CASE i # s
  <2>1. u[i] = t[i]
    BY <1>1, <1>4
  <2>2. ASSUME NEW j \in TabSlots, Has(u, j, t[i].ref) PROVE j = i
    <3>1. CASE j # s
      BY <1>1, <1>2, <2>1, <2>2, <3>1, Zenon DEF SoundTable, Has
    <3>2. CASE j = s
      <4>1. e.ref = t[i].ref
        BY <1>1, <2>2, <3>2 DEF Has
      <4> QED
        BY <1>2, <1>4, <2>1, <4>1 DEF Has
    <3> QED
      BY <3>1, <3>2
  <2> QED
    BY <1>2, <2>1, <2>2, Zenon DEF SoundTable
<1> QED
  BY <1>3, <1>4

(***************************************************************************)
(* The probe engine: what it has found, or is about to, for a message m    *)
(***************************************************************************)
ProbeType ==
  [phase : {"IDLE", "WARM", "WALK"}, pendOld : BOOLEAN, pendNew : BOOLEAN,
   oref : Int, newref : Int, needEmpty : BOOLEAN,
   target : Int, i : Nat, recEmpty : BOOLEAN, isOld : BOOLEAN,
   sawEmpty : BOOLEAN,
   found : BOOLEAN, slot : TabSlots, entry : Entry, empty : TabSlots,
   full : BOOLEAN, newFound : BOOLEAN, newEmpty : TabSlots, newFull : BOOLEAN,
   addr : TabSlots, data : Entry, since : Int, needed : Int, pause : BOOLEAN]

\* The results of a whole walk for ref: found, the first hole, or no room.
Walked(t, ref, hole, full) ==
  /\ full <=> ~SomeHole(t, ref, PROBE)
  /\ ~full => HoleAt(t, ref, PROBE, hole)

OldResult(t, p, m) ==
  /\ p.found => /\ p.slot \in TabSlots /\ Has(t, p.slot, m.ref)
                /\ p.entry = t[p.slot]
  /\ ~p.found => Clear(t, m.ref, PROBE)
  /\ m.type \in AddTypes /\ ~p.found => Walked(t, m.ref, p.empty, p.full)

NewResult(t, p, m) ==
  /\ p.newFound => \E s \in TabSlots : Has(t, s, m.new)
  /\ ~p.newFound => /\ Clear(t, m.new, PROBE)
                    /\ Walked(t, m.new, p.newEmpty, p.newFull)

\* A walk for ref that has looked at p.i slots; the next one is in p.data.
Running(t, p, ref, rec, hole) ==
  /\ p.phase \in {"WARM", "WALK"} /\ ~p.pause
  /\ p.target = ref /\ p.recEmpty = rec
  /\ p.i \in 0..PROBE-1
  /\ p.phase = "WARM" => p.i = 0 /\ p.addr = At(ref, 0)
  /\ p.phase = "WALK" => /\ p.data = t[At(ref, p.i)]
                         /\ p.i < PROBE - 1 => p.addr = At(ref, p.i + 1)
  /\ Clear(t, ref, p.i)
  /\ p.sawEmpty <=> rec /\ SomeHole(t, ref, p.i)
  /\ p.sawEmpty => HoleAt(t, ref, p.i, hole)

AtRest(p) == ~p.pendOld /\ ~p.pendNew /\ p.phase = "IDLE"

\* The run for the order reference: pending, under way or over.
OldPending(p, m) ==
  /\ p.pendOld /\ p.phase = "IDLE" /\ p.since = 0
  /\ p.oref = m.ref /\ p.needEmpty = (m.type \in AddTypes)
OldRunning(t, p, m) ==
  /\ ~p.pendOld /\ p.since = 1 /\ p.isOld /\ ~p.found /\ ~p.full
  /\ Running(t, p, m.ref, m.type \in AddTypes, p.empty)
OldOver(t, p, m) ==
  ~p.pendOld /\ p.since = 1 /\ p.phase = "IDLE" /\ OldResult(t, p, m)
OldStage(t, p, m) == OldPending(p, m) \/ OldRunning(t, p, m) \/ OldOver(t, p, m)

\* The same of the run for a replace's new reference, which comes second.
NewPending(p, m) == p.pendNew /\ p.newref = m.new
NewRunning(t, p, m) ==
  /\ ~p.isOld /\ ~p.newFound /\ ~p.newFull
  /\ Running(t, p, m.new, TRUE, p.newEmpty)
NewOver(t, p, m) == p.phase = "IDLE" /\ NewResult(t, p, m)
NewStage(t, p, m) ==
  /\ ~p.pendOld /\ ~p.pendNew /\ p.since = 2 /\ OldResult(t, p, m)
  /\ NewRunning(t, p, m) \/ NewOver(t, p, m)

(***************************************************************************)
(* The engine keeps its type, and rests until it is armed                  *)
(***************************************************************************)
LEMMA RefsAreNumbers ==
  ASSUME NEW m \in Msgs
  PROVE  m.ref \in Refs /\ m.new \in Refs /\ m.ref \in Int /\ m.new \in Int
<1>1. m.ref \in Refs /\ m.new \in Refs
  BY MessageAssumption DEF Message
<1>2. Refs \subseteq Int
  BY EngineAssumption
<1> QED
  BY <1>1, <1>2

LEMMA Window1 == PROBE \in Nat \ {0} /\ PROBE <= NSLOT /\ 0..PROBE-1 \subseteq TabSlots
                 /\ 0 \in TabSlots /\ TabSlots \subseteq Nat
BY EngineAssumption DEF TabSlots

LEMMA HoleType == Hole \in Entry
<1>1. 0 \in 0..QLim-1
  BY LevelAssumption
<1> QED
  BY <1>1 DEF Hole, Entry, Sides

LEMMA WalkType ==
  ASSUME NEW p \in ProbeType, p.phase = "WALK", NEW datum \in Entry
  PROVE  Walk(p, datum) \in ProbeType
<1> DEFINE slot == (Hash(p.target) + p.i) % NSLOT
           last == WalkEnds(p, datum)
           hole == ~datum.valid /\ p.recEmpty /\ ~p.sawEmpty
           full == last /\ datum.valid /\ p.recEmpty /\ ~p.sawEmpty
           next == [p EXCEPT !.phase = IF last THEN "IDLE" ELSE @,
                             !.i = IF last THEN @ ELSE @ + 1,
                             !.addr = IF last THEN @ ELSE (slot + 2) % NSLOT,
                             !.sawEmpty = @ \/ hole]
<1>1. p.target \in Int /\ p.i \in Nat /\ NSLOT \in Nat \ {0}
  BY EngineAssumption DEF ProbeType
<1>2. Hash(p.target) \in TabSlots
  BY <1>1, RingSlots, Zenon
<1>3. slot \in TabSlots /\ (slot + 2) % NSLOT \in TabSlots
  BY <1>1, <1>2 DEF TabSlots
<1>4. last \in BOOLEAN /\ hole \in BOOLEAN /\ full \in BOOLEAN
  BY DEF WalkEnds, ProbeType, Entry
<1>5. p.i + 1 \in Nat
  BY <1>1
<1> HIDE DEF slot, last, hole, full
<1>6. next \in ProbeType
  <2> DEFINE ph == IF last THEN "IDLE" ELSE p.phase
             i == IF last THEN p.i ELSE p.i + 1
             addr == IF last THEN p.addr ELSE (slot + 2) % NSLOT
             saw == p.sawEmpty \/ hole
  <2>1. ph \in {"IDLE", "WARM", "WALK"} /\ i \in Nat /\ addr \in TabSlots
    BY <1>1, <1>3, <1>5 DEF ProbeType
  <2>2. saw \in BOOLEAN
    OBVIOUS
  <2> HIDE DEF ph, i, addr, saw
  <2>3. [p EXCEPT !.phase = ph, !.i = i, !.addr = addr, !.sawEmpty = saw] \in ProbeType
    BY <2>1, <2>2 DEF ProbeType
  <2> QED
    BY <2>3 DEF ph, i, addr, saw
<1> HIDE DEF next
<1>7. /\ [p EXCEPT !.phase = "IDLE", !.found = TRUE, !.slot = slot, !.entry = datum] \in ProbeType
      /\ [p EXCEPT !.phase = "IDLE", !.newFound = TRUE] \in ProbeType
  BY <1>3 DEF ProbeType
<1>8. /\ [next EXCEPT !.empty = IF hole THEN slot ELSE @, !.full = @ \/ full] \in ProbeType
      /\ [next EXCEPT !.newEmpty = IF hole THEN slot ELSE @, !.newFull = @ \/ full] \in ProbeType
  <2> DEFINE e == IF hole THEN slot ELSE next.empty
             f == next.full \/ full
             ne == IF hole THEN slot ELSE next.newEmpty
             nf == next.newFull \/ full
  <2>1. e \in TabSlots /\ ne \in TabSlots
    BY <1>3, <1>6 DEF ProbeType
  <2>2. f \in BOOLEAN /\ nf \in BOOLEAN
    OBVIOUS
  <2> HIDE DEF e, f, ne, nf
  <2>3. [next EXCEPT !.empty = e, !.full = f] \in ProbeType
        /\ [next EXCEPT !.newEmpty = ne, !.newFull = nf] \in ProbeType
    BY <1>6, <2>1, <2>2, ZenonT(60) DEF ProbeType
  <2> QED
    BY <2>3 DEF e, f, ne, nf
<1> QED
  BY <1>7, <1>8, Zenon DEF Walk, slot, last, hole, full, next

LEMMA StartRunType ==
  ASSUME NEW p \in ProbeType, NEW ref \in Int, NEW old \in BOOLEAN, NEW rec \in BOOLEAN
  PROVE  StartRun(p, ref, old, rec) \in ProbeType
<1>1. PICK h \in TabSlots : h = Hash(ref)
  BY RingSlots
<1>2. PICK n \in Int : n = p.since + 1
  BY DEF ProbeType
<1>3. \A q \in ProbeType :
        [q EXCEPT !.phase = "WARM", !.i = 0, !.target = ref, !.recEmpty = rec] \in ProbeType
  BY ZenonT(60) DEF ProbeType
<1>4. \A q \in ProbeType :
        [q EXCEPT !.isOld = old, !.sawEmpty = FALSE, !.addr = h, !.since = n] \in ProbeType
  BY ZenonT(60) DEF ProbeType
<1>5. PICK q : q = [p EXCEPT !.phase = "WARM", !.i = 0, !.target = ref, !.recEmpty = rec]
  OBVIOUS
<1>6. StartRun(p, ref, old, rec) =
        [q EXCEPT !.isOld = old, !.sawEmpty = FALSE, !.addr = h, !.since = n]
  BY <1>1, <1>2, <1>5 DEF StartRun, ProbeType
<1> QED
  BY <1>3, <1>4, <1>5, <1>6, Zenon

LEMMA EngineType ==
  ASSUME prb \in ProbeType, tab \in [TabSlots -> Entry]
  PROVE  Engine \in ProbeType
<1> DEFINE p == [prb EXCEPT !.data = tab[prb.addr]]
<1>1. p \in ProbeType /\ prb.data \in Entry
  BY DEF ProbeType
<1>2. p.phase = prb.phase
  BY DEF ProbeType
<1> HIDE DEF p
<1>3. /\ [p EXCEPT !.pause = TRUE] \in ProbeType
      /\ [p EXCEPT !.pause = FALSE] \in ProbeType
  BY <1>1, ZenonT(60) DEF ProbeType
<1>4. p.oref \in Int /\ p.newref \in Int /\ p.target \in Int
  BY <1>1 DEF ProbeType
<1>5. Hash(p.oref) \in TabSlots /\ Hash(p.newref) \in TabSlots
      /\ (Hash(p.target) + 1) % NSLOT \in TabSlots
  <2>1. At(p.target, 1) \in TabSlots
    BY <1>4, RingSlots
  <2> QED
    BY <1>4, <2>1, RingSlots DEF At
<1>6. StartOld(p) \in ProbeType
  <2>0. p.needEmpty \in BOOLEAN
    BY <1>1 DEF ProbeType
  <2>1. PICK r : r = StartRun(p, p.oref, TRUE, p.needEmpty)
    OBVIOUS
  <2>2. r \in ProbeType
    BY <1>1, <1>4, <2>0, <2>1, StartRunType, Zenon
  <2>3. [r EXCEPT !.pendOld = FALSE, !.found = FALSE, !.slot = 0, !.entry = Hole,
                  !.empty = 0, !.full = FALSE] \in ProbeType
    BY <2>2, HoleType, Window1, ZenonT(60) DEF ProbeType
  <2> QED
    BY <2>1, <2>3 DEF StartOld
<1>7. StartNew(p) \in ProbeType
  <2>1. PICK r : r = StartRun(p, p.newref, FALSE, TRUE)
    OBVIOUS
  <2>2. r \in ProbeType
    BY <1>1, <1>4, <2>1, StartRunType, Zenon
  <2>3. [r EXCEPT !.pendNew = FALSE, !.newFound = FALSE, !.newEmpty = 0,
                  !.newFull = FALSE] \in ProbeType
    BY <2>2, Window1, ZenonT(60) DEF ProbeType
  <2> QED
    BY <2>1, <2>3 DEF StartNew
<1>8. [p EXCEPT !.phase = "WALK", !.addr = (Hash(p.target) + 1) % NSLOT] \in ProbeType
  BY <1>1, <1>5 DEF ProbeType
<1>9. p.phase = "WALK" => Walk(p, prb.data) \in ProbeType
  BY <1>1, WalkType
<1> QED
  BY <1>1, <1>3, <1>6, <1>7, <1>8, <1>9 DEF Engine, p

\* An engine at rest changes nothing but its read port and its pause.
LEMMA EngineRests ==
  ASSUME prb \in ProbeType, AtRest(prb)
  PROVE  /\ AtRest(Engine)
         /\ \/ Engine = [prb EXCEPT !.data = tab[prb.addr]]
            \/ Engine = [prb EXCEPT !.data = tab[prb.addr], !.pause = TRUE]
            \/ Engine = [prb EXCEPT !.data = tab[prb.addr], !.pause = FALSE]
BY DEF AtRest, Engine, ProbeType

\* The registers that a walk leaves alone.
SameRun(p, e) ==
  /\ e.pendOld = p.pendOld /\ e.pendNew = p.pendNew
  /\ e.newref = p.newref /\ e.since = p.since /\ e.needed = p.needed
  /\ e.target = p.target /\ e.recEmpty = p.recEmpty /\ e.isOld = p.isOld
  /\ e.data = p.data /\ e.pause = p.pause

\* What the results of the first run are made of.
SameOld(p, e) ==
  /\ e.found = p.found /\ e.slot = p.slot /\ e.entry = p.entry
  /\ e.empty = p.empty /\ e.full = p.full

\* PR_WALK, register by register: e comes after p, which has looked at slot.
WalkStep(p, e, datum, slot, hit, last, hole, full) ==
  /\ SameRun(p, e)
  /\ ~p.isOld => SameOld(p, e)
  /\ hit => /\ e.phase = "IDLE"
            /\ p.isOld => e.found /\ e.slot = slot /\ e.entry = datum
            /\ ~p.isOld => e.newFound
  /\ ~hit =>
       /\ e.phase = IF last THEN "IDLE" ELSE p.phase
       /\ e.i = IF last THEN p.i ELSE p.i + 1
       /\ e.addr = IF last THEN p.addr ELSE (slot + 2) % NSLOT
       /\ e.sawEmpty = (p.sawEmpty \/ hole)
       /\ e.found = p.found /\ e.newFound = p.newFound
       /\ p.isOld => /\ e.empty = IF hole THEN slot ELSE p.empty
                     /\ e.full = (p.full \/ full)
       /\ ~p.isOld => /\ e.newEmpty = IF hole THEN slot ELSE p.newEmpty
                      /\ e.newFull = (p.newFull \/ full)

LEMMA WalkFields ==
  ASSUME NEW p \in ProbeType, NEW datum, NEW slot,
         slot = (Hash(p.target) + p.i) % NSLOT,
         NEW e, e = Walk(p, datum),
         NEW hit, hit = (datum.valid /\ datum.ref = p.target),
         NEW last, last = (p.i = PROBE - 1),
         NEW hole, hole = (~datum.valid /\ p.recEmpty /\ ~p.sawEmpty),
         NEW full, full = (last /\ datum.valid /\ p.recEmpty /\ ~p.sawEmpty)
  PROVE  WalkStep(p, e, datum, slot, hit, last, hole, full)
<1> DEFINE next == [p EXCEPT !.phase = IF last THEN "IDLE" ELSE @,
                             !.i = IF last THEN @ ELSE @ + 1,
                             !.addr = IF last THEN @ ELSE (slot + 2) % NSLOT,
                             !.sawEmpty = @ \/ hole]
<1>1. WalkEnds(p, datum) = last
  BY DEF WalkEnds
<1>2. e = IF hit
          THEN IF p.isOld
               THEN [p EXCEPT !.phase = "IDLE", !.found = TRUE, !.slot = slot,
                              !.entry = datum]
               ELSE [p EXCEPT !.phase = "IDLE", !.newFound = TRUE]
          ELSE IF p.isOld
               THEN [next EXCEPT !.empty = IF hole THEN slot ELSE @,
                                 !.full = @ \/ full]
               ELSE [next EXCEPT !.newEmpty = IF hole THEN slot ELSE @,
                                 !.newFull = @ \/ full]
  BY <1>1, ZenonT(60) DEF Walk
<1>3. CASE hit /\ p.isOld
  <2>1. e = [p EXCEPT !.phase = "IDLE", !.found = TRUE, !.slot = slot, !.entry = datum]
    BY <1>2, <1>3, Zenon
  <2>2. e.phase = "IDLE" /\ e.found /\ e.slot = slot /\ e.entry = datum
    BY <2>1 DEF ProbeType
  <2>3. SameRun(p, e)
    BY <2>1 DEF ProbeType, SameRun
  <2> QED
    BY <1>3, <2>2, <2>3, Zenon DEF WalkStep
<1>4. CASE hit /\ ~p.isOld
  <2>1. e.phase = "IDLE" /\ e.newFound /\ SameRun(p, e) /\ SameOld(p, e)
    BY <1>2, <1>4 DEF ProbeType, SameRun, SameOld
  <2> QED
    BY <1>4, <2>1, Zenon DEF WalkStep
<1> DEFINE ph == IF last THEN "IDLE" ELSE p.phase
           i == IF last THEN p.i ELSE p.i + 1
           addr == IF last THEN p.addr ELSE (slot + 2) % NSLOT
           saw == p.sawEmpty \/ hole
<1>5. next = [p EXCEPT !.phase = ph, !.i = i, !.addr = addr, !.sawEmpty = saw]
  BY Zenon
<1> HIDE DEF ph, i, addr, saw, next
<1>6. /\ next.phase = ph /\ next.i = i /\ next.addr = addr /\ next.sawEmpty = saw
      /\ next.isOld = p.isOld /\ next.found = p.found /\ next.newFound = p.newFound
      /\ next.newEmpty = p.newEmpty /\ next.newFull = p.newFull
      /\ SameRun(p, next) /\ SameOld(p, next)
      /\ DOMAIN next = DOMAIN p
  BY <1>5 DEF ProbeType, SameRun, SameOld
<1>7. CASE ~hit /\ p.isOld
  <2> DEFINE em == IF hole THEN slot ELSE next.empty
             fl == next.full \/ full
  <2>1. e = [next EXCEPT !.empty = em, !.full = fl]
    BY <1>2, <1>7, Zenon
  <2>2. em = (IF hole THEN slot ELSE p.empty) /\ fl = (p.full \/ full)
    BY <1>6 DEF SameOld
  <2> HIDE DEF em, fl
  <2>3. /\ e.phase = ph /\ e.i = i /\ e.addr = addr /\ e.sawEmpty = saw
        /\ e.found = p.found /\ e.newFound = p.newFound
        /\ e.empty = em /\ e.full = fl /\ SameRun(p, e)
    BY <1>6, <2>1 DEF ProbeType, SameRun, SameOld
  <2> QED
    BY <1>7, <2>2, <2>3 DEF WalkStep, ph, i, addr, saw
<1>8. CASE ~hit /\ ~p.isOld
  <2> DEFINE em == IF hole THEN slot ELSE next.newEmpty
             fl == next.newFull \/ full
  <2>1. e = [next EXCEPT !.newEmpty = em, !.newFull = fl]
    BY <1>2, <1>8, Zenon
  <2>2. em = (IF hole THEN slot ELSE p.newEmpty) /\ fl = (p.newFull \/ full)
    BY <1>6
  <2> HIDE DEF em, fl
  <2>3. /\ e.phase = ph /\ e.i = i /\ e.addr = addr /\ e.sawEmpty = saw
        /\ e.found = p.found /\ e.newFound = p.newFound
        /\ e.newEmpty = em /\ e.newFull = fl /\ SameRun(p, e) /\ SameOld(p, e)
    BY <1>6, <2>1 DEF ProbeType, SameRun, SameOld
  <2> QED
    BY <1>8, <2>2, <2>3 DEF WalkStep, ph, i, addr, saw
<1> QED
  BY <1>3, <1>4, <1>7, <1>8

\* A walk that does not end has seen one slot more.
LEMMA WalkSees ==
  ASSUME NEW t, NEW p \in ProbeType, NEW ref \in Int, NEW rec \in BOOLEAN, NEW first,
         Running(t, p, ref, rec, first),
         NEW slot, slot = At(ref, p.i), ~Has(t, slot, ref),
         NEW hole, hole = (~t[slot].valid /\ rec /\ ~p.sawEmpty)
  PROVE  /\ p.i \in TabSlots
         /\ Clear(t, ref, p.i + 1)
         /\ p.sawEmpty \/ hole <=> rec /\ SomeHole(t, ref, p.i + 1)
         /\ p.sawEmpty \/ hole => HoleAt(t, ref, p.i + 1, IF hole THEN slot ELSE first)
<1>1. p.i \in TabSlots
  BY Window1 DEF Running
<1>2. /\ Clear(t, ref, p.i) /\ (p.sawEmpty <=> rec /\ SomeHole(t, ref, p.i))
      /\ p.sawEmpty => HoleAt(t, ref, p.i, first)
  BY DEF Running
<1>3. /\ Clear(t, ref, p.i) /\ ~Has(t, slot, ref) => Clear(t, ref, p.i + 1)
      /\ SomeHole(t, ref, p.i + 1) <=> SomeHole(t, ref, p.i) \/ ~t[slot].valid
      /\ ~SomeHole(t, ref, p.i) /\ ~t[slot].valid => HoleAt(t, ref, p.i + 1, slot)
      /\ \A s : HoleAt(t, ref, p.i, s) => HoleAt(t, ref, p.i + 1, s)
  BY <1>1, SeenNext, Zenon
<1> HIDE DEF Clear, SomeHole, HoleAt, Has
<1>4. CASE hole
  <2>1. SomeHole(t, ref, p.i + 1) /\ HoleAt(t, ref, p.i + 1, slot)
    BY <1>2, <1>3, <1>4
  <2> QED
    BY <1>1, <1>2, <1>3, <1>4, <2>1
<1>5. CASE ~hole
  <2>1. p.sawEmpty <=> rec /\ SomeHole(t, ref, p.i + 1)
    BY <1>2, <1>3, <1>5
  <2>2. p.sawEmpty => HoleAt(t, ref, p.i + 1, first)
    BY <1>2, <1>3, Zenon
  <2> QED
    BY <1>1, <1>2, <1>3, <1>5, <2>1, <2>2
<1> QED
  BY <1>4, <1>5

\* The read port answers with the slot after the one that is looked at.
LEMMA WalkReads ==
  ASSUME NEW t, NEW p \in ProbeType, NEW ref \in Int, NEW rec, NEW first,
         Running(t, p, ref, rec, first), p.phase = "WALK",
         NEW slot, slot = (Hash(p.target) + p.i) % NSLOT
  PROVE  /\ slot = At(ref, p.i) /\ slot \in TabSlots /\ p.i \in 0..PROBE-1
         /\ p.i # PROBE - 1 =>
              /\ p.i + 1 \in 0..PROBE-1
              /\ t[p.addr] = t[At(ref, p.i + 1)]
              /\ p.i + 1 < PROBE - 1 => (slot + 2) % NSLOT = At(ref, (p.i + 1) + 1)
<1>1. p.i \in 0..PROBE-1 /\ p.i \in Nat /\ PROBE \in Nat \ {0} /\ PROBE <= NSLOT /\ NSLOT \in Nat
  BY Window1, EngineAssumption DEF Running
<1>2. p.target = ref /\ (p.i < PROBE - 1 => p.addr = At(ref, p.i + 1))
  BY DEF Running
<1>3. slot = At(ref, p.i)
  BY <1>2 DEF At
<1>4. slot \in TabSlots
  BY <1>1, <1>3, RingSlots, Zenon
<1>5. p.i + 1 < PROBE - 1 => p.i + 2 < NSLOT
  BY <1>1
<1>6. p.i + 2 < NSLOT => (At(ref, p.i) + 2) % NSLOT = At(ref, p.i + 2)
  BY <1>1, RingSlots, Zenon
<1>7. p.i + 2 = (p.i + 1) + 1
  BY <1>1
<1>8. p.i # PROBE - 1 => p.i + 1 \in 0..PROBE-1 /\ p.i < PROBE - 1
  BY <1>1
<1> QED
  BY <1>1, <1>2, <1>3, <1>4, <1>5, <1>6, <1>7, <1>8

OldWalked(t, p, e, m) ==
  /\ e.pendNew = p.pendNew /\ e.newref = p.newref /\ e.needed = p.needed
  /\ OldRunning(t, e, m) \/ OldOver(t, e, m)

\* A step of the first run: it goes on, or it is over and its results hold.
LEMMA OldWalks ==
  ASSUME NEW t, NEW m \in Msgs, NEW p \in ProbeType,
         OldRunning(t, p, m), p.phase = "WALK",
         NEW e, e = Walk([p EXCEPT !.data = t[p.addr]], p.data),
         [p EXCEPT !.data = t[p.addr]] \in ProbeType
  PROVE  OldWalked(t, p, e, m)
<1> DEFINE q == [p EXCEPT !.data = t[p.addr]]
           ref == m.ref
           rec == (m.type \in AddTypes)
           slot == (Hash(p.target) + p.i) % NSLOT
           datum == p.data
           hit == datum.valid /\ datum.ref = p.target
           last == p.i = PROBE - 1
           hole == ~datum.valid /\ p.recEmpty /\ ~p.sawEmpty
           full == last /\ datum.valid /\ p.recEmpty /\ ~p.sawEmpty
<1>1. q \in ProbeType /\ q.data = t[p.addr]
  BY DEF ProbeType
<1>2. /\ SameRun([p EXCEPT !.data = q.data], q) /\ SameOld(p, q)
      /\ q.isOld = p.isOld /\ q.target = p.target /\ q.recEmpty = p.recEmpty
      /\ q.phase = p.phase /\ q.i = p.i /\ q.sawEmpty = p.sawEmpty
      /\ q.addr = p.addr /\ q.pendOld = p.pendOld /\ q.pendNew = p.pendNew
      /\ q.newref = p.newref /\ q.since = p.since /\ q.needed = p.needed
      /\ q.pause = p.pause
  BY DEF ProbeType, SameRun, SameOld
<1> HIDE DEF q
<1>3. /\ ~p.pendOld /\ p.since = 1 /\ p.isOld /\ ~p.found /\ ~p.full
      /\ Running(t, p, ref, rec, p.empty)
  BY DEF OldRunning
<1>4. p.target = ref /\ p.recEmpty = rec /\ ~p.pause /\ ref \in Int /\ rec \in BOOLEAN
      /\ datum = t[At(ref, p.i)]
  BY <1>3, RefsAreNumbers DEF Running
<1>5. /\ slot = At(ref, p.i) /\ slot \in TabSlots /\ p.i \in 0..PROBE-1
      /\ p.i # PROBE - 1 =>
           /\ p.i + 1 \in 0..PROBE-1
           /\ t[p.addr] = t[At(ref, p.i + 1)]
           /\ p.i + 1 < PROBE - 1 => (slot + 2) % NSLOT = At(ref, (p.i + 1) + 1)
  BY <1>3, <1>4, WalkReads
<1>6. e = Walk(q, p.data)
  BY DEF q
<1> HIDE DEF slot, datum, hit, last, hole, full, rec, ref
<1>7. /\ SameRun(q, e)
      /\ hit => e.phase = "IDLE" /\ e.found /\ e.slot = slot /\ e.entry = datum
      /\ ~hit =>
           /\ e.phase = IF last THEN "IDLE" ELSE p.phase
           /\ e.i = IF last THEN p.i ELSE p.i + 1
           /\ e.addr = IF last THEN p.addr ELSE (slot + 2) % NSLOT
           /\ e.sawEmpty = (p.sawEmpty \/ hole)
           /\ e.found = p.found
           /\ e.empty = IF hole THEN slot ELSE p.empty
           /\ e.full = (p.full \/ full)
  <2>1. slot = (Hash(q.target) + q.i) % NSLOT
    BY <1>2 DEF slot
  <2>2. hit = (datum.valid /\ datum.ref = q.target)
    BY <1>2 DEF hit
  <2>3. last = (q.i = PROBE - 1)
    BY <1>2 DEF last
  <2>4. hole = (~datum.valid /\ q.recEmpty /\ ~q.sawEmpty)
    BY <1>2 DEF hole
  <2>5. full = (last /\ datum.valid /\ q.recEmpty /\ ~q.sawEmpty)
    BY <1>2 DEF full
  <2>6. e = Walk(q, datum)
    BY <1>6 DEF datum
  <2>7. WalkStep(q, e, datum, slot, hit, last, hole, full)
    BY <1>1, <2>1, <2>2, <2>3, <2>4, <2>5, <2>6, WalkFields, Zenon
  <2> QED
    BY <1>2, <1>3, <2>7 DEF WalkStep, SameOld
<1>8. e.pendNew = p.pendNew /\ e.newref = p.newref /\ e.needed = p.needed
      /\ ~e.pendOld /\ e.since = 1 /\ e.isOld /\ ~e.pause
      /\ e.target = ref /\ e.recEmpty = rec /\ e.data = t[p.addr]
  BY <1>1, <1>2, <1>3, <1>4, <1>7 DEF SameRun
<1>9. hit <=> Has(t, slot, ref)
  BY <1>4, <1>5 DEF Has, hit
<1>10. CASE hit
  <2>1. OldResult(t, e, m)
    BY <1>4, <1>5, <1>7, <1>9, <1>10 DEF OldResult, ref
  <2> QED
    BY <1>7, <1>8, <1>10, <2>1 DEF OldWalked, OldOver
<1>11. CASE ~hit
  <2>1. hole = (~t[slot].valid /\ rec /\ ~p.sawEmpty)
    BY <1>4, <1>5 DEF hole
  <2>2. /\ p.i \in TabSlots
        /\ Clear(t, ref, p.i + 1)
        /\ p.sawEmpty \/ hole <=> rec /\ SomeHole(t, ref, p.i + 1)
        /\ p.sawEmpty \/ hole => HoleAt(t, ref, p.i + 1, IF hole THEN slot ELSE p.empty)
    BY <1>3, <1>4, <1>5, <1>9, <1>11, <2>1, WalkSees, Zenon
  <2>3. CASE last
    <3>1. p.i + 1 = PROBE
      BY <1>5, <2>3, Window1 DEF last
    <3>2. ~e.found /\ Clear(t, ref, PROBE) /\ e.phase = "IDLE"
      BY <1>3, <1>7, <1>11, <2>2, <2>3, <3>1
    <3>3. ASSUME rec PROVE Walked(t, ref, e.empty, e.full)
      <4>1. e.full <=> ~(p.sawEmpty \/ hole)
        BY <1>3, <1>4, <1>7, <1>11, <2>3, <3>3 DEF full, hole
      <4>2. ~e.full => HoleAt(t, ref, PROBE, e.empty)
        BY <1>7, <1>11, <2>2, <3>1, <4>1
      <4> QED
        BY <2>2, <3>1, <3>3, <4>1, <4>2 DEF Walked
    <3>4. OldResult(t, e, m)
      BY <3>2, <3>3 DEF OldResult, ref, rec
    <3> QED
      BY <1>8, <3>2, <3>4 DEF OldWalked, OldOver
  <2>4. CASE ~last
    <3>1. /\ e.phase = "WALK" /\ e.i = p.i + 1 /\ e.addr = (slot + 2) % NSLOT
          /\ e.sawEmpty = (p.sawEmpty \/ hole) /\ ~e.found
          /\ e.empty = (IF hole THEN slot ELSE p.empty) /\ ~e.full
      BY <1>3, <1>7, <1>11, <2>4 DEF full
    <3>2. /\ e.i \in 0..PROBE-1
          /\ e.data = t[At(ref, e.i)] /\ (e.i < PROBE - 1 => e.addr = At(ref, e.i + 1))
      BY <1>5, <1>8, <2>4, <3>1 DEF last
    <3>3. /\ Clear(t, ref, e.i)
          /\ e.sawEmpty <=> rec /\ SomeHole(t, ref, e.i)
          /\ e.sawEmpty => HoleAt(t, ref, e.i, e.empty)
      BY <2>2, <3>1
    <3>4. Running(t, e, ref, rec, e.empty)
      BY <1>8, <3>1, <3>2, <3>3 DEF Running
    <3> QED
      BY <1>8, <3>1, <3>4 DEF OldWalked, OldRunning, rec, ref
  <2> QED
    BY <2>3, <2>4
<1> QED
  BY <1>8, <1>10, <1>11 DEF OldWalked

NewWalked(t, p, e, m) ==
  /\ e.pendOld = p.pendOld /\ e.pendNew = p.pendNew
  /\ e.since = p.since /\ e.needed = p.needed /\ SameOld(p, e)
  /\ NewRunning(t, e, m) \/ NewOver(t, e, m)

\* The same of the second run, which leaves the results of the first alone.
LEMMA NewWalks ==
  ASSUME NEW t, NEW m \in Msgs, NEW p \in ProbeType,
         NewRunning(t, p, m), p.phase = "WALK",
         NEW e, e = Walk([p EXCEPT !.data = t[p.addr]], p.data),
         [p EXCEPT !.data = t[p.addr]] \in ProbeType
  PROVE  NewWalked(t, p, e, m)
<1> DEFINE q == [p EXCEPT !.data = t[p.addr]]
           ref == m.new
           slot == (Hash(p.target) + p.i) % NSLOT
           datum == p.data
           hit == datum.valid /\ datum.ref = p.target
           last == p.i = PROBE - 1
           hole == ~datum.valid /\ p.recEmpty /\ ~p.sawEmpty
           full == last /\ datum.valid /\ p.recEmpty /\ ~p.sawEmpty
<1>1. q \in ProbeType /\ q.data = t[p.addr]
  BY DEF ProbeType
<1>2. /\ SameOld(p, q) /\ q.newFound = p.newFound /\ q.newEmpty = p.newEmpty
      /\ q.newFull = p.newFull
      /\ q.isOld = p.isOld /\ q.target = p.target /\ q.recEmpty = p.recEmpty
      /\ q.phase = p.phase /\ q.i = p.i /\ q.sawEmpty = p.sawEmpty
      /\ q.addr = p.addr /\ q.pendOld = p.pendOld /\ q.pendNew = p.pendNew
      /\ q.newref = p.newref /\ q.since = p.since /\ q.needed = p.needed
      /\ q.pause = p.pause
  BY DEF ProbeType, SameOld
<1> HIDE DEF q
<1>3. /\ ~p.isOld /\ ~p.newFound /\ ~p.newFull
      /\ Running(t, p, ref, TRUE, p.newEmpty)
  BY DEF NewRunning
<1>4. p.target = ref /\ p.recEmpty /\ p.recEmpty = TRUE /\ ~p.pause /\ ref \in Int
      /\ datum = t[At(ref, p.i)]
  BY <1>3, RefsAreNumbers DEF Running
<1>5. /\ slot = At(ref, p.i) /\ slot \in TabSlots /\ p.i \in 0..PROBE-1
      /\ p.i # PROBE - 1 =>
           /\ p.i + 1 \in 0..PROBE-1
           /\ t[p.addr] = t[At(ref, p.i + 1)]
           /\ p.i + 1 < PROBE - 1 => (slot + 2) % NSLOT = At(ref, (p.i + 1) + 1)
  BY <1>3, <1>4, WalkReads
<1>6. e = Walk(q, datum)
  BY DEF q
<1> HIDE DEF slot, datum, hit, last, hole, full, ref
<1>7. /\ SameRun(q, e) /\ SameOld(p, e)
      /\ hit => e.phase = "IDLE" /\ e.newFound
      /\ ~hit =>
           /\ e.phase = IF last THEN "IDLE" ELSE p.phase
           /\ e.i = IF last THEN p.i ELSE p.i + 1
           /\ e.addr = IF last THEN p.addr ELSE (slot + 2) % NSLOT
           /\ e.sawEmpty = (p.sawEmpty \/ hole)
           /\ e.newFound = p.newFound
           /\ e.newEmpty = IF hole THEN slot ELSE p.newEmpty
           /\ e.newFull = (p.newFull \/ full)
  <2>1. slot = (Hash(q.target) + q.i) % NSLOT
    BY <1>2 DEF slot
  <2>2. hit = (datum.valid /\ datum.ref = q.target)
    BY <1>2 DEF hit
  <2>3. last = (q.i = PROBE - 1)
    BY <1>2 DEF last
  <2>4. hole = (~datum.valid /\ q.recEmpty /\ ~q.sawEmpty)
    BY <1>2 DEF hole
  <2>5. full = (last /\ datum.valid /\ q.recEmpty /\ ~q.sawEmpty)
    BY <1>2 DEF full
  <2>6. WalkStep(q, e, datum, slot, hit, last, hole, full)
    BY <1>1, <1>6, <2>1, <2>2, <2>3, <2>4, <2>5, WalkFields, Zenon
  <2> QED
    BY <1>2, <1>3, <2>6 DEF WalkStep, SameOld
<1>8. /\ e.pendOld = p.pendOld /\ e.pendNew = p.pendNew
      /\ e.since = p.since /\ e.needed = p.needed
      /\ ~e.isOld /\ ~e.pause
      /\ e.target = ref /\ e.recEmpty = TRUE /\ e.data = t[p.addr]
  BY <1>1, <1>2, <1>3, <1>4, <1>7 DEF SameRun
<1>9. hit <=> Has(t, slot, ref)
  BY <1>4, <1>5 DEF Has, hit
<1>10. CASE hit
  <2>1. NewResult(t, e, m)
    BY <1>5, <1>7, <1>9, <1>10 DEF NewResult, ref
  <2> QED
    BY <1>7, <1>8, <1>10, <2>1 DEF NewWalked, NewOver
<1>11. CASE ~hit
  <2>1. hole = (~t[slot].valid /\ TRUE /\ ~p.sawEmpty)
    BY <1>4, <1>5 DEF hole
  <2>2. TRUE \in BOOLEAN
    OBVIOUS
  <2>3. /\ p.i \in TabSlots
        /\ Clear(t, ref, p.i + 1)
        /\ p.sawEmpty \/ hole <=> TRUE /\ SomeHole(t, ref, p.i + 1)
        /\ p.sawEmpty \/ hole => HoleAt(t, ref, p.i + 1, IF hole THEN slot ELSE p.newEmpty)
    BY <1>3, <1>4, <1>5, <1>9, <1>11, <2>1, <2>2, WalkSees, Zenon
  <2>4. CASE last
    <3>1. p.i + 1 = PROBE
      BY <1>5, <2>4, Window1 DEF last
    <3>2. ~e.newFound /\ Clear(t, ref, PROBE) /\ e.phase = "IDLE"
      BY <1>3, <1>7, <1>11, <2>3, <2>4, <3>1
    <3>3. Walked(t, ref, e.newEmpty, e.newFull)
      <4>1. e.newFull <=> ~(p.sawEmpty \/ hole)
        BY <1>3, <1>4, <1>7, <1>11, <2>4 DEF full, hole
      <4>2. ~e.newFull => HoleAt(t, ref, PROBE, e.newEmpty)
        BY <1>7, <1>11, <2>3, <3>1, <4>1
      <4> QED
        BY <2>3, <3>1, <4>1, <4>2 DEF Walked
    <3>4. NewResult(t, e, m)
      BY <3>2, <3>3 DEF NewResult, ref
    <3> QED
      BY <1>7, <1>8, <3>2, <3>4 DEF NewWalked, NewOver
  <2>5. CASE ~last
    <3>1. /\ e.phase = "WALK" /\ e.i = p.i + 1 /\ e.addr = (slot + 2) % NSLOT
          /\ e.sawEmpty = (p.sawEmpty \/ hole) /\ ~e.newFound
          /\ e.newEmpty = (IF hole THEN slot ELSE p.newEmpty) /\ ~e.newFull
      BY <1>3, <1>7, <1>11, <2>5 DEF full
    <3>2. /\ e.i \in 0..PROBE-1
          /\ e.data = t[At(ref, e.i)] /\ (e.i < PROBE - 1 => e.addr = At(ref, e.i + 1))
      BY <1>5, <1>8, <2>5, <3>1 DEF last
    <3>3. /\ Clear(t, ref, e.i)
          /\ e.sawEmpty <=> TRUE /\ SomeHole(t, ref, e.i)
          /\ e.sawEmpty => HoleAt(t, ref, e.i, e.newEmpty)
      BY <2>3, <3>1
    <3>4. Running(t, e, ref, TRUE, e.newEmpty)
      BY <1>8, <3>1, <3>2, <3>3 DEF Running
    <3> QED
      BY <1>7, <1>8, <3>1, <3>4 DEF NewWalked, NewRunning, ref
  <2> QED
    BY <2>4, <2>5
<1> QED
  BY <1>7, <1>8, <1>10, <1>11 DEF NewWalked

\* The start of a run, register by register.
Started(p, e, ref, old, rec) ==
  /\ e.phase = "WARM" /\ e.i = 0 /\ e.target = ref /\ e.recEmpty = rec
  /\ e.isOld = old /\ ~e.sawEmpty /\ e.addr = At(ref, 0) /\ e.since = p.since + 1
  /\ e.pendOld = p.pendOld /\ e.pendNew = p.pendNew /\ e.newref = p.newref
  /\ e.needed = p.needed /\ e.pause = p.pause /\ SameOld(p, e)

LEMMA StartFields ==
  ASSUME NEW p \in ProbeType, NEW ref \in Int, NEW old \in BOOLEAN, NEW rec \in BOOLEAN,
         NEW e, e = StartRun(p, ref, old, rec)
  PROVE  Started(p, e, ref, old, rec)
<1>1. Hash(ref) = At(ref, 0) /\ Hash(ref) \in TabSlots
  <2>1. Hash(ref) \in TabSlots /\ Offset(ref, At(ref, 0)) = 0
    BY RingSlots, Window1, Zenon
  <2>2. NSLOT \in Nat \ {0}
    BY EngineAssumption
  <2>3. \A h \in 0..NSLOT-1 : (h + 0) % NSLOT = h
    BY <2>2
  <2> QED
    BY <2>1, <2>3 DEF At, TabSlots
<1>2. PICK h \in TabSlots : h = Hash(ref)
  BY <1>1
<1>3. PICK n \in Int : n = p.since + 1
  BY DEF ProbeType
<1>4. PICK q : q = [p EXCEPT !.phase = "WARM", !.i = 0, !.target = ref, !.recEmpty = rec]
  OBVIOUS
<1>5. e = [q EXCEPT !.isOld = old, !.sawEmpty = FALSE, !.addr = h, !.since = n]
  BY <1>2, <1>3, <1>4 DEF StartRun, ProbeType
<1>6. q \in ProbeType
  BY <1>4 DEF ProbeType
<1>7. /\ q.phase = "WARM" /\ q.i = 0 /\ q.target = ref /\ q.recEmpty = rec
      /\ q.pendOld = p.pendOld /\ q.pendNew = p.pendNew /\ q.newref = p.newref
      /\ q.needed = p.needed /\ q.pause = p.pause
  BY <1>4 DEF ProbeType
<1>8. SameOld(p, q)
  BY <1>4 DEF ProbeType, SameOld
<1>9. /\ e.isOld = old /\ ~e.sawEmpty /\ e.addr = h /\ e.since = n
      /\ e.phase = q.phase /\ e.i = q.i /\ e.target = q.target /\ e.recEmpty = q.recEmpty
  BY <1>5, <1>6 DEF ProbeType
<1>10. /\ e.pendOld = q.pendOld /\ e.pendNew = q.pendNew /\ e.newref = q.newref
       /\ e.needed = q.needed /\ e.pause = q.pause
  BY <1>5, <1>6 DEF ProbeType
<1>11. SameOld(q, e)
  BY <1>5, <1>6 DEF ProbeType, SameOld
<1> QED
  BY <1>1, <1>2, <1>3, <1>7, <1>8, <1>9, <1>10, <1>11 DEF Started, SameOld

LEMMA OldStarts ==
  ASSUME NEW t, NEW m \in Msgs, NEW p \in ProbeType,
         OldPending(p, m), ~p.pause,
         NEW e, e = StartOld(p)
  PROVE  e.pendNew = p.pendNew /\ e.newref = p.newref /\ e.needed = p.needed
         /\ OldRunning(t, e, m)
<1>1. /\ p.oref = m.ref /\ p.needEmpty = (m.type \in AddTypes) /\ p.since = 0
      /\ m.ref \in Int /\ p.oref \in Int /\ p.needEmpty \in BOOLEAN /\ TRUE \in BOOLEAN
  BY RefsAreNumbers DEF OldPending, ProbeType
<1>2. PICK r : r = StartRun(p, p.oref, TRUE, p.needEmpty)
  OBVIOUS
<1>3. r \in ProbeType
  BY <1>1, <1>2, StartRunType, Zenon
<1>4. Started(p, r, p.oref, TRUE, p.needEmpty)
  BY <1>1, <1>2, StartFields, Zenon
<1>5. e = [r EXCEPT !.pendOld = FALSE, !.found = FALSE, !.slot = 0, !.entry = Hole,
                    !.empty = 0, !.full = FALSE]
  BY <1>2 DEF StartOld
<1>6. /\ ~e.pendOld /\ ~e.found /\ ~e.full
      /\ e.phase = r.phase /\ e.i = r.i /\ e.target = r.target /\ e.recEmpty = r.recEmpty
      /\ e.isOld = r.isOld
  BY <1>3, <1>5 DEF ProbeType
<1>7. /\ e.sawEmpty = r.sawEmpty /\ e.addr = r.addr /\ e.since = r.since
      /\ e.pendNew = r.pendNew /\ e.newref = r.newref
      /\ e.needed = r.needed /\ e.pause = r.pause
  BY <1>3, <1>5 DEF ProbeType
<1>8. 0 \in 0..PROBE-1
  BY Window1
<1>9. Clear(t, m.ref, 0) /\ ~SomeHole(t, m.ref, 0)
  BY <1>1, NothingSeen
<1>10. Running(t, e, m.ref, m.type \in AddTypes, e.empty)
  BY <1>1, <1>4, <1>6, <1>7, <1>8, <1>9 DEF Running, Started
<1> QED
  BY <1>1, <1>4, <1>6, <1>7, <1>10 DEF OldRunning, Started

LEMMA NewStarts ==
  ASSUME NEW t, NEW m \in Msgs, NEW p \in ProbeType,
         NewPending(p, m), ~p.pause,
         NEW e, e = StartNew(p)
  PROVE  /\ e.pendOld = p.pendOld /\ ~e.pendNew /\ e.since = p.since + 1
         /\ e.needed = p.needed /\ SameOld(p, e) /\ NewRunning(t, e, m)
<1>1. p.newref = m.new /\ m.new \in Int /\ p.newref \in Int /\ TRUE \in BOOLEAN /\ FALSE \in BOOLEAN
  BY RefsAreNumbers DEF NewPending
<1>2. PICK r : r = StartRun(p, p.newref, FALSE, TRUE)
  OBVIOUS
<1>3. r \in ProbeType
  BY <1>1, <1>2, StartRunType, Zenon
<1>4. Started(p, r, p.newref, FALSE, TRUE)
  BY <1>1, <1>2, StartFields, Zenon
<1>5. e = [r EXCEPT !.pendNew = FALSE, !.newFound = FALSE, !.newEmpty = 0,
                    !.newFull = FALSE]
  BY <1>2 DEF StartNew
<1>6. /\ ~e.pendNew /\ ~e.newFound /\ ~e.newFull
      /\ e.phase = r.phase /\ e.i = r.i /\ e.target = r.target /\ e.recEmpty = r.recEmpty
      /\ e.isOld = r.isOld
  BY <1>3, <1>5 DEF ProbeType
<1>7. /\ e.sawEmpty = r.sawEmpty /\ e.addr = r.addr /\ e.since = r.since
      /\ e.pendOld = r.pendOld /\ e.needed = r.needed /\ e.pause = r.pause
  BY <1>3, <1>5 DEF ProbeType
<1>8. SameOld(r, e)
  BY <1>3, <1>5 DEF ProbeType, SameOld
<1>9. 0 \in 0..PROBE-1
  BY Window1
<1>10. Clear(t, m.new, 0) /\ ~SomeHole(t, m.new, 0)
  BY <1>1, NothingSeen
<1>11. Running(t, e, m.new, TRUE, e.newEmpty)
  BY <1>1, <1>4, <1>6, <1>7, <1>9, <1>10 DEF Running, Started
<1> QED
  BY <1>1, <1>4, <1>6, <1>7, <1>8, <1>11 DEF NewRunning, Started, SameOld

Warmed(t, p, e, ref, rec, first) ==
  /\ e.pendOld = p.pendOld /\ e.pendNew = p.pendNew /\ e.newref = p.newref
  /\ e.since = p.since /\ e.needed = p.needed /\ e.isOld = p.isOld
  /\ SameOld(p, e) /\ e.newFound = p.newFound /\ e.newFull = p.newFull
  /\ e.newEmpty = p.newEmpty
  /\ Running(t, e, ref, rec, first)

\* PR_WARM: the first address is on the port, the second one goes out.
LEMMA Warms ==
  ASSUME NEW t, NEW p \in ProbeType, NEW ref \in Int, NEW rec, NEW first,
         Running(t, p, ref, rec, first), p.phase = "WARM",
         NEW q, q = [p EXCEPT !.data = t[p.addr]],
         NEW e, e = [q EXCEPT !.phase = "WALK", !.addr = (Hash(q.target) + 1) % NSLOT]
  PROVE  Warmed(t, p, e, ref, rec, first)
<1>1. PICK a : a = (Hash(q.target) + 1) % NSLOT
  OBVIOUS
<1>2. /\ q.phase = "WARM" /\ q.i = p.i /\ q.target = p.target /\ q.recEmpty = p.recEmpty
      /\ q.data = t[p.addr] /\ q.sawEmpty = p.sawEmpty /\ q.pause = p.pause
  BY DEF ProbeType
<1>3. e = [p EXCEPT !.data = t[p.addr], !.phase = "WALK", !.addr = a]
  BY <1>1 DEF ProbeType
<1>4. /\ e.phase = "WALK" /\ e.i = p.i /\ e.target = p.target /\ e.recEmpty = p.recEmpty
      /\ e.data = t[p.addr] /\ e.addr = a /\ e.sawEmpty = p.sawEmpty /\ e.pause = p.pause
  BY <1>3 DEF ProbeType
<1>5. /\ e.pendOld = p.pendOld /\ e.pendNew = p.pendNew /\ e.newref = p.newref
      /\ e.since = p.since /\ e.needed = p.needed /\ e.isOld = p.isOld
      /\ e.newFound = p.newFound /\ e.newFull = p.newFull /\ e.newEmpty = p.newEmpty
  BY <1>3 DEF ProbeType
<1>6. SameOld(p, e)
  BY <1>3 DEF ProbeType, SameOld
<1>7. a = At(ref, 0 + 1) /\ p.i = 0 /\ p.addr = At(ref, 0)
  BY <1>1, <1>2 DEF Running, At
<1>8. Running(t, e, ref, rec, first)
  BY <1>4, <1>7 DEF Running
<1> QED
  BY <1>5, <1>6, <1>8 DEF Warmed

(***************************************************************************)
(* A cycle of the engine, by what it is doing                              *)
(***************************************************************************)
Latched == [prb EXCEPT !.data = tab[prb.addr]]

\* What a results predicate reads of the first run does not change.
LEMMA SameResult ==
  ASSUME NEW t, NEW m, NEW p, NEW e, SameOld(p, e), OldResult(t, p, m)
  PROVE  OldResult(t, e, m)
BY DEF SameOld, OldResult

LEMMA EngineCases ==
  ASSUME prb \in ProbeType, tab \in [TabSlots -> Entry], ~EngineHold
  PROVE  /\ Latched \in ProbeType
         /\ Latched.data = tab[prb.addr] /\ Latched.phase = prb.phase
         /\ Latched.pendOld = prb.pendOld /\ Latched.pendNew = prb.pendNew
         /\ Latched.pause = prb.pause /\ Latched.oref = prb.oref
         /\ Latched.newref = prb.newref /\ Latched.needEmpty = prb.needEmpty
         /\ Latched.since = prb.since /\ Latched.needed = prb.needed
         /\ Latched.newFound = prb.newFound /\ Latched.newFull = prb.newFull
         /\ Latched.newEmpty = prb.newEmpty /\ SameOld(prb, Latched)
         /\ prb.pause => Engine = [Latched EXCEPT !.pause = FALSE]
         /\ ~prb.pause =>
              /\ prb.phase = "IDLE" /\ prb.pendOld => Engine = StartOld(Latched)
              /\ prb.phase = "IDLE" /\ ~prb.pendOld /\ prb.pendNew =>
                   Engine = StartNew(Latched)
              /\ prb.phase = "IDLE" /\ ~prb.pendOld /\ ~prb.pendNew => Engine = Latched
              /\ prb.phase = "WARM" =>
                   Engine = [Latched EXCEPT !.phase = "WALK",
                                            !.addr = (Hash(Latched.target) + 1) % NSLOT]
              /\ prb.phase = "WALK" => Engine = Walk(Latched, prb.data)
<1>1. Latched \in ProbeType
  BY DEF ProbeType, Latched
<1>2. /\ Latched.data = tab[prb.addr] /\ Latched.phase = prb.phase
      /\ Latched.pendOld = prb.pendOld /\ Latched.pendNew = prb.pendNew
      /\ Latched.pause = prb.pause /\ Latched.oref = prb.oref
      /\ Latched.newref = prb.newref /\ Latched.needEmpty = prb.needEmpty
  BY DEF ProbeType, Latched
<1>3. /\ Latched.since = prb.since /\ Latched.needed = prb.needed
      /\ Latched.newFound = prb.newFound /\ Latched.newFull = prb.newFull
      /\ Latched.newEmpty = prb.newEmpty /\ SameOld(prb, Latched)
  BY DEF ProbeType, SameOld, Latched
<1>4. Engine =
        CASE EngineHold -> [Latched EXCEPT !.pause = TRUE]
          [] ~EngineHold /\ Latched.pause -> [Latched EXCEPT !.pause = FALSE]
          [] OTHER ->
               CASE Latched.phase = "IDLE" /\ Latched.pendOld -> StartOld(Latched)
                 [] Latched.phase = "IDLE" /\ ~Latched.pendOld /\ Latched.pendNew -> StartNew(Latched)
                 [] Latched.phase = "WARM" ->
                      [Latched EXCEPT !.phase = "WALK",
                                      !.addr = (Hash(Latched.target) + 1) % NSLOT]
                 [] Latched.phase = "WALK" -> Walk(Latched, prb.data)
                 [] OTHER -> Latched
  BY DEF Engine, Latched
<1> HIDE DEF Latched
<1>5. prb.pause => Engine = [Latched EXCEPT !.pause = FALSE]
  BY <1>2, <1>4
<1>6. ASSUME ~prb.pause
      PROVE  /\ prb.phase = "IDLE" /\ prb.pendOld => Engine = StartOld(Latched)
             /\ prb.phase = "IDLE" /\ ~prb.pendOld /\ prb.pendNew =>
                  Engine = StartNew(Latched)
             /\ prb.phase = "IDLE" /\ ~prb.pendOld /\ ~prb.pendNew => Engine = Latched
             /\ prb.phase = "WARM" =>
                  Engine = [Latched EXCEPT !.phase = "WALK",
                                           !.addr = (Hash(Latched.target) + 1) % NSLOT]
             /\ prb.phase = "WALK" => Engine = Walk(Latched, prb.data)
  BY <1>2, <1>4, <1>6
<1> QED
  BY <1>1, <1>2, <1>3, <1>5, <1>6

\* The run for the order reference goes on; a replace's second run follows it.
LEMMA OldStageStep ==
  ASSUME prb \in ProbeType, tab \in [TabSlots -> Entry], ~EngineHold,
         NEW m \in Msgs, OldStage(tab, prb, m)
  PROVE  /\ Engine.needed = prb.needed
         /\ ~prb.pendNew => ~Engine.pendNew /\ OldStage(tab, Engine, m)
         /\ NewPending(prb, m) => \/ OldStage(tab, Engine, m) /\ NewPending(Engine, m)
                                  \/ NewStage(tab, Engine, m)
<1>1. Latched \in ProbeType /\ Engine \in ProbeType
  BY EngineCases, EngineType
<1>2. /\ Latched.pendOld = prb.pendOld /\ Latched.pendNew = prb.pendNew
      /\ Latched.pause = prb.pause /\ Latched.oref = prb.oref /\ Latched.phase = prb.phase
      /\ Latched.newref = prb.newref /\ Latched.needEmpty = prb.needEmpty
      /\ Latched.since = prb.since /\ Latched.needed = prb.needed
      /\ SameOld(prb, Latched)
  BY EngineCases
<1>3. CASE prb.pause
  <2>1. Engine = [Latched EXCEPT !.pause = FALSE]
    BY <1>3, EngineCases
  <2>2. /\ Engine.pendOld = prb.pendOld /\ Engine.pendNew = prb.pendNew
        /\ Engine.oref = prb.oref /\ Engine.phase = prb.phase
        /\ Engine.newref = prb.newref /\ Engine.needEmpty = prb.needEmpty
        /\ Engine.since = prb.since /\ Engine.needed = prb.needed
    BY <1>1, <1>2, <2>1 DEF ProbeType
  <2>3. SameOld(Latched, Engine)
    BY <1>1, <2>1 DEF ProbeType, SameOld
  <2>4. SameOld(prb, Engine)
    BY <1>2, <2>3 DEF SameOld
  <2>5. ~OldRunning(tab, prb, m)
    BY <1>3 DEF OldRunning, Running
  <2>6. OldPending(prb, m) => OldPending(Engine, m)
    BY <2>2 DEF OldPending
  <2>7. OldOver(tab, prb, m) => OldOver(tab, Engine, m)
    BY <2>2, <2>4, SameResult, Zenon DEF OldOver
  <2> QED
    BY <2>2, <2>5, <2>6, <2>7 DEF OldStage, NewPending
<1>4. CASE ~prb.pause /\ OldPending(prb, m)
  <2>1. Engine = StartOld(Latched)
    BY <1>4, EngineCases DEF OldPending
  <2>2. OldPending(Latched, m)
    BY <1>2, <1>4 DEF OldPending
  <2>3. /\ Engine.pendNew = Latched.pendNew /\ Engine.newref = Latched.newref
        /\ Engine.needed = Latched.needed /\ OldRunning(tab, Engine, m)
    BY <1>1, <1>2, <1>4, <2>1, <2>2, OldStarts, Zenon
  <2> QED
    BY <1>2, <2>3 DEF OldStage, NewPending
<1>5. CASE ~prb.pause /\ OldRunning(tab, prb, m)
  <2>1. /\ Running(tab, prb, m.ref, m.type \in AddTypes, prb.empty)
        /\ ~prb.pendOld /\ prb.since = 1 /\ prb.isOld /\ ~prb.found /\ ~prb.full
        /\ m.ref \in Int
    BY <1>5, RefsAreNumbers DEF OldRunning
  <2>2. CASE prb.phase = "WARM"
    <3>1. Engine = [Latched EXCEPT !.phase = "WALK",
                                   !.addr = (Hash(Latched.target) + 1) % NSLOT]
      BY <1>5, <2>2, EngineCases
    <3>2. Latched = [prb EXCEPT !.data = tab[prb.addr]]
      BY DEF Latched
    <3>3. Warmed(tab, prb, Engine, m.ref, m.type \in AddTypes, prb.empty)
      BY <2>1, <2>2, <3>1, <3>2, Warms, Zenon
    <3>4. OldRunning(tab, Engine, m)
      BY <2>1, <3>3 DEF Warmed, OldRunning, SameOld
    <3> QED
      BY <3>3, <3>4 DEF Warmed, OldStage, NewPending
  <2>3. CASE prb.phase = "WALK"
    <3>1. Engine = Walk([prb EXCEPT !.data = tab[prb.addr]], prb.data)
      BY <1>5, <2>3, EngineCases DEF Latched
    <3>2. [prb EXCEPT !.data = tab[prb.addr]] \in ProbeType
      BY <1>1 DEF Latched
    <3>3. OldWalked(tab, prb, Engine, m)
      BY <1>5, <2>3, <3>1, <3>2, OldWalks, Zenon
    <3> QED
      BY <3>3 DEF OldWalked, OldStage, NewPending
  <2> QED
    BY <2>1, <2>2, <2>3 DEF Running
<1>6. CASE ~prb.pause /\ OldOver(tab, prb, m)
  <2>1. prb.phase = "IDLE" /\ ~prb.pendOld /\ prb.since = 1 /\ OldResult(tab, prb, m)
    BY <1>6 DEF OldOver
  <2>2. OldResult(tab, Latched, m)
    BY <1>2, <2>1, SameResult
  <2>3. CASE prb.pendNew
    <3>1. Engine = StartNew(Latched)
      BY <1>6, <2>1, <2>3, EngineCases
    <3>2. ASSUME NewPending(prb, m) PROVE NewStage(tab, Engine, m)
      <4>1. NewPending(Latched, m)
        BY <1>2, <3>2 DEF NewPending
      <4>2. /\ Engine.pendOld = Latched.pendOld /\ ~Engine.pendNew
            /\ Engine.since = Latched.since + 1
            /\ SameOld(Latched, Engine) /\ NewRunning(tab, Engine, m)
        BY <1>1, <1>2, <1>6, <3>1, <4>1, NewStarts, Zenon
      <4>3. OldResult(tab, Engine, m)
        BY <2>2, <4>2, SameResult
      <4> QED
        BY <1>2, <2>1, <4>2, <4>3 DEF NewStage
    <3>3. Engine.needed = prb.needed
      <4>1. PICK r : r = StartRun(Latched, Latched.newref, FALSE, TRUE)
        OBVIOUS
      <4>2. Latched.newref \in Int /\ TRUE \in BOOLEAN /\ FALSE \in BOOLEAN
        BY <1>1 DEF ProbeType
      <4>3. r \in ProbeType /\ Started(Latched, r, Latched.newref, FALSE, TRUE)
        BY <1>1, <4>1, <4>2, StartRunType, StartFields, Zenon
      <4>4. Engine.needed = r.needed
        BY <3>1, <4>1, <4>3 DEF StartNew, ProbeType
      <4> QED
        BY <1>2, <4>3, <4>4 DEF Started
    <3> QED
      BY <2>3, <3>2, <3>3
  <2>4. CASE ~prb.pendNew
    <3>1. Engine = Latched
      BY <1>6, <2>1, <2>4, EngineCases
    <3> QED
      BY <1>2, <2>1, <2>2, <2>4, <3>1 DEF OldStage, OldOver, NewPending
  <2> QED
    BY <2>3, <2>4
<1> QED
  BY <1>3, <1>4, <1>5, <1>6 DEF OldStage

\* The run for the new reference goes on, or is over.
LEMMA NewStageStep ==
  ASSUME prb \in ProbeType, tab \in [TabSlots -> Entry], ~EngineHold,
         NEW m \in Msgs, NewStage(tab, prb, m)
  PROVE  Engine.needed = prb.needed /\ NewStage(tab, Engine, m)
<1>1. Latched \in ProbeType
  BY EngineCases
<1>2. /\ Latched.pendOld = prb.pendOld /\ Latched.pendNew = prb.pendNew
      /\ Latched.pause = prb.pause /\ Latched.phase = prb.phase
      /\ Latched.since = prb.since /\ Latched.needed = prb.needed
      /\ Latched.newFound = prb.newFound /\ Latched.newFull = prb.newFull
      /\ Latched.newEmpty = prb.newEmpty
      /\ SameOld(prb, Latched)
  BY EngineCases
<1>3. /\ ~prb.pendOld /\ ~prb.pendNew /\ prb.since = 2 /\ OldResult(tab, prb, m)
      /\ NewRunning(tab, prb, m) \/ NewOver(tab, prb, m)
  BY DEF NewStage
<1>4. CASE NewOver(tab, prb, m)
  <2>1. prb.phase = "IDLE" /\ NewResult(tab, prb, m)
    BY <1>4 DEF NewOver
  <2>2. Engine = Latched \/ Engine = [Latched EXCEPT !.pause = FALSE]
    BY <1>3, <2>1, EngineCases
  <2>3. /\ Engine.pendOld = prb.pendOld /\ Engine.pendNew = prb.pendNew
        /\ Engine.phase = prb.phase
        /\ Engine.since = prb.since /\ Engine.needed = prb.needed
        /\ Engine.newFound = prb.newFound /\ Engine.newFull = prb.newFull
        /\ Engine.newEmpty = prb.newEmpty
    BY <1>1, <1>2, <2>2 DEF ProbeType
  <2>4. SameOld(Latched, Engine)
    BY <1>1, <2>2 DEF ProbeType, SameOld
  <2>5. SameOld(prb, Engine)
    BY <1>2, <2>4 DEF SameOld
  <2>6. OldResult(tab, Engine, m)
    BY <1>3, <2>5, SameResult
  <2>7. NewResult(tab, Engine, m)
    BY <2>1, <2>3 DEF NewResult
  <2> QED
    BY <1>3, <2>1, <2>3, <2>6, <2>7 DEF NewStage, NewOver
<1>5. CASE NewRunning(tab, prb, m)
  <2>1. /\ Running(tab, prb, m.new, TRUE, prb.newEmpty)
        /\ ~prb.isOld /\ ~prb.newFound /\ ~prb.newFull /\ m.new \in Int /\ ~prb.pause
    BY <1>5, RefsAreNumbers DEF NewRunning, Running
  <2>2. CASE prb.phase = "WARM"
    <3>1. Engine = [Latched EXCEPT !.phase = "WALK",
                                   !.addr = (Hash(Latched.target) + 1) % NSLOT]
      BY <2>1, <2>2, EngineCases
    <3>2. Latched = [prb EXCEPT !.data = tab[prb.addr]]
      BY DEF Latched
    <3>3. Warmed(tab, prb, Engine, m.new, TRUE, prb.newEmpty)
      BY <2>1, <2>2, <3>1, <3>2, Warms, Zenon
    <3>4. NewRunning(tab, Engine, m)
      BY <2>1, <3>3 DEF Warmed, NewRunning
    <3>5. OldResult(tab, Engine, m)
      BY <1>3, <3>3, SameResult DEF Warmed
    <3> QED
      BY <1>3, <3>3, <3>4, <3>5 DEF Warmed, NewStage
  <2>3. CASE prb.phase = "WALK"
    <3>1. Engine = Walk([prb EXCEPT !.data = tab[prb.addr]], prb.data)
      BY <2>1, <2>3, EngineCases DEF Latched
    <3>2. [prb EXCEPT !.data = tab[prb.addr]] \in ProbeType
      BY <1>1 DEF Latched
    <3>3. NewWalked(tab, prb, Engine, m)
      BY <1>5, <2>3, <3>1, <3>2, NewWalks, Zenon
    <3>4. OldResult(tab, Engine, m)
      BY <1>3, <3>3, SameResult DEF NewWalked
    <3> QED
      BY <1>3, <3>3, <3>4 DEF NewWalked, NewStage
  <2> QED
    BY <2>1, <2>2, <2>3 DEF Running
<1> QED
  BY <1>3, <1>4, <1>5

(***************************************************************************)
(* The probe in each state of the FSM                                      *)
(***************************************************************************)
\* The runs of message m have been armed, its second one only if second is
\* TRUE; what they are to find or have found is true of table t.
Probing(t, p, m, second) ==
  /\ p.needed = RunsNeeded(m)
  /\ IF second THEN \/ OldStage(t, p, m) /\ NewPending(p, m)
                    \/ NewStage(t, p, m)
     ELSE OldStage(t, p, m) /\ ~p.pendNew

Found(t, p, m) == OldResult(t, p, m) /\ (m.type = "U" => NewResult(t, p, m))

LooksUp == cur.msg.type \in LookupTypes
Replaces == cur.msg.type = "U"

ProbeInv ==
  CASE st = "BODY" /\ LooksUp /\ cur.bi > OldSlot ->
         Probing(tab, prb, cur.msg, Replaces /\ cur.bi > NewSlot)
    [] st = "WAIT_PROBE" /\ LooksUp ->
         \/ Probing(tab, prb, cur.msg, FALSE)
         \/ Replaces /\ Probing(tab, prb, cur.msg, TRUE)
    [] st = "APPLY" /\ LooksUp -> AtRest(prb) /\ Found(tab, prb, cur.msg)
    [] OTHER -> AtRest(prb)

LEMMA ProbingStep ==
  ASSUME prb \in ProbeType, tab \in [TabSlots -> Entry], ~EngineHold,
         NEW m \in Msgs, NEW second \in BOOLEAN, Probing(tab, prb, m, second)
  PROVE  Probing(tab, Engine, m, second)
<1>1. CASE second /\ OldStage(tab, prb, m) /\ NewPending(prb, m)
  BY <1>1, OldStageStep DEF Probing
<1>2. CASE second /\ NewStage(tab, prb, m)
  BY <1>2, NewStageStep DEF Probing
<1>3. CASE ~second
  BY <1>3, OldStageStep DEF Probing
<1> QED
  BY <1>1, <1>2, <1>3 DEF Probing

\* Results outlive a cycle of an engine at rest.
LEMMA FoundRests ==
  ASSUME prb \in ProbeType, NEW m, AtRest(prb), Found(tab, prb, m)
  PROVE  AtRest(Engine) /\ Found(tab, Engine, m)
<1>1. AtRest(Engine)
  BY EngineRests
<1>2. \/ Engine = [prb EXCEPT !.data = tab[prb.addr]]
      \/ Engine = [prb EXCEPT !.data = tab[prb.addr], !.pause = TRUE]
      \/ Engine = [prb EXCEPT !.data = tab[prb.addr], !.pause = FALSE]
  BY EngineRests
<1>3. SameOld(prb, Engine)
  BY <1>2 DEF ProbeType, SameOld
<1>4. /\ Engine.newFound = prb.newFound /\ Engine.newFull = prb.newFull
      /\ Engine.newEmpty = prb.newEmpty
  BY <1>2 DEF ProbeType
<1>5. OldResult(tab, Engine, m)
  BY <1>3, SameResult DEF Found
<1>6. NewResult(tab, prb, m) => NewResult(tab, Engine, m)
  BY <1>4 DEF NewResult
<1> QED
  BY <1>1, <1>5, <1>6 DEF Found

\* A probe that is at rest again has found what it was armed for.
LEMMA OverMeansFound ==
  ASSUME NEW t, NEW p, NEW m, NEW second \in BOOLEAN, Probing(t, p, m, second), AtRest(p),
         m.type = "U" => second
  PROVE  Found(t, p, m)
<1>1. ~OldPending(p, m) /\ ~OldRunning(t, p, m) /\ ~NewPending(p, m) /\ ~NewRunning(t, p, m)
  BY DEF AtRest, OldPending, OldRunning, NewPending, NewRunning, Running
<1>2. CASE second
  BY <1>1, <1>2 DEF Probing, NewStage, NewOver, Found
<1>3. CASE ~second
  BY <1>1, <1>3 DEF Probing, OldStage, OldOver, Found
<1> QED
  BY <1>2, <1>3

(***************************************************************************)
(* Arming                                                                  *)
(***************************************************************************)
LEMMA SlotsOfWords ==
  /\ OldSlot \in Nat /\ NewSlot \in Nat /\ OldSlot + 1 <= NewSlot
  /\ OldWords \subseteq 0..OldSlot /\ NewWords \subseteq 0..NewSlot
  /\ \A m \in Msgs : m.type \in LookupTypes => OldSlot < BodyWords(m)
  /\ \A m \in Msgs : m.type = "U" => NewSlot < BodyWords(m)
<1>1. CASE DW = 32
  <2>1. /\ OldSlot = 1 /\ NewSlot = 3 /\ OldWords = {0, 1} /\ NewWords = {2, 3}
        /\ WordBytes = 4
    BY <1>1 DEF OldSlot, NewSlot, OldWords, NewWords, WordBytes
  <2>2. \A m \in Msgs : m.type \in LookupTypes => BodyBytes(m.type) \in 8..29
    BY DEF BodyBytes, LookupTypes, AddTypes, ReduceTypes
  <2>3. \A b \in 8..29 : (b + 4 - 1) \div 4 > 1
    OBVIOUS
  <2>4. (24 + 4 - 1) \div 4 > 3
    OBVIOUS
  <2>5. \A m \in Msgs : m.type = "U" => BodyBytes(m.type) = 24
    BY DEF BodyBytes
  <2> QED
    BY <2>1, <2>2, <2>3, <2>4, <2>5 DEF BodyWords
<1>2. CASE DW = 64
  <2>1. /\ OldSlot = 0 /\ NewSlot = 1 /\ OldWords = {0} /\ NewWords = {1}
        /\ WordBytes = 8
    BY <1>2 DEF OldSlot, NewSlot, OldWords, NewWords, WordBytes
  <2>2. \A m \in Msgs : m.type \in LookupTypes => BodyBytes(m.type) \in 8..29
    BY DEF BodyBytes, LookupTypes, AddTypes, ReduceTypes
  <2>3. \A b \in 8..29 : (b + 8 - 1) \div 8 > 0
    OBVIOUS
  <2>4. (24 + 8 - 1) \div 8 > 1
    OBVIOUS
  <2>5. \A m \in Msgs : m.type = "U" => BodyBytes(m.type) = 24
    BY DEF BodyBytes
  <2> QED
    BY <2>1, <2>2, <2>3, <2>4, <2>5 DEF BodyWords
<1> QED
  BY <1>1, <1>2, EngineAssumption

LEMMA RefInType ==
  ASSUME NEW words, NEW acc, NEW ref \in Int
  PROVE  RefIn(words, acc, ref) \in Int
BY DEF RefIn, NoRef

LEMMA ArmOldFields ==
  ASSUME NEW p \in ProbeType, NEW m \in Msgs, NEW acc, NEW e, e = ArmOld(p, m, acc)
  PROVE  /\ e \in ProbeType /\ e.pendOld /\ e.pendNew = p.pendNew
         /\ e.phase = p.phase /\ e.since = p.since
         /\ (OldWords \subseteq acc => e.oref = m.ref)
         /\ e.needEmpty = (m.type \in AddTypes)
<1>1. PICK r : r = RefIn(OldWords, acc, m.ref)
  OBVIOUS
<1>2. PICK a : a = (m.type \in AddTypes)
  OBVIOUS
<1>3. r \in Int /\ a \in BOOLEAN
  BY <1>1, <1>2, RefsAreNumbers, RefInType
<1>4. e = [p EXCEPT !.pendOld = TRUE, !.oref = r, !.needEmpty = a]
  BY <1>1, <1>2 DEF ArmOld
<1>5. e \in ProbeType
  BY <1>3, <1>4, ZenonT(60) DEF ProbeType
<1>6. /\ e.pendOld /\ e.pendNew = p.pendNew /\ e.phase = p.phase /\ e.since = p.since
      /\ e.oref = r /\ e.needEmpty = a
  BY <1>4 DEF ProbeType
<1> QED
  BY <1>1, <1>2, <1>5, <1>6 DEF RefIn

Anchored(p, e, m) ==
  /\ e.pendOld = p.pendOld /\ e.pendNew = p.pendNew
  /\ e.phase = p.phase /\ e.oref = p.oref /\ e.newref = p.newref
  /\ e.needEmpty = p.needEmpty
  /\ e.since = p.since - prb.since /\ e.needed = RunsNeeded(m)

LEMMA AnchorFields ==
  ASSUME prb \in ProbeType, NEW p \in ProbeType, NEW m, NEW e, e = Anchor(p, m)
  PROVE  e \in ProbeType /\ Anchored(p, e, m)
<1>1. PICK n : n = p.since - prb.since
  OBVIOUS
<1>2. PICK k : k = RunsNeeded(m)
  OBVIOUS
<1>3. n \in Int /\ k \in Int
  BY <1>1, <1>2 DEF ProbeType, RunsNeeded
<1>4. e = [p EXCEPT !.since = n, !.needed = k]
  BY <1>1, <1>2 DEF Anchor
<1>5. e \in ProbeType
  BY <1>3, <1>4, ZenonT(60) DEF ProbeType
<1>6. /\ e.pendOld = p.pendOld /\ e.pendNew = p.pendNew
      /\ e.phase = p.phase /\ e.oref = p.oref /\ e.newref = p.newref
      /\ e.needEmpty = p.needEmpty /\ e.since = n /\ e.needed = k
  BY <1>4 DEF ProbeType
<1> QED
  BY <1>1, <1>2, <1>5, <1>6 DEF Anchored

\* The second run may be armed whatever the first one is doing.
LEMMA ArmNewFields ==
  ASSUME NEW t, NEW p \in ProbeType, NEW m \in Msgs, NEW acc, NEW e, e = ArmNew(p, m, acc)
  PROVE  /\ e \in ProbeType /\ e.pendNew /\ e.pendOld = p.pendOld /\ e.needed = p.needed
         /\ NewWords \subseteq acc => NewPending(e, m)
         /\ OldStage(t, p, m) => OldStage(t, e, m)
<1>1. PICK r : r = RefIn(NewWords, acc, m.new)
  OBVIOUS
<1>2. r \in Int
  BY <1>1, RefsAreNumbers, RefInType
<1>3. e = [p EXCEPT !.pendNew = TRUE, !.newref = r]
  BY <1>1 DEF ArmNew
<1>4. e \in ProbeType
  BY <1>2, <1>3, ZenonT(60) DEF ProbeType
<1>5. /\ e.pendNew /\ e.newref = r
      /\ e.pendOld = p.pendOld /\ e.phase = p.phase /\ e.since = p.since
      /\ e.oref = p.oref /\ e.needEmpty = p.needEmpty /\ e.needed = p.needed
      /\ e.isOld = p.isOld /\ e.target = p.target
  BY <1>3 DEF ProbeType
<1>6. /\ e.i = p.i /\ e.recEmpty = p.recEmpty /\ e.sawEmpty = p.sawEmpty
      /\ e.addr = p.addr /\ e.data = p.data /\ e.pause = p.pause
  BY <1>3 DEF ProbeType
<1>7. SameOld(p, e)
  BY <1>3 DEF ProbeType, SameOld
<1>8. OldPending(p, m) => OldPending(e, m)
  BY <1>5 DEF OldPending
<1>9. OldRunning(t, p, m) => OldRunning(t, e, m)
  BY <1>5, <1>6, <1>7 DEF OldRunning, Running, SameOld
<1>10. OldOver(t, p, m) => OldOver(t, e, m)
  BY <1>5, <1>7, SameResult, Zenon DEF OldOver
<1> QED
  BY <1>1, <1>4, <1>5, <1>8, <1>9, <1>10 DEF RefIn, NewPending, OldStage

(***************************************************************************)
(* What each cycle does to the probe                                       *)
(***************************************************************************)
\* The states of a tail that do not touch the engine.
Work == Tails \ {"WAIT_PROBE", "APPLY"}

Idling ==
  /\ prb' = Engine
  /\ st \in {"INVAL", "W0", "TS"}
  /\ \/ st' \in {"INVAL", "W0", "TS"}
     \/ st = "TS" /\ st' = "BODY" /\ UNCHANGED cur
Working == prb' = Engine /\ st \in Tails \ {"WAIT_PROBE"} /\ st' \in Work
Waiting ==
  /\ st = "WAIT_PROBE" /\ prb' = Engine
  /\ st' = IF ProbeDone THEN "APPLY" ELSE st
  /\ UNCHANGED <<cur, tab>>
Swapping == st \in Tails \ {"WAIT_PROBE"} /\ SwapNext /\ UNCHANGED tab

LEMMA ProbeKinds ==
  ASSUME NEW w, NEW rdy, Cycle(w, rdy)
  PROVE  Idling \/ Working \/ Waiting \/ Swapping \/ (Body(w) /\ UNCHANGED tab)
<1> USE DEF Tails, States, Work
<1>1. Inval \/ W0(w) \/ TS(w) => Idling
  BY DEF Inval, W0, TS, Idling, recvVars
<1>2. Body(w) => UNCHANGED tab
  BY DEF Body, bookVars
<1>3. WaitProbe(w) => Waiting
  BY DEF WaitProbe, Background, Waiting, bookVars
<1>4. st \in Tails \ {"WAIT_PROBE"} /\ EndTail(w) /\ UNCHANGED tab => Working \/ Swapping
  BY DEF EndTail, Working, Swapping
<1>5. ApplyDiscard(w) \/ ApplySession(w) => Working \/ Swapping
  BY <1>4 DEF ApplyDiscard, ApplySession, Applies, bookVars
<1>6. st = "APPLY" /\ (ToLevels(w) \/ Fruitless(w)) => Working
  BY DEF ToLevels, Fruitless, Background, Working
<1>7. ApplyAdd(w) \/ ApplyReduce(w) \/ ApplyDelete(w) \/ ApplyReplace(w) => Working
  BY <1>6 DEF ApplyAdd, ApplyReduce, ApplyDelete, ApplyReplace, Applies, Refuse, Unknown
<1>8. Lv2(w) \/ Lv2b(w) \/ Lv3(w) \/ Uadd(w) => Working
  BY DEF Lv2, Lv2b, Lv3, Uadd, Background, Working
<1>9. EmitA(w) \/ EmitB(w) \/ EmitWait(w) => Working
  BY DEF EmitA, EmitB, EmitWait, Background, Working
<1>10. EmitNothing(w) \/ Emit(w, rdy) => Working \/ Swapping
  BY <1>4 DEF EmitNothing, Emit, bookVars
<1>11. Swap => Swapping
  BY DEF Swap, Swapping, bookVars
<1> QED
  BY <1>1, <1>2, <1>3, <1>5, <1>7, <1>8, <1>9, <1>10, <1>11 DEF Cycle, Quiet

(***************************************************************************)
(* The probe's invariant is kept                                           *)
(***************************************************************************)
ProbeTypes == prb \in ProbeType /\ tab \in [TabSlots -> Entry]

LEMMA IdlingProbe ==
  ASSUME ReceiveInv, ProbeTypes, ProbeInv, Idling
  PROVE  prb' \in ProbeType /\ ProbeInv'
<1>1. AtRest(prb)
  BY DEF ProbeInv, Idling
<1>2. prb' \in ProbeType /\ AtRest(prb')
  BY <1>1, EngineType, EngineRests DEF Idling, ProbeTypes
<1>3. st' = "BODY" => cur'.bi = 0 /\ cur.bi = 0
  BY DEF Idling, ReceiveInv, InTail, CurInv
<1>4. ~(0 > OldSlot)
  BY SlotsOfWords
<1>5. ~(st' = "BODY" /\ cur'.bi > OldSlot) /\ st' # "WAIT_PROBE" /\ st' # "APPLY"
  BY <1>3, <1>4 DEF Idling
<1> QED
  BY <1>2, <1>5 DEF ProbeInv

LEMMA WorkingProbe ==
  ASSUME ProbeTypes, ProbeInv, Working
  PROVE  prb' \in ProbeType /\ ProbeInv'
<1>1. AtRest(prb)
  BY DEF ProbeInv, Working, Tails
<1>2. prb' \in ProbeType /\ AtRest(prb')
  BY <1>1, EngineType, EngineRests DEF Working, ProbeTypes
<1> QED
  BY <1>2 DEF ProbeInv, Working, Work, Tails

\* ST_WAIT_PROBE ends only when every run that the message needs is over.
LEMMA WaitingProbe ==
  ASSUME ReceiveInv, ProbeTypes, ProbeInv, Waiting
  PROVE  prb' \in ProbeType /\ ProbeInv'
<1>1. /\ cur' = cur /\ tab' = tab /\ prb' = Engine /\ st = "WAIT_PROBE"
      /\ st' \in {"WAIT_PROBE", "APPLY"} /\ (st' = "APPLY" => ProbeDone)
      /\ ~EngineHold /\ prb' \in ProbeType
  BY EngineType DEF Waiting, EngineHold, ProbeTypes
<1>2. CASE ~LooksUp
  <2>1. AtRest(prb)
    BY <1>1, <1>2 DEF ProbeInv
  <2>2. AtRest(prb') /\ ~LooksUp'
    BY <1>1, <1>2, <2>1, EngineRests DEF LooksUp, ProbeTypes
  <2> QED
    BY <1>1, <2>2 DEF ProbeInv
<1>3. CASE LooksUp
  <2>1. cur.msg \in Msgs
    BY <1>1 DEF ReceiveInv, InTail, Complete
  <2>2. \/ Probing(tab, prb, cur.msg, FALSE)
        \/ Replaces /\ Probing(tab, prb, cur.msg, TRUE)
    BY <1>1, <1>3 DEF ProbeInv
  <2>3. TRUE \in BOOLEAN /\ FALSE \in BOOLEAN
    OBVIOUS
  <2>4. /\ Probing(tab, prb, cur.msg, FALSE) => Probing(tab, Engine, cur.msg, FALSE)
        /\ Probing(tab, prb, cur.msg, TRUE) => Probing(tab, Engine, cur.msg, TRUE)
    BY <1>1, <2>1, <2>3, ProbingStep, Zenon DEF ProbeTypes
  <2>5. LooksUp' /\ (Replaces' <=> Replaces)
    BY <1>1, <1>3 DEF LooksUp, Replaces
  <2>6. CASE st' = "WAIT_PROBE"
    <3>1. \/ Probing(tab', prb', cur'.msg, FALSE)
          \/ Replaces' /\ Probing(tab', prb', cur'.msg, TRUE)
      BY <1>1, <2>2, <2>4, <2>5, Zenon
    <3> QED
      BY <1>1, <2>5, <2>6, <3>1 DEF ProbeInv
  <2>7. CASE st' = "APPLY"
    <3>1. prb.since >= prb.needed /\ prb.phase = "IDLE"
      BY <1>1, <2>7 DEF ProbeDone
    <3>2. prb.needed = IF Replaces THEN 2 ELSE 1
      BY <1>3, <2>2 DEF Probing, RunsNeeded, LooksUp, Replaces
    <3>3. ~OldPending(prb, cur.msg) /\ ~OldRunning(tab, prb, cur.msg)
          /\ ~NewRunning(tab, prb, cur.msg)
      BY <3>1, <3>2 DEF OldPending, OldRunning, NewRunning, Running
    <3>4. OldOver(tab, prb, cur.msg) => ~Replaces
      BY <3>1, <3>2 DEF OldOver
    <3>5. AtRest(prb) /\ Found(tab, prb, cur.msg)
      <4>1. CASE Probing(tab, prb, cur.msg, FALSE)
        <5>1. OldOver(tab, prb, cur.msg) /\ ~prb.pendNew
          BY <3>3, <4>1 DEF Probing, OldStage
        <5> QED
          BY <3>4, <5>1 DEF OldOver, AtRest, Found, Replaces
      <4>2. CASE Replaces /\ Probing(tab, prb, cur.msg, TRUE)
        <5>1. NewStage(tab, prb, cur.msg)
          BY <3>3, <3>4, <4>2 DEF Probing, OldStage
        <5> QED
          BY <3>3, <5>1 DEF NewStage, NewOver, AtRest, Found
      <4> QED
        BY <2>2, <4>1, <4>2
    <3>6. AtRest(prb') /\ Found(tab', prb', cur'.msg)
      <4>1. AtRest(Engine) /\ Found(tab, Engine, cur.msg)
        BY <3>5, FoundRests DEF ProbeTypes
      <4> QED
        BY <1>1, <4>1
    <3> QED
      BY <1>1, <2>5, <2>7, <3>6 DEF ProbeInv
  <2> QED
    BY <1>1, <2>6, <2>7
<1> QED
  BY <1>2, <1>3

\* The buffered message takes over with the runs armed that its words allow.
LEMMA SwappingProbe ==
  ASSUME ReceiveInv, ProbeTypes, ProbeInv, Swapping
  PROVE  prb' \in ProbeType /\ ProbeInv'
<1>1. AtRest(prb) /\ prb \in ProbeType /\ tab' = tab
  BY DEF ProbeInv, Swapping, Tails, ProbeTypes
<1>2. Engine \in ProbeType /\ AtRest(Engine) /\ Engine.since = prb.since
  <2>1. Engine \in ProbeType /\ AtRest(Engine)
    BY <1>1, EngineType, EngineRests DEF ProbeTypes
  <2>2. \/ Engine = [prb EXCEPT !.data = tab[prb.addr]]
        \/ Engine = [prb EXCEPT !.data = tab[prb.addr], !.pause = TRUE]
        \/ Engine = [prb EXCEPT !.data = tab[prb.addr], !.pause = FALSE]
    BY <1>1, EngineRests
  <2> QED
    BY <1>1, <2>1, <2>2 DEF ProbeType
<1>3. NxInv /\ st \in Tails /\ SwapNext
  BY DEF Swapping, ReceiveInv, InTail, Tails
<1>4. CASE ~nx.active
  <2>1. prb' = Engine /\ st' = "W0"
    BY <1>3, <1>4 DEF SwapNext
  <2> QED
    BY <1>2, <2>1 DEF ProbeInv
<1>5. CASE nx.active
  <2>1. /\ cur' = Buffered /\ prb' = SwapArming
        /\ st' = IF nx.done
                 THEN IF SwapProbes THEN "WAIT_PROBE" ELSE "APPLY"
                 ELSE IF nx.st = 1 THEN "TS" ELSE "BODY"
    BY <1>3, <1>5 DEF SwapNext
  <2>2. cur'.msg = nx.msg /\ cur'.bi = nx.bi
    BY <2>1 DEF Buffered
  <2>3. nx.msg \in Msgs /\ nx.bi \in Nat /\ nx.msg.new \in Int
    BY <1>3, <1>5, RefsAreNumbers DEF NxInv, NxEmpty, Partial, Complete, ReceiveInv, ReceiveType, Buffer
  <2> DEFINE m == nx.msg
             old == IF ArmsOldAtSwap THEN ArmOld(Engine, m, nx.acc) ELSE Engine
             new == IF ArmsNewAtSwap THEN ArmNew(old, m, nx.acc) ELSE old
  <2>4. SwapArming = IF nx.done \/ ArmsOldAtSwap \/ ArmsNewAtSwap THEN Anchor(new, m) ELSE new
    BY DEF SwapArming
  <2>5. ArmsNewAtSwap => ArmsOldAtSwap
    BY <2>3, SlotsOfWords DEF ArmsNewAtSwap, ArmsOldAtSwap, LookupTypes
  <2>6. /\ ArmsOldAtSwap => OldWords \subseteq nx.acc
        /\ ArmsNewAtSwap => NewWords \subseteq nx.acc
    <3>1. CASE nx.done
      <4>1. nx.acc = 0..BodyWords(m)-1
        BY <1>3, <1>5, <3>1 DEF NxInv, NxEmpty, Complete
      <4>2. BodyWords(m) \in Nat
        BY <2>3, BodyWordsType
      <4>3. /\ ArmsOldAtSwap => OldSlot < BodyWords(m)
            /\ ArmsNewAtSwap => NewSlot < BodyWords(m)
        BY <2>3, SlotsOfWords DEF ArmsOldAtSwap, ArmsNewAtSwap
      <4>4. /\ OldSlot < BodyWords(m) => 0..OldSlot \subseteq 0..BodyWords(m)-1
            /\ NewSlot < BodyWords(m) => 0..NewSlot \subseteq 0..BodyWords(m)-1
        BY <4>2, SlotsOfWords
      <4> QED
        BY <4>1, <4>3, <4>4, SlotsOfWords
    <3>2. CASE ~nx.done
      <4>1. nx.acc = 0..nx.bi-1
        BY <1>3, <1>5, <3>2 DEF NxInv, NxEmpty, Partial
      <4>2. /\ ArmsOldAtSwap => nx.bi > OldSlot
            /\ ArmsNewAtSwap => nx.bi > NewSlot
        BY <3>2 DEF ArmsOldAtSwap, ArmsNewAtSwap
      <4>3. /\ nx.bi > OldSlot => 0..OldSlot \subseteq 0..nx.bi-1
            /\ nx.bi > NewSlot => 0..NewSlot \subseteq 0..nx.bi-1
        BY <2>3, SlotsOfWords
      <4> QED
        BY <4>1, <4>2, <4>3, SlotsOfWords
    <3> QED
      BY <3>1, <3>2
  <2>7. CASE ~ArmsOldAtSwap
    <3>1. new = Engine
      BY <2>5, <2>7
    <3> HIDE DEF new, old
    <3>2. prb' = Engine \/ prb' = Anchor(Engine, m)
      BY <2>1, <2>4, <3>1
    <3>3. prb' \in ProbeType /\ AtRest(prb')
      <4>1. CASE prb' = Engine
        BY <1>2, <4>1
      <4>2. CASE prb' = Anchor(Engine, m)
        <5>1. PICK e : e = Anchor(Engine, m)
          OBVIOUS
        <5>2. e \in ProbeType /\ Anchored(Engine, e, m)
          BY <1>1, <1>2, <5>1, AnchorFields
        <5> QED
          BY <1>2, <4>2, <5>1, <5>2 DEF Anchored, AtRest
      <4> QED
        BY <3>2, <4>1, <4>2
    <3>4. ~(st' = "BODY" /\ LooksUp' /\ cur'.bi > OldSlot)
          /\ ~(st' = "WAIT_PROBE" /\ LooksUp') /\ ~(st' = "APPLY" /\ LooksUp')
      <4>1. LooksUp' <=> m.type \in LookupTypes
        BY <2>2 DEF LooksUp
      <4> QED
        BY <2>1, <2>2, <2>7, <4>1 DEF ArmsOldAtSwap
    <3> QED
      BY <3>3, <3>4 DEF ProbeInv
  <2>8. CASE ArmsOldAtSwap
    <3>1. m.type \in LookupTypes
      BY <2>8 DEF ArmsOldAtSwap
    <3>2. old = ArmOld(Engine, m, nx.acc)
      BY <2>8
    <3> HIDE DEF old
    <3>3. /\ old \in ProbeType /\ old.pendOld /\ old.pendNew = Engine.pendNew
          /\ old.phase = Engine.phase /\ old.since = Engine.since
          /\ (OldWords \subseteq nx.acc => old.oref = m.ref)
          /\ old.needEmpty = (m.type \in AddTypes)
      BY <1>2, <2>3, <3>2, ArmOldFields
    <3>4. PICK n : n = new
      OBVIOUS
    <3>5. /\ n \in ProbeType /\ n.pendOld /\ n.phase = "IDLE" /\ n.since = prb.since
          /\ n.oref = m.ref /\ n.needEmpty = (m.type \in AddTypes)
          /\ ~ArmsNewAtSwap => ~n.pendNew
          /\ ArmsNewAtSwap => NewPending(n, m)
      <4>1. CASE ~ArmsNewAtSwap
        BY <1>2, <2>6, <2>8, <3>3, <3>4, <4>1 DEF AtRest
      <4>2. CASE ArmsNewAtSwap
        <5>1. n = ArmNew(old, m, nx.acc)
          BY <3>4, <4>2
        <5>2. n \in ProbeType /\ NewPending(n, m)
          BY <2>3, <2>6, <3>3, <4>2, <5>1, ArmNewFields
        <5>3. PICK r : r = RefIn(NewWords, nx.acc, m.new)
          OBVIOUS
        <5>4. n = [old EXCEPT !.pendNew = TRUE, !.newref = r]
          BY <5>1, <5>3 DEF ArmNew
        <5>5. /\ n.pendOld = old.pendOld /\ n.phase = old.phase /\ n.since = old.since
              /\ n.oref = old.oref /\ n.needEmpty = old.needEmpty
          BY <3>3, <5>4 DEF ProbeType
        <5> QED
          BY <1>2, <2>6, <2>8, <3>3, <4>2, <5>2, <5>5 DEF AtRest
      <4> QED
        BY <4>1, <4>2
    <3>6. prb' = Anchor(n, m)
      BY <2>1, <2>4, <2>8, <3>4
    <3> HIDE DEF new
    <3>7. PICK e : e = Anchor(n, m)
      OBVIOUS
    <3>8. e \in ProbeType /\ Anchored(n, e, m)
      <4>1. prb \in ProbeType /\ n \in ProbeType /\ e = Anchor(n, m)
        BY <1>1, <3>5, <3>7
      <4> HIDE DEF m
      <4> QED
        BY <4>1, AnchorFields, Zenon
    <3>9. e.since = 0
      BY <1>1, <3>5, <3>8 DEF Anchored, ProbeType
    <3>10. OldPending(e, m)
      BY <3>5, <3>8, <3>9 DEF Anchored, OldPending
    <3>11. Probing(tab, e, m, ArmsNewAtSwap)
      BY <3>5, <3>8, <3>10 DEF Anchored, Probing, OldStage, NewPending
    <3>12. prb' = e /\ cur'.msg = m /\ tab' = tab /\ LooksUp' /\ (Replaces' <=> m.type = "U")
      BY <1>1, <2>2, <3>1, <3>6, <3>7 DEF LooksUp, Replaces
    <3>13. CASE nx.done
      <4>1. st' = "WAIT_PROBE"
        BY <2>1, <2>8, <3>13 DEF SwapProbes
      <4>2. ArmsNewAtSwap => Replaces'
        BY <3>12 DEF ArmsNewAtSwap
      <4>3. ArmsNewAtSwap \in BOOLEAN
        BY DEF ArmsNewAtSwap
      <4>4. \/ Probing(tab', prb', cur'.msg, FALSE)
            \/ Replaces' /\ Probing(tab', prb', cur'.msg, TRUE)
        <5>1. CASE ArmsNewAtSwap
          <6>1. Probing(tab, e, m, TRUE)
            BY <3>11, <5>1 DEF Probing
          <6> QED
            BY <3>12, <4>2, <5>1, <6>1
        <5>2. CASE ~ArmsNewAtSwap
          <6>1. Probing(tab, e, m, FALSE)
            BY <3>11, <5>2 DEF Probing
          <6> QED
            BY <3>12, <6>1
        <5> QED
          BY <5>1, <5>2
      <4> QED
        BY <3>8, <3>12, <4>1, <4>4 DEF ProbeInv
    <3>14. CASE ~nx.done
      <4>1. nx.bi > OldSlot /\ cur'.bi = nx.bi
        BY <2>2, <2>8, <3>14 DEF ArmsOldAtSwap
      <4>2. nx.st # 1
        BY <1>3, <1>5, <2>3, <3>14, <4>1, SlotsOfWords DEF NxInv, NxEmpty
      <4>3. st' = "BODY"
        BY <2>1, <3>14, <4>2
      <4>4. ArmsNewAtSwap <=> Replaces' /\ cur'.bi > NewSlot
        BY <3>12, <3>14, <4>1 DEF ArmsNewAtSwap
      <4>5. Probing(tab', prb', cur'.msg, Replaces' /\ cur'.bi > NewSlot)
        <5>1. Probing(tab, e, m, Replaces' /\ cur'.bi > NewSlot)
          BY <3>11, <4>4 DEF Probing
        <5> QED
          BY <3>12, <5>1
      <4> QED
        BY <3>8, <3>12, <4>1, <4>3, <4>5 DEF ProbeInv
    <3> QED
      BY <3>13, <3>14
  <2> QED
    BY <2>7, <2>8
<1> QED
  BY <1>4, <1>5

\* A body word arms the run whose reference it completes.
LEMMA FillingProbe ==
  ASSUME ReceiveInv, ProbeTypes, ProbeInv, NEW w \in Offers, Body(w), UNCHANGED tab
  PROVE  prb' \in ProbeType /\ ProbeInv'
<1>1. /\ st = "BODY" /\ tab' = tab /\ ~EngineHold
      /\ Partial(cur) /\ bus = [msg |-> cur.msg, k |-> 2 + cur.bi]
      /\ cur \in InFlight /\ cur.bi \in Nat /\ cur.left \in Nat /\ cur.msg \in Msgs
      /\ Engine \in ProbeType /\ prb \in ProbeType
  BY EngineType DEF Body, EngineHold, ReceiveInv, ReceiveType, InTail, CurInv, Partial,
                    InFlight, ProbeTypes
<1>2. PICK m \in Msgs : m = cur.msg
  BY <1>1
<1>3. LooksUp <=> m.type \in LookupTypes
  BY <1>2 DEF LooksUp
<1>4. Replaces <=> m.type = "U"
  BY <1>2 DEF Replaces
<1>5. Replaces => LooksUp
  BY DEF Replaces, LooksUp, LookupTypes
<1>6. DEFINE second == Replaces /\ cur.bi > NewSlot
<1>7. LooksUp /\ cur.bi > OldSlot => Probing(tab, prb, m, second)
  BY <1>1, <1>2 DEF ProbeInv
<1>8. ~(LooksUp /\ cur.bi > OldSlot) => AtRest(prb)
  BY <1>1 DEF ProbeInv
<1>9. LooksUp /\ cur.bi > OldSlot => Probing(tab, Engine, m, second)
  <2>1. second \in BOOLEAN
    BY DEF Replaces
  <2> HIDE DEF second
  <2> QED
    BY <1>1, <1>2, <1>7, <2>1, ProbingStep, Zenon DEF ProbeTypes
<1>10. ~(LooksUp /\ cur.bi > OldSlot) => AtRest(Engine) /\ Engine.since = prb.since
  <2> SUFFICES ASSUME AtRest(prb) PROVE AtRest(Engine) /\ Engine.since = prb.since
    BY <1>8
  <2>2. \/ Engine = [prb EXCEPT !.data = tab[prb.addr]]
        \/ Engine = [prb EXCEPT !.data = tab[prb.addr], !.pause = TRUE]
        \/ Engine = [prb EXCEPT !.data = tab[prb.addr], !.pause = FALSE]
    BY <1>1, EngineRests
  <2> QED
    BY <1>1, <2>2, EngineRests DEF ProbeType
<1>11. CASE w = NoWord
  <2>1. prb' = Engine /\ st' = st /\ cur' = cur
    BY <1>11 DEF Body
  <2>2. LooksUp' <=> LooksUp
    BY <2>1 DEF LooksUp
  <2>3. Replaces' <=> Replaces
    BY <2>1 DEF Replaces
  <2>4. CASE LooksUp /\ cur.bi > OldSlot
    <3>1. Probing(tab, Engine, m, Replaces' /\ cur'.bi > NewSlot)
      BY <1>9, <2>1, <2>3, <2>4 DEF Probing
    <3>2. Probing(tab', prb', cur'.msg, Replaces' /\ cur'.bi > NewSlot)
      BY <1>1, <1>2, <2>1, <3>1
    <3> QED
      BY <1>1, <2>1, <2>2, <2>4, <3>2 DEF ProbeInv
  <2>5. CASE ~(LooksUp /\ cur.bi > OldSlot)
    BY <1>1, <1>10, <2>1, <2>2, <2>5 DEF ProbeInv
  <2> QED
    BY <2>4, <2>5
<1>12. CASE w # NoWord
  <2> DEFINE acc == Store(cur.acc, cur.bi, w, cur.msg)
  <2>1. w = [msg |-> cur.msg, k |-> 2 + cur.bi]
    BY <1>1, <1>12, OfferCases
  <2>2. acc = 0..cur.bi
    BY <1>1, <2>1, WordStored
  <2>3. /\ prb' = BodyArming(acc)
        /\ IF cur.left <= 1
           THEN /\ st' = IF ProbeBusy \/ ArmsOldNow \/ ArmsNewNow
                         THEN "WAIT_PROBE" ELSE "APPLY"
                /\ cur' = [cur EXCEPT !.acc = acc]
           ELSE /\ cur' = [cur EXCEPT !.acc = acc, !.bi = @ + 1, !.left = @ - 1]
                /\ UNCHANGED st
    BY <1>12 DEF Body
  <2> HIDE DEF acc
  <2>4. /\ cur'.msg = m
        /\ ~(cur.left <= 1) => st' = "BODY" /\ cur'.bi = cur.bi + 1
        /\ cur.left <= 1 => st' = IF ProbeBusy \/ ArmsOldNow \/ ArmsNewNow
                                  THEN "WAIT_PROBE" ELSE "APPLY"
    BY <1>1, <1>2, <2>3 DEF InFlight
  <2>5. LooksUp' <=> LooksUp
    BY <1>2, <2>4 DEF LooksUp
  <2>6. Replaces' <=> Replaces
    BY <1>2, <2>4 DEF Replaces
  <2>7. BodyWords(m) \in Nat \ {0} /\ cur.left = BodyWords(m) - cur.bi
    BY <1>1, <1>2, BodyWordsType DEF Partial
  <2>8. /\ ArmsOldNow <=> cur.bi = OldSlot /\ LooksUp
        /\ ArmsNewNow <=> cur.bi = NewSlot /\ Replaces
    BY DEF ArmsOldNow, ArmsNewNow, LooksUp, Replaces
  <2>9. CASE ~LooksUp \/ cur.bi < OldSlot
    <3>1. ~ArmsOldNow /\ ~ArmsNewNow
      BY <1>1, <1>5, <2>8, <2>9, SlotsOfWords
    <3>2. prb' = Engine
      BY <2>3, <3>1 DEF BodyArming
    <3>3. AtRest(prb')
      BY <1>1, <1>10, <2>9, <3>2, SlotsOfWords
    <3>4. ~LooksUp \/ (cur.left > 1 /\ ~(cur.bi + 1 > OldSlot))
      BY <1>1, <1>2, <1>3, <2>7, <2>9, SlotsOfWords
    <3>5. CASE ~LooksUp
      BY <1>1, <2>5, <3>2, <3>3, <3>5 DEF ProbeInv
    <3>6. CASE LooksUp
      <4>1. st' = "BODY" /\ ~(cur'.bi > OldSlot)
        BY <1>1, <2>4, <3>4, <3>6
      <4> QED
        BY <1>1, <3>2, <3>3, <4>1 DEF ProbeInv
    <3> QED
      BY <3>5, <3>6
  <2>10. CASE LooksUp /\ cur.bi = OldSlot
    <3>1. ArmsOldNow /\ ~ArmsNewNow /\ AtRest(Engine) /\ Engine.since = prb.since
      BY <1>1, <1>10, <2>8, <2>10, SlotsOfWords
    <3>2. PICK old : old = ArmOld(Engine, m, acc)
      OBVIOUS
    <3>3. /\ old \in ProbeType /\ old.pendOld /\ old.pendNew = Engine.pendNew
          /\ old.phase = Engine.phase /\ old.since = Engine.since
          /\ (OldWords \subseteq acc => old.oref = m.ref)
          /\ old.needEmpty = (m.type \in AddTypes)
      BY <1>1, <3>2, ArmOldFields
    <3>4. prb' = Anchor(old, m)
      BY <1>2, <2>3, <3>1, <3>2 DEF BodyArming
    <3>5. PICK e : e = Anchor(old, m)
      OBVIOUS
    <3>6. e \in ProbeType /\ Anchored(old, e, m)
      BY <1>1, <3>3, <3>5, AnchorFields
    <3>7. OldWords \subseteq acc
      BY <2>2, <2>10, SlotsOfWords
    <3>8. e.since = 0
      BY <1>1, <3>1, <3>3, <3>6 DEF Anchored, ProbeType
    <3>9. OldPending(e, m) /\ ~e.pendNew
      BY <3>1, <3>3, <3>6, <3>7, <3>8 DEF Anchored, AtRest, OldPending
    <3>10. Probing(tab, e, m, FALSE)
      BY <3>6, <3>9 DEF Probing, OldStage, Anchored
    <3>11. CASE cur.left <= 1
      <4>1. st' = "WAIT_PROBE" /\ LooksUp'
        BY <2>4, <2>5, <2>10, <3>1, <3>11
      <4>2. Probing(tab', prb', cur'.msg, FALSE)
        BY <1>1, <2>4, <3>4, <3>5, <3>10
      <4> QED
        BY <3>4, <3>5, <3>6, <4>1, <4>2 DEF ProbeInv
    <3>12. CASE ~(cur.left <= 1)
      <4>1. st' = "BODY" /\ LooksUp' /\ cur'.bi > OldSlot /\ ~(cur'.bi > NewSlot)
        BY <1>1, <2>4, <2>5, <2>10, <3>12, SlotsOfWords
      <4>2. Probing(tab, e, m, Replaces' /\ cur'.bi > NewSlot)
        BY <3>10, <4>1 DEF Probing
      <4>3. Probing(tab', prb', cur'.msg, Replaces' /\ cur'.bi > NewSlot)
        BY <1>1, <2>4, <3>4, <3>5, <4>2
      <4> QED
        BY <3>4, <3>5, <3>6, <4>1, <4>3 DEF ProbeInv
    <3> QED
      BY <3>11, <3>12
  <2>11. CASE LooksUp /\ cur.bi > OldSlot /\ ~ArmsNewNow
    <3>1. ~ArmsOldNow /\ prb' = Engine
      BY <1>1, <2>3, <2>8, <2>11, SlotsOfWords DEF BodyArming
    <3>2. Probing(tab, Engine, m, second)
      BY <1>9, <2>11
    <3>3. CASE ~(cur.left <= 1)
      <4>1. st' = "BODY" /\ LooksUp' /\ cur'.bi > OldSlot
            /\ (Replaces' /\ cur'.bi > NewSlot <=> Replaces /\ cur.bi > NewSlot)
        BY <1>1, <2>4, <2>5, <2>6, <2>8, <2>11, <3>3, SlotsOfWords
      <4>2. Probing(tab, Engine, m, Replaces' /\ cur'.bi > NewSlot)
        BY <3>2, <4>1 DEF Probing
      <4>3. Probing(tab', prb', cur'.msg, Replaces' /\ cur'.bi > NewSlot)
        BY <1>1, <2>4, <3>1, <4>2
      <4> QED
        BY <1>1, <3>1, <4>1, <4>3 DEF ProbeInv
    <3>4. CASE cur.left <= 1 /\ ProbeBusy
      <4>1. st' = "WAIT_PROBE" /\ LooksUp'
        BY <2>4, <2>5, <2>11, <3>4
      <4>2. \/ Probing(tab, Engine, m, FALSE)
            \/ Replaces' /\ Probing(tab, Engine, m, TRUE)
        <5>1. CASE second
          <6>1. Probing(tab, Engine, m, TRUE)
            BY <3>2, <5>1 DEF Probing
          <6> QED
            BY <2>6, <5>1, <6>1
        <5>2. CASE ~second
          BY <3>2, <5>2 DEF Probing
        <5> QED
          BY <5>1, <5>2
      <4>3. \/ Probing(tab', prb', cur'.msg, FALSE)
            \/ Replaces' /\ Probing(tab', prb', cur'.msg, TRUE)
        BY <1>1, <2>4, <3>1, <4>2, Zenon
      <4> QED
        BY <1>1, <3>1, <4>1, <4>3 DEF ProbeInv
    <3>5. CASE cur.left <= 1 /\ ~ProbeBusy
      <4>1. st' = "APPLY" /\ LooksUp'
        BY <2>4, <2>5, <2>8, <2>11, <3>1, <3>5
      <4>2. AtRest(prb) /\ AtRest(Engine)
        BY <1>1, <3>5, EngineRests DEF ProbeBusy, AtRest
      <4>3. Replaces => cur.bi > NewSlot
        BY <1>1, <1>4, <2>7, <2>8, <2>11, <3>5, SlotsOfWords
      <4>4. Found(tab, Engine, m)
        <5>1. second \in BOOLEAN /\ (m.type = "U" => second)
          BY <1>4, <4>3 DEF Replaces
        <5> HIDE DEF second
        <5> QED
          BY <3>2, <4>2, <5>1, OverMeansFound, Zenon
      <4>5. AtRest(prb') /\ Found(tab', prb', cur'.msg)
        BY <1>1, <2>4, <3>1, <4>2, <4>4
      <4> QED
        BY <1>1, <3>1, <4>1, <4>5 DEF ProbeInv
    <3> QED
      BY <3>3, <3>4, <3>5
  <2>12. CASE LooksUp /\ cur.bi > OldSlot /\ ArmsNewNow
    <3>1. ~ArmsOldNow /\ Replaces /\ cur.bi = NewSlot
      BY <1>1, <2>8, <2>12, SlotsOfWords
    <3>2. prb' = ArmNew(Engine, m, acc)
      BY <1>2, <2>3, <2>12, <3>1 DEF BodyArming
    <3>3. PICK e : e = ArmNew(Engine, m, acc)
      OBVIOUS
    <3>4. ~second
      BY <1>1, <3>1
    <3>5. OldStage(tab, Engine, m) /\ Engine.needed = RunsNeeded(m)
      BY <1>9, <2>12, <3>4 DEF Probing
    <3>6. NewWords \subseteq acc
      BY <2>2, <3>1, SlotsOfWords
    <3>7. e \in ProbeType /\ e.needed = Engine.needed /\ NewPending(e, m)
          /\ OldStage(tab, e, m)
      BY <1>1, <3>3, <3>5, <3>6, ArmNewFields
    <3>8. Probing(tab, e, m, TRUE)
      BY <3>5, <3>7 DEF Probing
    <3>9. prb' \in ProbeType /\ Probing(tab', prb', cur'.msg, TRUE)
      BY <1>1, <2>4, <3>2, <3>3, <3>7, <3>8
    <3>10. LooksUp' /\ Replaces'
      BY <2>5, <2>6, <2>12, <3>1
    <3>11. CASE cur.left <= 1
      <4>1. st' = "WAIT_PROBE"
        BY <2>4, <2>12, <3>11
      <4> QED
        BY <3>9, <3>10, <4>1 DEF ProbeInv
    <3>12. CASE ~(cur.left <= 1)
      <4>1. st' = "BODY" /\ cur'.bi > OldSlot /\ cur'.bi > NewSlot
        BY <1>1, <2>4, <2>12, <3>1, <3>12, SlotsOfWords
      <4>2. Probing(tab', prb', cur'.msg, Replaces' /\ cur'.bi > NewSlot)
        BY <3>9, <3>10, <4>1 DEF Probing
      <4> QED
        BY <3>9, <3>10, <4>1, <4>2 DEF ProbeInv
    <3> QED
      BY <3>11, <3>12
  <2> QED
    BY <1>1, <2>9, <2>10, <2>11, <2>12, SlotsOfWords
<1> QED
  BY <1>11, <1>12

(***************************************************************************)
(* The book: what the table, the levels and the stages between them hold   *)
(***************************************************************************)
Registry == [SymIdx -> Locates \cup {NoLocate}]
Lists == [Slots -> Level]

PortType ==
  started \in 0..MaxMsgs /\ locMap \in Registry /\ error \in BOOLEAN
SessionType ==
  /\ marketOpen \in BOOLEAN /\ tstate \in [SymIdx -> Codes \cup {"none"}]
  /\ crosses \in Nat /\ anomalies \in Nat
EmissionType ==
  /\ emitOk \in BOOLEAN /\ prev \in [SymIdx -> Bbo]
  /\ cap.B \in Lists /\ cap.S \in Lists
  /\ sel.B \in Slots /\ sel.S \in Slots

\* The table while it is cleared, and from then on.
TableInv ==
  /\ inval \in TabSlots /\ tab \in [TabSlots -> Entry]
  /\ st = "INVAL" => \A i \in TabSlots : i < inval => tab[i] = Hole
  /\ st # "INVAL" => SoundTable(tab)

\* The add half of a replace keeps a hole for an order that is not there yet.
PendingInv ==
  /\ st = "UADD" => uadd.on
  /\ uadd.on =>
       /\ st \in {"LV2", "LV2B", "LV3", "UADD"}
       /\ GoodEntry(uadd)
       /\ uadd.slot \in TabSlots /\ Offset(uadd.ref, uadd.slot) < PROBE
       /\ ~tab[uadd.slot].valid
       /\ \A j \in TabSlots : ~Has(tab, j, uadd.ref)

\* The level pipeline works on a copy of the list that it will replace.
LevelInv ==
  /\ lvl \in [SymIdx \X Sides -> Lists]
  /\ st \in {"LV2", "LV2B", "LV3"} =>
       /\ lv.key \in SymIdx \X Sides /\ lv.list = lvl[lv.key]
       /\ lv.op \in Operation /\ lv.op.delta < QLim
  /\ st = "LV3" => lv2 = Decode(lv.list, lv.op)

BookInv == SessionType /\ EmissionType /\ TableInv /\ PendingInv /\ LevelInv

\* What the engine adds to a level: a share count or its two's complement.
LEMMA ShareDeltas ==
  ASSUME NEW q \in 0..MaxShares
  PROVE  /\ Signed(q) \in Int /\ Signed(q) < QLim
         /\ Negate(q) \in Int /\ Negate(q) < QLim
<1>1. q \in Nat /\ q < QLim /\ QLim \in Nat
  BY MessageAssumption, LevelAssumption, EngineAssumption
<1>2. \A x \in 0..QLim-1 : Signed(x) \in Int /\ Signed(x) < QLim
  BY <1>1 DEF Signed
<1>3. (QLim - q) % QLim \in 0..QLim-1
  BY <1>1
<1> QED
  BY <1>1, <1>2, <1>3 DEF Negate

\* What is sent belongs to a message.
LEMMA OfferedMessage ==
  ASSUME ReceiveInv, NEW w \in Offers, w # NoWord
  PROVE  w.msg \in Msgs
<1>1. bus.k \in Nat /\ (bus.k > 0 => bus.msg \in Msgs)
  <2>1. CASE InTail
    <3>1. NxInv /\ nx \in Buffer
      BY <2>1 DEF ReceiveInv, ReceiveType
    <3> QED
      BY <3>1 DEF NxInv, Idle, Partial, Buffer
  <2>2. CASE ~InTail
    <3>1. CurInv /\ cur \in InFlight
      BY <2>2 DEF ReceiveInv, ReceiveType
    <3> QED
      BY <2>2, <3>1 DEF CurInv, Idle, Partial, InFlight, InTail, ReceiveInv, ReceiveType, States
  <2> QED
    BY <2>1, <2>2
<1> QED
  BY <1>1, OfferCases

\* In each state that works on the in-flight message there is one.
LEMMA InFlightMessage ==
  ASSUME ReceiveInv, InTail
  PROVE  /\ cur.msg \in Msgs /\ cur.sym \in SymIdx
         /\ cur.msg.ref \in Refs /\ cur.msg.new \in Refs /\ cur.msg.side \in Sides
         /\ cur.msg.px \in Prices /\ cur.msg.qty \in 0..MaxShares
         /\ cur.msg.code \in Codes
BY MessageAssumption DEF ReceiveInv, ReceiveType, Complete, InFlight, Message

\* The registers that every cycle writes.
LEMMA PortsKept ==
  ASSUME ReceiveInv, PortType, NEW w \in Offers, NEW rdy, Cycle(w, rdy)
  PROVE  PortType'
<1>1. started' \in 0..MaxMsgs
  <2>1. CASE started' = started
    BY <2>1 DEF PortType
  <2>2. CASE started' # started
    <3>1. w # NoWord /\ w.k = 0 /\ started' = started + 1
      BY <2>2 DEF Cycle, Send, inputVars
    <3>2. bus.k > 0 \/ started < MaxMsgs
      BY <3>1 DEF Offers
    <3>3. w = bus => ~(bus.k > 0)
      BY <3>1
    <3>4. started < MaxMsgs
      BY <3>1, <3>3 DEF Offers
    <3> QED
      BY <3>1, <3>4, EngineAssumption DEF PortType
  <2> QED
    BY <2>1, <2>2
<1>2. locMap' = locMap \/ (w # NoWord /\ \E new : Register(new, w))
  <2> USE DEF recvVars
  <2>1. NxRecv(w) => locMap' = locMap \/ (w # NoWord /\ \E new : Register(new, w))
    <3> SUFFICES ASSUME NxRecv(w), locMap' # locMap
                 PROVE  w # NoWord /\ \E new : Register(new, w)
      OBVIOUS
    <3>1. Register(NxStarts(w), w)
      BY DEF NxRecv
    <3>2. w # NoWord
      BY <3>1 DEF Register, NxStarts, Receives
    <3> QED
      BY <3>1, <3>2
  <2>2. EndTail(w) => locMap' = locMap \/ (w # NoWord /\ \E new : Register(new, w))
    BY <2>1 DEF EndTail
  <2>3. Inval \/ TS(w) \/ Body(w) \/ Swap => locMap' = locMap
    BY DEF Inval, TS, Body, Swap
  <2>4. W0(w) => locMap' = locMap \/ (w # NoWord /\ \E new : Register(new, w))
    BY DEF W0
  <2>5. Background(w) => locMap' = locMap \/ (w # NoWord /\ \E new : Register(new, w))
    BY <2>1 DEF Background
  <2>6. ToLevels(w) \/ Fruitless(w) => Background(w)
    BY DEF ToLevels, Fruitless
  <2>7. ApplyAdd(w) \/ ApplyReduce(w) \/ ApplyDelete(w) \/ ApplyReplace(w) => Background(w)
    BY <2>6 DEF ApplyAdd, ApplyReduce, ApplyDelete, ApplyReplace, Refuse, Unknown
  <2>8. WaitProbe(w) \/ Lv2(w) \/ Lv2b(w) \/ Lv3(w) \/ Uadd(w) \/ EmitA(w) \/ EmitB(w)
          \/ EmitWait(w) => Background(w)
    BY DEF WaitProbe, Lv2, Lv2b, Lv3, Uadd, EmitA, EmitB, EmitWait
  <2>9. ApplyDiscard(w) \/ ApplySession(w) \/ EmitNothing(w) \/ Emit(w, rdy) => EndTail(w)
    BY DEF ApplyDiscard, ApplySession, EmitNothing, Emit
  <2> QED
    BY <2>2, <2>3, <2>4, <2>5, <2>7, <2>8, <2>9 DEF Cycle, Quiet
<1>3. locMap' \in Registry
  <2>1. CASE locMap' = locMap
    BY <2>1 DEF PortType
  <2>2. CASE locMap' # locMap
    <3>1. PICK new : Register(new, w)
      BY <1>2, <2>2
    <3>2. w.msg \in Msgs
      BY <1>2, <2>2, OfferedMessage
    <3>3. w.msg.loc \in Locates
      BY <3>2, MessageAssumption DEF Message
    <3>4. locMap' = [locMap EXCEPT ![locCnt] = w.msg.loc]
      BY <2>2, <3>1 DEF Register
    <3> QED
      BY <3>3, <3>4 DEF PortType, Registry
  <2> QED
    BY <2>1, <2>2
<1>4. error' \in BOOLEAN
  <2>1. nxError(w) \in BOOLEAN
    BY DEF nxError
  <2>2. \A d : DecodeError(d) \in BOOLEAN
    BY DEF DecodeError
  <2>3. Inval \/ W0(w) \/ TS(w) \/ Body(w) \/ WaitProbe(w) => error' \in BOOLEAN
    BY <2>1 DEF Inval, W0, TS, Body, WaitProbe
  <2>4. ToLevels(w) \/ Refuse(w) \/ Unknown(w) => error' \in BOOLEAN
    BY <2>1 DEF ToLevels, Refuse, Unknown
  <2>5. ApplyAdd(w) \/ ApplyReduce(w) \/ ApplyDelete(w) \/ ApplyReplace(w) => error' \in BOOLEAN
    BY <2>4 DEF ApplyAdd, ApplyReduce, ApplyDelete, ApplyReplace
  <2>6. ApplyDiscard(w) \/ ApplySession(w) \/ EmitNothing(w) \/ Emit(w, rdy) \/ Swap
          => error' \in BOOLEAN
    BY <2>1 DEF ApplyDiscard, ApplySession, EmitNothing, Emit, Swap
  <2>7. Lv2(w) \/ Lv2b(w) \/ Lv3(w) \/ Uadd(w) \/ EmitA(w) \/ EmitB(w) \/ EmitWait(w)
          => error' \in BOOLEAN
    BY <2>1, <2>2 DEF Lv2, Lv2b, Lv3, Uadd, EmitA, EmitB, EmitWait
  <2> QED
    BY <2>3, <2>5, <2>6, <2>7 DEF Cycle, Quiet
<1> QED
  BY <1>1, <1>3, <1>4 DEF PortType

(***************************************************************************)
(* The book in each state of the FSM                                       *)
(***************************************************************************)
\* A cycle that leaves the book and the stages alone.
Passing ==
  /\ UNCHANGED <<inval, bookVars, stageVars>>
  /\ st \notin {"INVAL", "LV2B", "LV3", "UADD"}
  /\ st' \notin {"INVAL", "LV3", "UADD"}
  /\ st' \in {"LV2", "LV2B"} <=> st = "LV2"

LEMMA PassingBook ==
  ASSUME BookInv, Passing
  PROVE  BookInv'
<1>1. /\ inval' = inval /\ tab' = tab /\ lvl' = lvl /\ prev' = prev
      /\ marketOpen' = marketOpen /\ tstate' = tstate /\ crosses' = crosses
      /\ anomalies' = anomalies /\ lv' = lv /\ lv2' = lv2 /\ uadd' = uadd
      /\ emitOk' = emitOk /\ cap' = cap /\ sel' = sel
  BY DEF Passing, bookVars, stageVars
<1>2. SessionType' /\ EmissionType'
  BY <1>1 DEF BookInv, SessionType, EmissionType
<1>3. TableInv' /\ PendingInv'
  BY <1>1 DEF BookInv, TableInv, PendingInv, Passing
<1>4. LevelInv'
  BY <1>1 DEF BookInv, LevelInv, Passing
<1> QED
  BY <1>2, <1>3, <1>4 DEF BookInv

LEMMA PassingCycles ==
  ASSUME NEW w
  PROVE  /\ W0(w) \/ TS(w) \/ Body(w) \/ WaitProbe(w) => Passing
         /\ ApplyDiscard(w) \/ Lv2(w) \/ EmitWait(w) \/ EmitNothing(w) \/ Swap => Passing
<1>1. SwapNext => st' \in {"W0", "WAIT_PROBE", "APPLY", "TS", "BODY"}
  BY DEF SwapNext
<1>2. EndTail(w) => st' \in {"W0", "WAIT_PROBE", "APPLY", "TS", "BODY", "SWAP"}
  BY <1>1 DEF EndTail
<1>3. W0(w) \/ TS(w) \/ Body(w) \/ WaitProbe(w) => Passing
  BY DEF W0, TS, Body, WaitProbe, Background, Passing
<1>4. ApplyDiscard(w) \/ EmitNothing(w) => Passing
  BY <1>2 DEF ApplyDiscard, EmitNothing, Passing
<1>5. Lv2(w) \/ EmitWait(w) => Passing
  BY DEF Lv2, EmitWait, Background, Passing
<1>6. Swap => Passing
  BY <1>1 DEF Swap, Passing
<1> QED
  BY <1>3, <1>4, <1>5, <1>6

\* ST_INVAL: the counter reaches the last slot, and the table is empty then.
LEMMA InvalBook ==
  ASSUME BookInv, Inval
  PROVE  BookInv'
<1>1. /\ st = "INVAL" /\ tab' = [tab EXCEPT ![inval] = Hole]
      /\ lvl' = lvl /\ prev' = prev
      /\ marketOpen' = marketOpen /\ tstate' = tstate /\ crosses' = crosses
      /\ anomalies' = anomalies /\ lv' = lv /\ lv2' = lv2 /\ uadd' = uadd
      /\ emitOk' = emitOk /\ cap' = cap /\ sel' = sel
      /\ IF inval = LastSlot THEN st' = "W0" /\ inval' = inval
         ELSE inval' = inval + 1 /\ st' = st
  BY DEF Inval, stageVars
<1>2. inval \in TabSlots /\ tab \in [TabSlots -> Entry] /\ (\A i \in TabSlots : i < inval => tab[i] = Hole)
  BY <1>1 DEF BookInv, TableInv
<1>3. NSLOT \in Nat \ {0} /\ TabSlots = 0..NSLOT-1 /\ LastSlot = NSLOT - 1
  BY EngineAssumption DEF TabSlots, LastSlot
<1>4. tab' \in [TabSlots -> Entry]
  BY <1>1, <1>2, HoleType
<1>5. \A i \in TabSlots : i < inval + 1 => tab'[i] = Hole
  BY <1>1, <1>2, <1>3
<1>6. TableInv'
  <2>1. CASE inval = LastSlot
    <3>1. \A i \in TabSlots : tab'[i] = Hole
      BY <1>3, <1>5, <2>1
    <3>2. ~Hole.valid
      BY DEF Hole
    <3>3. SoundTable(tab')
      BY <3>1, <3>2 DEF SoundTable
    <3> QED
      BY <1>1, <1>2, <1>4, <2>1, <3>3 DEF TableInv
  <2>2. CASE inval # LastSlot
    <3>1. inval + 1 \in TabSlots
      BY <1>2, <1>3, <2>2
    <3> QED
      BY <1>1, <1>4, <1>5, <2>2, <3>1 DEF TableInv
  <2> QED
    BY <2>1, <2>2
<1>7. PendingInv'
  BY <1>1 DEF BookInv, PendingInv
<1>8. SessionType' /\ EmissionType'
  BY <1>1 DEF BookInv, SessionType, EmissionType
<1>9. LevelInv'
  BY <1>1 DEF BookInv, LevelInv
<1> QED
  BY <1>6, <1>7, <1>8, <1>9 DEF BookInv

\* What every message that changes the table leaves to the level pipeline.
LEMMA LaunchedLevel ==
  ASSUME BookInv, cur.sym \in SymIdx,
         NEW side \in Sides, NEW px \in Prices, NEW delta \in Int, delta < QLim,
         Launch(side, px, delta), lvl' = lvl, st' = "LV2"
  PROVE  LevelInv'
<1>1. lv' = [key |-> <<cur.sym, side>>,
             op |-> [side |-> side, px |-> px, delta |-> delta],
             list |-> lvl[<<cur.sym, side>>]]
  BY DEF Launch
<1>2. [side |-> side, px |-> px, delta |-> delta] \in Operation
  BY DEF Operation
<1>3. /\ lv'.key \in SymIdx \X Sides /\ lv'.list = lvl'[lv'.key]
      /\ lv'.op \in Operation /\ lv'.op.delta < QLim
  BY <1>1, <1>2
<1> QED
  BY <1>3 DEF BookInv, LevelInv

\* A message that is refused or unknown.
LEMMA FruitlessBook ==
  ASSUME BookInv, NEW w, st = "APPLY", Fruitless(w), anomalies' \in Nat
  PROVE  BookInv'
<1>1. /\ emitOk' = FALSE /\ st' = "EMIT_A" /\ uadd' = NoUadd
      /\ tab' = tab /\ lvl' = lvl /\ prev' = prev
      /\ marketOpen' = marketOpen /\ tstate' = tstate /\ crosses' = crosses
      /\ lv' = lv /\ lv2' = lv2 /\ cap' = cap /\ sel' = sel /\ inval' = inval
  BY DEF Fruitless, Background
<1>2. SessionType' /\ EmissionType'
  BY <1>1 DEF BookInv, SessionType, EmissionType
<1>3. TableInv' /\ PendingInv'
  BY <1>1 DEF BookInv, TableInv, PendingInv, NoUadd
<1>4. LevelInv'
  BY <1>1 DEF BookInv, LevelInv
<1> QED
  BY <1>2, <1>3, <1>4 DEF BookInv

\* A message that takes effect.
LEMMA EffectiveBook ==
  ASSUME BookInv, NEW w, st = "APPLY", ToLevels(w),
         NEW side \in Sides, NEW px \in Prices, NEW delta \in Int, delta < QLim,
         Launch(side, px, delta), cur.sym \in SymIdx,
         tab' \in [TabSlots -> Entry], SoundTable(tab'), PendingInv'
  PROVE  BookInv'
<1>1. /\ emitOk' = TRUE /\ st' = "LV2" /\ inval' = inval
      /\ anomalies' = anomalies /\ lvl' = lvl /\ prev' = prev
      /\ marketOpen' = marketOpen /\ tstate' = tstate /\ crosses' = crosses
      /\ lv2' = lv2 /\ cap' = cap /\ sel' = sel
  BY DEF ToLevels, Background
<1>2. SessionType' /\ EmissionType'
  BY <1>1 DEF BookInv, SessionType, EmissionType
<1>3. TableInv'
  BY <1>1 DEF BookInv, TableInv
<1>4. LevelInv'
  BY <1>1, LaunchedLevel
<1> QED
  BY <1>2, <1>3, <1>4 DEF BookInv

\* The order that the probe has found.
LEMMA FoundOrder ==
  ASSUME BookInv, st = "APPLY", ReceiveInv, ProbeInv, LooksUp, prb.found
  PROVE  /\ prb.slot \in TabSlots /\ prb.entry = tab[prb.slot]
         /\ prb.entry \in Entry /\ prb.entry.valid
         /\ GoodEntry(prb.entry) /\ prb.entry.ref = cur.msg.ref
         /\ Offset(prb.entry.ref, prb.slot) < PROBE
         /\ \A j \in TabSlots : Has(tab, j, prb.entry.ref) => j = prb.slot
         /\ prb.entry.side \in Sides /\ prb.entry.px \in Prices
         /\ prb.entry.qty \in 1..MaxShares /\ prb.entry.qty \in 0..MaxShares
<1>1. SoundTable(tab) /\ tab \in [TabSlots -> Entry]
  BY DEF BookInv, TableInv
<1>2. prb.slot \in TabSlots /\ Has(tab, prb.slot, cur.msg.ref) /\ prb.entry = tab[prb.slot]
  BY DEF ProbeInv, Found, OldResult
<1>3. prb.entry.valid /\ prb.entry.ref = cur.msg.ref
  BY <1>2 DEF Has
<1>4. /\ GoodEntry(prb.entry) /\ Offset(prb.entry.ref, prb.slot) < PROBE
      /\ \A j \in TabSlots : Has(tab, j, prb.entry.ref) => j = prb.slot
  BY <1>1, <1>2, <1>3, Zenon DEF SoundTable
<1>5. prb.entry.side \in Sides /\ prb.entry.px \in Prices /\ prb.entry.qty \in 1..MaxShares
  BY <1>4 DEF GoodEntry
<1>6. prb.entry.qty \in 0..MaxShares
  BY <1>5
<1> QED
  BY <1>1, <1>2, <1>3, <1>4, <1>5, <1>6

LEMMA NewEntryType ==
  ASSUME NEW ref \in Refs, NEW side \in Sides, NEW px \in Prices, NEW qty \in 1..MaxShares
  PROVE  /\ NewEntry(ref, side, px, qty) \in Entry /\ GoodEntry(NewEntry(ref, side, px, qty))
         /\ NewEntry(ref, side, px, qty).ref = ref
<1>1. qty \in 0..QLim-1
  BY MessageAssumption, LevelAssumption, EngineAssumption
<1> QED
  BY <1>1 DEF NewEntry, Entry, GoodEntry

LEMMA AddBook ==
  ASSUME BookInv, ReceiveInv, ProbeInv, NEW w, ApplyAdd(w)
  PROVE  BookInv'
<1>1. /\ st = "APPLY" /\ LooksUp /\ cur.msg.type \in AddTypes /\ InTail
      /\ SoundTable(tab) /\ tab \in [TabSlots -> Entry]
  BY DEF ApplyAdd, Applies, LooksUp, LookupTypes, InTail, BookInv, TableInv
<1>2. CASE RefusesAdd
  <2>1. Fruitless(w) /\ anomalies' = anomalies
    BY <1>2 DEF ApplyAdd, Refuse
  <2> QED
    BY <1>1, <2>1, FruitlessBook DEF BookInv, SessionType
<1>3. CASE ~RefusesAdd
  <2>1. PICK m : m = cur.msg
    OBVIOUS
  <2>2. /\ m.ref \in Refs /\ m.side \in Sides /\ m.px \in Prices /\ m.qty \in 0..MaxShares
        /\ cur.sym \in SymIdx
    BY <1>1, <2>1, InFlightMessage
  <2>3. ~prb.found /\ m.qty # 0 /\ ~prb.full
    BY <1>3, <2>1 DEF RefusesAdd
  <2>4. m.qty \in 1..MaxShares
    BY <2>2, <2>3, MessageAssumption
  <2>5. Clear(tab, m.ref, PROBE) /\ HoleAt(tab, m.ref, PROBE, prb.empty)
    BY <1>1, <2>1, <2>3 DEF ProbeInv, Found, OldResult, Walked
  <2>6. PICK e : e = NewEntry(m.ref, m.side, m.px, m.qty)
    OBVIOUS
  <2>7. e \in Entry /\ GoodEntry(e) /\ e.ref = m.ref
    BY <2>2, <2>4, <2>6, NewEntryType
  <2>8. prb.empty \in TabSlots /\ Offset(e.ref, prb.empty) < PROBE
    BY <2>5, <2>7 DEF HoleAt
  <2>9. \A j \in TabSlots : ~Has(tab, j, e.ref)
    BY <1>1, <2>5, <2>7, ClearIsAbsent
  <2>10. /\ tab' = [tab EXCEPT ![prb.empty] = e]
         /\ Launch(m.side, m.px, Signed(m.qty)) /\ uadd' = NoUadd /\ ToLevels(w)
    BY <1>3, <2>1, <2>6 DEF ApplyAdd
  <2>11. DOMAIN tab = TabSlots
    BY <1>1
  <2>12. SoundTable(tab') /\ tab' \in [TabSlots -> Entry]
    <3>1. SoundTable([tab EXCEPT ![prb.empty] = e])
      BY <1>1, <2>7, <2>8, <2>9, <2>11, PlacementSound, Zenon
    <3> QED
      BY <1>1, <2>7, <2>8, <2>10, <3>1
  <2>13. PendingInv'
    BY <2>10 DEF PendingInv, NoUadd, ToLevels
  <2>14. Signed(m.qty) \in Int /\ Signed(m.qty) < QLim
    BY <2>2, ShareDeltas
  <2> QED
    BY <1>1, <2>2, <2>10, <2>12, <2>13, <2>14, EffectiveBook, Zenon
<1> QED
  BY <1>2, <1>3

LEMMA ReduceBook ==
  ASSUME BookInv, ReceiveInv, ProbeInv, NEW w, ApplyReduce(w)
  PROVE  BookInv'
<1>1. /\ st = "APPLY" /\ LooksUp /\ InTail
      /\ SoundTable(tab) /\ tab \in [TabSlots -> Entry] /\ anomalies \in Nat
  BY DEF ApplyReduce, Applies, LooksUp, LookupTypes, InTail, BookInv, TableInv, SessionType
<1>2. cur.sym \in SymIdx /\ cur.msg.qty \in 0..MaxShares
  BY <1>1, InFlightMessage
<1>3. CASE ~prb.found \/ cur.msg.qty > prb.entry.qty
  <2>1. Fruitless(w) /\ anomalies' \in Nat
    BY <1>1, <1>3 DEF ApplyReduce, Refuse, Unknown
  <2> QED
    BY <1>1, <2>1, FruitlessBook
<1>4. CASE prb.found /\ ~(cur.msg.qty > prb.entry.qty)
  <2>1. PICK e, s, q : e = prb.entry /\ s = prb.slot /\ q = cur.msg.qty
    OBVIOUS
  <2>2. /\ s \in TabSlots /\ e = tab[s] /\ e \in Entry /\ e.valid /\ GoodEntry(e)
        /\ Offset(e.ref, s) < PROBE
        /\ \A j \in TabSlots : Has(tab, j, e.ref) => j = s
        /\ e.side \in Sides /\ e.px \in Prices /\ e.qty \in 1..MaxShares
    BY <1>1, <1>4, <2>1, FoundOrder
  <2>3. /\ tab' = [tab EXCEPT ![s] = IF q = e.qty THEN Hole ELSE [e EXCEPT !.qty = @ - q]]
        /\ Launch(e.side, e.px, Negate(q)) /\ uadd' = NoUadd /\ ToLevels(w)
    BY <1>4, <2>1 DEF ApplyReduce
  <2>4. DOMAIN tab = TabSlots
    BY <1>1
  <2>5. SoundTable(tab') /\ tab' \in [TabSlots -> Entry]
    <3>1. CASE q = e.qty
      <4>1. tab' = [tab EXCEPT ![s] = Hole]
        BY <2>3, <3>1
      <4>2. SoundTable([tab EXCEPT ![s] = Hole])
        BY <1>1, <2>2, <2>4, RemovalSound, Zenon
      <4> QED
        BY <1>1, <4>1, <4>2, HoleType
    <3>2. CASE q # e.qty
      <4>1. PICK r : r = e.qty - q
        OBVIOUS
      <4>2. r \in 1..MaxShares /\ r \in 0..QLim-1
        BY <1>2, <1>4, <2>1, <2>2, <3>2, <4>1, MessageAssumption, EngineAssumption, LevelAssumption
      <4>3. PICK f : f = [e EXCEPT !.qty = r]
        OBVIOUS
      <4>4. f \in Entry /\ GoodEntry(f) /\ f.ref = e.ref
        BY <2>2, <4>2, <4>3 DEF Entry, GoodEntry
      <4>5. tab' = [tab EXCEPT ![s] = f]
        BY <2>3, <3>2, <4>1, <4>3
      <4>6. SoundTable([tab EXCEPT ![s] = f])
        <5>1. Offset(f.ref, s) < PROBE /\ \A j \in TabSlots : Has(tab, j, f.ref) => j = s
          BY <2>2, <4>4
        <5> QED
          BY <1>1, <2>2, <2>4, <4>4, <5>1, PlacementSound, Zenon
      <4> QED
        BY <1>1, <4>4, <4>5, <4>6
    <3> QED
      BY <3>1, <3>2
  <2>6. PendingInv'
    BY <2>3 DEF PendingInv, NoUadd, ToLevels
  <2>7. Negate(q) \in Int /\ Negate(q) < QLim
    BY <1>2, <2>1, ShareDeltas
  <2> QED
    BY <1>1, <1>2, <2>2, <2>3, <2>5, <2>6, <2>7, EffectiveBook, Zenon
<1> QED
  BY <1>3, <1>4

LEMMA DeleteBook ==
  ASSUME BookInv, ReceiveInv, ProbeInv, NEW w, ApplyDelete(w)
  PROVE  BookInv'
<1>1. /\ st = "APPLY" /\ LooksUp /\ InTail
      /\ SoundTable(tab) /\ tab \in [TabSlots -> Entry] /\ anomalies \in Nat
  BY DEF ApplyDelete, Applies, LooksUp, LookupTypes, InTail, BookInv, TableInv, SessionType
<1>2. cur.sym \in SymIdx
  BY <1>1, InFlightMessage
<1>3. CASE ~prb.found
  <2>1. Fruitless(w) /\ anomalies' \in Nat
    BY <1>1, <1>3 DEF ApplyDelete, Unknown
  <2> QED
    BY <1>1, <2>1, FruitlessBook
<1>4. CASE prb.found
  <2>1. PICK e, s : e = prb.entry /\ s = prb.slot
    OBVIOUS
  <2>2. /\ s \in TabSlots /\ e.side \in Sides /\ e.px \in Prices /\ e.qty \in 0..MaxShares
    BY <1>1, <1>4, <2>1, FoundOrder
  <2>3. /\ tab' = [tab EXCEPT ![s] = Hole]
        /\ Launch(e.side, e.px, Negate(e.qty)) /\ uadd' = NoUadd /\ ToLevels(w)
    BY <1>4, <2>1 DEF ApplyDelete
  <2>4. DOMAIN tab = TabSlots
    BY <1>1
  <2>5. SoundTable([tab EXCEPT ![s] = Hole])
    BY <1>1, <2>2, <2>4, RemovalSound, Zenon
  <2>6. SoundTable(tab') /\ tab' \in [TabSlots -> Entry]
    BY <1>1, <2>3, <2>5, HoleType
  <2>7. PendingInv'
    BY <2>3 DEF PendingInv, NoUadd, ToLevels
  <2>8. Negate(e.qty) \in Int /\ Negate(e.qty) < QLim
    BY <2>2, ShareDeltas
  <2> QED
    BY <1>1, <1>2, <2>2, <2>3, <2>6, <2>7, <2>8, EffectiveBook, Zenon
<1> QED
  BY <1>3, <1>4

\* The slot found for the new order is still a hole when the old one is gone.
LEMMA ReplaceBook ==
  ASSUME BookInv, ReceiveInv, ProbeInv, NEW w, ApplyReplace(w)
  PROVE  BookInv'
<1>1. /\ st = "APPLY" /\ LooksUp /\ cur.msg.type = "U" /\ InTail
      /\ SoundTable(tab) /\ tab \in [TabSlots -> Entry] /\ anomalies \in Nat
  BY DEF ApplyReplace, Applies, LooksUp, LookupTypes, InTail, BookInv, TableInv, SessionType
<1>2. PICK m : m = cur.msg
  OBVIOUS
<1>3. /\ cur.sym \in SymIdx /\ m.qty \in 0..MaxShares /\ m.new \in Refs /\ m.px \in Prices
  BY <1>1, <1>2, InFlightMessage
<1>4. CASE ~prb.found \/ m.qty = 0 \/ prb.newFound \/ prb.newFull
  <2>1. Fruitless(w) /\ anomalies' \in Nat
    BY <1>1, <1>2, <1>4 DEF ApplyReplace, Refuse, Unknown
  <2> QED
    BY <1>1, <2>1, FruitlessBook
<1>5. CASE prb.found /\ ~(m.qty = 0 \/ prb.newFound \/ prb.newFull)
  <2>1. PICK e, s, h : e = prb.entry /\ s = prb.slot /\ h = prb.newEmpty
    OBVIOUS
  <2>2. /\ s \in TabSlots /\ e.side \in Sides /\ e.px \in Prices /\ e.qty \in 0..MaxShares
    BY <1>1, <1>5, <2>1, FoundOrder
  <2>3. /\ tab' = [tab EXCEPT ![s] = Hole]
        /\ Launch(e.side, e.px, Negate(e.qty)) /\ ToLevels(w)
        /\ uadd' = [on |-> TRUE, ref |-> m.new, side |-> e.side,
                    px |-> m.px, qty |-> m.qty, slot |-> h]
    BY <1>2, <1>5, <2>1 DEF ApplyReplace
  <2>4. DOMAIN tab = TabSlots
    BY <1>1
  <2>5. SoundTable([tab EXCEPT ![s] = Hole])
    BY <1>1, <2>2, <2>4, RemovalSound, Zenon
  <2>6. SoundTable(tab') /\ tab' \in [TabSlots -> Entry]
    BY <1>1, <2>3, <2>5, HoleType
  <2>7. Clear(tab, m.new, PROBE) /\ HoleAt(tab, m.new, PROBE, h)
    BY <1>1, <1>2, <1>5, <2>1 DEF ProbeInv, Found, NewResult, Walked
  <2>8. \A j \in TabSlots : ~Has(tab, j, m.new)
    BY <1>1, <2>7, ClearIsAbsent
  <2>9. \A j \in TabSlots : tab'[j] = IF j = s THEN Hole ELSE tab[j]
    BY <2>3, <2>4
  <2>10. ~Hole.valid
    BY DEF Hole
  <2>11. \A j \in TabSlots : ~Has(tab', j, m.new)
    BY <2>8, <2>9, <2>10 DEF Has
  <2>12. h \in TabSlots /\ Offset(m.new, h) < PROBE /\ ~tab'[h].valid
    BY <2>7, <2>9, <2>10 DEF HoleAt
  <2>13. m.qty \in 1..MaxShares
    BY <1>3, <1>5, MessageAssumption
  <2>14. GoodEntry(uadd') /\ uadd'.ref = m.new /\ uadd'.slot = h
    BY <1>3, <2>2, <2>3, <2>13 DEF GoodEntry
  <2>15. st' = "LV2"
    BY <2>3 DEF ToLevels
  <2>16. PendingInv'
    BY <2>11, <2>12, <2>14, <2>15 DEF PendingInv
  <2>17. Negate(e.qty) \in Int /\ Negate(e.qty) < QLim
    BY <2>2, ShareDeltas
  <2> QED
    BY <1>1, <1>3, <2>2, <2>3, <2>6, <2>16, <2>17, EffectiveBook, Zenon
<1> QED
  BY <1>4, <1>5

\* Where a tail may end.
LEMMA EndStates ==
  ASSUME NEW w, EndTail(w)
  PROVE  st' \in {"W0", "WAIT_PROBE", "APPLY", "TS", "BODY", "SWAP"}
<1>1. SwapNext => st' \in {"W0", "WAIT_PROBE", "APPLY", "TS", "BODY"}
  BY DEF SwapNext
<1> QED
  BY <1>1 DEF EndTail

\* A session message: market hours, a trading state, or nothing.
LEMMA SessionBook ==
  ASSUME BookInv, ReceiveInv, NEW w, ApplySession(w)
  PROVE  BookInv'
<1>1. /\ st = "APPLY" /\ uadd' = NoUadd /\ emitOk' = FALSE
      /\ inval' = inval /\ tab' = tab /\ lvl' = lvl /\ prev' = prev
      /\ crosses' = crosses /\ anomalies' = anomalies /\ lv' = lv /\ lv2' = lv2
      /\ cap' = cap /\ sel' = sel
      /\ marketOpen' = (IF cur.msg.type = "S" /\ cur.msg.code \in {"Q", "M"}
                        THEN cur.msg.code = "Q" ELSE marketOpen)
      /\ tstate' = IF cur.msg.type = "H" THEN [tstate EXCEPT ![cur.sym] = cur.msg.code]
                   ELSE tstate
  BY DEF ApplySession, Applies
<1>2. st' \in {"W0", "WAIT_PROBE", "APPLY", "TS", "BODY", "SWAP"}
  BY EndStates DEF ApplySession
<1>3. cur.msg.code \in Codes
  BY <1>1, InFlightMessage DEF InTail
<1>4. marketOpen \in BOOLEAN /\ tstate \in [SymIdx -> Codes \cup {"none"}]
      /\ crosses \in Nat /\ anomalies \in Nat
  BY DEF BookInv, SessionType
<1>5. marketOpen' \in BOOLEAN
  <2>1. CASE cur.msg.type = "S" /\ cur.msg.code \in {"Q", "M"}
    BY <1>1, <2>1
  <2>2. CASE ~(cur.msg.type = "S" /\ cur.msg.code \in {"Q", "M"})
    BY <1>1, <1>4, <2>2
  <2> QED
    BY <2>1, <2>2
<1>6. tstate' \in [SymIdx -> Codes \cup {"none"}]
  BY <1>1, <1>3, <1>4
<1>7. SessionType'
  BY <1>1, <1>4, <1>5, <1>6 DEF SessionType
<1>8. EmissionType'
  BY <1>1 DEF BookInv, EmissionType
<1>9. TableInv' /\ PendingInv'
  BY <1>1, <1>2 DEF BookInv, TableInv, PendingInv, NoUadd
<1>10. LevelInv'
  BY <1>1, <1>2 DEF BookInv, LevelInv
<1> QED
  BY <1>7, <1>8, <1>9, <1>10 DEF BookInv

\* The second stage of the level pipeline decodes what the first one holds.
LEMMA Lv2bBook ==
  ASSUME BookInv, NEW w, Lv2b(w)
  PROVE  BookInv'
<1>1. /\ st = "LV2B" /\ st' = "LV3" /\ lv2' = Decode(lv.list, lv.op)
      /\ inval' = inval /\ tab' = tab /\ lvl' = lvl /\ prev' = prev
      /\ marketOpen' = marketOpen /\ tstate' = tstate /\ crosses' = crosses
      /\ anomalies' = anomalies /\ lv' = lv /\ uadd' = uadd
      /\ emitOk' = emitOk /\ cap' = cap /\ sel' = sel
  BY DEF Lv2b, Background, bookVars
<1>2. SessionType' /\ EmissionType'
  BY <1>1 DEF BookInv, SessionType, EmissionType
<1>3. TableInv' /\ PendingInv'
  BY <1>1 DEF BookInv, TableInv, PendingInv
<1>4. lv2' = Decode(lv'.list, lv'.op)
  BY <1>1
<1>5. LevelInv'
  BY <1>1, <1>4 DEF BookInv, LevelInv
<1> QED
  BY <1>2, <1>3, <1>5 DEF BookInv

\* The list that was decoded is still the list that is written.
LEMMA Lv3Book ==
  ASSUME BookInv, NEW w, Lv3(w)
  PROVE  BookInv'
<1>1. /\ st = "LV3" /\ st' = IF uadd.on THEN "UADD" ELSE "EMIT_A"
      /\ lvl' = [lvl EXCEPT ![lv.key] = Materialize(lv.list, lv2, lv.op.px)]
      /\ inval' = inval /\ tab' = tab /\ prev' = prev
      /\ marketOpen' = marketOpen /\ tstate' = tstate /\ crosses' = crosses
      /\ anomalies' = anomalies /\ uadd' = uadd
      /\ emitOk' = emitOk /\ cap' = cap /\ sel' = sel
  BY DEF Lv3, Background
<1>2. SessionType' /\ EmissionType'
  BY <1>1 DEF BookInv, SessionType, EmissionType
<1>3. TableInv' /\ PendingInv'
  BY <1>1 DEF BookInv, TableInv, PendingInv
<1>4. PICK l, op : l = lv.list /\ op = lv.op
  OBVIOUS
<1>5. /\ lvl \in [SymIdx \X Sides -> [Slots -> Level]] /\ lv.key \in SymIdx \X Sides
      /\ l = lvl[lv.key] /\ op \in Operation /\ op.delta < QLim /\ lv2 = Decode(l, op)
  BY <1>1, <1>4 DEF BookInv, LevelInv, Lists
<1>6. l \in [Slots -> Level]
  BY <1>5
<1>7. Materialize(l, lv2, op.px) \in [Slots -> Level]
  BY <1>5, <1>6, MaterializeType, Zenon
<1>8. lvl' \in [SymIdx \X Sides -> Lists]
  BY <1>1, <1>4, <1>5, <1>7 DEF Lists
<1>9. LevelInv'
  BY <1>1, <1>8 DEF LevelInv
<1> QED
  BY <1>2, <1>3, <1>9 DEF BookInv

\* The add half of a replace never overwrites a live order.
LEMMA UaddBook ==
  ASSUME BookInv, ReceiveInv, NEW w, Uadd(w)
  PROVE  BookInv'
<1>1. PICK u : u = uadd
  OBVIOUS
<1>2. PICK e : e = NewEntry(u.ref, u.side, u.px, u.qty)
  OBVIOUS
<1>3. /\ st = "UADD" /\ st' = "LV2" /\ uadd' = NoUadd
      /\ Launch(u.side, u.px, Signed(u.qty))
      /\ tab' = [tab EXCEPT ![u.slot] = e]
      /\ inval' = inval /\ lvl' = lvl /\ prev' = prev
      /\ marketOpen' = marketOpen /\ tstate' = tstate /\ crosses' = crosses
      /\ anomalies' = anomalies /\ lv2' = lv2
      /\ emitOk' = emitOk /\ cap' = cap /\ sel' = sel
  BY <1>1, <1>2 DEF Uadd, Background
<1>4. /\ u.ref \in Refs /\ u.side \in Sides /\ u.px \in Prices /\ u.qty \in 1..MaxShares
      /\ u.slot \in TabSlots /\ Offset(u.ref, u.slot) < PROBE
      /\ \A j \in TabSlots : ~Has(tab, j, u.ref)
  BY <1>1, <1>3 DEF BookInv, PendingInv, GoodEntry
<1>5. SoundTable(tab) /\ tab \in [TabSlots -> Entry] /\ DOMAIN tab = TabSlots
  BY <1>3 DEF BookInv, TableInv
<1>6. e \in Entry /\ GoodEntry(e) /\ e.ref = u.ref
  BY <1>2, <1>4, NewEntryType
<1>7. Offset(e.ref, u.slot) < PROBE /\ \A j \in TabSlots : Has(tab, j, e.ref) => j = u.slot
  BY <1>4, <1>6
<1>8. SoundTable([tab EXCEPT ![u.slot] = e])
  BY <1>4, <1>5, <1>6, <1>7, PlacementSound, Zenon
<1>9. TableInv'
  <2>1. SoundTable(tab') /\ tab' \in [TabSlots -> Entry]
    BY <1>3, <1>5, <1>6, <1>8
  <2> QED
    BY <1>3, <2>1 DEF BookInv, TableInv
<1>10. SessionType' /\ EmissionType'
  BY <1>3 DEF BookInv, SessionType, EmissionType
<1>11. PendingInv'
  BY <1>3 DEF PendingInv, NoUadd
<1>12. cur.sym \in SymIdx
  BY <1>3, InFlightMessage DEF InTail
<1>13. u.qty \in 0..MaxShares
  BY <1>4
<1>14. PICK d : d = Signed(u.qty)
  OBVIOUS
<1>15. d \in Int /\ d < QLim
  BY <1>13, <1>14, ShareDeltas
<1>16. LevelInv'
  BY <1>3, <1>4, <1>12, <1>14, <1>15, LaunchedLevel
<1> QED
  BY <1>9, <1>10, <1>11, <1>16 DEF BookInv

\* The emission pipeline copies the levels of the event's symbol.
LEMMA EmitABook ==
  ASSUME BookInv, ReceiveInv, NEW w, EmitA(w)
  PROVE  BookInv'
<1>1. /\ st = "EMIT_A" /\ st' = "EMIT_B"
      /\ cap' = IF emitOk THEN [B |-> lvl[<<cur.sym, "B">>], S |-> lvl[<<cur.sym, "S">>]]
                ELSE cap
      /\ inval' = inval /\ tab' = tab /\ lvl' = lvl /\ prev' = prev
      /\ marketOpen' = marketOpen /\ tstate' = tstate /\ crosses' = crosses
      /\ anomalies' = anomalies /\ lv' = lv /\ lv2' = lv2 /\ uadd' = uadd
      /\ emitOk' = emitOk /\ sel' = sel
  BY DEF EmitA, Background, bookVars
<1>2. cur.sym \in SymIdx
  BY <1>1, InFlightMessage DEF InTail
<1>3. <<cur.sym, "B">> \in SymIdx \X Sides /\ <<cur.sym, "S">> \in SymIdx \X Sides
  BY <1>2 DEF Sides
<1>4. lvl[<<cur.sym, "B">>] \in Lists /\ lvl[<<cur.sym, "S">>] \in Lists
  BY <1>3 DEF BookInv, LevelInv
<1>5. cap'.B \in Lists /\ cap'.S \in Lists
  BY <1>1, <1>4 DEF BookInv, EmissionType
<1>6. SessionType' /\ EmissionType'
  BY <1>1, <1>5 DEF BookInv, SessionType, EmissionType
<1>7. TableInv' /\ PendingInv'
  BY <1>1 DEF BookInv, TableInv, PendingInv
<1>8. LevelInv'
  BY <1>1 DEF BookInv, LevelInv
<1> QED
  BY <1>6, <1>7, <1>8 DEF BookInv

LEMMA EmitBBook ==
  ASSUME BookInv, NEW w, EmitB(w)
  PROVE  BookInv'
<1>1. PICK b, s : b = FirstOne(NonEmpty(cap.B)) /\ s = FirstOne(NonEmpty(cap.S))
  OBVIOUS
<1>2. /\ st = "EMIT_B" /\ st' = "EMIT_C"
      /\ IF emitOk THEN sel'.B = b /\ sel'.S = s ELSE sel' = sel
      /\ inval' = inval /\ tab' = tab /\ lvl' = lvl /\ prev' = prev
      /\ marketOpen' = marketOpen /\ tstate' = tstate /\ crosses' = crosses
      /\ anomalies' = anomalies /\ lv' = lv /\ lv2' = lv2 /\ uadd' = uadd
      /\ emitOk' = emitOk /\ cap' = cap
  BY <1>1 DEF EmitB, Background, bookVars
<1>3. b \in Slots /\ s \in Slots
  <2>1. NonEmpty(cap.B) \in SUBSET Slots /\ NonEmpty(cap.S) \in SUBSET Slots
    BY DEF NonEmpty
  <2> QED
    BY <1>1, <2>1, FirstOneIsSlot
<1>4. sel'.B \in Slots /\ sel'.S \in Slots
  BY <1>2, <1>3 DEF BookInv, EmissionType
<1>5. SessionType' /\ EmissionType'
  BY <1>2, <1>4 DEF BookInv, SessionType, EmissionType
<1>6. TableInv' /\ PendingInv'
  BY <1>2 DEF BookInv, TableInv, PendingInv
<1>7. LevelInv'
  BY <1>2 DEF BookInv, LevelInv
<1> QED
  BY <1>5, <1>6, <1>7 DEF BookInv

\* The BBO that goes out is a pair of listed levels.
LEMMA SelectedType ==
  ASSUME EmissionType
  PROVE  SelectedBbo \in Bbo
<1>1. PICK b, s, i, j : b = cap.B /\ s = cap.S /\ i = sel.B /\ j = sel.S
  OBVIOUS
<1>2. b \in [Slots -> Level] /\ s \in [Slots -> Level] /\ i \in Slots /\ j \in Slots
  BY <1>1 DEF EmissionType, Lists
<1>3. b[i].px \in Nat /\ b[i].qty \in 0..QLim-1 /\ s[j].px \in Nat /\ s[j].qty \in 0..QLim-1
  BY <1>2, LevelFields
<1>4. b[i].qty \in Nat /\ s[j].qty \in Nat
  BY <1>3, LevelAssumption
<1>5. SelectedBbo = <<<<b[i].px, b[i].qty>>, <<s[j].px, s[j].qty>>>>
  BY <1>1 DEF SelectedBbo, PxQty
<1> QED
  BY <1>3, <1>4, <1>5 DEF Bbo

LEMMA EmitBook ==
  ASSUME BookInv, ReceiveInv, NEW w, NEW rdy, Emit(w, rdy)
  PROVE  BookInv'
<1>1. PICK bbo : bbo = SelectedBbo
  OBVIOUS
<1>2. /\ st = "EMIT_C" /\ cap' = NoCap /\ sel' = NoSel
      /\ prev' = [prev EXCEPT ![cur.sym] = bbo]
      /\ crosses' = crosses \/ crosses' = crosses + 1
      /\ inval' = inval /\ tab' = tab /\ lvl' = lvl
      /\ marketOpen' = marketOpen /\ tstate' = tstate
      /\ anomalies' = anomalies /\ lv' = lv /\ lv2' = lv2 /\ uadd' = uadd
      /\ emitOk' = emitOk
  BY <1>1 DEF Emit
<1>3. st' \in {"W0", "WAIT_PROBE", "APPLY", "TS", "BODY", "SWAP"}
  BY EndStates DEF Emit
<1>4. bbo \in Bbo
  BY <1>1, SelectedType DEF BookInv
<1>5. EmptySide \in Lists /\ 0 \in Slots
  <2>1. EmptyLevel \in Level /\ 0 \in Slots
    BY LevelAssumption DEF EmptyLevel, Level, Slots
  <2> QED
    BY <2>1 DEF EmptySide, Lists
<1>6. NoCap.B \in Lists /\ NoCap.S \in Lists /\ NoSel.B \in Slots /\ NoSel.S \in Slots
  BY <1>5 DEF NoCap, NoSel
<1>7. prev' \in [SymIdx -> Bbo]
  BY <1>2, <1>4 DEF BookInv, EmissionType
<1>8. EmissionType'
  BY <1>2, <1>6, <1>7 DEF BookInv, EmissionType
<1>9. SessionType'
  BY <1>2 DEF BookInv, SessionType
<1>10. TableInv' /\ PendingInv'
  BY <1>2, <1>3 DEF BookInv, TableInv, PendingInv
<1>11. LevelInv'
  BY <1>2, <1>3 DEF BookInv, LevelInv
<1> QED
  BY <1>8, <1>9, <1>10, <1>11 DEF BookInv

(***************************************************************************)
(* The inductive invariant of the engine                                   *)
(***************************************************************************)
EngineInv ==
  ReceiveInv /\ prb \in ProbeType /\ ProbeInv /\ PortType /\ BookInv

LEMMA EngineInvInit == Init => EngineInv
<1> SUFFICES ASSUME Init PROVE EngineInv
  OBVIOUS
<1>1. ReceiveInv
  BY ReceiveInvInit
<1>2. /\ NSLOT \in Nat \ {0} /\ 0 \in TabSlots /\ 0 \in Slots /\ 0 \in SymIdx
      /\ MaxMsgs \in Nat
  BY EngineAssumption, LevelAssumption DEF TabSlots, Slots, SymIdx, Unlisted
<1>3. prb \in ProbeType /\ ProbeInv
  <2>1. prb = ProbeInit /\ st = "INVAL"
    BY DEF Init
  <2>2. Hole \in Entry
    BY HoleType
  <2>3. prb \in ProbeType
    BY <1>2, <2>1, <2>2, EngineAssumption DEF ProbeInit, ProbeType
  <2>4. AtRest(prb)
    BY <2>1 DEF ProbeInit, AtRest
  <2> QED
    BY <2>1, <2>3, <2>4 DEF ProbeInv
<1>4. PortType
  <2>1. locMap \in Registry
    BY DEF Init, Registry
  <2>2. started = 0 /\ error = FALSE
    BY DEF Init
  <2>3. 0 \in 0..MaxMsgs
    BY <1>2
  <2>4. error \in BOOLEAN
    BY <2>2
  <2> QED
    BY <2>1, <2>2, <2>3, <2>4, Zenon DEF PortType
<1>5. EmptySide \in Lists
  <2>1. EmptyLevel \in Level
    BY LevelAssumption DEF EmptyLevel, Level
  <2> QED
    BY <2>1 DEF EmptySide, Lists
<1>6. SessionType
  BY DEF Init, SessionType
<1>7. EmissionType
  BY <1>2, <1>5 DEF Init, EmissionType, NoCap, NoSel, NoBbo, Bbo
<1>8. TableInv
  <2>1. /\ st = "INVAL" /\ inval = 0 /\ tab \in [TabSlots -> Entry]
    BY EngineAssumption DEF Init
  <2>2. \A i \in TabSlots : ~(i < 0)
    BY EngineAssumption DEF TabSlots
  <2> QED
    BY <1>2, <2>1, <2>2 DEF TableInv
<1>9. PendingInv
  BY DEF Init, PendingInv, NoUadd
<1>10. LevelInv
  BY <1>5 DEF Init, LevelInv
<1> QED
  BY <1>1, <1>3, <1>4, <1>6, <1>7, <1>8, <1>9, <1>10 DEF EngineInv, BookInv

LEMMA BookNext ==
  ASSUME EngineInv, NEW w, NEW rdy, Cycle(w, rdy)
  PROVE  BookInv'
<1>1. BookInv /\ ReceiveInv /\ ProbeInv
  BY DEF EngineInv
<1>2. Inval => BookInv'
  BY <1>1, InvalBook
<1>3. W0(w) \/ TS(w) \/ Body(w) \/ WaitProbe(w) => BookInv'
  BY <1>1, PassingCycles, PassingBook
<1>4. ApplyDiscard(w) \/ Lv2(w) \/ EmitWait(w) \/ EmitNothing(w) \/ Swap => BookInv'
  BY <1>1, PassingCycles, PassingBook
<1>5. ApplyAdd(w) \/ ApplyReduce(w) \/ ApplyDelete(w) \/ ApplyReplace(w) \/ ApplySession(w)
        => BookInv'
  BY <1>1, AddBook, ReduceBook, DeleteBook, ReplaceBook, SessionBook, Zenon
<1>6. Lv2b(w) \/ Lv3(w) \/ Uadd(w) \/ EmitA(w) \/ EmitB(w) \/ Emit(w, rdy) => BookInv'
  BY <1>1, Lv2bBook, Lv3Book, UaddBook, EmitABook, EmitBBook, EmitBook, Zenon
<1> QED
  BY <1>2, <1>3, <1>4, <1>5, <1>6 DEF Cycle, Quiet

LEMMA EngineInvNext == EngineInv /\ [Next]_vars => EngineInv'
<1> SUFFICES ASSUME EngineInv, [Next]_vars PROVE EngineInv'
  OBVIOUS
<1>1. ReceiveInv'
  BY ReceiveInvNext DEF EngineInv
<1>2. ASSUME NEW w \in Offers, NEW rdy \in Readiness, Cycle(w, rdy)
      PROVE  EngineInv'
  <2>1. ReceiveInv /\ ProbeTypes /\ ProbeInv /\ PortType
    BY DEF EngineInv, ProbeTypes, BookInv, TableInv
  <2>2. prb' \in ProbeType /\ ProbeInv'
    <3>1. CASE Body(w) /\ UNCHANGED tab
      BY <2>1, <3>1, FillingProbe
    <3> QED
      BY <1>2, <2>1, <3>1, ProbeKinds, IdlingProbe, WorkingProbe, WaitingProbe,
         SwappingProbe, Zenon
  <2>3. PortType'
    BY <1>2, <2>1, PortsKept
  <2>4. BookInv'
    BY <1>2, BookNext
  <2> QED
    BY <1>1, <2>2, <2>3, <2>4 DEF EngineInv
<1>3. CASE UNCHANGED vars
  <2>1. /\ started' = started /\ st' = st /\ inval' = inval /\ cur' = cur
        /\ locMap' = locMap /\ prb' = prb /\ tab' = tab /\ lvl' = lvl /\ prev' = prev
        /\ marketOpen' = marketOpen /\ tstate' = tstate /\ crosses' = crosses
        /\ anomalies' = anomalies /\ error' = error
        /\ lv' = lv /\ lv2' = lv2 /\ uadd' = uadd
        /\ emitOk' = emitOk /\ cap' = cap /\ sel' = sel
    BY <1>3 DEF vars, inputVars, recvVars, bookVars, stageVars
  <2>2. prb' \in ProbeType /\ PortType'
    BY <2>1 DEF EngineInv, PortType
  <2>3. ProbeInv'
    BY <2>1 DEF EngineInv, ProbeInv, LooksUp, Replaces
  <2>4. SessionType' /\ EmissionType' /\ TableInv' /\ PendingInv' /\ LevelInv'
    BY <2>1 DEF EngineInv, BookInv, SessionType, EmissionType, TableInv, PendingInv, LevelInv
  <2> QED
    BY <1>1, <2>2, <2>3, <2>4 DEF EngineInv, BookInv
<1> QED
  BY <1>2, <1>3 DEF Next

(***************************************************************************)
(* Theorems                                                                *)
(***************************************************************************)
\* Whatever the gaps in the sender's words and the length of a tail, the
\* receiver expects exactly the word that is sent next: none is lost, taken
\* twice or put to another message.
THEOREM AlignedAlways == Spec => []Aligned
<1>1. ReceiveInv => Aligned
  <2> SUFFICES ASSUME ReceiveInv PROVE Aligned
    OBVIOUS
  <2>1. CASE InTail
    BY <2>1 DEF ReceiveInv, NxInv, NxEmpty, Aligned, ExpectedWord, Idle, Partial
  <2>2. CASE ~InTail
    BY <2>2 DEF ReceiveInv, ReceiveType, States, CurInv, NxEmpty, Aligned,
                ExpectedWord, InTail, Idle, Partial
  <2> QED
    BY <2>1, <2>2
<1> QED
  BY <1>1, ReceiveInvInit, ReceiveInvNext, PTL DEF Spec

\* A message takes effect with all its body words, and only its own.
THEOREM BodyIntactAlways == Spec => []BodyIntact
<1>1. ReceiveInv => BodyIntact
  BY DEF ReceiveInv, InTail, Complete, BodyIntact
<1> QED
  BY <1>1, ReceiveInvInit, ReceiveInvNext, PTL DEF Spec

\* Every register keeps its range, whatever the table held at reset.
THEOREM TypeCorrect == Spec => []TypeOK
<1>1. EngineInv => TypeOK
  <2> SUFFICES ASSUME EngineInv PROVE TypeOK
    OBVIOUS
  <2>1. bus.msg \in Msgs \cup {Blank} /\ bus.k \in Nat
    <3>1. CASE InTail
      <4>1. NxInv /\ nx \in Buffer
        BY <3>1 DEF EngineInv, ReceiveInv, ReceiveType
      <4> QED
        BY <4>1 DEF NxInv, Idle, Partial, Buffer
    <3>2. CASE ~InTail
      <4>1. CurInv /\ cur \in InFlight /\ st \in {"INVAL", "W0", "TS", "BODY"}
        BY <3>2 DEF EngineInv, ReceiveInv, ReceiveType, InTail
      <4> QED
        BY <4>1 DEF CurInv, Idle, Partial, InFlight
    <3> QED
      BY <3>1, <3>2
  <2>2. st \in States /\ locCnt \in 0..NSYM
    BY DEF EngineInv, ReceiveInv, ReceiveType
  <2>3. cur \in InFlight /\ nx \in Buffer
    BY DEF EngineInv, ReceiveInv, ReceiveType
  <2>4. started \in 0..MaxMsgs /\ locMap \in Registry /\ error \in BOOLEAN
    BY DEF EngineInv, PortType
  <2>5. inval \in TabSlots /\ tab \in [TabSlots -> Entry]
    BY DEF EngineInv, BookInv, TableInv
  <2>6. lvl \in [SymIdx \X Sides -> Lists] /\ SessionType /\ EmissionType
    BY DEF EngineInv, BookInv, LevelInv
  <2> QED
    BY <2>1, <2>2, <2>3, <2>4, <2>5, <2>6
       DEF TypeOK, InFlight, Buffer, Registry, Lists, SessionType, EmissionType
<1> QED
  BY <1>1, EngineInvInit, EngineInvNext, PTL DEF Spec

\* From reset on, an order is in the table once, within the probe's reach of
\* its hash.
THEOREM TableSoundAlways == Spec => []TableSound
<1>1. EngineInv => TableSound
  BY DEF EngineInv, BookInv, TableInv, SoundTable, TableSound, InWindow, Offset, Holds, Has
<1> QED
  BY <1>1, EngineInvInit, EngineInvNext, PTL DEF Spec

\* What a walk has left says where a reference is, or which hole is its.
LEMMA WindowFacts ==
  ASSUME NEW ref
  PROVE  /\ \A i \in TabSlots : Holds(i, ref) <=> Has(tab, i, ref)
         /\ NoRoom(ref) <=> ~SomeHole(tab, ref, PROBE)
         /\ \A i : HoleAt(tab, ref, PROBE, i) => FirstHole(ref, i)
<1>1. \A i \in TabSlots : i \in Window(ref) <=> Offset(ref, i) < PROBE
  BY DEF Window, InWindow, Offset
<1>2. \A i \in Window(ref) : i \in TabSlots
  BY DEF Window
<1>3. \A i \in TabSlots : Holds(i, ref) <=> Has(tab, i, ref)
  BY DEF Holds, Has
<1>4. NoRoom(ref) <=> ~SomeHole(tab, ref, PROBE)
  BY <1>1, <1>2, Zenon DEF NoRoom, SomeHole
<1>5. ASSUME NEW i, HoleAt(tab, ref, PROBE, i) PROVE FirstHole(ref, i)
  <2>1. /\ i \in TabSlots /\ Offset(ref, i) < PROBE /\ ~tab[i].valid
        /\ \A r \in TabSlots : Offset(ref, r) < Offset(ref, i) => tab[r].valid
    BY <1>5, Zenon DEF HoleAt
  <2>2. i \in Window(ref)
    BY <1>1, <2>1, Zenon
  <2> QED
    BY <1>2, <2>1, <2>2, Zenon DEF FirstHole, Offset
<1> QED
  BY <1>3, <1>4, <1>5, Zenon

\* What the probe has found, in the words of ProbeFresh.
LEMMA ProbeFreshNow == EngineInv => ProbeFresh
<1> SUFFICES ASSUME EngineInv, Applies(NoWord, LookupTypes)
             PROVE  ProbeFresh
  BY DEF ProbeFresh
<1>1. PICK m : m = cur.msg
  OBVIOUS
<1>2. st = "APPLY" /\ LooksUp /\ SoundTable(tab) /\ Found(tab, prb, m)
  BY <1>1 DEF Applies, LooksUp, EngineInv, ProbeInv, BookInv, TableInv
<1>3. OldResult(tab, prb, m) /\ (m.type = "U" => NewResult(tab, prb, m))
  BY <1>2 DEF Found
<1>4. prb.found <=> \E i \in TabSlots : Holds(i, m.ref)
  BY <1>2, <1>3, ClearIsAbsent, WindowFacts DEF OldResult, Walked
<1>5. prb.found => Holds(prb.slot, m.ref) /\ prb.entry = tab[prb.slot]
  BY <1>3, WindowFacts DEF OldResult
<1>6. m.type \in AddTypes /\ ~prb.found =>
          /\ prb.full <=> NoRoom(m.ref)
          /\ ~prb.full => FirstHole(m.ref, prb.empty)
  BY <1>3, WindowFacts DEF OldResult, Walked
<1>7. m.type = "U" =>
          /\ prb.newFound <=> \E i \in TabSlots : Holds(i, m.new)
          /\ ~prb.newFound => /\ prb.newFull <=> NoRoom(m.new)
                              /\ ~prb.newFull => FirstHole(m.new, prb.newEmpty)
  BY <1>2, <1>3, ClearIsAbsent, WindowFacts DEF NewResult, Walked
<1> QED
  BY <1>1, <1>4, <1>5, <1>6, <1>7, Zenon DEF ProbeFresh

\* When a message takes effect, what its probe has found is true of the table
\* at that moment: where its order is, or that it is nowhere, and which slot
\* the new order gets, or that there is none.
THEOREM ProbeFreshAlways == Spec => []ProbeFresh
<1>1. EngineInv => ProbeFresh
  BY ProbeFreshNow
<1> QED
  BY <1>1, EngineInvInit, EngineInvNext, PTL DEF Spec

\* Between the two halves of a replace nothing takes the slot that its probe
\* has found, and no order gets its new reference: the add half overwrites no
\* live order and leaves none twice in the table.
THEOREM ReplaceFindsItsSlot ==
  Spec => [](st = "UADD" => /\ InWindow(uadd.ref, uadd.slot)
                            /\ ~tab[uadd.slot].valid
                            /\ \A i \in TabSlots : ~Holds(i, uadd.ref))
<1>1. EngineInv => (st = "UADD" => /\ InWindow(uadd.ref, uadd.slot)
                                   /\ ~tab[uadd.slot].valid
                                   /\ \A i \in TabSlots : ~Holds(i, uadd.ref))
  BY DEF EngineInv, BookInv, PendingInv, InWindow, Offset, Holds, Has
<1> QED
  BY <1>1, EngineInvInit, EngineInvNext, PTL DEF Spec

(***************************************************************************)
(* The symbols                                                             *)
(***************************************************************************)
\* The map up to locCnt has a locate once; the rest is as it was reset.
MapInv ==
  /\ locCnt \in 0..NSYM /\ locMap \in Registry
  /\ \A i, j \in 0..locCnt-1 : locMap[i] = locMap[j] => i = j
  /\ \A i \in SymIdx : i >= locCnt => locMap[i] = NoLocate

\* Belongs, of a map with cnt locates.
Listed(map, cnt, r) ==
  IF r.bad THEN cnt = NSYM /\ \A i \in SymIdx : map[i] # r.msg.loc
  ELSE r.sym < cnt /\ map[r.sym] = r.msg.loc

SymbolInv == MapInv /\ SymbolRight

\* What loc_lookup answers for a locate that is not the reset value.
LEMMA LookupIs ==
  ASSUME MapInv, NEW l, l # NoLocate
  PROVE  /\ LocLookup(l) = Unlisted => \A i \in SymIdx : locMap[i] # l
         /\ LocLookup(l) # Unlisted => /\ LocLookup(l) \in 0..locCnt-1
                                       /\ LocLookup(l) \in SymIdx
                                       /\ locMap[LocLookup(l)] = l
<1> DEFINE hits == {i \in SymIdx : locMap[i] = l}
<1>1. NSYM \in Nat \ {0} /\ Unlisted \notin SymIdx /\ SymIdx \subseteq Nat
  BY EngineAssumption DEF SymIdx, Unlisted
<1>2. CASE hits = {}
  <2>1. LocLookup(l) = Unlisted
    BY <1>2 DEF LocLookup
  <2> QED
    BY <1>2, <2>1
<1>3. CASE hits # {}
  <2>1. \E x \in hits : \A y \in hits : x <= y
    <3>1. hits \in SUBSET Nat
      BY <1>1
    <3> HIDE DEF hits
    <3> QED
      BY <1>3, <3>1, LowestExists
  <2>2. LocLookup(l) \in hits
    BY <1>3, <2>1 DEF LocLookup
  <2>3. LocLookup(l) \in SymIdx /\ locMap[LocLookup(l)] = l
    BY <2>2
  <2>4. PICK k : k = LocLookup(l)
    OBVIOUS
  <2> HIDE DEF hits
  <2>5. k \in SymIdx /\ locMap[k] = l
    BY <2>3, <2>4
  <2>6. k \in Nat /\ locCnt \in Nat
    BY <1>1, <2>5 DEF MapInv
  <2>7. ~(k >= locCnt)
    BY <2>5 DEF MapInv
  <2>8. k \in 0..locCnt-1
    BY <2>6, <2>7
  <2> QED
    BY <1>1, <2>4, <2>5, <2>8
<1> QED
  BY <1>2, <1>3

\* A message that is new to the engine.
LEMMA NewSymbol ==
  ASSUME SymbolInv, NEW w, w.msg.loc \in Locates, w.msg.loc # NoLocate,
         Register(TRUE, w),
         NEW r, r.msg = w.msg, r.sym = SymOf(w.msg.loc), r.bad = BadSym(w.msg.loc)
  PROVE  MapInv' /\ Listed(locMap', locCnt', r)
<1>1. PICK l : l = w.msg.loc
  OBVIOUS
<1>2. /\ MapInv /\ locCnt \in 0..NSYM /\ locMap \in Registry /\ NSYM \in Nat
      /\ SymIdx = 0..NSYM-1 /\ l \in Locates
  BY <1>1, EngineAssumption DEF SymbolInv, MapInv, SymIdx
<1>3. /\ LocLookup(l) = Unlisted => \A i \in SymIdx : locMap[i] # l
      /\ LocLookup(l) # Unlisted => /\ LocLookup(l) \in 0..locCnt-1
                                    /\ LocLookup(l) \in SymIdx
                                    /\ locMap[LocLookup(l)] = l
  BY <1>1, <1>2, LookupIs
<1>4. CASE Registers(l)
  <2>1. /\ LocLookup(l) = Unlisted /\ locCnt < NSYM
        /\ locMap' = [locMap EXCEPT ![locCnt] = l] /\ locCnt' = locCnt + 1
    BY <1>1, <1>4 DEF Register, Registers
  <2>2. ~r.bad /\ r.sym = locCnt /\ r.msg.loc = l
    <3>1. locCnt # NSYM
      BY <1>2, <2>1
    <3>2. ~BadSym(l)
      BY <3>1 DEF BadSym
    <3>3. SymOf(l) = locCnt
      BY <1>4, <3>2 DEF SymOf
    <3> QED
      BY <1>1, <3>2, <3>3
  <2>3. locCnt \in SymIdx /\ locCnt' \in 0..NSYM
    BY <1>2, <2>1
  <2>4. locMap' \in Registry
    BY <1>2, <2>1 DEF Registry
  <2>5. locMap'[locCnt] = l /\ \A i \in SymIdx : i # locCnt => locMap'[i] = locMap[i]
    BY <1>2, <2>1, <2>3 DEF Registry
  <2>6. \A i \in 0..locCnt'-1 : i \in SymIdx /\ (i # locCnt => i \in 0..locCnt-1)
    BY <1>2, <2>1
  <2>7. \A i, j \in 0..locCnt'-1 : locMap'[i] = locMap'[j] => i = j
    BY <1>2, <1>3, <2>1, <2>5, <2>6 DEF MapInv
  <2>8. \A i \in SymIdx : i >= locCnt' => locMap'[i] = NoLocate
    <3> SUFFICES ASSUME NEW i \in SymIdx, i >= locCnt' PROVE locMap'[i] = NoLocate
      OBVIOUS
    <3>1. i >= locCnt /\ i # locCnt
      BY <1>2, <2>1
    <3> QED
      BY <1>2, <2>5, <3>1 DEF MapInv
  <2> QED
    BY <1>2, <2>1, <2>2, <2>3, <2>4, <2>5, <2>7, <2>8 DEF MapInv, Listed
<1>5. CASE ~Registers(l)
  <2>1. locMap' = locMap /\ locCnt' = locCnt
    BY <1>1, <1>5 DEF Register
  <2>2. MapInv'
    BY <1>2, <2>1 DEF MapInv
  <2>3. CASE LocLookup(l) = Unlisted
    <3>1. locCnt = NSYM
      BY <1>2, <1>5, <2>3 DEF Registers
    <3>2. r.bad
      BY <1>1, <2>3, <3>1 DEF BadSym
    <3> QED
      BY <1>1, <1>3, <2>1, <2>2, <2>3, <3>1, <3>2 DEF Listed
  <2>4. CASE LocLookup(l) # Unlisted
    <3>1. ~r.bad /\ r.sym = LocLookup(l)
      BY <1>1, <1>5, <2>4 DEF BadSym, SymOf
    <3>2. PICK k : k = LocLookup(l)
      OBVIOUS
    <3>3. k < locCnt /\ locMap[k] = l
      BY <1>2, <1>3, <2>4, <3>2
    <3> QED
      BY <1>1, <2>1, <2>2, <3>1, <3>2, <3>3 DEF Listed
  <2> QED
    BY <2>3, <2>4
<1> QED
  BY <1>4, <1>5

\* A registration takes no book from the message that has it.
LEMMA BelongsStill ==
  ASSUME MapInv, NEW new \in BOOLEAN, NEW w, Register(new, w),
         NEW r, Belongs(r), r.sym \in SymIdx
  PROVE  Listed(locMap', locCnt', r)
<1>1. locCnt \in Nat /\ NSYM \in Nat /\ locMap \in Registry /\ SymIdx \subseteq Nat
  BY EngineAssumption DEF MapInv, SymIdx
<1>2. CASE UNCHANGED <<locMap, locCnt>>
  BY <1>2 DEF Belongs, Listed
<1>3. CASE ~UNCHANGED <<locMap, locCnt>>
  <2>1. PICK l : l = w.msg.loc
    OBVIOUS
  <2>2. locCnt < NSYM /\ locMap' = [locMap EXCEPT ![locCnt] = l] /\ locCnt' = locCnt + 1
    BY <1>3, <2>1 DEF Register, Registers
  <2>3. ~r.bad /\ r.sym < locCnt /\ locMap[r.sym] = r.msg.loc
    BY <1>1, <2>2 DEF Belongs
  <2>4. locMap'[r.sym] = r.msg.loc
    BY <1>1, <2>2, <2>3 DEF Registry
  <2>5. r.sym < locCnt'
    <3>1. \A n, c \in Nat : n < c => n < c + 1
      OBVIOUS
    <3> QED
      BY <1>1, <2>2, <2>3, <3>1
  <2> QED
    BY <2>3, <2>4, <2>5 DEF Listed
<1> QED
  BY <1>2, <1>3


\* A message keeps its symbol on its way.
SameMessage(r, q) == r.msg = q.msg /\ r.sym = q.sym /\ r.bad = q.bad

Opens(w) ==
  /\ Register(TRUE, w) /\ w # NoWord /\ nx' = nx
  /\ cur'.msg = w.msg /\ cur'.sym = SymOf(w.msg.loc) /\ cur'.bad = BadSym(w.msg.loc)
Buffers(w) == cur' = cur /\ NxRecv(w)
Goes ==
  /\ UNCHANGED <<locMap, locCnt>> /\ nx' \in {nx, NxEmpty}
  /\ SameMessage(cur', cur) \/ (nx.active /\ SameMessage(cur', nx))

LEMMA SymbolKinds ==
  ASSUME ReceiveType, NEW w, NEW rdy, Cycle(w, rdy)
  PROVE  Opens(w) \/ Buffers(w) \/ Goes
<1>1. Inval \/ TS(w) => Goes
  BY DEF Inval, TS, recvVars, Goes, SameMessage
<1>2. W0(w) => Opens(w) \/ Goes
  <2>1. ASSUME W0(w), w = NoWord PROVE Goes
    BY <2>1 DEF W0, Goes, SameMessage
  <2>2. ASSUME W0(w), w # NoWord PROVE Opens(w)
    <3>1. /\ cur' = [msg |-> w.msg, sym |-> SymOf(w.msg.loc),
                     bad |-> BadSym(w.msg.loc), bi |-> 0,
                     left |-> BodyWords(w.msg), acc |-> {}]
          /\ Register(TRUE, w) /\ nx' = nx
      BY <2>2 DEF W0
    <3> QED
      BY <2>2, <3>1 DEF Opens
  <2> QED
    BY <2>1, <2>2
<1>3. Body(w) => Goes
  <2>1. ASSUME Body(w) PROVE SameMessage(cur', cur)
    <3>1. PICK a, b, c : a = Store(cur.acc, cur.bi, w, cur.msg) /\ b = cur.bi + 1
                         /\ c = cur.left - 1
      OBVIOUS
    <3>2. \/ cur' = cur \/ cur' = [cur EXCEPT !.acc = a]
          \/ cur' = [cur EXCEPT !.acc = a, !.bi = b, !.left = c]
      BY <2>1, <3>1 DEF Body
    <3> QED
      BY <3>2 DEF ReceiveType, InFlight, SameMessage
  <2>2. Body(w) => UNCHANGED <<nx, locMap, locCnt>>
    BY DEF Body
  <2> QED
    BY <2>1, <2>2 DEF Goes
<1>4. SwapNext /\ UNCHANGED <<locMap, locCnt>> => Goes
  BY DEF SwapNext, Buffered, Goes, SameMessage
<1>5. EndTail(w) => Buffers(w) \/ Goes
  BY <1>4 DEF EndTail, Buffers
<1>6. WaitProbe(w) \/ Lv2(w) \/ Lv2b(w) \/ Lv3(w) \/ Uadd(w) => Buffers(w)
  BY DEF WaitProbe, Lv2, Lv2b, Lv3, Uadd, Background, Buffers
<1>7. ToLevels(w) \/ Fruitless(w) => Buffers(w)
  BY DEF ToLevels, Fruitless, Background, Buffers
<1>8. ApplyAdd(w) \/ ApplyReduce(w) \/ ApplyDelete(w) \/ ApplyReplace(w) => Buffers(w)
  BY <1>7 DEF ApplyAdd, ApplyReduce, ApplyDelete, ApplyReplace, Refuse, Unknown
<1>9. ApplyDiscard(w) \/ ApplySession(w) \/ EmitNothing(w) \/ Emit(w, rdy)
        => Buffers(w) \/ Goes
  BY <1>5 DEF ApplyDiscard, ApplySession, EmitNothing, Emit
<1>10. EmitA(w) \/ EmitB(w) \/ EmitWait(w) => Buffers(w)
  BY DEF EmitA, EmitB, EmitWait, Background, Buffers
<1>11. Swap => Goes
  BY <1>4 DEF Swap
<1> QED
  BY <1>1, <1>2, <1>3, <1>6, <1>8, <1>9, <1>10, <1>11 DEF Cycle, Quiet

LEMMA SymbolStep ==
  ASSUME ReceiveInv, SymbolInv, NamedLocates, NEW w \in Offers, NEW rdy, Cycle(w, rdy)
  PROVE  SymbolInv'
<1>1. /\ cur.sym \in SymIdx /\ nx.sym \in SymIdx
      /\ cur \in InFlight /\ nx \in Buffer
  BY DEF ReceiveInv, ReceiveType, InFlight, Buffer
<1>2. ASSUME w # NoWord PROVE w.msg.loc \in Locates /\ w.msg.loc # NoLocate
  BY <1>2, OfferedMessage, MessageAssumption DEF NamedLocates, Message
<1>3. /\ cur.msg # Blank => Belongs(cur)
      /\ nx.active => Belongs(nx)
      /\ MapInv
  BY DEF SymbolInv, SymbolRight
<1>4. ASSUME NEW r, NEW q, SameMessage(r, q), Listed(locMap', locCnt', q)
      PROVE  Listed(locMap', locCnt', r)
  BY <1>4 DEF SameMessage, Listed
<1>5. ASSUME MapInv',
             cur'.msg # Blank => Listed(locMap', locCnt', cur'),
             nx'.active => Listed(locMap', locCnt', nx')
      PROVE  SymbolInv'
  BY <1>5 DEF SymbolInv, SymbolRight, Listed, Belongs, MapInv
<1>6. ASSUME NEW new \in BOOLEAN, Register(new, w), NEW r, Belongs(r), r.sym \in SymIdx
      PROVE  Listed(locMap', locCnt', r)
  BY <1>3, <1>6, BelongsStill
<1>7. NxEmpty.active = FALSE
  BY DEF NxEmpty
<1>8. CASE Opens(w)
  <2>1. MapInv' /\ Listed(locMap', locCnt', cur')
    BY <1>2, <1>8, NewSymbol DEF Opens
  <2>2. nx'.active => Listed(locMap', locCnt', nx')
    BY <1>1, <1>3, <1>6, <1>8 DEF Opens
  <2> QED
    BY <1>5, <2>1, <2>2
<1>9. CASE Buffers(w)
  <2>1. PICK new \in BOOLEAN : new = NxStarts(w) /\ Register(new, w)
    BY <1>9 DEF Buffers, NxRecv, NxStarts, Receives
  <2>2. cur'.msg # Blank => Listed(locMap', locCnt', cur')
    BY <1>1, <1>3, <1>6, <1>9, <2>1 DEF Buffers
  <2>3. CASE NxStarts(w)
    <3>1. /\ w # NoWord /\ nx' = NxAfter(w) /\ ~nx.active /\ Register(TRUE, w)
      BY <1>9, <2>1, <2>3 DEF Buffers, NxRecv, NxStarts, Receives
    <3>2. nx'.msg = w.msg /\ nx'.sym = SymOf(w.msg.loc) /\ nx'.bad = BadSym(w.msg.loc)
      BY <3>1 DEF NxAfter
    <3>3. MapInv' /\ Listed(locMap', locCnt', nx')
      BY <1>2, <3>1, <3>2, NewSymbol
    <3> QED
      BY <1>5, <2>2, <3>3
  <2>4. CASE ~NxStarts(w)
    <3>1. UNCHANGED <<locMap, locCnt>>
      BY <2>1, <2>4 DEF Register
    <3>2. MapInv'
      BY <1>3, <3>1 DEF MapInv
    <3>3. nx'.active => nx.active /\ SameMessage(nx', nx)
      <4>1. nx' = nx \/ (nx' = NxAfter(w) /\ nx.active)
        BY <1>9, <2>4 DEF Buffers, NxRecv, NxStarts
      <4>2. PICK a, b, c : a = Store(nx.acc, nx.bi, w, nx.msg) /\ b = nx.bi + 1
                           /\ c = nx.left - 1
        OBVIOUS
      <4>3. nx.active => \/ NxAfter(w) = [nx EXCEPT !.st = 2]
                         \/ NxAfter(w) = [[nx EXCEPT !.acc = a] EXCEPT !.done = TRUE]
                         \/ NxAfter(w) = [[nx EXCEPT !.acc = a] EXCEPT !.bi = b, !.left = c]
        BY <1>1, <4>2 DEF NxAfter, Buffer
      <4>4. nx.active => SameMessage(NxAfter(w), nx)
        BY <1>1, <4>3 DEF Buffer, SameMessage
      <4>5. SameMessage(nx, nx)
        BY DEF SameMessage
      <4> QED
        BY <4>1, <4>4, <4>5
    <3>4. nx'.active => Listed(locMap', locCnt', nx')
      BY <1>1, <1>3, <1>4, <1>6, <2>1, <3>3
    <3> QED
      BY <1>5, <2>2, <3>2, <3>4
  <2> QED
    BY <2>3, <2>4
<1>10. CASE Goes
  <2>1. locMap' = locMap /\ locCnt' = locCnt /\ MapInv' /\ Register(FALSE, w)
    BY <1>3, <1>10 DEF Goes, MapInv, Register
  <2>2. /\ cur.msg # Blank => Listed(locMap', locCnt', cur)
        /\ nx.active => Listed(locMap', locCnt', nx)
    BY <1>1, <1>3, <1>6, <2>1
  <2>3. cur'.msg # Blank => Listed(locMap', locCnt', cur')
    BY <1>4, <1>10, <2>2 DEF Goes, SameMessage
  <2>4. nx'.active => Listed(locMap', locCnt', nx')
    BY <1>7, <1>10, <2>2 DEF Goes
  <2> QED
    BY <1>5, <2>1, <2>3, <2>4
<1> QED
  BY <1>8, <1>9, <1>10, SymbolKinds DEF ReceiveInv

LEMMA SymbolInit ==
  ASSUME Init
  PROVE  SymbolInv
<1>1. NSYM \in Nat \ {0}
  BY EngineAssumption
<1>2. locCnt = 0 /\ locMap = [i \in SymIdx |-> NoLocate]
  BY DEF Init
<1>3. MapInv
  BY <1>1, <1>2 DEF MapInv, Registry
<1>4. SymbolRight
  BY <1>1, <1>2 DEF Init, SymbolRight, NoMsg, NxEmpty
<1> QED
  BY <1>3, <1>4 DEF SymbolInv

(***************************************************************************)
(* The two ports                                                           *)
(***************************************************************************)
Event == [loc : Nat, bbo : Bbo]
Depth == [B : [1..ND -> Level], S : [1..ND -> Level]]
Port == [bboValid : BOOLEAN, depthValid : BOOLEAN, loc : Nat, bbo : Bbo,
         changed : BOOLEAN, depth : Depth]

\* The halves of the pairs that went out: those taken, and the one on the port.
Bbos == bboTaken \o OnPort(out.bboValid, BboOnPort)
Depths == depthTaken \o OnPort(out.depthValid, out.depth)

PortTypes == /\ out \in Port /\ sel.depth \in Depth
             /\ bboTaken \in Seq(Event) /\ depthTaken \in Seq(Depth)
             /\ effects \in Seq(Nat)

Delivery == Locs(Bbos) \o Owed = effects /\ Len(Depths) = Len(Bbos)

LEMMA TakenOrHeld ==
  ASSUME NEW S, NEW s \in Seq(S), NEW x \in S
  PROVE  Append(s, x) \in Seq(S) /\ Append(s, x) \o <<>> = s \o <<x>>
OBVIOUS

LEMMA OutFields ==
  ASSUME out \in Port
  PROVE  /\ out.bboValid \in BOOLEAN /\ out.depthValid \in BOOLEAN /\ out.loc \in Nat
         /\ out.bbo \in Bbo /\ out.depth \in Depth /\ BboOnPort \in Event
BY DEF Port, Event, BboOnPort

LEMMA RetainedFields ==
  ASSUME out \in Port, NEW rdy \in Readiness, out' = Retained(rdy)
  PROVE  /\ out' \in Port
         /\ out'.bboValid = (out.bboValid /\ ~rdy.bbo)
         /\ out'.depthValid = (out.depthValid /\ ~rdy.depth)
         /\ out'.loc = out.loc /\ out'.bbo = out.bbo /\ out'.depth = out.depth
<1>1. PICK b, d : b = (out.bboValid /\ ~rdy.bbo) /\ d = (out.depthValid /\ ~rdy.depth)
  OBVIOUS
<1>2. b \in BOOLEAN /\ d \in BOOLEAN
  BY <1>1
<1>3. out' = [out EXCEPT !.bboValid = b, !.depthValid = d]
  BY <1>1 DEF Retained
<1>4. out' \in Port
  BY <1>2, <1>3, ZenonT(60) DEF Port
<1>5. /\ out'.bboValid = b /\ out'.depthValid = d
      /\ out'.loc = out.loc /\ out'.bbo = out.bbo /\ out'.depth = out.depth
  BY <1>3 DEF Port
<1> QED
  BY <1>1, <1>4, <1>5

\* A port that holds its half until it is taken loses and repeats none.
LEMMA Retention ==
  ASSUME PortTypes, NEW rdy \in Readiness, out' = Retained(rdy), Record(rdy)
  PROVE  /\ bboTaken' \in Seq(Event) /\ depthTaken' \in Seq(Depth)
         /\ Bbos' = Bbos /\ Depths' = Depths
<1>1. out \in Port /\ bboTaken \in Seq(Event) /\ depthTaken \in Seq(Depth)
      /\ rdy.bbo \in BOOLEAN /\ rdy.depth \in BOOLEAN
  BY DEF PortTypes, Readiness
<1>2. BboOnPort' = BboOnPort
  BY <1>1, RetainedFields DEF BboOnPort
<1>3. bboTaken' \in Seq(Event) /\ bboTaken' \o OnPort(out'.bboValid, BboOnPort) = Bbos
  <2>1. CASE out.bboValid /\ rdy.bbo
    <3>1. bboTaken' = Append(bboTaken, BboOnPort) /\ ~out'.bboValid
      BY <1>1, <2>1, RetainedFields DEF Record
    <3> QED
      BY <1>1, <2>1, <3>1, OutFields, TakenOrHeld DEF Bbos, OnPort
  <2>2. CASE ~(out.bboValid /\ rdy.bbo)
    <3>1. bboTaken' = bboTaken /\ (out'.bboValid <=> out.bboValid)
      BY <1>1, <2>2, RetainedFields DEF Record
    <3> QED
      BY <1>1, <3>1 DEF Bbos, OnPort
  <2> QED
    BY <2>1, <2>2
<1>4. depthTaken' \in Seq(Depth) /\ depthTaken' \o OnPort(out'.depthValid, out.depth) = Depths
  <2>1. CASE out.depthValid /\ rdy.depth
    <3>1. depthTaken' = Append(depthTaken, out.depth) /\ ~out'.depthValid
      BY <1>1, <2>1, RetainedFields DEF Record
    <3> QED
      BY <1>1, <2>1, <3>1, OutFields, TakenOrHeld DEF Depths, OnPort
  <2>2. CASE ~(out.depthValid /\ rdy.depth)
    <3>1. depthTaken' = depthTaken /\ (out'.depthValid <=> out.depthValid)
      BY <1>1, <2>2, RetainedFields DEF Record
    <3> QED
      BY <1>1, <3>1 DEF Depths, OnPort
  <2> QED
    BY <2>1, <2>2
<1>5. out'.depth = out.depth
  BY <1>1, RetainedFields
<1> QED
  BY <1>2, <1>3, <1>4, <1>5 DEF Bbos, Depths

LEMMA Emission ==
  ASSUME PortTypes, NEW w, NEW rdy, Emit(w, rdy), Record(rdy)
  PROVE  /\ bboTaken' = bboTaken /\ depthTaken' = depthTaken
         /\ bboTaken = Bbos /\ depthTaken = Depths
         /\ Bbos' = Append(Bbos, [loc |-> cur.msg.loc, bbo |-> SelectedBbo])
         /\ Depths' = Append(Depths, sel.depth)
<1>1. out.bboValid = FALSE /\ out.depthValid = FALSE
  BY OutFields DEF Emit, EmitBusy, PortTypes
<1>2. bboTaken' = bboTaken /\ depthTaken' = depthTaken
  BY <1>1 DEF Record
<1>3. bboTaken \o <<>> = bboTaken /\ depthTaken \o <<>> = depthTaken
  BY DEF PortTypes
<1>4. bboTaken = Bbos /\ depthTaken = Depths
  BY <1>1, <1>3 DEF Bbos, Depths, OnPort
<1>5. PICK b : b = SelectedBbo
  OBVIOUS
<1>6. out' = [bboValid |-> TRUE, depthValid |-> TRUE, loc |-> cur.msg.loc, bbo |-> b,
              changed |-> b # prev[cur.sym], depth |-> sel.depth]
  BY <1>5 DEF Emit
<1>7. BboOnPort' = [loc |-> cur.msg.loc, bbo |-> b] /\ out'.depth = sel.depth
      /\ out'.bboValid /\ out'.depthValid
  BY <1>6 DEF BboOnPort
<1>8. ASSUME NEW S, NEW s \in Seq(S), NEW x PROVE s \o <<x>> = Append(s, x)
  OBVIOUS
<1>9. Bbos' = bboTaken \o <<[loc |-> cur.msg.loc, bbo |-> b]>>
      /\ Depths' = depthTaken \o <<sel.depth>>
  BY <1>2, <1>7 DEF Bbos, Depths, OnPort
<1> QED
  BY <1>2, <1>4, <1>5, <1>8, <1>9 DEF PortTypes

(***************************************************************************)
(* What is owed                                                            *)
(***************************************************************************)
Paying == {"LV2", "LV2B", "LV3", "UADD", "EMIT_A", "EMIT_B", "EMIT_C"}
Affects == st = "APPLY" /\ ~cur.bad /\ emitOk'

LEMMA OwedKinds ==
  ASSUME NEW w, NEW rdy, Quiet(w, rdy)
  PROVE  \/ Affects /\ Owed = <<>> /\ Owed' = <<cur.msg.loc>>
         \/ ~Affects /\ Owed' = Owed
<1>1. ASSUME st \notin Paying PROVE Owed = <<>>
  BY <1>1 DEF Owed, Paying
<1>2. ASSUME st' \notin Paying PROVE Owed' = <<>>
  BY <1>2 DEF Owed, Paying
<1>3. ASSUME st # "APPLY", st \notin Paying, st' \notin Paying
      PROVE  ~Affects /\ Owed' = Owed
  BY <1>1, <1>2, <1>3 DEF Affects
<1>4. ASSUME st \in Paying, st' \in Paying, emitOk' = emitOk, cur' = cur
      PROVE  ~Affects /\ Owed' = Owed
  BY <1>4 DEF Affects, Owed, Paying
<1>5. EndTail(w) => st' \notin Paying
  BY EndStates DEF Paying
<1>6. Inval \/ W0(w) \/ TS(w) \/ Body(w) \/ WaitProbe(w) \/ Swap => ~Affects /\ Owed' = Owed
  <2>1. Inval => st \notin Paying \cup {"APPLY"} /\ st' \notin Paying
    BY DEF Inval, Paying
  <2>2. W0(w) \/ TS(w) \/ Body(w) \/ WaitProbe(w)
          => st \notin Paying \cup {"APPLY"} /\ st' \notin Paying
    BY DEF W0, TS, Body, WaitProbe, Paying
  <2>3. Swap => st \notin Paying \cup {"APPLY"} /\ st' \notin Paying
    BY DEF Swap, SwapNext, Paying
  <2> QED
    BY <1>3, <2>1, <2>2, <2>3
<1>7. ApplyDiscard(w) => ~Affects /\ Owed' = Owed
  BY <1>1, <1>2, <1>5 DEF ApplyDiscard, Affects, Paying
<1>8. ASSUME Applies(w, Types), ToLevels(w)
      PROVE  Affects /\ Owed = <<>> /\ Owed' = <<cur.msg.loc>>
  <2>1. st = "APPLY" /\ ~cur.bad /\ emitOk' /\ st' = "LV2" /\ cur' = cur
    BY <1>8 DEF Applies, ToLevels, Background
  <2> QED
    BY <2>1 DEF Affects, Owed
<1>9. ASSUME st = "APPLY", Fruitless(w) PROVE ~Affects /\ Owed' = Owed
  <2>1. ~emitOk'
    BY <1>9 DEF Fruitless
  <2> QED
    BY <1>9, <2>1 DEF Affects, Owed
<1>10. ApplyAdd(w) \/ ApplyReduce(w) \/ ApplyDelete(w) \/ ApplyReplace(w)
         => \/ Applies(w, Types) /\ ToLevels(w)
            \/ st = "APPLY" /\ Fruitless(w)
  BY DEF ApplyAdd, ApplyReduce, ApplyDelete, ApplyReplace, Refuse, Unknown, Applies, Types,
         LookupTypes
<1>11. ApplySession(w) => ~Affects /\ Owed' = Owed
  <2>1. ApplySession(w) => st = "APPLY" /\ ~emitOk'
    BY DEF ApplySession, Applies
  <2> QED
    BY <2>1 DEF Affects, Owed
<1>12. Lv2(w) \/ Lv2b(w) \/ EmitA(w) \/ EmitB(w) \/ EmitWait(w) => ~Affects /\ Owed' = Owed
  <2>1. Lv2(w) \/ EmitWait(w)
          => st \in Paying /\ st' \in Paying /\ emitOk' = emitOk /\ cur' = cur
    BY DEF Lv2, EmitWait, Background, stageVars, Paying
  <2>2. Lv2b(w) \/ EmitA(w) \/ EmitB(w)
          => st \in Paying /\ st' \in Paying /\ emitOk' = emitOk /\ cur' = cur
    BY DEF Lv2b, EmitA, EmitB, Background, Paying
  <2> QED
    BY <1>4, <2>1, <2>2
<1>13. Lv3(w) \/ Uadd(w) => ~Affects /\ Owed' = Owed
  <2>1. Lv3(w) \/ Uadd(w)
          => st \in Paying /\ st' \in Paying /\ emitOk' = emitOk /\ cur' = cur
    BY DEF Lv3, Uadd, Background, Paying
  <2> QED
    BY <1>4, <2>1
<1>14. EmitNothing(w) => ~Affects /\ Owed' = Owed
  <2>1. EmitNothing(w) => st = "EMIT_C" /\ ~emitOk /\ st' \notin Paying
    BY <1>5 DEF EmitNothing
  <2> QED
    BY <1>2, <2>1 DEF Affects, Owed
<1> QED
  BY <1>6, <1>7, <1>8, <1>9, <1>10, <1>11, <1>12, <1>13, <1>14 DEF Quiet

(***************************************************************************)
(* The lists that the pairs are made of                                    *)
(***************************************************************************)
\* A list that lost a level is empty there, and ends there.
Tidy(l) == \A i \in Slots : l[i].qty = 0 => l[i] = EmptyLevel
GoodList(sd, l) == l \in Lists /\ Sorted(sd, l) /\ Tidy(l)

LEMMA EmptyGood ==
  ASSUME NEW sd
  PROVE  GoodList(sd, EmptySide)
<1>1. EmptyLevel \in Level
  BY LevelAssumption DEF EmptyLevel, Level
<1>2. \A i \in Slots : EmptySide[i] = EmptyLevel
  BY DEF EmptySide
<1>3. EmptyLevel.qty = 0
  BY DEF EmptyLevel
<1>4. EmptySide \in Lists
  BY <1>1 DEF EmptySide, Lists
<1> QED
  BY <1>2, <1>3, <1>4 DEF GoodList, Sorted, Tidy

\* Only an insert writes a quantity that an operation brings.
LEMMA TidyKept ==
  ASSUME NEW l \in [Slots -> Level], NEW op \in Operation, op.delta # 0, Tidy(l)
  PROVE  Tidy(Materialize(l, Decode(l, op), op.px))
<1>1. PICK d : d = Decode(l, op)
  OBVIOUS
<1>2. P \in Nat /\ \A i : i \in Slots <=> i \in Nat /\ i < P
  BY LevelAssumption DEF Slots
<1>3. CASE d = Keep
  BY <1>1, <1>3, Written
<1>4. CASE Updates(l, op, d)
  <2>1. d.at \in Slots /\ d.qty # 0
    BY <1>4, LevelAssumption DEF Updates, EqSlots
  <2>2. \A i \in Slots : i # d.at => Updated(l, d)[i] = l[i]
    BY <2>1 DEF Updated
  <2>3. Updated(l, d)[d.at].qty = d.qty
    <3>1. Updated(l, d)[d.at] = [l[d.at] EXCEPT !.qty = d.qty] /\ l[d.at] \in Level
      BY <2>1 DEF Updated
    <3> QED
      BY <3>1 DEF Level
  <2>4. Tidy(Updated(l, d))
    BY <2>1, <2>2, <2>3 DEF Tidy
  <2> QED
    BY <1>1, <1>4, <2>4, Written
<1>5. CASE Removes(l, op, d)
  <2>1. ASSUME NEW i \in Slots
        PROVE  Removed(l, d.at)[i] = EmptyLevel \/ \E j \in Slots : Removed(l, d.at)[i] = l[j]
    <3>1. CASE i < d.at
      BY <3>1 DEF Removed
    <3>2. CASE ~(i < d.at) /\ i < P - 1
      <4>1. i + 1 \in Slots
        BY <1>2, <3>2
      <4> QED
        BY <3>2, <4>1 DEF Removed
    <3>3. CASE ~(i < d.at) /\ ~(i < P - 1)
      BY <3>3 DEF Removed
    <3> QED
      BY <3>1, <3>2, <3>3
  <2>2. Tidy(Removed(l, d.at))
    BY <2>1 DEF Tidy
  <2> QED
    BY <1>1, <1>5, <2>2, Written
<1>6. CASE Inserts(l, op, d)
  <2>1. d.at \in Slots /\ d.qty # 0
    BY <1>6, InsertAtIsSlot DEF Inserts
  <2>2. ASSUME NEW i \in Slots, i # d.at
        PROVE  \E j \in Slots : Inserted(l, d, op.px)[i] = l[j]
    <3>1. CASE i < d.at \/ i > d.last
      BY <3>1 DEF Inserted
    <3>2. CASE ~(i < d.at \/ i > d.last)
      <4>1. i - 1 \in Slots
        BY <1>2, <2>1, <2>2, <3>2
      <4> QED
        BY <2>2, <3>2, <4>1 DEF Inserted
    <3> QED
      BY <3>1, <3>2
  <2>3. CASE d.at > d.last
    <3>1. \A i \in Slots : \E j \in Slots : Inserted(l, d, op.px)[i] = l[j]
      BY <2>1, <2>2, <2>3 DEF Inserted
    <3>2. Tidy(Inserted(l, d, op.px))
      BY <3>1 DEF Tidy
    <3> QED
      BY <1>1, <1>6, <3>2, Written
  <2>4. CASE ~(d.at > d.last)
    <3>1. Inserted(l, d, op.px)[d.at] = [px |-> op.px, qty |-> d.qty]
      BY <1>2, <2>1, <2>4 DEF Inserted
    <3>2. Tidy(Inserted(l, d, op.px))
      BY <2>1, <2>2, <3>1 DEF Tidy
    <3> QED
      BY <1>1, <1>6, <3>2, Written
  <2> QED
    BY <2>3, <2>4
<1> QED
  BY <1>1, <1>3, <1>4, <1>5, <1>6, DecodeCases

LEMMA GoodKept ==
  ASSUME NEW l, NEW op \in Operation, op.delta # 0, op.delta < QLim, GoodList(op.side, l)
  PROVE  GoodList(op.side, Materialize(l, Decode(l, op), op.px))
BY SortedKept, TidyKept, MaterializeType DEF GoodList, Lists

\* The best level is the first one, also of an empty list.
LEMMA BestIsFirst ==
  ASSUME NEW sd, NEW l, GoodList(sd, l)
  PROVE  l[FirstOne(NonEmpty(l))] = l[0]
<1>1. l \in [Slots -> Level] /\ NonEmpty(l) \in SUBSET Slots
  BY DEF GoodList, Lists, NonEmpty
<1>2. 0 \in Slots /\ P - 1 \in Slots /\ \A i \in Slots : i \in Nat
  BY LevelAssumption DEF Slots
<1>3. CASE NonEmpty(l) = {}
  <2>1. FirstOne(NonEmpty(l)) = P - 1
    BY <1>3 DEF FirstOne
  <2>2. \A i \in Slots : l[i] = EmptyLevel
    BY <1>3 DEF NonEmpty, GoodList, Tidy
  <2> QED
    BY <1>2, <2>1, <2>2
<1>4. CASE NonEmpty(l) # {}
  <2>1. PICK i : i = FirstOne(NonEmpty(l))
    OBVIOUS
  <2>2. i \in NonEmpty(l) /\ \A j \in NonEmpty(l) : i <= j
    BY <1>1, <1>4, <2>1, FirstOneIsLowest
  <2>3. i \in Slots /\ l[i].qty # 0
    BY <2>2 DEF NonEmpty
  <2>4. CASE i = 0
    BY <2>1, <2>4
  <2>5. CASE i # 0
    <3>1. 0 < i
      BY <1>2, <2>3, <2>5
    <3>2. l[0].qty # 0
      BY <1>2, <2>3, <3>1 DEF GoodList, Sorted
    <3>3. 0 \in NonEmpty(l)
      BY <1>2, <3>2 DEF NonEmpty
    <3> QED
      BY <1>2, <2>2, <2>3, <2>5, <3>3
  <2> QED
    BY <2>4, <2>5
<1> QED
  BY <1>3, <1>4

LEMMA TopLevels ==
  ASSUME NEW l \in Lists
  PROVE  TopN(l) \in [1..ND -> Level] /\ TopN(l)[1] = l[0]
<1>1. \A i \in 1..ND : i - 1 \in Slots
  BY EngineAssumption, LevelAssumption DEF Slots
<1>2. 1 \in 1..ND
  BY EngineAssumption, LevelAssumption
<1> QED
  BY <1>1, <1>2 DEF TopN, Lists

\* Every list is good; what goes through the level pipeline keeps it so, and
\* what goes through the emission pipeline is a pair that agrees.
ListInv ==
  /\ \A k \in SymIdx \X Sides : GoodList(k[2], lvl[k])
  /\ st \in {"LV2", "LV2B", "LV3"} => lv.op.side = lv.key[2] /\ lv.op.delta # 0
  /\ st = "EMIT_B" /\ emitOk => GoodList("B", cap.B) /\ GoodList("S", cap.S)
  /\ st = "EMIT_C" /\ emitOk => SelectedBbo = Best(sel.depth)

LEMMA NotZero ==
  ASSUME NEW q \in 1..MaxShares
  PROVE  Signed(q) # 0 /\ Negate(q) # 0
<1>1. q \in Nat \ {0} /\ q < QLim /\ QLim \in Nat
  BY MessageAssumption, LevelAssumption, EngineAssumption
<1>2. \A x \in Nat : x # 0 /\ x < QLim => Signed(x) # 0
  BY <1>1 DEF Signed
<1>3. (QLim - q) % QLim = QLim - q
  BY <1>1
<1>4. QLim - q \in Nat /\ QLim - q # 0 /\ QLim - q < QLim
  BY <1>1
<1> QED
  BY <1>1, <1>2, <1>3, <1>4 DEF Negate

Stages == {"LV2", "LV2B", "LV3"}

LEMMA ListFrame ==
  ASSUME ListInv, lvl' = lvl,
         st' \in Stages => st \in Stages /\ lv' = lv,
         st' \in {"EMIT_B", "EMIT_C"} /\ emitOk' =>
           st' = st /\ emitOk' = emitOk /\ cap' = cap /\ sel' = sel
  PROVE  ListInv'
<1>1. \A k \in SymIdx \X Sides : GoodList(k[2], lvl'[k])
  BY DEF ListInv
<1>2. st' \in Stages => lv'.op.side = lv'.key[2] /\ lv'.op.delta # 0
  BY DEF ListInv, Stages
<1>3. st' = "EMIT_B" /\ emitOk' => GoodList("B", cap'.B) /\ GoodList("S", cap'.S)
  BY DEF ListInv
<1>4. st' = "EMIT_C" /\ emitOk' => SelectedBbo' = Best(sel'.depth)
  BY DEF ListInv, SelectedBbo
<1> QED
  BY <1>1, <1>2, <1>3, <1>4 DEF ListInv, Stages

LEMMA ListLaunch ==
  ASSUME ListInv, lvl' = lvl, st' = "LV2", NEW side, NEW px, NEW delta, delta # 0,
         Launch(side, px, delta)
  PROVE  ListInv'
<1>1. lv' = [key |-> <<cur.sym, side>>,
             op |-> [side |-> side, px |-> px, delta |-> delta],
             list |-> lvl[<<cur.sym, side>>]]
  BY DEF Launch
<1>2. lv'.op.side = lv'.key[2] /\ lv'.op.delta # 0
  BY <1>1
<1> QED
  BY <1>2 DEF ListInv

\* The states that neither launch, write nor copy a list.
LEMMA ListRests ==
  ASSUME ListInv, NEW w, NEW rdy, Cycle(w, rdy)
  PROVE  /\ Inval \/ W0(w) \/ TS(w) \/ Body(w) \/ WaitProbe(w) => ListInv'
         /\ Lv2(w) \/ Lv2b(w) \/ EmitWait(w) => ListInv'
         /\ ApplyDiscard(w) \/ ApplySession(w) \/ EmitNothing(w) \/ Emit(w, rdy) => ListInv'
         /\ Swap => ListInv'
         /\ st = "APPLY" /\ Fruitless(w) => ListInv'
<1>1. ASSUME lvl' = lvl, st' \notin Stages \cup {"EMIT_B", "EMIT_C"} PROVE ListInv'
  BY <1>1, ListFrame
<1>2. EndTail(w) => st' \notin Stages \cup {"EMIT_B", "EMIT_C"}
  BY EndStates DEF Stages
<1>3. Inval => ListInv'
  BY <1>1 DEF Inval, Stages
<1>4. W0(w) \/ TS(w) \/ Body(w) \/ WaitProbe(w) => ListInv'
  <2>1. W0(w) \/ TS(w) \/ Body(w) \/ WaitProbe(w)
          => lvl' = lvl /\ st' \notin Stages \cup {"EMIT_B", "EMIT_C"}
    BY DEF W0, TS, Body, WaitProbe, bookVars, Stages
  <2> QED
    BY <1>1, <2>1
<1>5. ApplyDiscard(w) \/ ApplySession(w) \/ EmitNothing(w) \/ Emit(w, rdy) => ListInv'
  <2>1. ApplyDiscard(w) \/ ApplySession(w) \/ EmitNothing(w) \/ Emit(w, rdy)
          => lvl' = lvl /\ EndTail(w)
    BY DEF ApplyDiscard, ApplySession, EmitNothing, Emit, bookVars
  <2> QED
    BY <1>1, <1>2, <2>1
<1>6. Swap => ListInv'
  <2>1. Swap => lvl' = lvl /\ st' \notin Stages \cup {"EMIT_B", "EMIT_C"}
    BY DEF Swap, SwapNext, bookVars, Stages
  <2> QED
    BY <1>1, <2>1
<1>7. Fruitless(w) => ListInv'
  BY <1>1 DEF Fruitless, Stages
<1>8. Lv2(w) \/ Lv2b(w) => ListInv'
  <2>1. Lv2(w) \/ Lv2b(w)
          => lvl' = lvl /\ lv' = lv /\ st \in Stages /\ st' \in Stages
    BY DEF Lv2, Lv2b, bookVars, stageVars, Stages
  <2> QED
    BY <2>1, ListFrame DEF Stages
<1>9. EmitWait(w) => ListInv'
  <2>1. EmitWait(w) => /\ lvl' = lvl /\ lv' = lv /\ emitOk' = emitOk
                       /\ cap' = cap /\ sel' = sel /\ st' = st /\ st = "EMIT_C"
    BY DEF EmitWait, bookVars, stageVars
  <2> QED
    BY <2>1, ListFrame DEF Stages
<1> QED
  BY <1>3, <1>4, <1>5, <1>6, <1>7, <1>8, <1>9

LEMMA ListApplies ==
  ASSUME EngineInv, ListInv, RealReductions, NEW w, NEW rdy, Cycle(w, rdy)
  PROVE  ApplyAdd(w) \/ ApplyReduce(w) \/ ApplyDelete(w) \/ ApplyReplace(w) => ListInv'
<1>1. BookInv /\ ReceiveInv /\ ProbeInv
  BY DEF EngineInv
<1>2. ASSUME st = "APPLY", Fruitless(w) PROVE ListInv'
  BY <1>2, ListRests
<1>3. ASSUME ToLevels(w), NEW side, NEW px, NEW delta, delta # 0, Launch(side, px, delta)
      PROVE  ListInv'
  BY <1>3, ListLaunch DEF ToLevels
<1>4. ASSUME Applies(w, LookupTypes)
      PROVE  /\ st = "APPLY" /\ cur.msg.qty \in 0..MaxShares /\ cur.msg \in Msgs
             /\ prb.found => prb.entry.qty \in 1..MaxShares
  <2>1. st = "APPLY" /\ LooksUp /\ InTail
    BY <1>4 DEF Applies, LooksUp, InTail
  <2> QED
    BY <1>1, <2>1, FoundOrder, InFlightMessage
<1>5. MaxShares \in Nat
  BY MessageAssumption
<1>6. ASSUME ApplyAdd(w) PROVE ListInv'
  <2>1. Applies(w, LookupTypes)
    BY <1>6 DEF ApplyAdd, Applies, LookupTypes
  <2>2. CASE RefusesAdd
    BY <1>2, <1>4, <1>6, <2>1, <2>2 DEF ApplyAdd, Refuse
  <2>3. CASE ~RefusesAdd
    <3>1. cur.msg.qty # 0
      BY <2>3 DEF RefusesAdd
    <3>2. cur.msg.qty \in 1..MaxShares
      BY <1>4, <1>5, <2>1, <3>1
    <3> QED
      BY <1>3, <1>6, <2>3, <3>2, NotZero DEF ApplyAdd
  <2> QED
    BY <2>2, <2>3
<1>7. ASSUME ApplyReduce(w) PROVE ListInv'
  <2>1. Applies(w, LookupTypes) /\ cur.msg.type \in ReduceTypes
    BY <1>7 DEF ApplyReduce, Applies, LookupTypes
  <2>2. CASE ~prb.found \/ cur.msg.qty > prb.entry.qty
    BY <1>2, <1>4, <1>7, <2>1, <2>2 DEF ApplyReduce, Refuse, Unknown
  <2>3. CASE ~(~prb.found \/ cur.msg.qty > prb.entry.qty)
    <3>1. cur.msg.qty > 0
      BY <1>4, <2>1 DEF RealReductions
    <3>2. cur.msg.qty \in 1..MaxShares
      BY <1>4, <1>5, <2>1, <3>1
    <3> QED
      BY <1>3, <1>7, <2>3, <3>2, NotZero DEF ApplyReduce
  <2> QED
    BY <2>2, <2>3
<1>8. ASSUME ApplyDelete(w) PROVE ListInv'
  <2>1. Applies(w, LookupTypes)
    BY <1>8 DEF ApplyDelete, Applies, LookupTypes
  <2>2. CASE ~prb.found
    BY <1>2, <1>4, <1>8, <2>1, <2>2 DEF ApplyDelete, Unknown
  <2>3. CASE prb.found
    BY <1>3, <1>4, <1>8, <2>1, <2>3, NotZero DEF ApplyDelete
  <2> QED
    BY <2>2, <2>3
<1>9. ASSUME ApplyReplace(w) PROVE ListInv'
  <2>1. Applies(w, LookupTypes)
    BY <1>9 DEF ApplyReplace, Applies, LookupTypes
  <2>2. CASE ~prb.found \/ cur.msg.qty = 0 \/ prb.newFound \/ prb.newFull
    BY <1>2, <1>4, <1>9, <2>1, <2>2 DEF ApplyReplace, Refuse, Unknown
  <2>3. CASE ~(~prb.found \/ cur.msg.qty = 0 \/ prb.newFound \/ prb.newFull)
    BY <1>3, <1>4, <1>9, <2>1, <2>3, NotZero DEF ApplyReplace
  <2> QED
    BY <2>2, <2>3
<1> QED
  BY <1>6, <1>7, <1>8, <1>9

LEMMA ListStep ==
  ASSUME EngineInv, ListInv, RealReductions, NEW w, NEW rdy, Cycle(w, rdy)
  PROVE  ListInv'
<1>1. BookInv /\ ReceiveInv
  BY DEF EngineInv
<1>2. CASE Lv3(w)
  <2>1. /\ st = "LV3" /\ st' \in {"UADD", "EMIT_A"}
        /\ lvl' = [lvl EXCEPT ![lv.key] = Materialize(lv.list, lv2, lv.op.px)]
    BY <1>2 DEF Lv3
  <2>2. PICK l, op, key : l = lv.list /\ op = lv.op /\ key = lv.key
    OBVIOUS
  <2>3. /\ key \in SymIdx \X Sides /\ l = lvl[key] /\ lv2 = Decode(l, op)
        /\ op \in Operation /\ op.delta < QLim /\ DOMAIN lvl = SymIdx \X Sides
    BY <1>1, <2>1, <2>2 DEF BookInv, LevelInv
  <2>4. op.side = key[2] /\ op.delta # 0 /\ GoodList(op.side, l)
    BY <2>1, <2>2, <2>3 DEF ListInv
  <2>5. GoodList(key[2], Materialize(l, lv2, op.px))
    BY <2>3, <2>4, GoodKept
  <2>6. \A k \in SymIdx \X Sides : GoodList(k[2], lvl'[k])
    BY <2>1, <2>2, <2>3, <2>5 DEF ListInv
  <2> QED
    BY <2>1, <2>6 DEF ListInv
<1>3. CASE Uadd(w)
  <2>1. st = "UADD" /\ st' = "LV2" /\ lvl' = lvl
        /\ Launch(uadd.side, uadd.px, Signed(uadd.qty))
    BY <1>3 DEF Uadd
  <2>2. uadd.qty \in 1..MaxShares
    BY <1>1, <2>1 DEF BookInv, PendingInv, GoodEntry
  <2> QED
    BY <2>1, <2>2, NotZero, ListLaunch
<1>4. CASE EmitA(w)
  <2>1. /\ st = "EMIT_A" /\ st' = "EMIT_B" /\ lvl' = lvl /\ emitOk' = emitOk
        /\ emitOk => cap' = [B |-> lvl[<<cur.sym, "B">>], S |-> lvl[<<cur.sym, "S">>]]
    BY <1>4 DEF EmitA, bookVars
  <2>2. cur.sym \in SymIdx
    BY <1>1, <2>1, InFlightMessage DEF InTail
  <2>3. <<cur.sym, "B">> \in SymIdx \X Sides /\ <<cur.sym, "S">> \in SymIdx \X Sides
    BY <2>2 DEF Sides
  <2>4. <<cur.sym, "B">>[2] = "B" /\ <<cur.sym, "S">>[2] = "S"
    OBVIOUS
  <2>5. GoodList("B", lvl[<<cur.sym, "B">>]) /\ GoodList("S", lvl[<<cur.sym, "S">>])
    BY <2>3, <2>4 DEF ListInv
  <2>6. emitOk' => GoodList("B", cap'.B) /\ GoodList("S", cap'.S)
    BY <2>1, <2>5
  <2> QED
    BY <2>1, <2>6 DEF ListInv
<1>5. CASE EmitB(w)
  <2>1. PICK b, s, i, j : /\ b = cap.B /\ s = cap.S
                          /\ i = FirstOne(NonEmpty(b)) /\ j = FirstOne(NonEmpty(s))
    OBVIOUS
  <2>2. /\ st = "EMIT_B" /\ st' = "EMIT_C" /\ lvl' = lvl /\ emitOk' = emitOk /\ cap' = cap
        /\ emitOk => sel' = [B |-> i, S |-> j, depth |-> [B |-> TopN(b), S |-> TopN(s)]]
    BY <1>5, <2>1 DEF EmitB, bookVars
  <2>3. ASSUME emitOk PROVE SelectedBbo' = Best(sel'.depth)
    <3>1. GoodList("B", b) /\ GoodList("S", s)
      BY <2>1, <2>2, <2>3 DEF ListInv
    <3>2. b[i] = b[0] /\ s[j] = s[0]
      BY <2>1, <3>1, BestIsFirst
    <3>3. TopN(b)[1] = b[0] /\ TopN(s)[1] = s[0]
      BY <3>1, TopLevels DEF GoodList
    <3>4. SelectedBbo' = <<PxQty(b[i]), PxQty(s[j])>>
      BY <2>1, <2>2, <2>3 DEF SelectedBbo
    <3>5. Best(sel'.depth) = <<PxQty(TopN(b)[1]), PxQty(TopN(s)[1])>>
      BY <2>2, <2>3 DEF Best
    <3> QED
      BY <3>2, <3>3, <3>4, <3>5
  <2> QED
    BY <2>2, <2>3 DEF ListInv
<1> QED
  BY <1>2, <1>3, <1>4, <1>5, ListRests, ListApplies DEF Cycle, Quiet

LEMMA ListInit ==
  ASSUME Init
  PROVE  ListInv
BY EmptyGood DEF Init, ListInv

\* What Append does, whatever it appends.
LEMMA Appended ==
  ASSUME NEW S, NEW s \in Seq(S), NEW x
  PROVE  /\ Append(s, x) = s \o <<x>>
         /\ DOMAIN s = 1..Len(s) /\ DOMAIN Append(s, x) = 1..(Len(s) + 1)
         /\ \A i \in 1..Len(s) : Append(s, x)[i] = s[i]
         /\ Append(s, x)[Len(s) + 1] = x
OBVIOUS

LEMMA NoDepthType == NoDepth \in Depth
<1>1. EmptyLevel \in Level
  BY LevelAssumption DEF EmptyLevel, Level
<1>2. EmptySide \in Lists
  BY <1>1 DEF EmptySide, Lists
<1> QED
  BY <1>2, TopLevels DEF NoDepth, Depth

LEMMA SelectedDepth ==
  ASSUME EmissionType, sel.depth \in Depth, NEW w, NEW rdy, Cycle(w, rdy)
  PROVE  sel'.depth \in Depth
<1>1. EmitB(w) => sel'.depth \in Depth
  <2> SUFFICES ASSUME EmitB(w), emitOk PROVE sel'.depth \in Depth
    BY DEF EmitB
  <2>1. PICK b, s, i, j : /\ b = cap.B /\ s = cap.S
                          /\ i = FirstOne(NonEmpty(b)) /\ j = FirstOne(NonEmpty(s))
    OBVIOUS
  <2>2. sel' = [B |-> i, S |-> j, depth |-> [B |-> TopN(b), S |-> TopN(s)]]
    BY <2>1 DEF EmitB
  <2>3. TopN(b) \in [1..ND -> Level] /\ TopN(s) \in [1..ND -> Level]
    BY <2>1, TopLevels DEF EmissionType
  <2> QED
    BY <2>2, <2>3 DEF Depth
<1>2. Emit(w, rdy) => sel'.depth \in Depth
  BY NoDepthType DEF Emit, NoSel
<1>3. Inval \/ W0(w) \/ TS(w) \/ Body(w) \/ WaitProbe(w) \/ Swap => sel' = sel
  BY DEF Inval, W0, TS, Body, WaitProbe, Swap, stageVars
<1>4. ToLevels(w) \/ Fruitless(w) => sel' = sel
  BY DEF ToLevels, Fruitless
<1>5. ApplyAdd(w) \/ ApplyReduce(w) \/ ApplyDelete(w) \/ ApplyReplace(w) => sel' = sel
  BY <1>4 DEF ApplyAdd, ApplyReduce, ApplyDelete, ApplyReplace, Refuse, Unknown
<1>6. ApplyDiscard(w) \/ ApplySession(w) \/ Lv2(w) \/ Lv2b(w) \/ Lv3(w) \/ Uadd(w) => sel' = sel
  BY DEF ApplyDiscard, ApplySession, Lv2, Lv2b, Lv3, Uadd, stageVars
<1>7. EmitA(w) \/ EmitWait(w) \/ EmitNothing(w) => sel' = sel
  BY DEF EmitA, EmitWait, EmitNothing, stageVars
<1> QED
  BY <1>1, <1>2, <1>3, <1>5, <1>6, <1>7 DEF Cycle, Quiet

LEMMA PortTypesInit ==
  ASSUME HInit
  PROVE  PortTypes /\ Delivery /\ PairsAgree
<1>1. /\ bboTaken = <<>> /\ depthTaken = <<>> /\ effects = <<>> /\ st = "INVAL"
      /\ sel = NoSel
      /\ out = [bboValid |-> FALSE, depthValid |-> FALSE, loc |-> 0,
                bbo |-> NoBbo, changed |-> FALSE, depth |-> NoDepth]
  BY DEF HInit, Init
<1>2. PortTypes
  <2>1. NoBbo \in Bbo
    BY DEF NoBbo, Bbo
  <2>2. out \in Port /\ sel.depth \in Depth
    BY <1>1, <2>1, NoDepthType, ZenonT(60) DEF Port, NoSel
  <2> QED
    BY <1>1, <2>2 DEF PortTypes
<1>3. Bbos = <<>> /\ Depths = <<>> /\ Owed = <<>>
  BY <1>1 DEF Bbos, Depths, OnPort, Owed
<1>4. Delivery
  BY <1>1, <1>3 DEF Delivery, Locs
<1>5. PairsAgree
  BY <1>3 DEF PairsAgree, Bbos, Depths
<1> QED
  BY <1>2, <1>4, <1>5

LEMMA PortTypesStep ==
  ASSUME EngineInv, PortTypes, NEW w, NEW rdy \in Readiness, Cycle(w, rdy), Record(rdy)
  PROVE  PortTypes'
<1>1. EmissionType /\ ReceiveInv
  BY DEF EngineInv, BookInv
<1>2. sel'.depth \in Depth
  BY <1>1, SelectedDepth DEF PortTypes
<1>3. InTail => cur.msg.loc \in Nat
  <2> SUFFICES ASSUME InTail PROVE cur.msg.loc \in Nat
    OBVIOUS
  <2>1. cur.msg \in Message
    BY <1>1, InFlightMessage, MessageAssumption
  <2>2. cur.msg.loc \in Locates
    BY <2>1 DEF Message
  <2>3. Locates \subseteq Nat
    <3>1. Locates \subseteq 0..NoLocate
      BY EngineAssumption, Zenon
    <3>3. NoLocate \in Nat
      BY DEF NoLocate
    <3>2. \A n \in Nat : 0..n \subseteq Nat
      OBVIOUS
    <3> QED
      BY <3>1, <3>2, <3>3, Zenon
  <2> QED
    BY <2>2, <2>3
<1>4. effects' \in Seq(Nat)
  BY <1>3 DEF Record, InTail, PortTypes
<1>5. CASE Quiet(w, rdy)
  <2>1. out' = Retained(rdy)
    BY <1>5 DEF Quiet
  <2>2. out' \in Port
    BY <2>1, RetainedFields DEF PortTypes
  <2>3. bboTaken' \in Seq(Event) /\ depthTaken' \in Seq(Depth)
    BY <2>1, Retention
  <2> QED
    BY <1>2, <1>4, <2>2, <2>3 DEF PortTypes
<1>6. CASE Emit(w, rdy)
  <2>1. PICK b, c : b = SelectedBbo /\ c = (b # prev[cur.sym])
    OBVIOUS
  <2>2. b \in Bbo /\ c \in BOOLEAN /\ cur.msg.loc \in Nat /\ sel.depth \in Depth
    BY <1>1, <1>3, <1>6, <2>1, SelectedType DEF Emit, InTail, PortTypes
  <2>3. out' = [bboValid |-> TRUE, depthValid |-> TRUE, loc |-> cur.msg.loc, bbo |-> b,
                changed |-> c, depth |-> sel.depth]
    BY <1>6, <2>1 DEF Emit
  <2>4. out' \in Port
    BY <2>2, <2>3, ZenonT(60) DEF Port
  <2>5. bboTaken' = bboTaken /\ depthTaken' = depthTaken
    BY <1>6, Emission
  <2> QED
    BY <1>2, <1>4, <2>4, <2>5 DEF PortTypes
<1> QED
  BY <1>5, <1>6 DEF Cycle

LEMMA TakenTypes ==
  ASSUME PortTypes
  PROVE  Bbos \in Seq(Event) /\ Depths \in Seq(Depth)
<1>1. out.bboValid \in BOOLEAN /\ out.depthValid \in BOOLEAN
      /\ BboOnPort \in Event /\ out.depth \in Depth
  BY OutFields DEF PortTypes
<1> QED
  BY <1>1 DEF PortTypes, Bbos, Depths, OnPort

LEMMA LocsAppend ==
  ASSUME NEW s \in Seq(Event), NEW e
  PROVE  Locs(Append(s, e)) = Locs(s) \o <<e.loc>> /\ Locs(s) \in Seq(Nat)
<1>1. Len(s) \in Nat /\ DOMAIN s = 1..Len(s)
      /\ DOMAIN Append(s, e) = 1..(Len(s) + 1)
  OBVIOUS
<1>2. /\ DOMAIN Locs(s) = 1..Len(s)
      /\ \A i \in 1..Len(s) : Locs(s)[i] = s[i].loc
  BY <1>1 DEF Locs, LocOf
<1>3. Locs(s) \in Seq(Nat) /\ Len(Locs(s)) = Len(s)
  <2>1. Locs(s) = [i \in 1..Len(s) |-> LocOf(s[i])]
    BY <1>1 DEF Locs
  <2>2. \A i \in 1..Len(s) : LocOf(s[i]) \in Nat
    <3>1. \A x \in Event : x.loc \in Nat
      BY DEF Event
    <3>2. \A i \in 1..Len(s) : s[i] \in Event
      OBVIOUS
    <3> QED
      BY <3>1, <3>2 DEF LocOf
  <2> QED
    BY <1>1, <2>1, <2>2
<1>4. /\ DOMAIN Locs(Append(s, e)) = 1..(Len(s) + 1)
      /\ \A i \in 1..(Len(s) + 1) : Locs(Append(s, e))[i] = Append(s, e)[i].loc
      /\ Locs(Append(s, e)) = [i \in 1..(Len(s) + 1) |-> LocOf(Append(s, e)[i])]
  BY <1>1 DEF Locs, LocOf
<1>5. PICK u, v : u = Locs(s) /\ v = e.loc
  OBVIOUS
<1>6. u \in Seq(Nat) /\ Len(u) = Len(s)
  BY <1>3, <1>5
<1>7. u \o <<v>> = [i \in 1..(Len(s) + 1) |-> IF i <= Len(s) THEN u[i] ELSE v]
  BY <1>1, <1>6
<1>8. \A i \in 1..(Len(s) + 1) :
        LocOf(Append(s, e)[i]) = IF i <= Len(s) THEN u[i] ELSE v
  <2> SUFFICES ASSUME NEW i \in 1..(Len(s) + 1)
               PROVE  LocOf(Append(s, e)[i]) = IF i <= Len(s) THEN u[i] ELSE v
    OBVIOUS
  <2>1. CASE i <= Len(s)
    <3>1. i \in 1..Len(s) /\ Append(s, e)[i] = s[i]
      BY <1>1, <2>1
    <3> QED
      BY <1>2, <1>5, <2>1, <3>1 DEF LocOf
  <2>2. CASE ~(i <= Len(s))
    <3>1. Append(s, e)[i] = e
      BY <1>1, <2>2
    <3> QED
      BY <1>5, <2>2, <3>1 DEF LocOf
  <2> QED
    BY <2>1, <2>2
<1>9. Locs(Append(s, e)) = u \o <<v>>
  BY <1>4, <1>7, <1>8
<1> QED
  BY <1>3, <1>5, <1>9

LEMMA LocsLength ==
  ASSUME NEW s \in Seq(Event)
  PROVE  Len(Locs(s)) = Len(s)
<1>1. Len(s) \in Nat /\ DOMAIN s = 1..Len(s)
  OBVIOUS
<1>2. Locs(s) = [i \in 1..Len(s) |-> LocOf(s[i])]
  BY <1>1 DEF Locs
<1> QED
  BY <1>1, <1>2

LEMMA DeliveryStep ==
  ASSUME EngineInv, PortTypes, Delivery,
         NEW w, NEW rdy \in Readiness, Cycle(w, rdy), Record(rdy)
  PROVE  Delivery'
<1>1. /\ Bbos \in Seq(Event) /\ Depths \in Seq(Depth) /\ effects \in Seq(Nat)
      /\ Locs(Bbos) \in Seq(Nat)
  BY TakenTypes, LocsAppend DEF PortTypes
<1>2. CASE Quiet(w, rdy)
  <2>1. Bbos' = Bbos /\ Depths' = Depths
    BY <1>2, Retention DEF Quiet
  <2>2. Locs(Bbos)' = Locs(Bbos)
    BY <2>1 DEF Locs
  <2>3. CASE Affects /\ Owed = <<>> /\ Owed' = <<cur.msg.loc>>
    <3>1. effects' = Append(effects, cur.msg.loc)
      BY <2>3 DEF Record, Affects
    <3>2. effects = Locs(Bbos)
      BY <1>1, <2>3 DEF Delivery
    <3>3. effects' = effects \o <<cur.msg.loc>>
      BY <1>1, <3>1, Appended
    <3> QED
      BY <2>1, <2>2, <2>3, <3>2, <3>3 DEF Delivery
  <2>4. CASE ~Affects /\ Owed' = Owed
    <3>1. effects' = effects
      BY <2>4 DEF Record, Affects
    <3> QED
      BY <2>1, <2>2, <2>4, <3>1 DEF Delivery
  <2> QED
    BY <1>2, <2>3, <2>4, OwedKinds
<1>3. CASE Emit(w, rdy)
  <2>1. PICK e : e = [loc |-> cur.msg.loc, bbo |-> SelectedBbo]
    OBVIOUS
  <2>2. Bbos' = Append(Bbos, e) /\ Depths' = Append(Depths, sel.depth)
    BY <1>3, <2>1, Emission
  <2>3. st = "EMIT_C" /\ emitOk /\ EndTail(w)
    BY <1>3 DEF Emit
  <2>4. effects' = effects /\ Owed = <<cur.msg.loc>>
    BY <2>3 DEF Record, Owed
  <2>5. Owed' = <<>>
    BY <2>3, EndStates DEF Owed
  <2>6. Locs(Bbos)' = Locs(Append(Bbos, e))
    BY <2>2 DEF Locs
  <2>7. Locs(Append(Bbos, e)) = Locs(Bbos) \o <<e.loc>>
    BY <1>1, LocsAppend
  <2>8. Locs(Bbos)' = effects
    BY <2>1, <2>4, <2>6, <2>7 DEF Delivery
  <2>9. Locs(Bbos)' \o Owed' = effects'
    BY <1>1, <2>4, <2>5, <2>8
  <2>10. Len(Depths') = Len(Bbos')
    BY <1>1, <2>2 DEF Delivery
  <2> QED
    BY <2>9, <2>10 DEF Delivery
<1> QED
  BY <1>2, <1>3 DEF Cycle

\* The pairs, through the names of the halves.
LEMMA PairsOfHalves ==
  PairsAgree <=> \A i \in DOMAIN Bbos \cap DOMAIN Depths : Bbos[i].bbo = Best(Depths[i])
BY DEF PairsAgree, Bbos, Depths

LEMMA PairsStep ==
  ASSUME PortTypes, Delivery, ListInv, PairsAgree,
         NEW w, NEW rdy \in Readiness, Cycle(w, rdy), Record(rdy)
  PROVE  PairsAgree'
<1>1. PairsAgree' <=> \A i \in DOMAIN Bbos' \cap DOMAIN Depths' :
                        Bbos'[i].bbo = Best(Depths'[i])
  BY DEF PairsAgree, Bbos, Depths, Best
<1>2. CASE Quiet(w, rdy)
  <2>1. Bbos' = Bbos /\ Depths' = Depths
    BY <1>2, Retention DEF Quiet
  <2> QED
    BY <1>1, <2>1, PairsOfHalves
<1>3. CASE Emit(w, rdy)
  <2>1. PICK e, d : e = [loc |-> cur.msg.loc, bbo |-> SelectedBbo] /\ d = sel.depth
    OBVIOUS
  <2>2. Bbos' = Append(Bbos, e) /\ Depths' = Append(Depths, d)
    BY <1>3, <2>1, Emission
  <2>3. e.bbo = Best(d)
    BY <1>3, <2>1 DEF Emit, ListInv
  <2>4. PICK n \in Nat : n = Len(Bbos) /\ n = Len(Depths)
    BY TakenTypes DEF Delivery
  <2>5. /\ DOMAIN Bbos' = 1..(n + 1) /\ DOMAIN Bbos = 1..n /\ DOMAIN Depths = 1..n
        /\ \A i \in 1..n : Bbos'[i] = Bbos[i] /\ Depths'[i] = Depths[i]
        /\ Bbos'[n + 1] = e /\ Depths'[n + 1] = d
    <3>1. /\ DOMAIN Bbos = 1..n /\ DOMAIN Append(Bbos, e) = 1..(n + 1)
          /\ \A i \in 1..n : Append(Bbos, e)[i] = Bbos[i]
          /\ Append(Bbos, e)[n + 1] = e
      <4>1. Bbos \in Seq(Event) /\ n = Len(Bbos)
        BY <2>4, TakenTypes
      <4> QED
        BY <4>1, Appended
    <3>2. /\ DOMAIN Depths = 1..n /\ DOMAIN Append(Depths, d) = 1..(n + 1)
          /\ \A i \in 1..n : Append(Depths, d)[i] = Depths[i]
          /\ Append(Depths, d)[n + 1] = d
      <4>1. Depths \in Seq(Depth) /\ n = Len(Depths)
        BY <2>4, TakenTypes
      <4> QED
        BY <4>1, Appended
    <3> QED
      BY <2>2, <3>1, <3>2, Zenon
  <2>6. \A i \in 1..n : Bbos'[i].bbo = Best(Depths'[i])
    BY <2>5, PairsOfHalves
  <2>7. Bbos'[n + 1].bbo = Best(Depths'[n + 1])
    BY <2>3, <2>5
  <2>8. \A i \in 1..(n + 1) : i \in 1..n \/ i = n + 1
    OBVIOUS
  <2> QED
    BY <1>1, <2>5, <2>6, <2>7, <2>8
<1> QED
  BY <1>2, <1>3 DEF Cycle

PortInv == PortTypes /\ Delivery

LEMMA HistoryStep == [HNext]_hvars => [Next]_vars
BY DEF HNext, HCycle, Next, hvars

LEMMA HistoryStutters ==
  ASSUME UNCHANGED hvars
  PROVE  /\ PortInv => PortInv'
         /\ SymbolInv => SymbolInv'
         /\ ListInv => ListInv'
         /\ PairsAgree => PairsAgree'
<1>1. /\ st' = st /\ cur' = cur /\ nx' = nx /\ locMap' = locMap /\ locCnt' = locCnt
      /\ lvl' = lvl /\ lv' = lv /\ emitOk' = emitOk /\ cap' = cap /\ sel' = sel
      /\ out' = out /\ effects' = effects
      /\ bboTaken' = bboTaken /\ depthTaken' = depthTaken
  BY DEF hvars, history, vars, recvVars, bookVars, stageVars
<1>2. PortInv => PortInv'
  BY <1>1 DEF PortInv, PortTypes, Delivery, Bbos, Depths, BboOnPort, Owed, Locs
<1>3. SymbolInv => SymbolInv'
  BY <1>1 DEF SymbolInv, MapInv, SymbolRight, Belongs
<1>4. ListInv => ListInv'
  BY <1>1, ListFrame DEF Stages
<1>5. PairsAgree => PairsAgree'
  BY <1>1 DEF PairsAgree, BboOnPort
<1> QED
  BY <1>2, <1>3, <1>4, <1>5

LEMMA PortInvNext == EngineInv /\ PortInv /\ [HNext]_hvars => PortInv'
<1>1. ASSUME EngineInv, PortInv, NEW w \in Offers, NEW rdy \in Readiness, HCycle(w, rdy)
      PROVE  PortInv'
  BY <1>1, PortTypesStep, DeliveryStep DEF HCycle, PortInv
<1> QED
  BY <1>1, HistoryStutters DEF HNext

LEMMA EngineKept == EngineInv /\ [HNext]_hvars => EngineInv'
BY HistoryStep, EngineInvNext

(***************************************************************************)
(* Theorems on the ports                                                   *)
(***************************************************************************)
\* However late either consumer is, the events that were taken, those that the
\* ports hold and the one on its way are exactly the effects of the messages,
\* in their order: no half of a pair is lost, repeated or overtaken.
THEOREM DeliveredAlways == HSpec => []Delivered
<1>1. HInit => EngineInv /\ PortInv
  BY EngineInvInit, PortTypesInit DEF HInit, PortInv
<1>2. EngineInv /\ PortInv /\ [HNext]_hvars => EngineInv' /\ PortInv'
  BY EngineKept, PortInvNext
<1>3. PortInv => Delivered
  <2> SUFFICES ASSUME PortInv PROVE Delivered
    OBVIOUS
  <2>1. /\ Bbos \in Seq(Event) /\ Depths \in Seq(Depth) /\ effects \in Seq(Nat)
        /\ bboTaken \in Seq(Event) /\ depthTaken \in Seq(Depth)
        /\ Locs(Bbos) \o Owed = effects /\ Len(Depths) = Len(Bbos)
    BY TakenTypes DEF PortInv, PortTypes, Delivery
  <2>2. Locs(Bbos) = Locs(bboTaken) \o OnPort(out.bboValid, out.loc)
    <3>1. CASE out.bboValid
      <4>1. Bbos = Append(bboTaken, BboOnPort) /\ OnPort(out.bboValid, out.loc) = <<out.loc>>
        BY <2>1, <3>1, Appended DEF Bbos, OnPort
      <4>2. BboOnPort.loc = out.loc
        BY DEF BboOnPort
      <4> QED
        BY <2>1, <4>1, <4>2, LocsAppend
    <3>2. CASE ~out.bboValid
      <4>1. Bbos = bboTaken /\ OnPort(out.bboValid, out.loc) = <<>>
        BY <2>1, <3>2 DEF Bbos, OnPort
      <4>2. Locs(bboTaken) \in Seq(Nat)
        BY <2>1, LocsAppend
      <4> QED
        BY <4>1, <4>2
    <3> QED
      BY <3>1, <3>2
  <2>3. Len(Depths) = Len(depthTaken) + IF out.depthValid THEN 1 ELSE 0
    BY <2>1 DEF Depths, OnPort
  <2>4. Owed = <<>> \/ Owed = <<cur.msg.loc>>
    BY DEF Owed
  <2>5. Len(effects) = Len(Bbos) + Len(Owed)
    <3>1. Len(Locs(Bbos)) = Len(Bbos) /\ Locs(Bbos) \in Seq(Nat)
      BY <2>1, LocsLength, LocsAppend
    <3>2. ASSUME NEW s \in Seq(Nat), NEW x
          PROVE  Len(s \o <<x>>) = Len(s) + Len(<<x>>) /\ Len(s \o <<>>) = Len(s) + Len(<<>>)
      OBVIOUS
    <3>3. PICK s, x : s \in Seq(Nat) /\ s = Locs(Bbos) /\ x = cur.msg.loc
      BY <3>1
    <3>4. effects = s \o Owed
      BY <2>1, <3>3, Zenon
    <3>5. Len(effects) = Len(s) + Len(Owed)
      <4>1. CASE Owed = <<>>
        BY <3>2, <3>4, <4>1
      <4>2. CASE Owed = <<x>>
        BY <3>2, <3>4, <4>2
      <4> QED
        BY <2>4, <3>3, <4>1, <4>2, Zenon
    <3>6. Len(s) = Len(Bbos)
      BY <3>1, <3>3, Zenon
    <3> QED
      BY <3>5, <3>6, Zenon
  <2>6. Len(Owed) \in Nat /\ Len(Bbos) \in Nat /\ Len(effects) \in Nat
    BY <2>1, <2>4
  <2> QED
    BY <2>1, <2>2, <2>3, <2>5, <2>6 DEF Delivered
<1> QED
  BY <1>1, <1>2, <1>3, PTL DEF HSpec

\* A message works on the book of its own symbol from its first word to its
\* last, through the double buffer and the swap, while other symbols register.
\* NamedLocates cannot be spared: a locate of 65535 matches every free place
\* of the map.
THEOREM SymbolRightAlways ==
  ASSUME NamedLocates
  PROVE  HSpec => []SymbolRight
<1>1. HInit => ReceiveInv /\ SymbolInv
  BY ReceiveInvInit, SymbolInit DEF HInit
<1>2. ReceiveInv /\ SymbolInv /\ [HNext]_hvars => ReceiveInv' /\ SymbolInv'
  <2>1. ASSUME ReceiveInv, SymbolInv, NEW w \in Offers, NEW rdy \in Readiness,
               HCycle(w, rdy)
        PROVE  SymbolInv'
    BY <2>1, SymbolStep DEF HCycle
  <2> QED
    BY <2>1, HistoryStep, HistoryStutters, ReceiveInvNext DEF HNext
<1>3. SymbolInv => SymbolRight
  BY DEF SymbolInv
<1> QED
  BY <1>1, <1>2, <1>3, PTL DEF HSpec

\* The k-th depth is the k-th event's: the levels it shows best are the BBO
\* that went out with it, although one is found by a search for the first
\* level in use and the other is the top of the list.  RealReductions cannot
\* be spared: a reduction by no shares of an order whose level was discarded
\* inserts a level of no shares.
THEOREM PairsAgreeAlways ==
  ASSUME RealReductions
  PROVE  HSpec => []PairsAgree
<1>1. HInit => EngineInv /\ PortInv /\ ListInv /\ PairsAgree
  BY EngineInvInit, PortTypesInit, ListInit DEF HInit, PortInv
<1>2. EngineInv /\ PortInv /\ ListInv /\ PairsAgree /\ [HNext]_hvars
        => EngineInv' /\ PortInv' /\ ListInv' /\ PairsAgree'
  <2>1. ASSUME EngineInv, PortInv, ListInv, PairsAgree,
               NEW w \in Offers, NEW rdy \in Readiness, HCycle(w, rdy)
        PROVE  ListInv' /\ PairsAgree'
    BY <2>1, ListStep, PairsStep DEF HCycle, PortInv
  <2> QED
    BY <2>1, EngineKept, PortInvNext, HistoryStutters DEF HNext
<1> QED
  BY <1>1, <1>2, PTL DEF HSpec

=============================================================================
