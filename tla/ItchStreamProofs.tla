-------------------------- MODULE ItchStreamProofs --------------------------
(***************************************************************************)
(* ItchStream for every value of its constants: the byte queue never runs  *)
(* over nor below zero, whatever the bus, the datagrams and the idle       *)
(* cycles (TypeCorrect); and for the traffic that the module ItchStream    *)
(* describes, the parser looks for headers and messages where they are     *)
(* (FramedAlways), signals the gaps (GapsFoundAlways), tells the           *)
(* well-formed datagrams from the others (JudgedAlways) and sends the      *)
(* words of the oracle's registers (RegistersAlways).                      *)
(***************************************************************************)
EXTENDS ItchStream, WellFoundedInduction, FiniteSetTheorems, TLAPS

\* What the queue's bounds need besides the types: whose bytes arrive, and
\* how long the captured message is.
ParserInv ==
  /\ TypeOK
  /\ tx.dg \in Datagrams \cup {NoDatagram}
  /\ msgReg.len \in Nat

\* The part of it that is the parser's own.
OwnTypes ==
  /\ st \in {"HDR", "LEN", "CAP", "W0", "TS", "BODY", "NEXT", "DRAIN"}
  /\ qn \in 0..QBUFW
  /\ dropLeft \in 0..511
  /\ msgIdx \in Nat /\ bi \in Nat /\ packLeft \in Nat
  /\ eopSeen \in BOOLEAN /\ dropPacket \in BOOLEAN
  /\ gap \in BOOLEAN /\ error \in BOOLEAN
  /\ msgReg.len \in Nat

(***************************************************************************)
(* Datagrams and beats                                                     *)
(***************************************************************************)
\* The widths: a beat has four or eight bytes, the queue a margin of one beat.
LEMMA Widths ==
  /\ BYTES \in {4, 8}
  /\ QBUFW \in Nat /\ QBUFW >= HeaderBytes + BYTES - 1
<1>1. DW = 32 \/ DW = 64
  BY ParserAssumption
<1>2. BYTES \in {4, 8}
  BY <1>1 DEF BYTES
<1>3. QB \in Nat /\ QB >= HeaderBytes
  BY ParserAssumption DEF HeaderBytes
<1> QED
  BY <1>2, <1>3 DEF QBUFW, HeaderBytes

\* The types of what a datagram declares.
LEMMA DatagramFields ==
  ASSUME NEW d \in Datagrams \cup {NoDatagram}
  PROVE  /\ d.size \in Nat \ {0} /\ d.count \in Nat /\ d.badBeat \in Nat
         /\ d.msgs \in Seq(Wire)
<1>1. CASE d \in Datagrams
  BY <1>1, ParserAssumption DEF Datagram
<1>2. CASE d = NoDatagram
  BY <1>2 DEF NoDatagram
<1> QED
  BY <1>1, <1>2

\* The length of a message is a number.
LEMMA WireLength ==
  ASSUME NEW s \in Seq(Wire), NEW j \in 1..Len(s)
  PROVE  s[j].len \in Nat
<1>1. s[j] \in Wire
  OBVIOUS
<1>2. s[j].len \in 1..250
  BY <1>1, Zenon DEF Wire
<1>3. \A len \in 1..250 : len \in Nat
  OBVIOUS
<1> QED
  BY <1>2, <1>3, Zenon

\* Whatever the parser reads at the front has the length of some message.
LEMMA LengthRead ==
  ASSUME tx.dg \in Datagrams \cup {NoDatagram}, NEW w \in WiresHere
  PROVE  w.m.len \in Nat
<1> DEFINE starts == {j \in 1..Len(tx.dg.msgs) : Begin(tx.dg, j) = Front}
<1>1. CASE starts = {}
  <2>1. PICK m \in AnyWire : w = [j |-> 0, m |-> m]
    BY <1>1 DEF WiresHere
  <2>2. PICK d \in Datagrams : d.msgs # <<>> /\ m = d.msgs[1]
    BY DEF AnyWire
  <2>3. d.msgs \in Seq(Wire)
    BY DatagramFields
  <2>4. 1 \in 1..Len(d.msgs)
    BY <2>2, <2>3
  <2> QED
    BY <2>1, <2>2, <2>3, <2>4, WireLength
<1>2. CASE starts # {}
  <2>1. PICK j \in starts : w = [j |-> j, m |-> tx.dg.msgs[j]]
    BY <1>2 DEF WiresHere
  <2>2. tx.dg.msgs \in Seq(Wire)
    BY DatagramFields
  <2> QED
    BY <2>1, <2>2, WireLength
<1> QED
  BY <1>1, <1>2

\* A beat has at most the bytes of the bus and ends inside its datagram.
LEMMA BeatFields ==
  ASSUME NEW d \in Datagrams \cup {NoDatagram}, NEW seq, NEW n,
         NEW pos \in Nat, pos < d.size,
         NEW o, o = Beat(d, seq, n, pos)
  PROVE  /\ o.valid = TRUE /\ o.keepOk \in BOOLEAN /\ o.last \in BOOLEAN
         /\ o.bytes \in 0..BYTES
         /\ o.dg = d /\ o.pos + o.bytes \in 0..d.size
<1>1. d.size \in Nat \ {0}
  BY DatagramFields
<1>2. BYTES \in {4, 8}
  BY Widths
<1> QED
  BY <1>1, <1>2 DEF Beat

\* What is offered is typed, and ends inside its datagram.
LEMMA OfferFields ==
  ASSUME ParserInv, NEW o \in Offers
  PROVE  /\ o.valid \in BOOLEAN /\ o.keepOk \in BOOLEAN /\ o.last \in BOOLEAN
         /\ o.bytes \in 0..BYTES
         /\ o.valid => /\ o.dg \in Datagrams \cup {NoDatagram}
                       /\ o.pos + o.bytes \in 0..o.dg.size
<1>1. tx.pos \in Nat /\ tx.dg \in Datagrams \cup {NoDatagram}
  BY DEF ParserInv, TypeOK
<1>2. CASE \E k \in IdleKeeps : o = NoBeat(k)
  BY <1>2, ParserAssumption DEF NoBeat
<1>3. ASSUME NEW d \in Datagrams \cup {NoDatagram}, NEW seq, NEW n,
             NEW pos \in Nat, pos < d.size, o = Beat(d, seq, n, pos)
      PROVE  /\ o.valid \in BOOLEAN /\ o.keepOk \in BOOLEAN /\ o.last \in BOOLEAN
             /\ o.bytes \in 0..BYTES
             /\ o.valid => /\ o.dg \in Datagrams \cup {NoDatagram}
                           /\ o.pos + o.bytes \in 0..o.dg.size
  <2>1. o.valid = TRUE /\ o.keepOk \in BOOLEAN /\ o.last \in BOOLEAN
    BY <1>3, BeatFields
  <2>2. o.bytes \in 0..BYTES
    BY <1>3, BeatFields
  <2>3. o.dg = d
    BY <1>3 DEF Beat
  <2>4. o.pos + o.bytes \in 0..d.size
    BY <1>3, BeatFields
  <2> QED
    BY <2>1, <2>2, <2>3, <2>4
<1>4. CASE tx.pos < tx.dg.size /\ o = Beat(tx.dg, tx.seq, tx.n, tx.pos)
  BY <1>1, <1>3, <1>4
<1>5. CASE \E d \in Datagrams : o = Beat(d, nextSeq + d.skip, tx.n + 1, 0)
  <2>1. PICK d \in Datagrams : o = Beat(d, nextSeq + d.skip, tx.n + 1, 0)
    BY <1>5
  <2>2. 0 < d.size /\ 0 \in Nat
    BY DatagramFields
  <2> QED
    BY <1>3, <2>1, <2>2
<1> QED
  BY <1>2, <1>4, <1>5 DEF Offers

(***************************************************************************)
(* The queue                                                               *)
(***************************************************************************)
\* A drain takes no more than there is.
LEMMA DrainBounded ==
  ASSUME ParserInv
  PROVE  BaseN \in 0..qn
<1>1. qn \in Nat /\ dropLeft \in Nat /\ msgReg.len \in Nat
  BY Widths DEF ParserInv, TypeOK
<1>2. DrainNeed \in Nat
  BY <1>1 DEF DrainNeed, HeaderBytes
<1>3. DrainInt \in 0..qn
  BY <1>1, <1>2 DEF DrainInt
<1> QED
  BY <1>1, <1>3 DEF BaseN

\* What is drained, appended or kept of a crossing beat fits in the queue.
LEMMA QueueBounded ==
  ASSUME ParserInv, NEW o \in Offers
  PROVE  QnPost(o) \in Nat /\ Queue(o) \in 0..QBUFW
<1>1. /\ qn \in 0..QBUFW /\ dropLeft \in Nat /\ o.bytes \in Nat /\ BYTES \in Nat
      /\ o.bytes <= BYTES /\ BYTES <= QBUFW /\ QBUFW \in Nat
  BY Widths, OfferFields DEF ParserInv, TypeOK, HeaderBytes
<1>2. BaseN \in Nat /\ BaseN <= qn
  BY <1>1, DrainBounded
<1>3. QnPost(o) \in Nat /\ QnPost(o) <= BaseN + o.bytes
  BY <1>1, <1>2 DEF QnPost
<1>4. CASE DrainStrad(o)
  <2>1. o.bytes > dropLeft
    BY <1>4 DEF DrainStrad
  <2>2. Queue(o) = o.bytes - dropLeft
    BY <1>4 DEF Queue
  <2>3. o.bytes - dropLeft \in 0..QBUFW
    BY <1>1, <2>1
  <2> QED
    BY <1>3, <2>2, <2>3
<1>5. CASE ~DrainStrad(o) /\ DrainDrop(o)
  BY <1>1, <1>3, <1>5 DEF Queue
<1>6. CASE ~DrainStrad(o) /\ ~DrainDrop(o) /\ Room(o)
  <2>1. BaseN + o.bytes <= QBUFW
    BY <1>6 DEF Room
  <2> QED
    BY <1>1, <1>2, <1>3, <1>6, <2>1 DEF Queue
<1>7. CASE ~DrainStrad(o) /\ ~DrainDrop(o) /\ ~Room(o)
  BY <1>1, <1>2, <1>3, <1>7 DEF Queue
<1> QED
  BY <1>4, <1>5, <1>6, <1>7

(***************************************************************************)
(* The steps                                                               *)
(***************************************************************************)
LEMMA SendKeeps ==
  ASSUME ParserInv, NEW o \in Offers, Send(o)
  PROVE  tx'.dg \in Datagrams \cup {NoDatagram} /\ tx'.pos \in 0..tx'.dg.size
<1>1. CASE Take(o)
  <2>1. o.valid
    BY <1>1 DEF Take
  <2>2. o.dg \in Datagrams \cup {NoDatagram} /\ o.pos + o.bytes \in 0..o.dg.size
    BY <2>1, OfferFields
  <2>3. tx' = [dg |-> o.dg, seq |-> o.seq, n |-> o.n, pos |-> o.pos + o.bytes]
    BY <1>1 DEF Send
  <2> QED
    BY <2>2, <2>3
<1>2. CASE ~Take(o)
  BY <1>2 DEF Send, senderVars, ParserInv, TypeOK
<1> QED
  BY <1>1, <1>2

\* The whole state of the parser, of which each action changes a few parts.
LEMMA OwnTypesHold ==
  ASSUME ParserInv
  PROVE  OwnTypes
BY DEF ParserInv, TypeOK, OwnTypes

\* An error resets the queue; the rest of the state keeps its types.
LEMMA FailKeeps ==
  ASSUME NEW drop \in BOOLEAN, Fail(drop)
  PROVE  /\ st' = "HDR" /\ qn' \in 0..QBUFW
         /\ eopSeen' \in BOOLEAN /\ dropPacket' \in BOOLEAN /\ error' \in BOOLEAN
<1>1. st' = "HDR" /\ eopSeen' \in BOOLEAN /\ dropPacket' \in BOOLEAN /\ error' \in BOOLEAN
  BY Zenon DEF Fail
<1>2. qn' \in 0..QBUFW
  BY Widths DEF Fail
<1> QED
  BY <1>1, <1>2

LEMMA AdvanceKeeps ==
  ASSUME ParserInv, NEW o \in Offers, NEW next, Advance(o, next)
  PROVE  /\ st' = next /\ qn' \in 0..QBUFW
         /\ eopSeen' \in BOOLEAN /\ error' \in BOOLEAN
<1>1. Queue(o) \in 0..QBUFW
  BY QueueBounded
<1>2. eopSeen \in BOOLEAN /\ Take(o) \in BOOLEAN /\ o.last \in BOOLEAN
  BY OfferFields DEF ParserInv, TypeOK, Take
<1> QED
  BY <1>1, <1>2 DEF Advance, Latch

LEMMA EndBooleans ==
  ASSUME ParserInv, NEW o \in Offers
  PROVE  EopEff(o) \in BOOLEAN /\ dropPacket \in BOOLEAN
BY OfferFields DEF ParserInv, TypeOK, EopEff, Take

\* The end of a message.
LEMMA CloseKeeps ==
  ASSUME ParserInv, NEW o \in Offers, NEW drops, Close(o, drops)
  PROVE  /\ st' \in {"HDR", "LEN"} /\ qn' \in 0..QBUFW /\ packLeft' \in Nat
         /\ eopSeen' \in BOOLEAN /\ dropPacket' \in BOOLEAN /\ error' \in BOOLEAN
<1>1. packLeft \in Nat /\ dropPacket \in BOOLEAN /\ EopEff(o) \in BOOLEAN
  BY EndBooleans DEF ParserInv, TypeOK
<1>2. CASE packLeft > 1
  BY <1>1, <1>2, AdvanceKeeps DEF Close
<1>3. CASE ~(packLeft > 1) /\ Ends(o)
  BY <1>1, <1>3, QueueBounded DEF Close
<1>4. CASE ~(packLeft > 1) /\ ~Ends(o)
  <2>1. (IF drops THEN ~EopEff(o) ELSE dropPacket) \in BOOLEAN
    BY <1>1
  <2>2. Fail(IF drops THEN ~EopEff(o) ELSE dropPacket) /\ packLeft' = 0
    BY <1>4 DEF Close
  <2> QED
    BY <2>1, <2>2, FailKeeps
<1> QED
  BY <1>2, <1>3, <1>4

\* The actions that no message is read in.
LEMMA FramingKeeps ==
  ASSUME ParserInv, NEW o \in Offers, NEW rdy,
         \/ Dropping(o, rdy) \/ BadKeep(o, rdy) \/ Hdr(o, rdy) \/ HdrShort(o, rdy)
         \/ Drained(o, rdy) \/ Draining(o, rdy)
  PROVE  OwnTypes'
<1>1. OwnTypes
  BY OwnTypesHold
<1>2. EopEff(o) \in BOOLEAN /\ Take(o) \in BOOLEAN /\ o.last \in BOOLEAN
  BY EndBooleans, OfferFields DEF Take
<1>3. 0 \in 0..QBUFW /\ Queue(o) \in 0..QBUFW
  BY Widths, QueueBounded
<1>4. CASE Dropping(o, rdy)
  <2>1. eopSeen' \in BOOLEAN /\ dropPacket' \in BOOLEAN
    BY <1>1, <1>2, <1>4 DEF Dropping, OwnTypes
  <2>2. packLeft' \in Nat
    BY <1>1, <1>4 DEF Dropping, OwnTypes
  <2>3. st' \in {st, "HDR"} /\ gap' = FALSE /\ error' = FALSE
    BY <1>4 DEF Dropping
  <2>4. UNCHANGED <<qn, dropLeft, recordVars>>
    BY <1>4 DEF Dropping
  <2> QED
    BY <1>1, <2>1, <2>2, <2>3, <2>4 DEF OwnTypes, recordVars
<1>5. CASE BadKeep(o, rdy)
  <2>1. eopSeen' \in BOOLEAN /\ dropPacket' \in BOOLEAN
    BY <1>1, <1>2, <1>5 DEF BadKeep, OwnTypes
  <2>2. packLeft' \in Nat
    BY <1>1, <1>5 DEF BadKeep, OwnTypes
  <2>3. st' \in {st, "HDR"} /\ gap' = FALSE /\ error' = TRUE /\ qn' = 0
    BY <1>5 DEF BadKeep
  <2>4. UNCHANGED <<dropLeft, recordVars>>
    BY <1>5 DEF BadKeep
  <2> QED
    BY <1>1, <1>3, <2>1, <2>2, <2>3, <2>4 DEF OwnTypes, recordVars
<1>6. CASE Hdr(o, rdy)
  <2>1. packLeft' = HeaderHere.count /\ gap' \in BOOLEAN /\ UNCHANGED <<dropLeft, recordVars>>
    BY <1>6 DEF Hdr
  <2>2. packLeft' \in Nat
    BY <2>1, DatagramFields DEF ParserInv, HeaderHere
  <2>3. /\ st' \in {"HDR", "LEN"} /\ qn' \in 0..QBUFW
        /\ eopSeen' \in BOOLEAN /\ dropPacket' \in BOOLEAN /\ error' \in BOOLEAN
    <3>1. CASE HeaderHere.count > 0
      BY <1>1, <1>6, <3>1, AdvanceKeeps DEF Hdr, OwnTypes
    <3>2. CASE ~(HeaderHere.count > 0) /\ Ends(o)
      BY <1>1, <1>3, <1>6, <3>2 DEF Hdr, OwnTypes
    <3>3. CASE ~(HeaderHere.count > 0) /\ ~Ends(o)
      <4>1. Fail(~EopEff(o))
        BY <1>6, <3>3 DEF Hdr
      <4>2. (~EopEff(o)) \in BOOLEAN
        BY Zenon
      <4> QED
        BY <4>1, <4>2, FailKeeps
    <3> QED
      BY <3>1, <3>2, <3>3
  <2> QED
    BY <1>1, <2>1, <2>2, <2>3 DEF OwnTypes, recordVars
<1>7. CASE HdrShort(o, rdy)
  <2>1. /\ st' \in {"HDR"} /\ qn' \in 0..QBUFW
        /\ eopSeen' \in BOOLEAN /\ dropPacket' \in BOOLEAN /\ error' \in BOOLEAN
    BY <1>1, <1>7, AdvanceKeeps, FailKeeps DEF HdrShort, OwnTypes
  <2>2. gap' = FALSE /\ UNCHANGED <<dropLeft, packLeft, recordVars>>
    BY <1>7 DEF HdrShort, headerVars
  <2> QED
    BY <1>1, <2>1, <2>2 DEF OwnTypes, recordVars
<1>8. CASE Drained(o, rdy)
  <2>1. gap' = FALSE /\ UNCHANGED <<dropLeft, recordVars>> /\ Close(o, FALSE)
    BY <1>8 DEF Drained
  <2> QED
    BY <1>1, <2>1, CloseKeeps DEF OwnTypes, recordVars
<1>9. CASE Draining(o, rdy)
  <2>1. gap' = FALSE /\ UNCHANGED recordVars
    BY <1>9 DEF Draining
  <2>2. /\ st' \in {"HDR", "DRAIN"} /\ qn' \in 0..QBUFW
        /\ eopSeen' \in BOOLEAN /\ dropPacket' \in BOOLEAN /\ error' \in BOOLEAN
    BY <1>1, <1>9, AdvanceKeeps, FailKeeps DEF Draining, OwnTypes
  <2>3. packLeft' \in Nat
    BY <1>1, <1>9 DEF Draining, OwnTypes
  <2>4. dropLeft' \in 0..511
    <3>1. dropLeft \in 0..511 /\ o.bytes \in Nat
      BY <1>1, Widths, OfferFields DEF OwnTypes
    <3>2. DrainDrop(o) => o.bytes <= dropLeft
      BY DEF DrainDrop
    <3>3. dropLeft' \in {dropLeft, 0} \/ (DrainDrop(o) /\ dropLeft' = dropLeft - o.bytes)
      BY <1>9 DEF Draining
    <3>4. CASE dropLeft' \in {dropLeft, 0}
      BY <3>1, <3>4
    <3>5. CASE DrainDrop(o) /\ dropLeft' = dropLeft - o.bytes
      <4>1. o.bytes <= dropLeft
        BY <3>2, <3>5
      <4>2. dropLeft \in Nat /\ dropLeft <= 511
        BY <3>1
      <4>3. \A a, b \in Nat : b <= a /\ a <= 511 => a - b \in 0..511
        OBVIOUS
      <4>4. dropLeft - o.bytes \in 0..511
        BY <3>1, <4>1, <4>2, <4>3, Zenon
      <4> QED
        BY <3>5, <4>4
    <3> QED
      BY <3>3, <3>4, <3>5
  <2> QED
    BY <1>1, <2>1, <2>2, <2>3, <2>4 DEF OwnTypes, recordVars
<1> QED
  BY <1>4, <1>5, <1>6, <1>7, <1>8, <1>9

\* The actions that wait for a message, capture it or skip it.
LEMMA ReadingKeeps ==
  ASSUME ParserInv, NEW o \in Offers, NEW rdy,
         Capture(o, rdy) \/ Skip(o, rdy) \/ LenShort(o, rdy)
  PROVE  OwnTypes'
<1>1. OwnTypes
  BY OwnTypesHold
<1>2. Take(o) \in BOOLEAN /\ o.last \in BOOLEAN
  BY OfferFields DEF Take
<1>3. 0 \in 0..QBUFW /\ Queue(o) \in 0..QBUFW /\ QnPost(o) \in Nat
  BY Widths, QueueBounded
<1>4. CASE Capture(o, rdy)
  <2>1. PICK w \in WiresHere :
          /\ msgReg' = [n |-> tx.n, j |-> w.j, type |-> w.m.type, len |-> w.m.len]
          /\ error' = (w.m.len < CommonHeader \/ ~LengthOk(w.m))
    BY <1>4 DEF Capture
  <2>2. w.m.len \in Nat
    BY LengthRead DEF ParserInv
  <2>3. msgReg'.len \in Nat /\ error' \in BOOLEAN
    BY <2>1, <2>2
  <2>4. eopSeen' \in BOOLEAN
    BY <1>1, <1>2, <1>4 DEF Capture, Latch, OwnTypes
  <2>5. /\ bi' = 0 /\ st' = "CAP" /\ qn' = Queue(o) /\ gap' = FALSE
        /\ UNCHANGED <<dropLeft, dropPacket, packLeft, msgIdx>>
    BY <1>4 DEF Capture, headerVars
  <2> QED
    BY <1>1, <1>3, <2>3, <2>4, <2>5 DEF OwnTypes
<1>5. CASE Skip(o, rdy)
  <2>1. PICK w \in WiresHere :
          /\ dropLeft' = ToSkip(o, w.m.len)
          /\ error' = (qn > 2 /\ ~LengthOk(w.m))
    BY <1>5 DEF Skip
  <2>2. w.m.len \in Nat
    BY LengthRead DEF ParserInv
  <2>3. ToSkip(o, w.m.len) \in 0..511
    <3>1. \A q \in Int : q % 512 \in 0..511
      OBVIOUS
    <3>2. 2 + w.m.len - QnPost(o) \in Int
      BY <1>3, <2>2
    <3> QED
      BY <3>1, <3>2, Zenon DEF ToSkip
  <2>4. error' \in BOOLEAN
    BY <2>1
  <2>5. eopSeen' \in BOOLEAN
    BY <1>1, <1>2, <1>5 DEF Skip, Latch, OwnTypes
  <2>6. /\ st' = "DRAIN" /\ qn' = 0 /\ gap' = FALSE
        /\ UNCHANGED <<dropPacket, packLeft, recordVars>>
    BY <1>5 DEF Skip, headerVars
  <2> QED
    BY <1>1, <1>3, <2>1, <2>3, <2>4, <2>5, <2>6 DEF OwnTypes, recordVars
<1>6. CASE LenShort(o, rdy)
  <2>1. gap' = FALSE /\ UNCHANGED <<dropLeft, recordVars>>
    BY <1>6 DEF LenShort
  <2>2. CASE eopSeen
    <3>1. Fail(dropPacket) /\ packLeft' = 0
      BY <1>6, <2>2 DEF LenShort
    <3>2. dropPacket \in BOOLEAN
      BY <1>1 DEF OwnTypes
    <3>3. /\ st' = "HDR" /\ qn' \in 0..QBUFW
          /\ eopSeen' \in BOOLEAN /\ dropPacket' \in BOOLEAN /\ error' \in BOOLEAN
      BY <3>1, <3>2, FailKeeps
    <3> QED
      BY <1>1, <2>1, <3>1, <3>3 DEF OwnTypes, recordVars
  <2>3. CASE ~eopSeen
    <3>1. Advance(o, "LEN") /\ UNCHANGED <<dropPacket, packLeft>>
      BY <1>6, <2>3 DEF LenShort
    <3>2. /\ st' = "LEN" /\ qn' \in 0..QBUFW
          /\ eopSeen' \in BOOLEAN /\ error' \in BOOLEAN
      BY <3>1, AdvanceKeeps
    <3> QED
      BY <1>1, <2>1, <3>1, <3>2 DEF OwnTypes, recordVars
  <2> QED
    BY <2>2, <2>3
<1> QED
  BY <1>4, <1>5, <1>6

\* A state of the emission that goes on.
LEMMA EmissionKeeps ==
  ASSUME ParserInv, NEW o \in Offers, NEW s, Emission(o, s, st'),
         st' \in {"W0", "TS", "BODY", "NEXT"}, bi' \in {bi, bi + 1}
  PROVE  OwnTypes'
<1>1. OwnTypes
  BY OwnTypesHold
<1>2. Advance(o, st') /\ gap' = FALSE
  BY DEF Emission
<1>3. UNCHANGED <<dropLeft, dropPacket, packLeft, msgIdx, msgReg>>
  BY DEF Emission, headerVars
<1>4. qn' \in 0..QBUFW /\ eopSeen' \in BOOLEAN /\ error' \in BOOLEAN
  BY <1>2, AdvanceKeeps
<1>5. bi' \in Nat
  BY <1>1 DEF OwnTypes
<1> QED
  BY <1>1, <1>2, <1>3, <1>4, <1>5 DEF OwnTypes

\* The actions between the capture of a message and its end.
LEMMA EmittingKeeps ==
  ASSUME ParserInv, NEW o \in Offers, NEW rdy,
         \/ Stall(o, rdy) \/ Cap(o, rdy) \/ W0(o, rdy) \/ TS(o, rdy)
         \/ Body(o, rdy) \/ NextMsg(o, rdy)
  PROVE  OwnTypes'
<1>1. OwnTypes
  BY OwnTypesHold
<1>2. CASE Stall(o, rdy)
  <2>1. Advance(o, st) /\ gap' = FALSE
    BY <1>2 DEF Stall
  <2>2. UNCHANGED <<dropLeft, dropPacket, packLeft, recordVars>>
    BY <1>2 DEF Stall, headerVars
  <2>3. st' = st /\ qn' \in 0..QBUFW /\ eopSeen' \in BOOLEAN /\ error' \in BOOLEAN
    BY <2>1, AdvanceKeeps
  <2> QED
    BY <1>1, <2>1, <2>2, <2>3 DEF OwnTypes, recordVars
<1>3. CASE Cap(o, rdy)
  <2>1. Emission(o, "CAP", st') /\ st' \in {"W0", "NEXT"} /\ bi' = bi
    BY <1>3 DEF Cap, Emission, Advance
  <2> QED
    BY <2>1, EmissionKeeps
<1>4. CASE W0(o, rdy)
  <2>1. Emission(o, "W0", st') /\ st' = "TS" /\ bi' = bi
    BY <1>4 DEF W0, Emission, Advance
  <2> QED
    BY <2>1, EmissionKeeps
<1>5. CASE TS(o, rdy)
  <2>1. Emission(o, "TS", st') /\ st' = "BODY" /\ bi' = bi
    BY <1>5 DEF TS, Emission, Advance
  <2> QED
    BY <2>1, EmissionKeeps
<1>6. CASE Body(o, rdy)
  <2>1. Emission(o, "BODY", st') /\ st' \in {"BODY", "NEXT"} /\ bi' \in {bi, bi + 1}
    BY <1>6 DEF Body, Emission, Advance
  <2> QED
    BY <2>1, EmissionKeeps
<1>7. CASE NextMsg(o, rdy)
  <2>1. Close(o, TRUE) /\ gap' = FALSE /\ UNCHANGED <<dropLeft, msgReg, bi>>
    BY <1>7 DEF NextMsg
  <2>2. msgIdx' \in Nat
    BY <1>1, <1>7 DEF NextMsg, NextIdx, OwnTypes
  <2>3. /\ st' \in {"HDR", "LEN"} /\ qn' \in 0..QBUFW /\ packLeft' \in Nat
        /\ eopSeen' \in BOOLEAN /\ dropPacket' \in BOOLEAN /\ error' \in BOOLEAN
    BY <2>1, CloseKeeps
  <2> QED
    BY <1>1, <2>1, <2>2, <2>3 DEF OwnTypes
<1> QED
  BY <1>2, <1>3, <1>4, <1>5, <1>6, <1>7

(***************************************************************************)
(* The theorem                                                             *)
(***************************************************************************)
LEMMA InitHolds == HInit => ParserInv
<1> SUFFICES ASSUME Init PROVE ParserInv
  BY DEF HInit
<1>1. tx.dg = NoDatagram /\ tx.pos = 1 /\ msgReg.len = 0
  BY DEF Init
<1>2. tx.pos \in 0..tx.dg.size
  BY <1>1 DEF NoDatagram
<1>3. /\ st = "HDR" /\ qn = 0 /\ dropLeft = 0 /\ msgIdx = 0 /\ bi = 0 /\ packLeft = 0
      /\ eopSeen = FALSE /\ dropPacket = FALSE /\ gap = FALSE /\ error = FALSE
  BY DEF Init
<1>4. 0 \in 0..QBUFW /\ 0 \in 0..511 /\ 0 \in Nat
  BY Widths
<1> QED
  BY <1>1, <1>2, <1>3, <1>4, Zenon DEF ParserInv, TypeOK

LEMMA StepHolds == ParserInv /\ [HNext]_hvars => ParserInv'
<1> SUFFICES ASSUME ParserInv, [HNext]_hvars PROVE ParserInv'
  OBVIOUS
<1>1. CASE HNext
  <2>1. PICK o \in Offers, rdy \in Readiness : Cycle(o, rdy)
    BY <1>1 DEF HNext, HCycle
  <2>2. tx'.dg \in Datagrams \cup {NoDatagram} /\ tx'.pos \in 0..tx'.dg.size
    BY <2>1, SendKeeps DEF Cycle
  <2>3. OwnTypes'
    BY <2>1, FramingKeeps, ReadingKeeps, EmittingKeeps DEF Cycle
  <2> QED
    BY <2>2, <2>3 DEF OwnTypes, ParserInv, TypeOK
<1>2. CASE UNCHANGED hvars
  <2>1. UNCHANGED <<tx, st, qn, dropLeft, msgIdx, bi, packLeft, eopSeen,
                    dropPacket, gap, error, msgReg>>
    BY <1>2 DEF hvars, vars, senderVars, headerVars, recordVars
  <2> QED
    BY <2>1 DEF ParserInv, TypeOK
<1> QED
  BY <1>1, <1>2

\* The byte queue of the parser neither runs over its QB + BYTES - 1 bytes nor
\* below zero, and the count of the bytes to skip stays in its nine bits
\* (can_aug, can_da, drain_drop and drain_strad of itch_parser.sv), whatever
\* the width of the bus, the size of the queue, the datagrams, and what tkeep
\* shows in the cycles without a beat.
THEOREM TypeCorrect == HSpec => []TypeOK
<1>1. HInit => ParserInv
  BY InitHolds
<1>2. ParserInv /\ [HNext]_hvars => ParserInv'
  BY StepHolds
<1>3. ParserInv => TypeOK
  BY DEF ParserInv
<1> QED
  BY <1>1, <1>2, <1>3, PTL DEF HSpec

(***************************************************************************)
(* Where the parser is in the datagram                                     *)
(***************************************************************************)
\* The states in which a message may still be read or skipped: no word is on
\* the port then.
OutQuiet == st \in {"HDR", "LEN", "CAP", "DRAIN"} => ~out.valid

\* eop_seen is what it is called.
Ended == eopSeen <=> tx.pos = tx.dg.size

\* A beat ends at a multiple of the bus width or with its datagram.
Cut == tx.pos % BYTES = 0 \/ tx.pos = tx.dg.size

\* The messages that are done, of those that the header counts.
Counted ==
  /\ packCount = tx.dg.count /\ packLeft \in 1..packCount
  /\ Done \in 0..Len(tx.dg.msgs)
\* One more of them is at hand.
AtMessage == Counted /\ Done + 1 \in 1..Len(tx.dg.msgs)

\* The datagram is over for the parser and its record is finished.
Wrecked == qn = 0 /\ packLeft = 1 /\ eopSeen /\ tx.pos = tx.dg.size

Discarding == 
  /\ qn = 0 /\ ~eopSeen /\ tx.pos < tx.dg.size
  /\ st = "HDR" \/ (RecordActive /\ packLeft = 1)

AtHeader ==
  \/ qn = tx.pos /\ Ended
  \/ qn = 0 /\ ~eopSeen /\ tx.pos = tx.dg.size
AtLength == Counted /\ Front = NextBegin /\ Ended
Captured ==
  /\ AtMessage /\ Front = NextBegin /\ Ended
  /\ msgReg.len = tx.dg.msgs[Done + 1].len /\ qn >= 2 + msgReg.len
Behind == AtMessage /\ Front = Begin(tx.dg, Done + 2) /\ Ended
Skipping ==
  /\ AtMessage /\ Oversize(tx.dg.msgs[Done + 1].len)
  /\ Front + dropLeft = Begin(tx.dg, Done + 2) /\ Ended
  /\ tx.dg.size >= Begin(tx.dg, Done + 2)
  /\ dropLeft > 0 => qn = 0

Position ==
  IF dropPacket THEN Discarding
  ELSE /\ st = "HDR" => AtHeader
       /\ st = "LEN" => AtLength
       /\ st = "CAP" => Captured \/ Wrecked
       /\ st \in {"W0", "TS", "BODY", "NEXT"} => Behind \/ Wrecked
       /\ st = "DRAIN" => Skipping

\* A set of numbers that is not empty has a least element.
LEMMA LowestExists ==
  ASSUME NEW S \in SUBSET Nat, S # {}
  PROVE  \E x \in S : \A y \in S : x <= y
<1> DEFINE R == {z \in Nat \X Nat : z[1] < z[2]}
<1>1. IsWellFoundedOn(R, Nat)
  BY NatLessThanWellFounded DEF OpToRel
<1>2. \A y, x \in Nat : y < x => <<y, x>> \in R
  OBVIOUS
<1> HIDE DEF R
<1>3. PICK x \in S : \A y \in S : ~(<<y, x>> \in R)
  BY <1>1, WFMin, Zenon
<1>4. ASSUME NEW y \in S PROVE x <= y
  <2>1. x \in Nat /\ y \in Nat
    OBVIOUS
  <2>2. ~(y < x)
    BY <2>1, <1>2, <1>3, Zenon
  <2> QED BY <2>1, <2>2
<1> QED
  BY <1>4

(***************************************************************************)
(* Where the messages of a datagram begin                                  *)
(***************************************************************************)
\* Value i of a function that is Begin for a datagram, after its value i - 1.
BeginStep(d, f, i) == IF i <= 1 THEN HeaderBytes ELSE f[i - 1] + 2 + d.msgs[i - 1].len
Begins(d, f, n) == f = [i \in 0..n |-> BeginStep(d, f, i)]

\* There is such a function up to any n.
LEMMA BeginsExist ==
  ASSUME NEW d
  PROVE  \A n \in Nat : \E f : Begins(d, f, n)
<1> DEFINE S == {n \in Nat : ~ \E f : Begins(d, f, n)}
<1>1. SUFFICES ASSUME S # {} PROVE FALSE
  OBVIOUS
<1>2. PICK x \in S : \A y \in S : x <= y
  BY <1>1, LowestExists
<1>3. x \in Nat /\ ~ \E f : Begins(d, f, x)
  OBVIOUS
<1>4. CASE x = 0
  <2> DEFINE f == [i \in 0..0 |-> HeaderBytes]
  <2>1. f = [i \in 0..0 |-> BeginStep(d, f, i)]
    BY DEF BeginStep
  <2> QED
    BY <1>3, <1>4, <2>1 DEF Begins
<1>5. CASE x # 0
  <2>1. x - 1 \in Nat /\ x - 1 \notin S
    BY <1>2, <1>3, <1>5
  <2>2. PICK g : Begins(d, g, x - 1)
    BY <2>1
  <2> DEFINE f == [i \in 0..x |-> IF i < x THEN g[i] ELSE BeginStep(d, g, x)]
  <2>3. ASSUME NEW i \in 0..x PROVE f[i] = BeginStep(d, f, i)
    <3>1. \A k \in 0..(x - 1) : g[k] = BeginStep(d, g, k)
      BY <2>2 DEF Begins
    <3>2. BeginStep(d, f, i) = BeginStep(d, g, i)
      <4>1. CASE i <= 1
        BY <4>1 DEF BeginStep
      <4>2. CASE ~(i <= 1)
        <5>1. i - 1 \in 0..x /\ i - 1 < x
          BY <1>3, <4>2
        <5>2. f[i - 1] = g[i - 1]
          BY <5>1
        <5> QED
          BY <4>2, <5>2 DEF BeginStep
      <4> QED
        BY <4>1, <4>2
    <3>3. CASE i < x
      <4>1. i \in 0..(x - 1) /\ f[i] = g[i]
        BY <1>3, <3>3
      <4> QED
        BY <3>1, <3>2, <4>1
    <3>4. CASE ~(i < x)
      <4>1. i = x /\ f[i] = BeginStep(d, g, x)
        BY <1>3, <3>4
      <4> QED
        BY <3>2, <4>1
    <3> QED
      BY <3>3, <3>4
  <2>4. f = [i \in 0..x |-> BeginStep(d, f, i)]
    BY <2>3
  <2> HIDE DEF f
  <2> QED
    BY <1>3, <2>4 DEF Begins
<1> QED
  BY <1>4, <1>5

\* Two such functions agree where both are defined.
LEMMA BeginsAgree ==
  ASSUME NEW d, NEW f, NEW g, NEW m \in Nat, NEW n \in Nat,
         Begins(d, f, m), Begins(d, g, n)
  PROVE  \A i \in 0..m : i <= n => f[i] = g[i]
<1> DEFINE S == {i \in 0..m : i <= n /\ f[i] # g[i]}
<1>1. SUFFICES ASSUME S # {} PROVE FALSE
  OBVIOUS
<1>2. S \in SUBSET Nat
  OBVIOUS
<1>3. PICK x \in S : \A y \in S : x <= y
  BY <1>1, <1>2, LowestExists
<1>4. x \in 0..m /\ x \in 0..n /\ f[x] # g[x]
  OBVIOUS
<1>5. f[x] = BeginStep(d, f, x) /\ g[x] = BeginStep(d, g, x)
  BY <1>4 DEF Begins
<1>6. CASE x <= 1
  BY <1>4, <1>5, <1>6 DEF BeginStep
<1>7. CASE ~(x <= 1)
  <2>1. x - 1 \in 0..m /\ x - 1 <= n /\ x - 1 \notin S
    BY <1>3, <1>4, <1>7
  <2>2. f[x - 1] = g[x - 1]
    BY <2>1
  <2> QED
    BY <1>4, <1>5, <1>7, <2>2 DEF BeginStep
<1> QED
  BY <1>6, <1>7

\* Begin is what its definition says: the header before the first message,
\* each message before the next.
LEMMA BeginIs ==
  ASSUME NEW d, NEW j \in Nat
  PROVE  Begin(d, j) = IF j <= 1 THEN HeaderBytes ELSE Begin(d, j - 1) + 2 + d.msgs[j - 1].len
<1> DEFINE fs == [n \in Nat |-> CHOOSE f : Begins(d, f, n)]
           F == [n \in Nat |-> fs[n][n]]
           B == CHOOSE f : f = [i \in Nat |-> BeginStep(d, f, i)]
<1>1. \A n \in Nat : Begins(d, fs[n], n)
  BY BeginsExist
<1> HIDE DEF fs
<1>2. ASSUME NEW i \in Nat PROVE F[i] = BeginStep(d, F, i)
  <2>1. Begins(d, fs[i], i) /\ i \in 0..i
    BY <1>1
  <2>2. F[i] = BeginStep(d, fs[i], i)
    BY <2>1 DEF Begins
  <2>3. CASE i <= 1
    BY <2>2, <2>3 DEF BeginStep
  <2>4. CASE ~(i <= 1)
    <3>1. i - 1 \in Nat /\ i - 1 \in 0..(i - 1) /\ i - 1 <= i
      BY <2>4
    <3>2. Begins(d, fs[i - 1], i - 1)
      BY <1>1, <3>1
    <3>3. fs[i - 1][i - 1] = fs[i][i - 1]
      <4>1. \A k \in 0..(i - 1) : k <= i => fs[i - 1][k] = fs[i][k]
        BY <2>1, <3>1, <3>2, BeginsAgree
      <4> QED
        BY <3>1, <4>1
    <3>4. F[i - 1] = fs[i - 1][i - 1]
      BY <3>1
    <3> QED
      BY <2>2, <2>4, <3>3, <3>4 DEF BeginStep
  <2> QED
    BY <2>3, <2>4
<1>3. F = [i \in Nat |-> BeginStep(d, F, i)]
  BY <1>2
<1> HIDE DEF F
<1>4. B = [i \in Nat |-> BeginStep(d, B, i)]
  BY <1>3
<1>5. \A i \in Nat : Begin(d, i) = B[i]
  BY DEF Begin, BeginStep
<1> HIDE DEF B
<1>6. B[j] = BeginStep(d, B, j)
  BY <1>4
<1>7. CASE j <= 1
  BY <1>5, <1>6, <1>7 DEF BeginStep
<1>8. CASE ~(j <= 1)
  <2>1. j - 1 \in Nat
    BY <1>8
  <2> QED
    BY <1>5, <1>6, <1>8, <2>1 DEF BeginStep
<1> QED
  BY <1>7, <1>8

\* A message of a datagram begins at a byte number.
LEMMA BeginType ==
  ASSUME NEW d \in Datagrams \cup {NoDatagram}, NEW j \in 1..(Len(d.msgs) + 1)
  PROVE  Begin(d, j) \in Nat
<1> DEFINE n == Len(d.msgs) + 1
           S == {i \in 1..n : Begin(d, i) \notin Nat}
<1>0. d.msgs \in Seq(Wire)
  BY DatagramFields
<1>1. n \in Nat
  BY <1>0
<1>2. S = {}
  <2>1. SUFFICES ASSUME S # {} PROVE FALSE
    OBVIOUS
  <2>2. S \in SUBSET Nat
    BY <1>1
  <2>3. PICK x \in S : \A y \in S : x <= y
    BY <2>1, <2>2, LowestExists
  <2>4. x \in 1..n /\ Begin(d, x) \notin Nat /\ x \in Nat
    BY <2>2
  <2>5. CASE x = 1
    BY <2>4, <2>5, BeginIs DEF HeaderBytes
  <2>6. CASE x # 1
    <3>1. x - 1 \in 1..n /\ x - 1 \notin S /\ x - 1 \in 1..Len(d.msgs)
      BY <1>0, <1>1, <2>3, <2>4, <2>6
    <3>2. Begin(d, x - 1) \in Nat /\ d.msgs[x - 1].len \in Nat
      BY <1>0, <3>1, WireLength
    <3>3. Begin(d, x) = Begin(d, x - 1) + 2 + d.msgs[x - 1].len
      <4>1. x \in Nat /\ ~(x <= 1)
        BY <2>4, <2>6
      <4> HIDE DEF S
      <4> QED
        BY <4>1, BeginIs
    <3> QED
      BY <2>4, <3>2, <3>3
  <2> QED
    BY <2>5, <2>6
<1> QED
  BY <1>2 DEF n

\* The first message begins behind the header.
LEMMA BeginFirst ==
  ASSUME NEW d
  PROVE  Begin(d, 1) = 20
BY BeginIs DEF HeaderBytes

\* A message ends where the next one begins.
LEMMA BeginNext ==
  ASSUME NEW d \in Datagrams \cup {NoDatagram}, NEW j \in 1..Len(d.msgs)
  PROVE  /\ j \in 1..(Len(d.msgs) + 1) /\ j + 1 \in 1..(Len(d.msgs) + 1)
         /\ Begin(d, j) \in Nat /\ Begin(d, j + 1) \in Nat
         /\ d.msgs[j].len \in Nat
         /\ Begin(d, j + 1) = Begin(d, j) + 2 + d.msgs[j].len
<1>1. d.msgs \in Seq(Wire)
  BY DatagramFields
<1>2. Len(d.msgs) \in Nat
  BY <1>1
<1>3. j \in 1..(Len(d.msgs) + 1) /\ j + 1 \in 1..(Len(d.msgs) + 1) /\ j + 1 \in Nat
  BY <1>2
<1>4. Begin(d, j + 1) = Begin(d, j) + 2 + d.msgs[j].len
  <2>1. ~(j + 1 <= 1) /\ (j + 1) - 1 = j
    BY <1>2
  <2> QED
    BY <1>3, <2>1, BeginIs
<1> QED
  BY <1>1, <1>3, <1>4, BeginType, WireLength

\* A message begins after all those before it.
LEMMA BeginGrows ==
  ASSUME NEW d \in Datagrams \cup {NoDatagram},
         NEW i \in 1..(Len(d.msgs) + 1), NEW j \in 1..(Len(d.msgs) + 1), i < j
  PROVE  Begin(d, i) + 2 <= Begin(d, j)
<1> DEFINE n == Len(d.msgs) + 1
           S == {k \in 1..n : i < k /\ ~(Begin(d, i) + 2 <= Begin(d, k))}
<1>0. d.msgs \in Seq(Wire)
  BY DatagramFields
<1>1. n \in Nat /\ i \in 1..n /\ i \in 1..Len(d.msgs)
  BY <1>0
<1>2. Begin(d, i) \in Nat
  BY BeginType
<1>3. S = {}
  <2>1. SUFFICES ASSUME S # {} PROVE FALSE
    OBVIOUS
  <2>2. S \in SUBSET Nat
    BY <1>1
  <2>3. PICK x \in S : \A y \in S : x <= y
    BY <2>1, <2>2, LowestExists
  <2>4. x \in 1..n /\ i < x /\ ~(Begin(d, i) + 2 <= Begin(d, x)) /\ x \in Nat
    BY <2>2
  <2>5. \A y \in 1..n : i < y /\ ~(x <= y) => Begin(d, i) + 2 <= Begin(d, y)
    BY <2>3
  <2>6. x - 1 \in 1..Len(d.msgs)
    BY <1>0, <1>1, <2>4
  <2> HIDE DEF S
  <2>7. /\ Begin(d, x - 1) \in Nat /\ d.msgs[x - 1].len \in Nat
        /\ Begin(d, (x - 1) + 1) = Begin(d, x - 1) + 2 + d.msgs[x - 1].len
    BY <2>6, BeginNext
  <2>8. (x - 1) + 1 = x
    BY <2>4
  <2>9. Begin(d, x) = Begin(d, x - 1) + 2 + d.msgs[x - 1].len
    BY <2>7, <2>8, Zenon
  <2>10. CASE x = i + 1
    <3>1. x - 1 = i
      BY <1>1, <2>10
    <3> QED
      BY <1>2, <2>4, <2>7, <2>9, <3>1
  <2>11. CASE x # i + 1
    <3>1. x - 1 \in 1..n /\ i < x - 1 /\ ~(x <= x - 1)
      BY <1>1, <2>4, <2>11
    <3> HIDE DEF n
    <3>2. Begin(d, i) + 2 <= Begin(d, x - 1)
      BY <2>5, <3>1
    <3>3. \A b, c, l \in Nat : b + 2 <= c => b + 2 <= c + 2 + l
      OBVIOUS
    <3>4. Begin(d, i) + 2 <= Begin(d, x - 1) + 2 + d.msgs[x - 1].len
      BY <1>2, <2>7, <3>2, <3>3, Zenon
    <3> QED
      BY <2>4, <2>9, <3>4, Zenon
  <2> QED
    BY <2>10, <2>11
<1>4. j \in 1..n /\ j \notin S
  BY <1>3
<1> QED
  BY <1>4

\* No two begin at the same byte.
LEMMA BeginUnique ==
  ASSUME NEW d \in Datagrams \cup {NoDatagram},
         NEW i \in 1..(Len(d.msgs) + 1), NEW j \in 1..(Len(d.msgs) + 1),
         Begin(d, i) = Begin(d, j)
  PROVE  i = j
<1>1. Begin(d, i) \in Nat /\ Begin(d, j) \in Nat
  BY BeginType
<1>2. i \in Nat /\ j \in Nat
  OBVIOUS
<1>3. ~(i < j)
  <2>1. SUFFICES ASSUME i < j PROVE FALSE
    OBVIOUS
  <2>2. Begin(d, i) + 2 <= Begin(d, j)
    BY <2>1, BeginGrows
  <2> QED
    BY <1>1, <2>2
<1>4. ~(j < i)
  <2>1. SUFFICES ASSUME j < i PROVE FALSE
    OBVIOUS
  <2>2. Begin(d, j) + 2 <= Begin(d, i)
    BY <2>1, BeginGrows
  <2> QED
    BY <1>1, <2>2
<1> QED
  BY <1>2, <1>3, <1>4

\* What the parser reads where a message begins is that message.
LEMMA ReadsMessage ==
  ASSUME tx.dg \in Datagrams \cup {NoDatagram}, NEW j \in 1..Len(tx.dg.msgs),
         Front = Begin(tx.dg, j), NEW w \in WiresHere
  PROVE  w.j = j /\ w.m = tx.dg.msgs[j]
<1> DEFINE starts == {k \in 1..Len(tx.dg.msgs) : Begin(tx.dg, k) = Front}
<1>1. j \in starts
  OBVIOUS
<1>2. \A k \in starts : k = j
  <2>1. TAKE k \in starts
  <2>2. k \in 1..(Len(tx.dg.msgs) + 1) /\ j \in 1..(Len(tx.dg.msgs) + 1)
    BY BeginNext
  <2> QED
    BY <2>2, BeginUnique
<1>3. PICK k \in starts : w = [j |-> k, m |-> tx.dg.msgs[k]]
  BY <1>1 DEF WiresHere
<1> QED
  BY <1>2, <1>3

(***************************************************************************)
(* What a cycle takes and what it leaves in the queue                      *)
(***************************************************************************)
IsBeat(o, d, pos) ==
  /\ o.valid /\ o.dg = d /\ o.pos = pos
  /\ o.bytes \in 1..BYTES
  /\ pos + o.bytes <= d.size
  /\ o.last <=> pos + o.bytes = d.size
  /\ o.last \/ o.bytes = BYTES

\* Beat cuts a beat off its datagram.
LEMMA BeatIs ==
  ASSUME NEW d \in Datagrams \cup {NoDatagram}, NEW seq, NEW n,
         NEW pos \in Nat, pos < d.size
  PROVE  IsBeat(Beat(d, seq, n, pos), d, pos)
<1>1. d.size \in Nat
  BY DatagramFields
<1>2. BYTES \in {4, 8}
  BY Widths
<1> DEFINE o == Beat(d, seq, n, pos)
           left == d.size - pos
<1>3. /\ o.valid = TRUE /\ o.dg = d /\ o.pos = pos
      /\ o.bytes = IF left < BYTES THEN left ELSE BYTES
      /\ o.last = (left <= BYTES)
  BY DEF Beat
<1> HIDE DEF o
<1>4. (left <= BYTES => o.last) /\ (~(left <= BYTES) => ~o.last)
  BY <1>3, Zenon
<1>5. left \in Nat /\ left >= 1 /\ pos + left = d.size
  BY <1>1
<1>6. o.bytes \in 1..BYTES /\ pos + o.bytes <= d.size
  BY <1>1, <1>2, <1>3, <1>5
<1>7. (o.last <=> pos + o.bytes = d.size) /\ (o.last \/ o.bytes = BYTES)
  <2>1. CASE left <= BYTES
    <3>1. o.bytes = left
      BY <1>2, <1>3, <1>5, <2>1
    <3> QED
      BY <1>5, <1>4, <2>1, <3>1
  <2>2. CASE ~(left <= BYTES)
    <3>1. o.bytes = BYTES /\ BYTES < left
      BY <1>2, <1>3, <1>5, <2>2
    <3>2. pos + o.bytes # d.size
      BY <1>2, <1>5, <3>1
    <3> QED
      BY <1>4, <2>2, <3>1, <3>2
  <2> QED
    BY <2>1, <2>2
<1>8. IsBeat(o, d, pos)
  BY <1>3, <1>6, <1>7, Zenon DEF IsBeat
<1> QED
  BY <1>8 DEF o

\* The bus is idle, or it holds the next beat of the datagram under way, or
\* the first one of another.
LEMMA OfferIs ==
  ASSUME ParserInv, IdleKeeps \subseteq {0}, NEW o \in Offers
  PROVE  \/ ~o.valid /\ o.bytes = 0 /\ o.last = FALSE /\ o.keepOk = TRUE
         \/ tx.pos < tx.dg.size /\ IsBeat(o, tx.dg, tx.pos)
         \/ tx.pos = tx.dg.size /\ \E d \in Datagrams : IsBeat(o, d, 0)
<1>1. /\ tx.pos \in Nat /\ tx.dg.size \in Nat /\ tx.pos <= tx.dg.size
      /\ tx.dg \in Datagrams \cup {NoDatagram}
  BY DatagramFields DEF ParserInv, TypeOK
<1>2. CASE \E k \in IdleKeeps : o = NoBeat(k)
  <2>1. o = NoBeat(0)
    BY <1>2
  <2>2. o.valid = FALSE /\ o.bytes = 0 /\ o.last = FALSE /\ o.keepOk = TRUE
    BY <2>1 DEF NoBeat
  <2> QED
    BY <2>2
<1>3. CASE tx.pos < tx.dg.size /\ o = Beat(tx.dg, tx.seq, tx.n, tx.pos)
  BY <1>1, <1>3, BeatIs
<1>4. CASE ~(tx.pos < tx.dg.size) /\ \E d \in Datagrams : o = Beat(d, nextSeq + d.skip, tx.n + 1, 0)
  <2>1. PICK d \in Datagrams : o = Beat(d, nextSeq + d.skip, tx.n + 1, 0)
    BY <1>4
  <2>2. 0 < d.size /\ 0 \in Nat
    BY DatagramFields
  <2>3. IsBeat(o, d, 0)
    BY <2>1, <2>2, BeatIs
  <2> QED
    BY <1>1, <1>4, <2>3
<1> QED
  BY <1>2, <1>3, <1>4 DEF Offers

\* Beats end where the bus is full or the datagram over.
LEMMA CutHolds ==
  ASSUME ParserInv, IdleKeeps \subseteq {0}, Cut, NEW o \in Offers, Send(o)
  PROVE  Cut'
<1>1. BYTES \in {4, 8} /\ tx.pos \in Nat
  BY Widths DEF ParserInv, TypeOK
<1>2. CASE ~Take(o)
  BY <1>2 DEF Send, senderVars, Cut
<1>3. CASE Take(o)
  <2>1. tx'.pos = o.pos + o.bytes /\ tx'.dg = o.dg /\ o.valid
    BY <1>3 DEF Send, Take
  <2>2. PICK d \in Datagrams \cup {NoDatagram}, pos \in Nat :
          IsBeat(o, d, pos) /\ pos % BYTES = 0
    <3>1. CASE tx.pos < tx.dg.size /\ IsBeat(o, tx.dg, tx.pos)
      <4>1. tx.pos % BYTES = 0
        BY <1>1, <3>1, DatagramFields DEF Cut, ParserInv
      <4>2. tx.dg \in Datagrams \cup {NoDatagram}
        BY DEF ParserInv
      <4> QED
        BY <1>1, <3>1, <4>1, <4>2
    <3>2. CASE \E d \in Datagrams : IsBeat(o, d, 0)
      <4>1. 0 % BYTES = 0 /\ 0 \in Nat
        BY <1>1
      <4> QED
        BY <3>2, <4>1
    <3> QED
      BY <2>1, <3>1, <3>2, OfferIs
  <2>3. CASE o.last
    BY <2>1, <2>2, <2>3 DEF IsBeat, Cut
  <2>4. CASE ~o.last
    <3>1. tx'.pos = pos + BYTES
      BY <2>1, <2>2, <2>4 DEF IsBeat
    <3>2. (pos + BYTES) % BYTES = 0
      BY <1>1, <2>2
    <3> QED
      BY <3>1, <3>2 DEF Cut
  <2> QED
    BY <2>3, <2>4
<1> QED
  BY <1>2, <1>3

\* What a cycle takes moves the sender on by the bytes of the beat.
LEMMA Taken ==
  ASSUME ParserInv, IdleKeeps \subseteq {0}, NEW o \in Offers, Send(o)
  PROVE  /\ tx'.pos \in Nat /\ tx'.dg.size \in Nat /\ tx'.pos <= tx'.dg.size
         /\ ~Take(o) => tx'.dg = tx.dg /\ tx'.pos = tx.pos
         /\ Take(o) =>
              /\ o.valid /\ o.bytes \in 1..BYTES
              /\ o.last <=> tx'.pos = tx'.dg.size
              /\ tx.pos # tx.dg.size => tx'.dg = tx.dg /\ tx'.pos = tx.pos + o.bytes
              /\ tx.pos = tx.dg.size => tx'.pos = o.bytes
<1>1. /\ tx.pos \in Nat /\ tx.dg.size \in Nat /\ tx.pos <= tx.dg.size
  BY DatagramFields DEF ParserInv, TypeOK
<1>2. CASE ~Take(o)
  BY <1>1, <1>2 DEF Send, senderVars
<1>3. CASE Take(o)
  <2>1. tx'.pos = o.pos + o.bytes /\ tx'.dg = o.dg /\ o.valid
    BY <1>3 DEF Send, Take
  <2>2. BYTES \in Nat
    BY Widths
  <2>3. CASE tx.pos < tx.dg.size /\ IsBeat(o, tx.dg, tx.pos)
    BY <1>1, <1>3, <2>1, <2>2, <2>3 DEF IsBeat
  <2>4. CASE tx.pos = tx.dg.size /\ \E d \in Datagrams : IsBeat(o, d, 0)
    <3>1. PICK d \in Datagrams : IsBeat(o, d, 0)
      BY <2>4
    <3>2. d.size \in Nat
      BY DatagramFields
    <3> QED
      BY <1>1, <1>3, <2>1, <2>2, <2>4, <3>1, <3>2 DEF IsBeat
  <2> QED
    BY <2>1, <2>3, <2>4, OfferIs
<1> QED
  BY <1>2, <1>3

\* What leaves the queue: the header, the captured message, else nothing.
LEMMA Drains ==
  ASSUME ParserInv
  PROVE  /\ qn \in Nat /\ BaseN \in Nat /\ BaseN <= qn /\ msgReg.len \in Nat
         /\ dropLeft \in Nat
         /\ st \in {"LEN", "W0", "TS", "BODY", "NEXT"} => BaseN = qn /\ ~DrainLive
         /\ st = "HDR" => /\ ~DrainLive
                          /\ DrainInt = HeaderBytes => qn >= 20 /\ BaseN = qn - 20
                          /\ DrainInt # HeaderBytes => BaseN = qn /\ qn < 20
         /\ st = "CAP" => /\ ~DrainLive
                          /\ qn >= 2 + msgReg.len => BaseN = qn - (2 + msgReg.len)
         /\ st = "DRAIN" /\ dropLeft = 0 => BaseN = qn /\ ~DrainLive
<1>1. qn \in Nat /\ dropLeft \in Nat /\ msgReg.len \in Nat
  BY Widths DEF ParserInv, TypeOK
<1>2. BaseN \in 0..qn
  BY DrainBounded
<1>3. CASE st \in {"LEN", "W0", "TS", "BODY", "NEXT"}
  BY <1>1, <1>3 DEF BaseN, DrainInt, DrainNeed, DrainLive
<1>4. CASE st = "HDR"
  BY <1>1, <1>4 DEF BaseN, DrainInt, DrainNeed, DrainLive, HeaderBytes
<1>5. CASE st = "CAP"
  BY <1>1, <1>5 DEF BaseN, DrainInt, DrainNeed, DrainLive
<1>6. CASE st = "DRAIN"
  BY <1>1, <1>6 DEF BaseN, DrainInt, DrainNeed, DrainLive
<1> QED
  BY <1>1, <1>2, <1>3, <1>4, <1>5, <1>6

\* While the datagram is under way, the bytes that a cycle takes are behind
\* those that it leaves in the queue, and eop_seen comes with the last one.
LEMMA Transfers ==
  ASSUME ParserInv, IdleKeeps \subseteq {0}, Ended, ~dropPacket, ~DrainLive,
         NEW o \in Offers, Send(o), ~(Take(o) /\ ~o.keepOk)
  PROVE  /\ tx'.dg = tx.dg /\ tx'.pos \in Nat /\ tx'.pos <= tx.dg.size
         /\ Queue(o) = QnPost(o) /\ QnPost(o) \in 0..QBUFW
         /\ tx'.pos - QnPost(o) = tx.pos - BaseN
         /\ EopEff(o) <=> tx'.pos = tx.dg.size
         /\ eopSeen \/ (Take(o) /\ o.last) <=> tx'.pos = tx.dg.size
         /\ ~Take(o) => QnPost(o) = BaseN /\ tx'.pos = tx.pos
<1>1. ~DrainDrop(o) /\ ~DrainStrad(o)
  BY DEF DrainDrop, DrainStrad
<1>2. Queue(o) = IF Room(o) THEN QnPost(o) ELSE BaseN
  BY <1>1 DEF Queue
<1>3. Take(o) <=> Room(o)
  BY <1>1 DEF Take, TReady, Room
<1>4. QnPost(o) = BaseN + (IF Take(o) THEN o.bytes ELSE 0)
  BY DEF QnPost
<1>5. /\ tx.pos \in Nat /\ BaseN \in Nat /\ Queue(o) \in 0..QBUFW
      /\ tx.dg.size \in Nat
  BY QueueBounded, Drains, DatagramFields DEF ParserInv, TypeOK
<1>6. CASE Take(o)
  <2>1. ~eopSeen
    BY <1>3, <1>6 DEF Room
  <2>2. tx.pos # tx.dg.size
    BY <2>1 DEF Ended
  <2>3. /\ tx'.dg = tx.dg /\ tx'.pos = tx.pos + o.bytes /\ o.bytes \in 1..BYTES
        /\ tx'.pos <= tx.dg.size
        /\ o.last <=> tx'.pos = tx.dg.size
    BY <1>6, <2>2, Taken
  <2>4. Queue(o) = QnPost(o) /\ QnPost(o) = BaseN + o.bytes
    BY <1>2, <1>3, <1>4, <1>6
  <2>5. o.bytes \in Nat /\ BYTES \in Nat
    BY <2>3, Widths
  <2>6. EopEff(o) <=> o.last
    BY <1>6, <2>1 DEF EopEff
  <2> QED
    BY <1>5, <1>6, <2>1, <2>3, <2>4, <2>5, <2>6
<1>7. CASE ~Take(o)
  <2>1. tx'.dg = tx.dg /\ tx'.pos = tx.pos /\ tx'.pos <= tx.dg.size
    BY <1>7, Taken
  <2>2. Queue(o) = BaseN /\ QnPost(o) = BaseN
    BY <1>2, <1>3, <1>4, <1>5, <1>7
  <2>3. EopEff(o) <=> eopSeen
    BY <1>7 DEF EopEff
  <2> QED
    BY <1>5, <1>7, <2>1, <2>2, <2>3 DEF Ended
<1> QED
  BY <1>6, <1>7

\* The state waits, or goes on within the datagram.
LEMMA Moves ==
  ASSUME ParserInv, IdleKeeps \subseteq {0}, Ended, ~DrainLive,
         NEW s, NEW o \in Offers, In(s, o), Send(o), qn' = Queue(o), Latch(o)
  PROVE  /\ tx'.dg = tx.dg /\ qn' \in Nat /\ tx'.pos \in Nat
         /\ qn' = QnPost(o)
         /\ Front' = tx.pos - BaseN
         /\ Ended'
<1>1. ~dropPacket /\ ~(Take(o) /\ ~o.keepOk)
  BY DEF In
<1>2. /\ tx'.dg = tx.dg /\ tx'.pos \in Nat
      /\ Queue(o) = QnPost(o) /\ QnPost(o) \in 0..QBUFW
      /\ tx'.pos - QnPost(o) = tx.pos - BaseN
      /\ eopSeen \/ (Take(o) /\ o.last) <=> tx'.pos = tx.dg.size
  BY <1>1, Transfers
<1>3. Front' = tx.pos - BaseN
  BY <1>2 DEF Front
<1>4. Ended'
  BY <1>2 DEF Ended, Latch
<1>5. QnPost(o) \in Nat
  BY <1>2, Widths
<1> QED
  BY <1>2, <1>3, <1>4, <1>5

(***************************************************************************)
(* No word is on the port where messages are read                          *)
(***************************************************************************)
LEMMA QuietHolds ==
  ASSUME ParserInv, OutQuiet, NEW o, NEW rdy, Cycle(o, rdy)
  PROVE  OutQuiet'
<1> DEFINE Reading == {"HDR", "LEN", "CAP", "DRAIN"}
<1>1. ~out.valid => ~Accepted(rdy).valid
  BY DEF Accepted, OutTake
<1>2. Silent.valid = FALSE
  BY DEF Silent
<1>3. ASSUME st \in Reading \/ (st' = st), out' = Accepted(rdy)
      PROVE  OutQuiet'
  BY <1>1, <1>3 DEF OutQuiet
<1>4. ASSUME out' = Silent
      PROVE  OutQuiet'
  BY <1>2, <1>4 DEF OutQuiet
<1>5. RecordActive \/ st \in Reading
  BY DEF ParserInv, TypeOK, RecordActive
<1>6. CASE Dropping(o, rdy) \/ BadKeep(o, rdy)
  <2>1. out' = Accepted(rdy) /\ (RecordActive => st' = st)
    BY <1>6 DEF Dropping, BadKeep
  <2> QED
    BY <1>3, <1>5, <2>1
<1>7. CASE \/ Hdr(o, rdy) \/ HdrShort(o, rdy) \/ Capture(o, rdy) \/ Skip(o, rdy)
           \/ LenShort(o, rdy) \/ Drained(o, rdy) \/ Draining(o, rdy)
  <2>1. st \in Reading /\ out' = Accepted(rdy)
    BY <1>7 DEF Hdr, HdrShort, Capture, Skip, LenShort, Drained, Draining, In
  <2> QED
    BY <1>3, <2>1
<1>8. CASE Stall(o, rdy)
  <2>1. st' = st /\ out' = Accepted(rdy)
    BY <1>8 DEF Stall, Advance
  <2> QED
    BY <1>3, <2>1
<1>9. CASE Cap(o, rdy) \/ NextMsg(o, rdy)
  BY <1>4, <1>9 DEF Cap, NextMsg
<1>10. CASE W0(o, rdy) \/ TS(o, rdy)
  <2>1. st' \in {"TS", "BODY"}
    BY <1>10 DEF W0, TS, Emission, Advance
  <2> QED
    BY <2>1 DEF OutQuiet
<1>11. CASE Body(o, rdy)
  <2>1. st' = "BODY" \/ out' = Silent
    BY <1>11 DEF Body, Emission, Advance
  <2> QED
    BY <1>4, <2>1 DEF OutQuiet
<1> QED
  BY <1>6, <1>7, <1>8, <1>9, <1>10, <1>11 DEF Cycle

(***************************************************************************)
(* Where the parser is after each step                                     *)
(***************************************************************************)
LEMMA Sizes ==
  ASSUME ParserInv
  PROVE  /\ tx.dg \in Datagrams \cup {NoDatagram}
         /\ tx.dg.size \in Nat /\ tx.dg.size >= 1
         /\ tx.pos \in Nat /\ tx.pos <= tx.dg.size
         /\ qn \in Nat /\ packLeft \in Nat /\ dropLeft \in Nat
         /\ tx.dg.count \in Nat /\ tx.dg.msgs \in Seq(Wire)
         /\ eopSeen \in BOOLEAN /\ dropPacket \in BOOLEAN
BY DatagramFields, Widths DEF ParserInv, TypeOK

\* A datagram that was given up is over, or its rest is discarded.
LEMMA GivenUp ==
  ASSUME st' = "HDR", qn' = 0, eopSeen' = FALSE,
         tx'.pos \in Nat, tx'.dg.size \in Nat, tx'.pos <= tx'.dg.size,
         dropPacket' <=> tx'.pos # tx'.dg.size
  PROVE  Position'
<1>1. CASE tx'.pos = tx'.dg.size
  BY <1>1 DEF Position, AtHeader
<1>2. CASE tx'.pos # tx'.dg.size
  BY <1>2 DEF Position, Discarding
<1> QED
  BY <1>1, <1>2

\* The rest of a datagram is discarded to its last beat.
LEMMA DroppingMoves ==
  ASSUME ParserInv, IdleKeeps \subseteq {0}, Position,
         NEW o \in Offers, NEW rdy, Send(o), Dropping(o, rdy)
  PROVE  Position'
<1>1. dropPacket /\ Discarding /\ UNCHANGED qn
  BY DEF Dropping, Position
<1>2. /\ tx.pos # tx.dg.size /\ qn = 0 /\ eopSeen = FALSE
      /\ st = "HDR" \/ (RecordActive /\ packLeft = 1)
  BY <1>1, Sizes DEF Discarding
<1>3. /\ tx'.pos \in Nat /\ tx'.dg.size \in Nat /\ tx'.pos <= tx'.dg.size
      /\ ~Take(o) => tx'.pos # tx'.dg.size
      /\ Take(o) => (o.last <=> tx'.pos = tx'.dg.size)
  BY <1>2, Taken
<1>4. CASE Take(o) /\ o.last /\ RecordActive
  <2>1. eopSeen' = TRUE /\ packLeft' = 1 /\ st' = st /\ dropPacket' = FALSE
    BY <1>4 DEF Dropping
  <2>2. st' \notin {"HDR", "LEN", "DRAIN"}
    BY <1>4, <2>1 DEF RecordActive
  <2>3. Wrecked'
    BY <1>1, <1>2, <1>3, <1>4, <2>1 DEF Wrecked
  <2> QED
    BY <2>1, <2>2, <2>3 DEF Position
<1>5. CASE Take(o) /\ o.last /\ ~RecordActive
  <2>1. eopSeen' = FALSE /\ st' = "HDR" /\ dropPacket' = FALSE
    BY <1>5 DEF Dropping
  <2> QED
    BY <1>1, <1>2, <1>3, <1>5, <2>1, GivenUp
<1>6. CASE ~(Take(o) /\ o.last)
  <2>1. UNCHANGED <<eopSeen, packLeft, st>> /\ dropPacket' = TRUE
    BY <1>6 DEF Dropping
  <2>2. Discarding'
    BY <1>1, <1>2, <1>3, <1>6, <2>1 DEF Discarding, RecordActive
  <2> QED
    BY <2>1, <2>2 DEF Position
<1> QED
  BY <1>4, <1>5, <1>6

\* A malformed tkeep ends the datagram, or discards its rest.
LEMMA BadKeepMoves ==
  ASSUME ParserInv, IdleKeeps \subseteq {0}, Position,
         NEW o \in Offers, NEW rdy, Send(o), BadKeep(o, rdy)
  PROVE  Position'
<1>1. Take(o) /\ qn' = 0 /\ dropPacket' = ~o.last
  BY DEF BadKeep
<1>2. /\ tx'.pos \in Nat /\ tx'.dg.size \in Nat /\ tx'.pos <= tx'.dg.size
      /\ o.last <=> tx'.pos = tx'.dg.size
  BY <1>1, Taken
<1>3. CASE RecordActive
  <2>1. eopSeen' = o.last /\ packLeft' = 1 /\ st' = st
    BY <1>3 DEF BadKeep
  <2>2. RecordActive' /\ st' \notin {"HDR", "LEN", "DRAIN"}
    BY <1>3, <2>1 DEF RecordActive
  <2>3. CASE o.last
    <3>1. Wrecked'
      BY <1>1, <1>2, <2>1, <2>3 DEF Wrecked
    <3> QED
      BY <1>1, <2>2, <2>3, <3>1 DEF Position
  <2>4. CASE ~o.last
    <3>1. Discarding'
      BY <1>1, <1>2, <2>1, <2>2, <2>4 DEF Discarding
    <3> QED
      BY <1>1, <2>4, <3>1 DEF Position
  <2> QED
    BY <2>3, <2>4
<1>4. CASE ~RecordActive
  <2>1. eopSeen' = FALSE /\ st' = "HDR"
    BY <1>4 DEF BadKeep
  <2>2. dropPacket' <=> tx'.pos # tx'.dg.size
    BY <1>1, <1>2
  <2> QED
    BY <1>1, <1>2, <2>1, <2>2, GivenUp
<1> QED
  BY <1>3, <1>4

\* The header leaves the queue; the first message begins behind it.
LEMMA HdrMoves ==
  ASSUME ParserInv, IdleKeeps \subseteq {0}, Position,
         NEW o \in Offers, NEW rdy, Send(o), Hdr(o, rdy)
  PROVE  Position'
<1>1. In("HDR", o) /\ DrainInt = HeaderBytes
  BY DEF Hdr
<1>2. st = "HDR" /\ dropPacket = FALSE /\ ~(Take(o) /\ ~o.keepOk)
  BY <1>1, Sizes DEF In
<1>3. AtHeader
  BY <1>2 DEF Position
<1>4. qn >= 20 /\ BaseN = qn - 20 /\ ~DrainLive
  BY <1>1, <1>2, Drains
<1>5. qn = tx.pos /\ Ended
  BY <1>3, <1>4 DEF AtHeader
<1>6. /\ tx'.dg = tx.dg /\ tx'.pos \in Nat /\ tx'.pos <= tx.dg.size
      /\ Queue(o) = QnPost(o) /\ QnPost(o) \in 0..QBUFW
      /\ tx'.pos - QnPost(o) = tx.pos - BaseN
      /\ EopEff(o) <=> tx'.pos = tx.dg.size
  BY <1>2, <1>4, <1>5, Transfers
<1>7. packLeft' = tx.dg.count /\ packCount' = tx.dg.count
  BY DEF Hdr, HeaderHere
<1>8. CASE tx.dg.count > 0
  <2>1. Advance(o, "LEN") /\ dropPacket' = FALSE
    BY <1>2, <1>8 DEF Hdr, HeaderHere
  <2>2. /\ tx'.dg = tx.dg /\ qn' \in Nat /\ tx'.pos \in Nat
        /\ Front' = tx.pos - BaseN /\ Ended'
    BY <1>1, <1>4, <1>5, <2>1, Moves DEF Advance
  <2>3. Front' = 20
    BY <1>4, <1>5, <2>2, Sizes
  <2>4. Counted' /\ Done' = 0
    <3>1. Done' = 0
      BY <1>7, Sizes DEF Done
    <3> QED
      BY <1>7, <1>8, <2>2, <3>1, Sizes DEF Counted
  <2>5. NextBegin' = Begin(tx.dg, 1)
    BY <2>2, <2>4 DEF NextBegin
  <2>6. AtLength'
    BY <2>2, <2>3, <2>4, <2>5, BeginFirst DEF AtLength
  <2>7. st' = "LEN"
    BY <2>1 DEF Advance
  <2> QED
    BY <2>1, <2>6, <2>7 DEF Position
<1>9. CASE ~(tx.dg.count > 0) /\ Ends(o)
  <2>1. st' = "HDR" /\ qn' = Queue(o) /\ eopSeen' = FALSE /\ dropPacket' = FALSE
    BY <1>2, <1>9 DEF Hdr, HeaderHere
  <2>2. QnPost(o) = 0 /\ EopEff(o)
    BY <1>9 DEF Ends
  <2> QED
    BY <1>6, <2>1, <2>2, GivenUp, Sizes
<1>10. CASE ~(tx.dg.count > 0) /\ ~Ends(o)
  <2>1. Fail(~EopEff(o))
    BY <1>10 DEF Hdr, HeaderHere
  <2> QED
    BY <1>6, <2>1, GivenUp, Sizes DEF Fail
<1> QED
  BY <1>8, <1>9, <1>10

\* More of the header comes, or the first beat of the next datagram.
LEMMA HdrShortMoves ==
  ASSUME ParserInv, IdleKeeps \subseteq {0}, Position,
         NEW o \in Offers, NEW rdy, Send(o), HdrShort(o, rdy)
  PROVE  Position'
<1>1. In("HDR", o) /\ DrainInt # HeaderBytes
  BY DEF HdrShort
<1>2. st = "HDR" /\ dropPacket = FALSE /\ ~(Take(o) /\ ~o.keepOk)
  BY <1>1, Sizes DEF In
<1>3. AtHeader
  BY <1>2 DEF Position
<1>4. BaseN = qn /\ ~DrainLive
  BY <1>1, <1>2, Drains
<1>5. CASE eopSeen
  <2>1. Ended
    BY <1>3, <1>5 DEF AtHeader
  <2>2. EopEff(o)
    BY <1>5 DEF EopEff
  <2>3. tx'.dg = tx.dg /\ tx'.pos = tx.dg.size
    BY <1>2, <1>4, <2>1, <2>2, Transfers
  <2>4. Fail(FALSE)
    BY <1>2, <1>5 DEF HdrShort
  <2>5. st' = "HDR" /\ qn' = 0 /\ eopSeen' = FALSE /\ dropPacket' = FALSE
    BY <2>4 DEF Fail
  <2>6. tx'.pos \in Nat /\ tx'.dg.size \in Nat /\ tx'.pos = tx'.dg.size
    BY <2>3, Sizes
  <2> QED
    BY <2>5, <2>6 DEF Position, AtHeader
<1>6. CASE ~eopSeen
  <2>1. Advance(o, "HDR") /\ dropPacket' = FALSE
    BY <1>2, <1>6 DEF HdrShort
  <2>2. AtHeader'
    <3>1. CASE qn = tx.pos /\ Ended
      <4>1. /\ tx'.dg = tx.dg /\ qn' \in Nat /\ tx'.pos \in Nat
            /\ Front' = tx.pos - BaseN /\ Ended'
        BY <1>1, <1>4, <2>1, <3>1, Moves DEF Advance
      <4>2. qn' = tx'.pos
        BY <1>4, <3>1, <4>1, Sizes DEF Front
      <4> QED
        BY <4>1, <4>2 DEF AtHeader
    <3>2. CASE qn = 0 /\ tx.pos = tx.dg.size
      <4>1. ~DrainDrop(o) /\ ~DrainStrad(o)
        BY <1>4 DEF DrainDrop, DrainStrad
      <4>2. Queue(o) = IF Room(o) THEN QnPost(o) ELSE BaseN
        BY <4>1 DEF Queue
      <4>3. Take(o) <=> Room(o)
        BY <1>2, <4>1 DEF Take, TReady, Room
      <4>4. CASE Take(o)
        <5>1. /\ o.bytes \in 1..BYTES /\ tx'.pos = o.bytes
              /\ o.last <=> tx'.pos = tx'.dg.size
          BY <3>2, <4>4, Taken
        <5>2. QnPost(o) = o.bytes
          BY <1>2, <1>4, <3>2, <4>4, <5>1, Widths DEF QnPost
        <5>3. eopSeen' <=> tx'.pos = tx'.dg.size
          BY <1>6, <2>1, <4>4, <5>1 DEF Advance, Latch
        <5>4. qn' = tx'.pos
          BY <2>1, <4>2, <4>3, <4>4, <5>1, <5>2 DEF Advance
        <5> QED
          BY <5>3, <5>4 DEF AtHeader, Ended
      <4>5. CASE ~Take(o)
        <5>1. tx'.dg = tx.dg /\ tx'.pos = tx.pos
          BY <4>5, Taken
        <5>2. qn' = 0 /\ ~eopSeen'
          BY <1>4, <1>6, <2>1, <3>2, <4>2, <4>3, <4>5 DEF Advance, Latch
        <5> QED
          BY <3>2, <5>1, <5>2 DEF AtHeader
      <4> QED
        BY <4>4, <4>5
    <3> QED
      BY <1>3, <3>1, <3>2 DEF AtHeader
  <2>3. st' = "HDR"
    BY <2>1 DEF Advance
  <2> QED
    BY <2>1, <2>2, <2>3 DEF Position
<1> QED
  BY <1>5, <1>6

\* The datagram under way is one of the traffic.
LEMMA FrameableHere ==
  ASSUME ParserInv, TrafficFits
  PROVE  Frameable(tx.dg)
<1>1. CASE tx.dg \in Datagrams
  BY <1>1 DEF TrafficFits
<1>2. CASE tx.dg = NoDatagram
  <2>1. tx.dg.count = 0 /\ tx.dg.msgs = <<>>
    BY <1>2 DEF NoDatagram
  <2>2. Len(tx.dg.msgs) = 0
    BY <2>1
  <2> QED
    BY <2>1, <2>2 DEF Frameable
<1> QED
  BY <1>1, <1>2 DEF ParserInv

\* Bytes at the place of a message are that message's.
LEMMA AtHand ==
  ASSUME ParserInv, TrafficFits, AtLength, qn >= 1
  PROVE  /\ AtMessage
         /\ \A w \in WiresHere : w.m = tx.dg.msgs[Done + 1]
<1>1. Counted /\ Front = Begin(tx.dg, Done + 1)
  BY DEF AtLength, NextBegin
<1>2. Len(tx.dg.msgs) \in Nat
  BY Sizes
<1>3. Done # Len(tx.dg.msgs)
  <2>1. SUFFICES ASSUME Done = Len(tx.dg.msgs) PROVE FALSE
    OBVIOUS
  <2>2. tx.dg.count > Len(tx.dg.msgs)
    BY <1>1, <1>2, <2>1, Sizes DEF Counted, Done
  <2>3. tx.dg.size <= Begin(tx.dg, Done + 1)
    BY <2>1, <2>2, FrameableHere DEF Frameable, Whole
  <2>4. Front < tx.dg.size
    BY Sizes DEF Front
  <2>5. Front \in Int
    BY Sizes DEF Front
  <2> QED
    BY <1>1, <2>3, <2>4, <2>5, Sizes
<1>4. Done + 1 \in 1..Len(tx.dg.msgs)
  BY <1>1, <1>2, <1>3 DEF Counted
<1> QED
  BY <1>1, <1>4, ReadsMessage, Sizes DEF AtMessage

\* In ST_LEN a cycle only adds bytes behind the front.
LEMMA LengthMoves ==
  ASSUME ParserInv, IdleKeeps \subseteq {0}, Position, st = "LEN",
         NEW o \in Offers, In("LEN", o), Send(o)
  PROVE  /\ AtLength /\ dropPacket = FALSE /\ BaseN = qn /\ ~DrainLive
         /\ tx'.dg = tx.dg /\ tx'.pos \in Nat /\ tx'.pos <= tx.dg.size
         /\ Queue(o) = QnPost(o) /\ QnPost(o) \in 0..QBUFW
         /\ tx'.pos - QnPost(o) = Front
         /\ EopEff(o) <=> tx'.pos = tx.dg.size
         /\ Latch(o) => Ended'
<1>1. dropPacket = FALSE /\ ~(Take(o) /\ ~o.keepOk)
  BY Sizes DEF In
<1>2. AtLength /\ Ended
  BY <1>1 DEF Position, AtLength
<1>3. BaseN = qn /\ ~DrainLive
  BY Drains
<1>4. /\ tx'.dg = tx.dg /\ tx'.pos \in Nat /\ tx'.pos <= tx.dg.size
      /\ Queue(o) = QnPost(o) /\ QnPost(o) \in 0..QBUFW
      /\ tx'.pos - QnPost(o) = tx.pos - BaseN
      /\ EopEff(o) <=> tx'.pos = tx.dg.size
      /\ eopSeen \/ (Take(o) /\ o.last) <=> tx'.pos = tx.dg.size
  BY <1>1, <1>2, <1>3, Transfers
<1>5. Latch(o) => Ended'
  BY <1>4 DEF Latch, Ended
<1> QED
  BY <1>1, <1>2, <1>3, <1>4, <1>5 DEF Front

\* More of the message comes, or the datagram is given up.
LEMMA LenShortMoves ==
  ASSUME ParserInv, IdleKeeps \subseteq {0}, Position,
         NEW o \in Offers, NEW rdy, Send(o), LenShort(o, rdy)
  PROVE  Position'
<1>1. In("LEN", o) /\ st = "LEN"
  BY DEF LenShort, In
<1>2. /\ AtLength /\ dropPacket = FALSE
      /\ tx'.dg = tx.dg /\ tx'.pos \in Nat /\ tx'.pos <= tx.dg.size
      /\ Queue(o) = QnPost(o) /\ tx'.pos - QnPost(o) = Front
      /\ EopEff(o) <=> tx'.pos = tx.dg.size
      /\ Latch(o) => Ended'
  BY <1>1, LengthMoves
<1>3. CASE eopSeen
  <2>1. tx'.pos = tx.dg.size
    BY <1>2, <1>3 DEF EopEff
  <2>2. Fail(FALSE)
    BY <1>2, <1>3 DEF LenShort
  <2> QED
    BY <1>2, <2>1, <2>2, GivenUp, Sizes DEF Fail
<1>4. CASE ~eopSeen
  <2>1. /\ st' = "LEN" /\ qn' = Queue(o) /\ Latch(o)
        /\ dropPacket' = FALSE /\ packLeft' = packLeft
    BY <1>2, <1>4 DEF LenShort, Advance
  <2>2. packCount' = packCount
    BY DEF LenShort
  <2>3. Counted' /\ NextBegin' = NextBegin
    BY <1>2, <2>1, <2>2 DEF AtLength, Counted, NextBegin, Done
  <2>4. Front' = Front
    BY <1>2, <2>1 DEF Front
  <2>5. AtLength'
    BY <1>2, <2>1, <2>3, <2>4 DEF AtLength
  <2> QED
    BY <2>1, <2>5 DEF Position
<1> QED
  BY <1>3, <1>4

\* The message that is captured is the one at hand.
LEMMA CaptureMoves ==
  ASSUME ParserInv, TrafficFits, Position,
         NEW o \in Offers, NEW rdy, Send(o), Capture(o, rdy)
  PROVE  Captured' /\ Position'
<1>1. In("LEN", o) /\ st = "LEN" /\ qn >= 2
  BY DEF Capture, In
<1>2. IdleKeeps \subseteq {0}
  BY DEF TrafficFits
<1>3. /\ AtLength /\ dropPacket = FALSE /\ BaseN = qn
      /\ tx'.dg = tx.dg /\ tx'.pos \in Nat
      /\ Queue(o) = QnPost(o) /\ QnPost(o) \in 0..QBUFW /\ tx'.pos - QnPost(o) = Front
      /\ Latch(o) => Ended'
  BY <1>1, <1>2, LengthMoves
<1>4. AtMessage /\ \A w \in WiresHere : w.m = tx.dg.msgs[Done + 1]
  BY <1>1, <1>3, AtHand, Sizes
<1>5. PICK w \in WiresHere :
        /\ qn >= 2 + w.m.len
        /\ msgReg' = [n |-> tx.n, j |-> w.j, type |-> w.m.type, len |-> w.m.len]
  BY DEF Capture
<1>6. /\ st' = "CAP" /\ qn' = QnPost(o) /\ Latch(o) /\ dropPacket' = FALSE
      /\ packLeft' = packLeft /\ packCount' = packCount
  BY <1>3 DEF Capture, headerVars
<1>7. msgReg'.len = tx.dg.msgs[Done + 1].len /\ qn >= 2 + msgReg'.len
  BY <1>4, <1>5
<1>8. qn' >= 2 + msgReg'.len
  <2>1. o.bytes \in Nat /\ qn \in Nat /\ msgReg'.len \in Nat
    <3>1. o.bytes \in 0..BYTES /\ BYTES \in Nat
      BY OfferFields, Widths
    <3>2. w.m.len \in Nat
      BY LengthRead, Sizes
    <3> QED
      BY <1>5, <3>1, <3>2, Sizes
  <2>2. QnPost(o) = qn + o.bytes \/ QnPost(o) = qn + 0
    BY <1>3 DEF QnPost
  <2> QED
    BY <1>6, <1>7, <2>1, <2>2
<1>9. AtMessage' /\ NextBegin' = NextBegin /\ Done' = Done
  BY <1>3, <1>4, <1>6 DEF AtMessage, Counted, NextBegin, Done
<1>10. Front' = Front
  BY <1>3, <1>6 DEF Front
<1>11. Captured'
  BY <1>3, <1>6, <1>7, <1>8, <1>9, <1>10 DEF Captured, AtLength
<1> QED
  BY <1>6, <1>11 DEF Position

\* No message is longer than the longest of Wire.
LEMMA WireShort ==
  ASSUME NEW s \in Seq(Wire), NEW j \in 1..Len(s)
  PROVE  s[j].len <= 250
<1>1. s[j] \in Wire
  OBVIOUS
<1>2. s[j].len \in 1..250
  BY <1>1, Zenon DEF Wire
<1>3. \A len \in 1..250 : len <= 250
  OBVIOUS
<1> QED
  BY <1>2, <1>3, Zenon

\* What is skipped ends with the message: nothing of what was taken lies
\* behind it, and the nine bits of drop_left hold the rest.
LEMMA SkipMoves ==
  ASSUME ParserInv, TrafficFits, Cut', Position,
         NEW o \in Offers, NEW rdy, Send(o), Skip(o, rdy)
  PROVE  Position'
<1>1. In("LEN", o) /\ st = "LEN" /\ qn >= 2
  BY DEF Skip, In
<1>2. IdleKeeps \subseteq {0}
  BY DEF TrafficFits
<1>3. /\ AtLength /\ dropPacket = FALSE /\ BaseN = qn
      /\ tx'.dg = tx.dg /\ tx'.pos \in Nat /\ tx'.pos <= tx.dg.size
      /\ QnPost(o) \in 0..QBUFW /\ tx'.pos - QnPost(o) = Front
      /\ Latch(o) => Ended'
  BY <1>1, <1>2, LengthMoves
<1>4. AtMessage /\ \A w \in WiresHere : w.m = tx.dg.msgs[Done + 1]
  BY <1>1, <1>3, AtHand, Sizes
<1>5. PICK w \in WiresHere :
        /\ qn < 2 + w.m.len /\ Oversize(w.m.len)
        /\ dropLeft' = ToSkip(o, w.m.len)
  BY DEF Skip
<1> DEFINE j == Done + 1
           len == tx.dg.msgs[j].len
<1>6. w.m.len = len
  BY <1>4, <1>5
<1>7. j \in 1..Len(tx.dg.msgs) /\ j <= tx.dg.count /\ j \in Nat /\ Done + 2 = j + 1
  <2>1. /\ packCount = tx.dg.count /\ packLeft \in 1..packCount
        /\ Done + 1 \in 1..Len(tx.dg.msgs)
    BY <1>4 DEF AtMessage, Counted
  <2>2. tx.dg.count \in Nat /\ Len(tx.dg.msgs) \in Nat
    BY Sizes
  <2> QED
    BY <2>1, <2>2 DEF Done
<1> HIDE DEF j
<1>8. /\ Begin(tx.dg, j) \in Nat /\ Begin(tx.dg, j + 1) \in Nat
      /\ len \in Nat /\ len <= 250
      /\ Begin(tx.dg, j + 1) = Begin(tx.dg, j) + 2 + len
  BY <1>7, BeginNext, WireShort, Sizes
<1>9. Front = Begin(tx.dg, j)
  BY <1>3 DEF AtLength, NextBegin, j
<1> HIDE DEF len
<1>10. /\ \A e \in (Begin(tx.dg, j + 1) + 1)..(Begin(tx.dg, j) + QBUFW) :
            e <= tx.dg.size => e % BYTES # 0 /\ e # tx.dg.size
       /\ tx.dg.size <= Begin(tx.dg, j) + 1 \/ tx.dg.size >= Begin(tx.dg, j + 1)
  BY <1>5, <1>6, <1>7, FrameableHere DEF Frameable, len
<1>11. tx.dg.size >= Begin(tx.dg, j + 1)
  <2>1. Front + 2 <= tx.dg.size /\ Front \in Int
    BY <1>1, Sizes DEF Front
  <2>2. Begin(tx.dg, j) + 2 <= tx.dg.size
    BY <1>9, <2>1
  <2>3. \A b, s \in Nat : b + 2 <= s => ~(s <= b + 1)
    OBVIOUS
  <2>4. ~(tx.dg.size <= Begin(tx.dg, j) + 1)
    BY <1>8, <2>2, <2>3, Sizes, Zenon
  <2> QED
    BY <1>10, <2>4
<1>12. QnPost(o) \in Nat /\ QnPost(o) <= QBUFW /\ QBUFW \in Nat
  BY <1>3, Widths
<1>13. QnPost(o) <= 2 + len
  <2>1. SUFFICES ASSUME ~(QnPost(o) <= 2 + len) PROVE FALSE
    OBVIOUS
  <2>2. tx'.pos \in (Begin(tx.dg, j + 1) + 1)..(Begin(tx.dg, j) + QBUFW)
    BY <1>3, <1>8, <1>9, <1>12, <2>1
  <2>3. tx'.pos % BYTES # 0 /\ tx'.pos # tx.dg.size
    BY <1>3, <1>10, <2>2
  <2> QED
    BY <1>3, <2>3 DEF Cut
<1>14. dropLeft' = 2 + len - QnPost(o)
  <2>1. 2 + len - QnPost(o) \in Nat /\ 2 + len - QnPost(o) < 512
    BY <1>8, <1>12, <1>13
  <2>2. \A a \in Nat : a < 512 => a % 512 = a
    OBVIOUS
  <2> QED
    BY <1>5, <1>6, <2>1, <2>2 DEF ToSkip
<1>15. /\ st' = "DRAIN" /\ qn' = 0 /\ Latch(o) /\ dropPacket' = FALSE
       /\ packLeft' = packLeft /\ packCount' = packCount
  BY <1>3 DEF Skip, headerVars
<1>16. AtMessage' /\ Done' = Done /\ (Done + 1)' = j
  BY <1>3, <1>4, <1>15 DEF AtMessage, Counted, Done, j
<1>17. Front' = tx'.pos
  BY <1>3, <1>15 DEF Front
<1>18. Front' + dropLeft' = Begin(tx.dg, j + 1)
  BY <1>3, <1>8, <1>9, <1>12, <1>14, <1>17
<1>19. (Done + 2)' = j + 1
  BY <1>7, <1>16
<1>20. Oversize(tx'.dg.msgs[Done' + 1].len)
  BY <1>3, <1>5, <1>6, <1>16 DEF len
<1>21. Skipping'
  BY <1>3, <1>11, <1>15, <1>16, <1>18, <1>19, <1>20 DEF Skipping
<1> QED
  BY <1>15, <1>21 DEF Position

(***************************************************************************)
(* From the capture of a message to its end                                *)
(***************************************************************************)
LEMMA WreckStays ==
  ASSUME ParserInv, IdleKeeps \subseteq {0}, Wrecked, ~DrainLive,
         NEW s, NEW o \in Offers, In(s, o), Send(o), qn' = Queue(o), Latch(o),
         packLeft' = packLeft
  PROVE  Wrecked'
<1>1. Ended
  BY DEF Wrecked, Ended
<1>2. BaseN = 0
  BY Drains DEF Wrecked
<1>3. /\ tx'.dg = tx.dg /\ qn' \in Nat /\ tx'.pos \in Nat
      /\ Front' = tx.pos - BaseN /\ Ended'
  BY <1>1, Moves
<1>4. tx'.pos <= tx'.dg.size
  BY Taken
<1>5. qn' = 0 /\ tx'.pos = tx'.dg.size
  BY <1>2, <1>3, <1>4, Sizes DEF Front, Wrecked
<1> QED
  BY <1>3, <1>5 DEF Ended, Wrecked

\* A state of the emission goes on, behind the captured message.
LEMMA BehindStays ==
  ASSUME ParserInv, IdleKeeps \subseteq {0},
         NEW s \in {"CAP", "W0", "TS", "BODY", "NEXT"},
         s = "CAP" => Captured, s # "CAP" => Behind,
         NEW o \in Offers, In(s, o), Send(o), qn' = Queue(o), Latch(o),
         packLeft' = packLeft, packCount' = packCount
  PROVE  Behind'
<1>1. st = s
  BY DEF In
<1>2. ~DrainLive
  BY <1>1, Drains
<1>3. Ended /\ AtMessage
  BY DEF Captured, Behind
<1>4. tx.pos - BaseN = Begin(tx.dg, Done + 2)
  <2>1. CASE s # "CAP"
    <3>1. BaseN = qn
      BY <1>1, <2>1, Drains
    <3> QED
      BY <2>1, <3>1 DEF Behind, Front
  <2>2. CASE s = "CAP"
    <3>1. BaseN = qn - (2 + msgReg.len) /\ msgReg.len \in Nat
      BY <1>1, <2>2, Drains DEF Captured
    <3>2. Done + 1 \in 1..Len(tx.dg.msgs) /\ (Done + 1) + 1 = Done + 2
      BY <1>3, Sizes DEF AtMessage, Counted
    <3>3. /\ Begin(tx.dg, (Done + 1) + 1) = Begin(tx.dg, Done + 1) + 2 + tx.dg.msgs[Done + 1].len
          /\ Begin(tx.dg, Done + 1) \in Nat
      BY <3>2, BeginNext, Sizes
    <3>4. Begin(tx.dg, Done + 2) = Begin(tx.dg, Done + 1) + 2 + msgReg.len
      BY <2>2, <3>2, <3>3 DEF Captured
    <3>5. tx.pos - qn = Begin(tx.dg, Done + 1)
      BY <2>2 DEF Captured, Front, NextBegin
    <3>6. tx.pos - BaseN = (tx.pos - qn) + 2 + msgReg.len
      <4>1. tx.pos \in Nat /\ qn \in Nat
        BY Sizes
      <4>2. \A p, q, l \in Nat : p - (q - (2 + l)) = (p - q) + 2 + l
        OBVIOUS
      <4> QED
        BY <3>1, <4>1, <4>2, Zenon
    <3> QED
      BY <3>4, <3>5, <3>6
  <2> QED
    BY <2>1, <2>2
<1>5. tx'.dg = tx.dg /\ Front' = tx.pos - BaseN /\ Ended'
  BY <1>2, <1>3, Moves
<1>6. AtMessage' /\ Done' = Done
  BY <1>3, <1>5 DEF AtMessage, Counted, Done
<1> QED
  BY <1>4, <1>5, <1>6 DEF Behind

\* The emission leaves the front behind its message.
LEMMA EmissionMoves ==
  ASSUME ParserInv, IdleKeeps \subseteq {0}, Position,
         NEW s \in {"CAP", "W0", "TS", "BODY", "NEXT"},
         NEW o \in Offers, In(s, o), Send(o), Advance(o, st'),
         st' \in {"W0", "TS", "BODY", "NEXT"},
         UNCHANGED <<dropPacket, headerVars>>
  PROVE  Position'
<1>1. /\ st = s /\ dropPacket = FALSE /\ dropPacket' = FALSE
      /\ qn' = Queue(o) /\ Latch(o)
      /\ packLeft' = packLeft /\ packCount' = packCount
  BY Sizes DEF In, Advance, headerVars
<1>2. CASE Wrecked
  <2>1. ~DrainLive
    BY <1>1, Drains
  <2>2. Wrecked'
    BY <1>1, <1>2, <2>1, WreckStays
  <2> QED
    BY <1>1, <2>2 DEF Position
<1>3. CASE (s = "CAP" => Captured) /\ (s # "CAP" => Behind)
  <2>1. Behind'
    BY <1>1, <1>3, BehindStays
  <2> QED
    BY <1>1, <2>1 DEF Position
<1> QED
  BY <1>1, <1>2, <1>3 DEF Position

\* The same for its states and for the stall.
LEMMA EmittingMoves ==
  ASSUME ParserInv, IdleKeeps \subseteq {0}, OutQuiet, Position,
         NEW o \in Offers, NEW rdy, Send(o),
         Stall(o, rdy) \/ Cap(o, rdy) \/ W0(o, rdy) \/ TS(o, rdy) \/ Body(o, rdy)
  PROVE  Position'
<1>1. CASE Stall(o, rdy)
  <2>1. PICK s \in {"CAP", "W0", "TS", "BODY", "NEXT"} : In(s, o)
    BY <1>1 DEF Stall
  <2>2. st = s /\ out.valid
    BY <1>1, <2>1 DEF Stall, In, Free, OutFree
  <2>3. s # "CAP"
    BY <2>2 DEF OutQuiet
  <2>4. Advance(o, st) /\ st' = st /\ UNCHANGED <<dropPacket, headerVars>>
    BY <1>1 DEF Stall, Advance
  <2> QED
    BY <2>1, <2>2, <2>3, <2>4, EmissionMoves
<1>2. CASE Cap(o, rdy)
  <2>1. /\ In("CAP", o) /\ Advance(o, st') /\ st' \in {"W0", "NEXT"}
        /\ UNCHANGED <<dropPacket, headerVars>>
    BY <1>2 DEF Cap, Emission, Advance
  <2> QED
    BY <2>1, EmissionMoves
<1>3. CASE W0(o, rdy)
  <2>1. /\ In("W0", o) /\ Advance(o, st') /\ st' = "TS"
        /\ UNCHANGED <<dropPacket, headerVars>>
    BY <1>3 DEF W0, Emission, Advance
  <2> QED
    BY <2>1, EmissionMoves
<1>4. CASE TS(o, rdy)
  <2>1. /\ In("TS", o) /\ Advance(o, st') /\ st' = "BODY"
        /\ UNCHANGED <<dropPacket, headerVars>>
    BY <1>4 DEF TS, Emission, Advance
  <2> QED
    BY <2>1, EmissionMoves
<1>5. CASE Body(o, rdy)
  <2>1. /\ In("BODY", o) /\ Advance(o, st') /\ st' \in {"BODY", "NEXT"}
        /\ UNCHANGED <<dropPacket, headerVars>>
    BY <1>5 DEF Body, Emission, Advance
  <2> QED
    BY <2>1, EmissionMoves
<1> QED
  BY <1>1, <1>2, <1>3, <1>4, <1>5

\* The end of a message; if nothing is to be discarded, the last one ends the
\* datagram.
LEMMA CloseMoves ==
  ASSUME ParserInv, IdleKeeps \subseteq {0}, Behind \/ Wrecked, BaseN = qn, ~DrainLive,
         NEW s, NEW o \in Offers, In(s, o), Send(o), NEW drops \in BOOLEAN, Close(o, drops),
         packCount' = packCount,
         drops \/ (packLeft = 1 => Behind /\ tx.dg.size <= Front)
  PROVE  Position'
<1>1. dropPacket = FALSE /\ ~(Take(o) /\ ~o.keepOk)
  BY Sizes DEF In
<1>2. Ended
  BY DEF Behind, Wrecked, Ended
<1>3. /\ tx'.dg = tx.dg /\ tx'.pos \in Nat /\ tx'.pos <= tx.dg.size
      /\ Queue(o) = QnPost(o) /\ QnPost(o) \in 0..QBUFW
      /\ tx'.pos - QnPost(o) = Front
      /\ EopEff(o) <=> tx'.pos = tx.dg.size
  BY <1>1, <1>2, Transfers DEF Front
<1>4. QnPost(o) \in Nat
  BY <1>3, Widths
<1>5. CASE packLeft > 1
  <2>1. Behind
    BY <1>5 DEF Wrecked
  <2>2. packLeft' = packLeft - 1 /\ Advance(o, "LEN") /\ dropPacket' = FALSE
    BY <1>1, <1>5 DEF Close
  <2>3. st' = "LEN" /\ qn' = Queue(o) /\ Latch(o)
    BY <2>2 DEF Advance
  <2>4. Front' = tx.pos - BaseN /\ Ended'
    BY <1>2, <2>3, Moves
  <2>5. Done' = Done + 1 /\ Done \in Nat
    BY <2>1, <2>2, Sizes DEF Done, Behind, AtMessage, Counted
  <2>6. Counted'
    <3>1. packLeft' \in 1..packCount'
      BY <1>5, <2>1, <2>2, Sizes DEF Behind, AtMessage, Counted
    <3>2. Done' \in 0..Len(tx'.dg.msgs)
      BY <1>3, <2>1, <2>5, Sizes DEF Behind, AtMessage
    <3> QED
      BY <1>3, <2>1, <3>1, <3>2 DEF Behind, AtMessage, Counted
  <2>7. Done' + 1 = Done + 2
    BY <2>5
  <2>8. NextBegin' = Begin(tx.dg, Done + 2)
    BY <1>3, <2>7 DEF NextBegin
  <2>9. AtLength'
    BY <2>1, <2>4, <2>6, <2>8 DEF AtLength, Behind, Front
  <2> QED
    BY <2>2, <2>3, <2>9 DEF Position
<1>6. CASE ~(packLeft > 1) /\ Ends(o)
  <2>1. st' = "HDR" /\ qn' = Queue(o) /\ eopSeen' = FALSE /\ dropPacket' = FALSE
    BY <1>1, <1>6 DEF Close
  <2>2. QnPost(o) = 0 /\ EopEff(o)
    BY <1>6 DEF Ends
  <2> QED
    BY <1>3, <2>1, <2>2, GivenUp, Sizes
<1>7. CASE ~(packLeft > 1) /\ ~Ends(o)
  <2>1. drops
    <3>1. SUFFICES ASSUME ~drops PROVE FALSE
      OBVIOUS
    <3>2. packLeft = 1
      BY <1>7, Sizes DEF Behind, Wrecked, AtMessage, Counted
    <3>3. tx.dg.size <= Front
      BY <3>1, <3>2
    <3>4. tx'.pos = tx.dg.size /\ QnPost(o) = 0
      BY <1>3, <1>4, <3>3, Sizes
    <3> QED
      BY <1>3, <1>7, <3>4 DEF Ends
  <2>2. Fail(~EopEff(o))
    BY <1>7, <2>1 DEF Close
  <2> QED
    BY <1>3, <2>2, GivenUp, Sizes DEF Fail
<1> QED
  BY <1>5, <1>6, <1>7

\* Behind an emitted message the next one begins, or the datagram ends.
LEMMA NextMsgMoves ==
  ASSUME ParserInv, IdleKeeps \subseteq {0}, Position,
         NEW o \in Offers, NEW rdy, Send(o), NextMsg(o, rdy)
  PROVE  Position'
<1>1. In("NEXT", o) /\ Close(o, TRUE) /\ packCount' = packCount
  BY DEF NextMsg
<1>2. st = "NEXT" /\ dropPacket = FALSE
  BY <1>1, Sizes DEF In
<1>3. Behind \/ Wrecked
  BY <1>2 DEF Position
<1>4. BaseN = qn /\ ~DrainLive
  BY <1>2, Drains
<1> QED
  BY <1>1, <1>3, <1>4, CloseMoves

\* The same behind a skipped message.
LEMMA DrainedMoves ==
  ASSUME ParserInv, TrafficFits, Position,
         NEW o \in Offers, NEW rdy, Send(o), Drained(o, rdy)
  PROVE  Position'
<1>1. In("DRAIN", o) /\ dropLeft = 0 /\ Close(o, FALSE) /\ packCount' = packCount
  BY DEF Drained
<1>2. st = "DRAIN" /\ dropPacket = FALSE
  BY <1>1, Sizes DEF In
<1>3. Skipping
  BY <1>2 DEF Position
<1>4. Behind
  BY <1>1, <1>3, Sizes DEF Skipping, Behind, Front
<1>5. BaseN = qn /\ ~DrainLive
  BY <1>1, <1>2, Drains
<1>6. packLeft = 1 => tx.dg.size <= Front
  <2>1. SUFFICES ASSUME packLeft = 1 PROVE tx.dg.size <= Front
    OBVIOUS
  <2>2. Done + 1 = tx.dg.count /\ (Done + 1) + 1 = Done + 2
    BY <1>3, <2>1, Sizes DEF Skipping, AtMessage, Counted, Done
  <2>3. Done + 1 \in 1..Len(tx.dg.msgs) /\ Oversize(tx.dg.msgs[Done + 1].len)
    BY <1>3 DEF Skipping, AtMessage
  <2>4. Done + 1 <= tx.dg.count
    BY <2>2, Sizes
  <2>5. tx.dg.size <= Begin(tx.dg, (Done + 1) + 1)
    BY <2>2, <2>3, <2>4, FrameableHere DEF Frameable
  <2> QED
    BY <1>4, <2>2, <2>5 DEF Behind
<1>7. IdleKeeps \subseteq {0}
  BY DEF TrafficFits
<1> QED
  BY <1>1, <1>4, <1>5, <1>6, <1>7, CloseMoves

\* The bytes of the bus are skipped, the last of them together with what
\* follows the message in the same beat.
LEMMA DrainingMoves ==
  ASSUME ParserInv, IdleKeeps \subseteq {0}, Position,
         NEW o \in Offers, NEW rdy, Send(o), Draining(o, rdy)
  PROVE  Position'
<1>1. In("DRAIN", o) /\ dropLeft > 0
  BY DEF Draining
<1>2. st = "DRAIN" /\ dropPacket = FALSE /\ ~(Take(o) /\ ~o.keepOk)
  BY <1>1, Sizes DEF In
<1>3. Skipping
  BY <1>2 DEF Position
<1> DEFINE end == Begin(tx.dg, Done + 2)
<1>4. qn = 0 /\ tx.pos + dropLeft = end /\ tx.dg.size >= end /\ Ended
  BY <1>1, <1>3, Sizes DEF Skipping, Front
<1> HIDE DEF end
<1>5. tx.pos < tx.dg.size /\ tx.pos # tx.dg.size /\ end \in Nat
  BY <1>1, <1>4, Sizes
<1>6. ~eopSeen
  BY <1>4, <1>5 DEF Ended
<1>7. /\ st' = "DRAIN" /\ qn' = Queue(o) /\ Latch(o)
      /\ dropLeft' = IF DrainDrop(o) THEN dropLeft - o.bytes ELSE 0
      /\ packLeft' = packLeft /\ packCount' = packCount
      /\ dropPacket' = FALSE
  BY <1>2, <1>6 DEF Draining, Advance
<1>8. DrainLive
  BY <1>1, <1>2 DEF DrainLive
<1>9. o.bytes \in Nat
  <2>1. o.bytes \in 0..BYTES /\ BYTES \in Nat
    BY OfferFields, Widths
  <2> QED
    BY <2>1
<1>10. /\ tx'.dg = tx.dg /\ tx'.pos = tx.pos + o.bytes /\ tx'.pos <= tx.dg.size
       /\ eopSeen' <=> tx'.pos = tx.dg.size
  <2>1. DrainDrop(o) \/ DrainStrad(o)
    BY <1>8, <1>9, Sizes DEF DrainDrop, DrainStrad
  <2>2. CASE Take(o)
    <3>1. /\ tx'.dg = tx.dg /\ tx'.pos = tx.pos + o.bytes /\ tx'.pos <= tx'.dg.size
          /\ o.last <=> tx'.pos = tx'.dg.size
      BY <1>5, <2>2, Taken
    <3> QED
      BY <1>6, <1>7, <2>2, <3>1 DEF Latch
  <2>3. CASE ~Take(o)
    <3>1. ~o.valid
      BY <2>1, <2>3 DEF Take, TReady
    <3>2. o.bytes = 0
      BY <3>1, OfferIs DEF IsBeat
    <3>3. tx'.dg = tx.dg /\ tx'.pos = tx.pos
      BY <2>3, Taken
    <3> QED
      BY <1>5, <1>6, <1>7, <2>3, <3>2, <3>3, Sizes DEF Latch
  <2> QED
    BY <2>2, <2>3
<1>11. /\ Front' + dropLeft' = end
       /\ dropLeft' > 0 => qn' = 0
  <2>1. CASE o.bytes <= dropLeft
    <3>1. DrainDrop(o) /\ ~DrainStrad(o)
      BY <1>8, <1>9, <2>1, Sizes DEF DrainDrop, DrainStrad
    <3>2. qn' = 0 /\ dropLeft' = dropLeft - o.bytes
      BY <1>7, <3>1 DEF Queue
    <3> QED
      BY <1>4, <1>9, <1>10, <3>2, Sizes DEF Front
  <2>2. CASE ~(o.bytes <= dropLeft)
    <3>1. ~DrainDrop(o) /\ DrainStrad(o)
      BY <1>8, <1>9, <2>2, Sizes DEF DrainDrop, DrainStrad
    <3>2. qn' = o.bytes - dropLeft /\ dropLeft' = 0
      BY <1>7, <3>1 DEF Queue
    <3> QED
      BY <1>4, <1>9, <1>10, <3>2, Sizes DEF Front
  <2> QED
    BY <2>1, <2>2
<1>12. AtMessage' /\ Done' = Done
  BY <1>3, <1>7, <1>10 DEF Skipping, AtMessage, Counted, Done
<1>13. Skipping'
  <2>1. Begin(tx.dg, Done + 2)' = end
    BY <1>10, <1>12 DEF end
  <2>2. Oversize(tx.dg.msgs[Done + 1].len)'
    BY <1>3, <1>10, <1>12 DEF Skipping
  <2>3. Ended'
    BY <1>10 DEF Ended
  <2> QED
    BY <1>4, <1>10, <1>11, <1>12, <2>1, <2>2, <2>3 DEF Skipping
<1> QED
  BY <1>7, <1>13 DEF Position

(***************************************************************************)
(* Framing                                                                 *)
(***************************************************************************)
FrameInv == ParserInv /\ OutQuiet /\ Cut /\ Position

\* At reset the parser is at the end of no datagram.
LEMMA FrameInit == HInit => FrameInv
<1> SUFFICES ASSUME HInit PROVE FrameInv
  OBVIOUS
<1>1. ParserInv
  BY InitHolds
<1>2. /\ tx.dg = NoDatagram /\ tx.pos = 1 /\ st = "HDR" /\ qn = 0 /\ out = Silent
      /\ eopSeen = FALSE /\ dropPacket = FALSE
  BY DEF HInit, Init
<1>3. tx.dg.size = 1
  BY <1>2 DEF NoDatagram
<1> QED
  BY <1>1, <1>2, <1>3 DEF FrameInv, OutQuiet, Silent, Cut, Position, AtHeader

\* Every cycle keeps the place.
LEMMA PositionMoves ==
  ASSUME TrafficFits, FrameInv, Cut', NEW o \in Offers, NEW rdy, Cycle(o, rdy)
  PROVE  Position'
<1>0. /\ Send(o) /\ ParserInv /\ OutQuiet /\ Position
      /\ IdleKeeps \subseteq {0}
  BY DEF Cycle, FrameInv, TrafficFits
<1>1. CASE Dropping(o, rdy)
  BY <1>0, <1>1, DroppingMoves
<1>2. CASE BadKeep(o, rdy)
  BY <1>0, <1>2, BadKeepMoves
<1>3. CASE Hdr(o, rdy)
  BY <1>0, <1>3, HdrMoves
<1>4. CASE HdrShort(o, rdy)
  BY <1>0, <1>4, HdrShortMoves
<1>5. CASE Capture(o, rdy)
  BY <1>0, <1>5, CaptureMoves
<1>6. CASE Skip(o, rdy)
  BY <1>0, <1>6, SkipMoves
<1>7. CASE LenShort(o, rdy)
  BY <1>0, <1>7, LenShortMoves
<1>8. CASE Stall(o, rdy) \/ Cap(o, rdy) \/ W0(o, rdy) \/ TS(o, rdy) \/ Body(o, rdy)
  BY <1>0, <1>8, EmittingMoves
<1>9. CASE NextMsg(o, rdy)
  BY <1>0, <1>9, NextMsgMoves
<1>10. CASE Drained(o, rdy)
  BY <1>0, <1>10, DrainedMoves
<1>11. CASE Draining(o, rdy)
  BY <1>0, <1>11, DrainingMoves
<1> QED
  BY <1>1, <1>2, <1>3, <1>4, <1>5, <1>6, <1>7, <1>8, <1>9, <1>10, <1>11 DEF Cycle

\* The invariant of the framing is inductive.
LEMMA FrameStep ==
  ASSUME TrafficFits, FrameInv, [HNext]_hvars
  PROVE  FrameInv'
<1>1. ParserInv'
  BY StepHolds DEF FrameInv
<1>2. CASE HNext
  <2>1. PICK o \in Offers, rdy \in Readiness : Cycle(o, rdy)
    BY <1>2 DEF HNext, HCycle
  <2>2. Send(o) /\ ParserInv /\ OutQuiet /\ Cut /\ IdleKeeps \subseteq {0}
    BY <2>1 DEF Cycle, FrameInv, TrafficFits
  <2>3. OutQuiet'
    BY <2>1, <2>2, QuietHolds
  <2>4. Cut'
    BY <2>2, CutHolds
  <2>5. Position'
    BY <2>1, <2>4, PositionMoves
  <2> QED
    BY <1>1, <2>3, <2>4, <2>5 DEF FrameInv
<1>3. CASE UNCHANGED hvars
  <2>1. UNCHANGED <<tx, st, qn, dropLeft, packLeft, packCount, eopSeen, dropPacket,
                    msgReg, out>>
    BY <1>3 DEF hvars, vars, senderVars, headerVars, recordVars
  <2>2. OutQuiet' /\ Cut'
    BY <2>1 DEF FrameInv, OutQuiet, Cut
  <2>3. /\ (Discarding <=> Discarding') /\ (AtHeader <=> AtHeader')
        /\ (AtLength <=> AtLength') /\ (Captured <=> Captured')
        /\ (Behind <=> Behind') /\ (Wrecked <=> Wrecked') /\ (Skipping <=> Skipping')
    BY <2>1 DEF Discarding, AtHeader, AtLength, Captured, Behind, Wrecked, Skipping,
                Ended, Counted, AtMessage, Front, NextBegin, Done, RecordActive
  <2>4. Position'
    BY <2>1, <2>3 DEF FrameInv, Position
  <2> QED
    BY <1>1, <2>2, <2>4 DEF FrameInv
<1> QED
  BY <1>2, <1>3

\* The framing follows from it.
LEMMA FramedHolds ==
  ASSUME FrameInv
  PROVE  Framed
<1>1. ParserInv /\ Position
  BY DEF FrameInv
<1>2. dropPacket => st # "LEN" /\ st # "DRAIN" /\ qn = 0
  BY <1>1 DEF Position, Discarding, RecordActive
<1>3. OnlyMissingBytes
  <2>1. SUFFICES ASSUME st = "DRAIN"
                 PROVE  Front + dropLeft = NextBegin + 2 + tx.dg.msgs[Done + 1].len
    BY DEF OnlyMissingBytes
  <2>2. Skipping
    BY <1>1, <1>2, <2>1 DEF Position
  <2>3. Done + 1 \in 1..Len(tx.dg.msgs) /\ (Done + 1) + 1 = Done + 2
    BY <1>1, <2>2, Sizes DEF Skipping, AtMessage, Counted
  <2>4. Begin(tx.dg, (Done + 1) + 1) = Begin(tx.dg, Done + 1) + 2 + tx.dg.msgs[Done + 1].len
    BY <1>1, <2>3, BeginNext, Sizes
  <2> QED
    BY <2>2, <2>3, <2>4 DEF Skipping, NextBegin
<1>4. st = "HDR" /\ qn > 0 => Front = 0
  <2>1. SUFFICES ASSUME st = "HDR", qn > 0 PROVE Front = 0
    OBVIOUS
  <2>2. AtHeader /\ qn # 0
    BY <1>1, <1>2, <2>1, Sizes DEF Position
  <2> QED
    BY <1>1, <2>2, Sizes DEF AtHeader, Front
<1>5. st = "HDR" /\ qn = 0 /\ ~dropPacket => tx.pos \in {0, tx.dg.size}
  BY <1>1 DEF Position, AtHeader
<1>6. st = "LEN" => Front = NextBegin
  BY <1>1, <1>2 DEF Position, AtLength
<1>7. st = "CAP" /\ qn > 0 => Front = NextBegin
  <2>1. qn > 0 => qn # 0
    BY <1>1, Sizes
  <2> QED
    BY <1>1, <1>2, <2>1 DEF Position, Captured, Wrecked
<1> QED
  BY <1>3, <1>4, <1>5, <1>6, <1>7 DEF Framed

\* It holds of every state.
LEMMA FrameInvariant ==
  ASSUME TrafficFits
  PROVE  HSpec => []FrameInv
<1>1. HInit => FrameInv
  BY FrameInit
<1>2. FrameInv /\ [HNext]_hvars => FrameInv'
  BY FrameStep
<1> QED
  BY <1>1, <1>2, PTL DEF HSpec

\* The parser looks for a header at the first byte of a datagram and for a
\* message where one begins, and of a message that does not fit it skips
\* exactly what is missing (ST_HDR, ST_LEN, ST_DRAIN and the queue update of
\* itch_parser.sv): for both widths of the bus, every size of the queue, all
\* datagrams of TrafficFits, well formed or not, and any stalls.
THEOREM FramedAlways ==
  ASSUME TrafficFits
  PROVE  HSpec => []Framed
<1>1. HSpec => []FrameInv
  BY FrameInvariant
<1>2. FrameInv => Framed
  BY FramedHolds
<1> QED
  BY <1>1, <1>2, PTL

(***************************************************************************)
(* Error pulses                                                            *)
(***************************************************************************)
\* The parser is done with a datagram and waits for the next.
Idle == st = "HDR" /\ qn = 0 /\ ~dropPacket
Emitting == st \in {"W0", "TS", "BODY", "NEXT"}

\* The last datagram that was sent is the one under way.
History ==
  /\ sent \in Seq([dg : Datagrams, seq : Nat])
  /\ tx.n \in Nat /\ Len(sent) = tx.n
  /\ tx.seq \in Nat /\ nextSeq \in Nat
  /\ tx.n >= 1 => sent[tx.n] = [dg |-> tx.dg, seq |-> tx.seq]
  /\ tx.pos >= 1
  /\ errors \subseteq 0..tx.n

Same ==
  /\ tx'.n = tx.n /\ tx'.dg = tx.dg /\ tx'.seq = tx.seq
  /\ sent' = sent
Renewed ==
  /\ tx'.n = tx.n + 1 /\ tx'.dg \in Datagrams /\ tx'.seq \in Nat
  /\ sent' = Append(sent, [dg |-> tx'.dg, seq |-> tx'.seq])

\* What is offered is the next beat of the datagram under way, or the first
\* one of the next.
LEMMA OfferNames ==
  ASSUME ParserInv, History, NEW o \in Offers
  PROVE  \/ ~o.valid
         \/ /\ tx.pos < tx.dg.size /\ o.valid /\ o.dg = tx.dg /\ o.seq = tx.seq
            /\ o.n = tx.n /\ o.pos = tx.pos
         \/ /\ tx.pos = tx.dg.size /\ o.valid /\ o.dg \in Datagrams /\ o.seq \in Nat
            /\ o.n = tx.n + 1 /\ o.pos = 0
<1>1. /\ tx.pos \in Nat /\ tx.dg.size \in Nat /\ tx.pos <= tx.dg.size
  BY Sizes
<1>2. CASE \E k \in IdleKeeps : o = NoBeat(k)
  BY <1>2 DEF NoBeat
<1>3. CASE tx.pos < tx.dg.size /\ o = Beat(tx.dg, tx.seq, tx.n, tx.pos)
  BY <1>3 DEF Beat
<1>4. CASE ~(tx.pos < tx.dg.size) /\ \E d \in Datagrams : o = Beat(d, nextSeq + d.skip, tx.n + 1, 0)
  <2>1. PICK d \in Datagrams : o = Beat(d, nextSeq + d.skip, tx.n + 1, 0)
    BY <1>4
  <2>2. o.valid /\ o.dg = d /\ o.seq = nextSeq + d.skip /\ o.n = tx.n + 1 /\ o.pos = 0
    BY <2>1 DEF Beat
  <2>3. d.skip \in Nat
    <3>1. d \in Datagram
      BY ParserAssumption
    <3> QED
      BY <3>1 DEF Datagram
  <2>4. o.seq \in Nat
    BY <2>2, <2>3 DEF History
  <2> QED
    BY <1>1, <1>4, <2>2, <2>4
<1> QED
  BY <1>2, <1>3, <1>4 DEF Offers

\* A datagram begins only when the parser is done with the one before.
LEMMA BeginsIdle ==
  ASSUME FrameInv, History, NEW o, Take(o), tx.pos = tx.dg.size
  PROVE  Idle
<1>1. /\ ParserInv /\ Position /\ tx.pos \in Nat /\ tx.pos >= 1
      /\ qn \in Nat /\ dropLeft \in Nat
  BY Sizes DEF FrameInv, History
<1>2. ~dropPacket
  BY <1>1, Sizes DEF Position, Discarding
<1>3. eopSeen => st = "DRAIN" /\ dropLeft > 0
  BY <1>2 DEF Take, TReady, Room, DrainDrop, DrainStrad, DrainLive
<1>4. ~(st = "DRAIN" /\ dropLeft > 0)
  <2>1. SUFFICES ASSUME st = "DRAIN", dropLeft > 0 PROVE FALSE
    OBVIOUS
  <2>2. Skipping
    BY <1>1, <1>2, <2>1 DEF Position
  <2>3. qn = 0
    BY <2>1, <2>2 DEF Skipping
  <2>4. tx.pos + dropLeft <= tx.dg.size
    BY <1>1, <2>2, <2>3, Sizes DEF Skipping, Front
  <2> QED
    BY <1>1, <2>1, <2>4
<1>5. ~eopSeen /\ ~Ended
  BY <1>3, <1>4 DEF Ended
<1>6. st \in {"HDR", "LEN", "CAP", "W0", "TS", "BODY", "NEXT", "DRAIN"}
  BY <1>1 DEF ParserInv, TypeOK
<1>7. st = "HDR"
  BY <1>1, <1>2, <1>5, <1>6 DEF Position, AtLength, Captured, Behind, Wrecked, Skipping
<1>8. qn = 0
  BY <1>1, <1>2, <1>5, <1>7 DEF Position, AtHeader
<1> QED
  BY <1>2, <1>7, <1>8 DEF Idle

\* A cycle stays in its datagram or takes the first beat of the next, and that
\* only when the parser is done with it.
LEMMA SentMoves ==
  ASSUME FrameInv, History, NEW o \in Offers, NEW rdy, Send(o), Record(o, rdy)
  PROVE  /\ Same \/ (Idle /\ Take(o) /\ tx.pos = tx.dg.size /\ Renewed)
         /\ tx.pos # tx.dg.size => Same
         /\ tx.pos = tx.dg.size /\ Take(o) => Renewed
         /\ tx'.seq \in Nat /\ nextSeq' \in Nat
<1>1. ParserInv /\ tx.pos \in Nat /\ tx.pos >= 1 /\ nextSeq \in Nat /\ tx.seq \in Nat
  BY Sizes DEF FrameInv, History
<1>2. CASE ~Take(o)
  BY <1>1, <1>2 DEF Send, senderVars, Record, Same
<1>3. CASE Take(o)
  <2>1. /\ tx' = [dg |-> o.dg, seq |-> o.seq, n |-> o.n, pos |-> o.pos + o.bytes]
        /\ o.valid
    BY <1>3 DEF Send, Take
  <2>2. sent' = IF o.pos = 0 THEN Append(sent, [dg |-> o.dg, seq |-> o.seq]) ELSE sent
    BY <1>3 DEF Record
  <2>3. o.seq \in Nat
    BY <1>1, <2>1, OfferNames
  <2>4. nextSeq' \in Nat
    <3>1. o.dg.msgs \in Seq(Wire)
      BY <1>1, <2>1, OfferFields, DatagramFields
    <3>2. Len(o.dg.msgs) \in Nat
      BY <3>1
    <3>3. nextSeq' = IF o.pos = 0 THEN o.seq + Len(o.dg.msgs) ELSE nextSeq
      BY <1>3 DEF Send
    <3> QED
      BY <1>1, <2>3, <3>2, <3>3
  <2>5. CASE tx.pos < tx.dg.size /\ o.dg = tx.dg /\ o.seq = tx.seq /\ o.n = tx.n /\ o.pos = tx.pos
    <3>1. o.pos # 0
      BY <1>1, <2>5
    <3>2. Same
      BY <2>1, <2>2, <2>5, <3>1 DEF Same
    <3>3. tx.pos # tx.dg.size
      BY <1>1, <2>5, Sizes
    <3> QED
      BY <2>1, <2>3, <2>4, <3>2, <3>3
  <2>6. CASE tx.pos = tx.dg.size /\ o.dg \in Datagrams /\ o.n = tx.n + 1 /\ o.pos = 0
    <3>1. Renewed
      BY <2>1, <2>2, <2>3, <2>6 DEF Renewed
    <3>2. Idle
      BY <1>3, <2>6, BeginsIdle
    <3> QED
      BY <1>3, <2>1, <2>3, <2>4, <2>6, <3>1, <3>2
  <2> QED
    BY <1>1, <2>1, <2>5, <2>6, OfferNames
<1> QED
  BY <1>2, <1>3

\* Every cycle keeps the history.
LEMMA HistoryMoves ==
  ASSUME FrameInv, History, IdleKeeps \subseteq {0},
         NEW o \in Offers, NEW rdy, Send(o), Record(o, rdy)
  PROVE  History'
<1>1. /\ Same \/ Renewed
      /\ tx'.seq \in Nat /\ nextSeq' \in Nat
  BY SentMoves
<1>2. tx'.pos >= 1
  <2>1. tx.pos \in Nat /\ tx.pos >= 1 /\ ParserInv /\ tx.dg.size \in Nat
    BY Sizes DEF FrameInv, History
  <2>2. CASE ~Take(o)
    BY <2>1, <2>2, Taken
  <2>3. CASE Take(o)
    <3>1. o.bytes \in 1..BYTES /\ BYTES \in Nat
      BY <2>1, <2>3, Taken, Widths
    <3>2. tx'.pos = tx.pos + o.bytes \/ tx'.pos = o.bytes
      BY <2>1, <2>3, Taken
    <3> QED
      BY <2>1, <3>1, <3>2
  <2> QED
    BY <2>2, <2>3
<1>3. errors' \subseteq errors \cup {tx'.n}
  BY DEF Record
<1>4. CASE Same
  <2>1. errors' \subseteq 0..tx'.n
    BY <1>3, <1>4 DEF Same, History
  <2> QED
    BY <1>1, <1>2, <1>4, <2>1 DEF Same, History
<1>5. CASE Renewed
  <2> DEFINE s == [dg |-> tx'.dg, seq |-> tx'.seq]
             T == [dg : Datagrams, seq : Nat]
  <2>1. s \in T
    BY <1>5 DEF Renewed
  <2>2. sent \in Seq(T) /\ Len(sent) = tx.n /\ tx.n \in Nat
    BY DEF History
  <2>3. sent' = Append(sent, s) /\ tx'.n = tx.n + 1
    BY <1>5 DEF Renewed
  <2> HIDE DEF s, T
  <2>4. sent' \in Seq(T) /\ Len(sent') = tx'.n /\ sent'[tx'.n] = s /\ tx'.n \in Nat
    BY <2>1, <2>2, <2>3
  <2>5. errors' \subseteq 0..tx'.n
    <3>1. 0..tx.n \subseteq 0..tx'.n /\ tx'.n \in 0..tx'.n
      BY <2>2, <2>3
    <3>2. errors \subseteq 0..tx.n
      BY DEF History
    <3> QED
      BY <1>3, <3>1, <3>2
  <2> QED
    BY <1>1, <1>2, <2>4, <2>5 DEF History, s, T
<1> QED
  BY <1>1, <1>4, <1>5

\* Messages begin in their order.
LEMMA BeginMonotone ==
  ASSUME NEW d \in Datagrams \cup {NoDatagram},
         NEW i \in 1..(Len(d.msgs) + 1), NEW j \in 1..(Len(d.msgs) + 1), i <= j
  PROVE  /\ Begin(d, i) \in Nat /\ Begin(d, j) \in Nat
         /\ Begin(d, i) <= Begin(d, j)
<1>1. Begin(d, i) \in Nat /\ Begin(d, j) \in Nat
  BY BeginType
<1>2. CASE i = j
  BY <1>1, <1>2
<1>3. CASE i # j
  <2>1. i < j
    BY <1>3
  <2>2. Begin(d, i) + 2 <= Begin(d, j)
    BY <2>1, BeginGrows
  <2> QED
    BY <1>1, <2>2
<1> QED
  BY <1>2, <1>3

\* Before an error pulse nothing is discarded, and a message is captured and
\* emitted where it is.
Unblamed ==
  tx.n \notin errors => /\ ~dropPacket
                        /\ st = "CAP" => Captured
                        /\ Emitting => Behind
\* An error pulse tells that the datagram under way is not well formed.
Accused == tx.n \in errors => ~WellFormed(tx.dg)

\* The beat with the malformed tkeep is the one that the datagram names.
LEMMA OfferKeep ==
  ASSUME ParserInv, NEW o \in Offers, o.valid
  PROVE  /\ o.pos \in Nat
         /\ o.keepOk <=> o.pos \div BYTES + 1 # o.dg.badBeat
<1>1. tx.pos \in Nat
  BY Sizes
<1>2. CASE \E k \in IdleKeeps : o = NoBeat(k)
  BY <1>2 DEF NoBeat
<1>3. CASE tx.pos < tx.dg.size /\ o = Beat(tx.dg, tx.seq, tx.n, tx.pos)
  BY <1>1, <1>3 DEF Beat
<1>4. CASE \E d \in Datagrams : o = Beat(d, nextSeq + d.skip, tx.n + 1, 0)
  <2>1. PICK d \in Datagrams : o = Beat(d, nextSeq + d.skip, tx.n + 1, 0)
    BY <1>4
  <2>2. /\ o.pos = 0 /\ o.dg = d
        /\ o.keepOk = (0 \div BYTES + 1 # d.badBeat)
    BY <2>1 DEF Beat
  <2>3. o.keepOk <=> o.pos \div BYTES + 1 # o.dg.badBeat
    BY <2>2, Zenon
  <2> QED
    BY <2>2, <2>3
<1> QED
  BY <1>2, <1>3, <1>4 DEF Offers

\* The error of a malformed tkeep.
LEMMA BadKeepTells ==
  ASSUME ParserInv, NEW o \in Offers, NEW rdy, Send(o), BadKeep(o, rdy)
  PROVE  ~WellFormed(tx'.dg)
<1>1. Take(o) /\ ~o.keepOk /\ o.valid
  BY DEF BadKeep, Take
<1>2. o.pos \in Nat /\ o.pos \div BYTES + 1 = o.dg.badBeat
  BY <1>1, OfferKeep
<1>3. o.pos \div BYTES \in Nat
  BY <1>2, Widths
<1>4. o.dg.badBeat # 0
  BY <1>2, <1>3
<1>5. tx'.dg = o.dg
  BY <1>1 DEF Send
<1> QED
  BY <1>4, <1>5 DEF WellFormed

\* The error of a header that declares no messages.
LEMMA HdrTells ==
  ASSUME FrameInv, IdleKeeps \subseteq {0},
         NEW o \in Offers, NEW rdy, Send(o), Hdr(o, rdy), error'
  PROVE  ~WellFormed(tx'.dg)
<1>1. /\ ParserInv /\ Position /\ In("HDR", o) /\ DrainInt = HeaderBytes
      /\ tx.dg.count \in Nat /\ tx.dg.msgs \in Seq(Wire) /\ tx.pos \in Nat /\ qn \in Nat
      /\ tx.dg \in Datagrams \cup {NoDatagram}
  BY Sizes DEF Hdr, FrameInv
<1>2. ~dropPacket /\ st = "HDR" /\ ~(Take(o) /\ ~o.keepOk)
  BY <1>1 DEF In
<1>3. ~(tx.dg.count > 0) /\ ~Ends(o)
  BY DEF Hdr, HeaderHere, Advance
<1>4. qn >= 20 /\ BaseN = qn - 20 /\ ~DrainLive
  BY <1>1, <1>2, Drains
<1>5. qn = tx.pos /\ Ended
  BY <1>1, <1>2, <1>4 DEF Position, AtHeader
<1>6. /\ tx'.dg = tx.dg /\ tx'.pos \in Nat /\ tx'.pos <= tx.dg.size
      /\ QnPost(o) \in 0..QBUFW
      /\ tx'.pos - QnPost(o) = tx.pos - BaseN
      /\ EopEff(o) <=> tx'.pos = tx.dg.size
  BY <1>1, <1>2, <1>4, <1>5, Transfers
<1>7. QnPost(o) \in Nat /\ tx'.pos - QnPost(o) = 20
  <2>1. QnPost(o) \in Nat
    BY <1>6, Widths
  <2>2. \A p \in Nat : p - (p - 20) = 20
    OBVIOUS
  <2>3. tx'.pos - QnPost(o) = tx.pos - (tx.pos - 20)
    BY <1>4, <1>5, <1>6
  <2> QED
    BY <1>1, <2>1, <2>2, <2>3, Zenon
<1>8. SUFFICES ASSUME WellFormed(tx.dg) PROVE FALSE
  BY <1>6
<1>9. Len(tx.dg.msgs) = 0 /\ tx.dg.size = Begin(tx.dg, Len(tx.dg.msgs) + 1)
  BY <1>1, <1>3, <1>8 DEF WellFormed, Whole
<1>10. tx.dg.size = 20
  BY <1>9, BeginFirst
<1>11. tx'.pos = 20 /\ QnPost(o) = 0
  BY <1>6, <1>7, <1>10
<1> QED
  BY <1>3, <1>6, <1>10, <1>11 DEF Ends

\* The error of a datagram shorter than its header.
LEMMA HdrShortTells ==
  ASSUME FrameInv, IdleKeeps \subseteq {0},
         NEW o \in Offers, NEW rdy, Send(o), HdrShort(o, rdy), error'
  PROVE  ~WellFormed(tx'.dg)
<1>1. /\ ParserInv /\ Position /\ In("HDR", o) /\ DrainInt # HeaderBytes
      /\ tx.dg.msgs \in Seq(Wire) /\ tx.pos \in Nat
      /\ tx.dg \in Datagrams \cup {NoDatagram}
  BY Sizes DEF HdrShort, FrameInv
<1>2. ~dropPacket /\ st = "HDR" /\ ~(Take(o) /\ ~o.keepOk)
  BY <1>1 DEF In
<1>3. eopSeen
  BY DEF HdrShort, Advance
<1>4. BaseN = qn /\ ~DrainLive /\ qn < 20
  BY <1>1, <1>2, Drains
<1>5. qn = tx.pos /\ Ended
  BY <1>1, <1>2, <1>3 DEF Position, AtHeader
<1>6. tx.dg.size < 20
  BY <1>3, <1>4, <1>5 DEF Ended
<1>7. tx'.dg = tx.dg
  BY <1>1, <1>2, <1>4, <1>5, Transfers
<1>8. SUFFICES ASSUME WellFormed(tx.dg) PROVE FALSE
  BY <1>7
<1>9. tx.dg.size = Begin(tx.dg, Len(tx.dg.msgs) + 1)
  BY <1>8 DEF WellFormed, Whole
<1>10. Begin(tx.dg, 1) <= Begin(tx.dg, Len(tx.dg.msgs) + 1)
  <2>1. /\ 1 \in 1..(Len(tx.dg.msgs) + 1) /\ 1 <= Len(tx.dg.msgs) + 1
        /\ Len(tx.dg.msgs) + 1 \in 1..(Len(tx.dg.msgs) + 1)
    BY <1>1
  <2> QED
    BY <1>1, <2>1, BeginMonotone
<1> QED
  BY <1>1, <1>6, <1>9, <1>10, BeginFirst, Sizes

\* The error of a length that is not its type's.
LEMMA ReadingTells ==
  ASSUME FrameInv, TrafficFits,
         NEW o \in Offers, NEW rdy, Send(o), Capture(o, rdy) \/ Skip(o, rdy), error'
  PROVE  ~WellFormed(tx'.dg)
<1>1. ParserInv /\ Position /\ IdleKeeps \subseteq {0}
  BY DEF FrameInv, TrafficFits
<1>2. In("LEN", o) /\ st = "LEN" /\ qn >= 1
  <2>1. In("LEN", o) /\ st = "LEN" /\ qn >= 2
    BY DEF Capture, Skip, In
  <2> QED
    BY <1>1, <2>1, Sizes
<1>3. AtLength /\ tx'.dg = tx.dg
  BY <1>1, <1>2, LengthMoves
<1>4. AtMessage /\ \A w \in WiresHere : w.m = tx.dg.msgs[Done + 1]
  BY <1>1, <1>2, <1>3, AtHand
<1>5. PICK w \in WiresHere : w.m.len < CommonHeader \/ ~LengthOk(w.m)
  BY DEF Capture, Skip
<1>6. Done + 1 \in 1..Len(tx.dg.msgs)
  BY <1>4 DEF AtMessage
<1>7. w.m.len \in Nat
  BY <1>1, LengthRead, Sizes
<1>8. ~(w.m.len >= CommonHeader /\ LengthOk(w.m))
  BY <1>5, <1>7 DEF CommonHeader
<1> QED
  BY <1>3, <1>4, <1>6, <1>8 DEF WellFormed

\* The datagram ends in the middle of a message.
LEMMA LenShortTells ==
  ASSUME FrameInv, TrafficFits,
         NEW o \in Offers, NEW rdy, Send(o), LenShort(o, rdy), error'
  PROVE  ~WellFormed(tx'.dg)
<1>1. /\ ParserInv /\ Position /\ IdleKeeps \subseteq {0} /\ tx.dg.msgs \in Seq(Wire)
      /\ tx.pos \in Nat /\ qn \in Nat /\ tx.dg \in Datagrams \cup {NoDatagram}
      /\ tx.dg.count \in Nat
  BY Sizes DEF FrameInv, TrafficFits
<1>2. In("LEN", o) /\ st = "LEN" /\ eopSeen
  BY DEF LenShort, In, Advance
<1>3. AtLength /\ tx'.dg = tx.dg
  BY <1>1, <1>2, LengthMoves
<1>4. tx.pos = tx.dg.size /\ Counted /\ tx.pos - qn = Begin(tx.dg, Done + 1)
  BY <1>2, <1>3 DEF AtLength, Ended, Front, NextBegin
<1>5. SUFFICES ASSUME WellFormed(tx.dg) PROVE FALSE
  BY <1>3
<1>6. tx.dg.count = Len(tx.dg.msgs) /\ tx.dg.size = Begin(tx.dg, Len(tx.dg.msgs) + 1)
  BY <1>5 DEF WellFormed, Whole
<1> DEFINE j == Done + 1
<1>7. j \in 1..Len(tx.dg.msgs)
  BY <1>1, <1>4, <1>6, Sizes DEF Counted, Done
<1> HIDE DEF j
<1>8. /\ j + 1 \in 1..(Len(tx.dg.msgs) + 1) /\ j + 1 <= Len(tx.dg.msgs) + 1
      /\ Len(tx.dg.msgs) + 1 \in 1..(Len(tx.dg.msgs) + 1)
  BY <1>1, <1>7
<1>9. /\ Begin(tx.dg, j + 1) = Begin(tx.dg, j) + 2 + tx.dg.msgs[j].len
      /\ Begin(tx.dg, j) \in Nat /\ tx.dg.msgs[j].len \in Nat
  BY <1>1, <1>7, BeginNext
<1>10. /\ Begin(tx.dg, j + 1) <= Begin(tx.dg, Len(tx.dg.msgs) + 1)
       /\ Begin(tx.dg, Len(tx.dg.msgs) + 1) \in Nat
  BY <1>1, <1>8, BeginMonotone
<1>11. tx.pos - qn = Begin(tx.dg, j)
  BY <1>4 DEF j
<1>12. ~(qn < 2 + tx.dg.msgs[j].len)
  <2>1. \A p, q, b, l, e \in Nat : p - q = b /\ b + 2 + l <= e /\ p = e => ~(q < 2 + l)
    OBVIOUS
  <2>2. Begin(tx.dg, j) + 2 + tx.dg.msgs[j].len <= Begin(tx.dg, Len(tx.dg.msgs) + 1)
    BY <1>9, <1>10
  <2>3. tx.pos = Begin(tx.dg, Len(tx.dg.msgs) + 1)
    BY <1>4, <1>6
  <2> QED
    BY <1>1, <1>9, <1>10, <1>11, <2>1, <2>2, <2>3, Zenon
<1>13. ~(qn < 2) /\ qn >= 1
  <2>1. \A q, l \in Nat : ~(q < 2 + l) => ~(q < 2) /\ q >= 1
    OBVIOUS
  <2> QED
    BY <1>1, <1>9, <1>12, <2>1, Zenon
<1>14. \A w \in WiresHere : w.m = tx.dg.msgs[j]
  BY <1>1, <1>3, <1>13, AtHand DEF j
<1>15. PICK w \in WiresHere : qn < 2 + w.m.len
  BY <1>13 DEF LenShort
<1>16. w.m.len = tx.dg.msgs[j].len
  BY <1>14
<1> QED
  BY <1>12, <1>15, <1>16

\* The count or the size of the datagram is not that of its messages.
LEMMA CloseTells ==
  ASSUME FrameInv, IdleKeeps \subseteq {0}, Behind, BaseN = qn, ~DrainLive,
         NEW s, NEW o \in Offers, In(s, o), Send(o), NEW drops, Close(o, drops), error'
  PROVE  ~WellFormed(tx'.dg)
<1>1. /\ ParserInv /\ tx.dg.msgs \in Seq(Wire) /\ tx.pos \in Nat /\ qn \in Nat
      /\ tx.dg.count \in Nat
  BY Sizes DEF FrameInv
<1>2. ~dropPacket /\ ~(Take(o) /\ ~o.keepOk) /\ Ended
  BY DEF In, Behind
<1>3. ~(packLeft > 1) /\ ~Ends(o)
  BY DEF Close, Advance
<1>4. /\ tx'.dg = tx.dg /\ tx'.pos \in Nat /\ tx'.pos <= tx.dg.size
      /\ QnPost(o) \in 0..QBUFW
      /\ tx'.pos - QnPost(o) = tx.pos - BaseN
      /\ EopEff(o) <=> tx'.pos = tx.dg.size
  BY <1>1, <1>2, Transfers
<1>5. QnPost(o) \in Nat /\ tx'.pos - QnPost(o) = Begin(tx.dg, Done + 2)
  BY <1>4, Widths DEF Behind, Front
<1>6. SUFFICES ASSUME WellFormed(tx.dg) PROVE FALSE
  BY <1>4
<1>7. tx.dg.count = Len(tx.dg.msgs) /\ tx.dg.size = Begin(tx.dg, Len(tx.dg.msgs) + 1)
  BY <1>6 DEF WellFormed, Whole
<1>8. Done + 2 = Len(tx.dg.msgs) + 1
  <2>1. /\ packCount = tx.dg.count /\ packLeft \in 1..packCount /\ Done = packCount - packLeft
    BY DEF Behind, AtMessage, Counted, Done
  <2>2. packLeft = 1
    BY <1>1, <1>3, <2>1
  <2>3. Done = Len(tx.dg.msgs) - 1
    BY <1>7, <2>1, <2>2
  <2> QED
    BY <1>1, <1>7, <2>3
<1>9. tx'.pos - QnPost(o) = tx.dg.size
  BY <1>5, <1>7, <1>8
<1>10. QnPost(o) = 0 /\ tx'.pos = tx.dg.size
  BY <1>1, <1>4, <1>5, <1>9, Sizes
<1> QED
  BY <1>3, <1>4, <1>10 DEF Ends

\* A datagram does not end while a message is skipped.
LEMMA DrainsOn ==
  ASSUME ParserInv, Position, NEW o, NEW rdy, Draining(o, rdy)
  PROVE  ~eopSeen
<1>1. st = "DRAIN" /\ dropLeft > 0 /\ ~dropPacket
  BY DEF Draining, In
<1>2. Skipping
  BY <1>1 DEF Position
<1>3. qn = 0 /\ tx.pos + dropLeft <= tx.dg.size /\ Ended
  BY <1>1, <1>2, Sizes DEF Skipping, Front
<1> QED
  BY <1>1, <1>3, Sizes DEF Ended

\* Behind a skipped message the parser stands where the next begins.
LEMMA DrainedBehind ==
  ASSUME ParserInv, Position, NEW o, NEW rdy, Drained(o, rdy)
  PROVE  st = "DRAIN" /\ Behind /\ BaseN = qn /\ ~DrainLive /\ In("DRAIN", o)
<1>1. st = "DRAIN" /\ dropLeft = 0 /\ ~dropPacket /\ In("DRAIN", o)
  BY DEF Drained, In
<1>2. Skipping
  BY <1>1 DEF Position
<1>3. Behind
  BY <1>1, <1>2, Sizes DEF Skipping, Behind, Front
<1> QED
  BY <1>1, <1>3, Drains

\* An error pulse tells that the datagram it counts for is not well formed.
LEMMA ErrorsTell ==
  ASSUME FrameInv, TrafficFits, History, Accused, Unblamed,
         NEW o \in Offers, NEW rdy, Cycle(o, rdy), Record(o, rdy), error'
  PROVE  ~WellFormed(tx'.dg)
<1>1. /\ Send(o) /\ ParserInv /\ Position /\ IdleKeeps \subseteq {0}
  BY DEF Cycle, FrameInv, TrafficFits
<1>2. ~Dropping(o, rdy)
  BY DEF Dropping
<1>3. CASE BadKeep(o, rdy)
  BY <1>1, <1>3, BadKeepTells
<1>4. CASE Hdr(o, rdy)
  BY <1>1, <1>4, HdrTells
<1>5. CASE HdrShort(o, rdy)
  BY <1>1, <1>5, HdrShortTells
<1>6. CASE Capture(o, rdy) \/ Skip(o, rdy)
  BY <1>1, <1>6, ReadingTells
<1>7. CASE LenShort(o, rdy)
  BY <1>1, <1>7, LenShortTells
<1>8. ~(Stall(o, rdy) \/ Cap(o, rdy) \/ W0(o, rdy) \/ TS(o, rdy) \/ Body(o, rdy))
  BY DEF Stall, Cap, W0, TS, Body, Emission, Advance
<1>9. CASE NextMsg(o, rdy)
  <2>1. In("NEXT", o) /\ st = "NEXT" /\ Close(o, TRUE)
    BY <1>9 DEF NextMsg, In
  <2>2. tx'.dg = tx.dg
    BY <1>1, <2>1, SentMoves DEF Same, Idle
  <2>3. CASE tx.n \in errors
    BY <2>2, <2>3 DEF Accused
  <2>4. CASE tx.n \notin errors
    <3>1. Behind
      BY <2>1, <2>4 DEF Unblamed, Emitting
    <3>2. BaseN = qn /\ ~DrainLive
      BY <1>1, <2>1, Drains
    <3> QED
      BY <1>1, <2>1, <3>1, <3>2, CloseTells
  <2> QED
    BY <2>3, <2>4
<1>10. CASE Drained(o, rdy)
  <2>1. Behind /\ BaseN = qn /\ ~DrainLive /\ In("DRAIN", o) /\ Close(o, FALSE)
    BY <1>1, <1>10, DrainedBehind DEF Drained
  <2> QED
    BY <1>1, <2>1, CloseTells
<1>11. ~Draining(o, rdy)
  <2>1. Draining(o, rdy) => ~eopSeen
    BY <1>1, DrainsOn
  <2> QED
    BY <2>1 DEF Draining, Advance
<1> QED
  BY <1>2, <1>3, <1>4, <1>5, <1>6, <1>7, <1>8, <1>9, <1>10, <1>11 DEF Cycle

\* Every cycle keeps this.
LEMMA AccusedMoves ==
  ASSUME FrameInv, TrafficFits, History, Accused, Unblamed,
         NEW o \in Offers, NEW rdy, Cycle(o, rdy), Record(o, rdy)
  PROVE  Accused'
<1>1. SUFFICES ASSUME tx'.n \in errors', ~error' PROVE ~WellFormed(tx'.dg)
  BY ErrorsTell DEF Accused
<1>2. tx'.n \in errors
  BY <1>1 DEF Record
<1>3. Same
  <2>1. Same \/ Renewed
    BY SentMoves DEF Cycle
  <2>2. ~Renewed
    <3>1. tx'.n \in 0..tx.n /\ tx.n \in Nat
      BY <1>2 DEF History
    <3> QED
      BY <3>1 DEF Renewed
  <2> QED
    BY <2>1, <2>2
<1> QED
  BY <1>2, <1>3 DEF Same, Accused

\* A step without an error pulse keeps to the datagram.
LEMMA UnblamedMoves ==
  ASSUME FrameInv, TrafficFits, History, Unblamed,
         NEW o \in Offers, NEW rdy, Cycle(o, rdy), Record(o, rdy)
  PROVE  Unblamed'
<1>1. /\ Send(o) /\ ParserInv /\ OutQuiet /\ Position /\ IdleKeeps \subseteq {0}
  BY DEF Cycle, FrameInv, TrafficFits
<1>2. SUFFICES ASSUME tx'.n \notin errors'
               PROVE  /\ ~dropPacket'
                      /\ st' = "CAP" => Captured'
                      /\ st' \in {"W0", "TS", "BODY", "NEXT"} => Behind'
  BY DEF Unblamed, Emitting
<1>3. ~error' /\ tx'.n \notin errors
  BY <1>2 DEF Record
<1>4. Idle \/ tx.n \notin errors
  BY <1>1, <1>3, SentMoves DEF Same
<1>5. ~dropPacket
  BY <1>4 DEF Idle, Unblamed
<1>6. (st = "CAP" => Captured) /\ (Emitting => Behind)
  BY <1>4 DEF Idle, Unblamed, Emitting
<1>7. ~Dropping(o, rdy) /\ ~BadKeep(o, rdy)
  BY <1>3, <1>5 DEF Dropping, BadKeep
<1>8. CASE Hdr(o, rdy) \/ HdrShort(o, rdy)
  <2>1. st' \in {"HDR", "LEN"} /\ dropPacket' = dropPacket
    BY <1>3, <1>8 DEF Hdr, HdrShort, Fail, Advance
  <2> QED
    BY <1>5, <2>1
<1>9. CASE Capture(o, rdy)
  <2>1. st' = "CAP" /\ dropPacket' = dropPacket
    BY <1>9 DEF Capture
  <2>2. Captured'
    BY <1>1, <1>9, CaptureMoves
  <2> QED
    BY <1>5, <2>1, <2>2
<1>10. CASE Skip(o, rdy) \/ LenShort(o, rdy)
  <2>1. st' \in {"LEN", "DRAIN"} /\ dropPacket' = dropPacket
    BY <1>3, <1>10 DEF Skip, LenShort, Fail, Advance
  <2> QED
    BY <1>5, <2>1
<1>11. ASSUME NEW s \in {"CAP", "W0", "TS", "BODY", "NEXT"}, In(s, o),
              Advance(o, st'), st' # "CAP", UNCHANGED <<dropPacket, headerVars>>
       PROVE  ~dropPacket' /\ Behind'
  <2>1. st = s
    BY <1>11 DEF In
  <2>2. (s = "CAP" => Captured) /\ (s # "CAP" => Behind)
    BY <1>6, <2>1 DEF Emitting
  <2>3. qn' = Queue(o) /\ Latch(o) /\ packLeft' = packLeft /\ packCount' = packCount
    BY <1>11 DEF Advance, headerVars
  <2>4. Behind'
    BY <1>1, <1>11, <2>2, <2>3, BehindStays
  <2> QED
    BY <1>5, <1>11, <2>4
<1>12. CASE Stall(o, rdy)
  <2>1. PICK s \in {"CAP", "W0", "TS", "BODY", "NEXT"} : In(s, o)
    BY <1>12 DEF Stall
  <2>2. st = s /\ out.valid
    BY <1>12, <2>1 DEF Stall, In, Free, OutFree
  <2>3. s # "CAP"
    BY <1>1, <2>2 DEF OutQuiet
  <2>4. Advance(o, st') /\ st' = s /\ UNCHANGED <<dropPacket, headerVars>>
    BY <1>12, <2>2 DEF Stall, Advance
  <2> QED
    BY <1>11, <2>1, <2>3, <2>4
<1>13. CASE Cap(o, rdy) \/ W0(o, rdy) \/ TS(o, rdy) \/ Body(o, rdy)
  <2>1. PICK s \in {"CAP", "W0", "TS", "BODY"} : Emission(o, s, st') /\ st' # "CAP"
    BY <1>13 DEF Cap, W0, TS, Body, Emission, Advance
  <2>2. /\ s \in {"CAP", "W0", "TS", "BODY", "NEXT"} /\ In(s, o)
        /\ Advance(o, st') /\ UNCHANGED <<dropPacket, headerVars>>
    BY <2>1 DEF Emission
  <2> QED
    BY <1>11, <2>1, <2>2
<1>14. CASE NextMsg(o, rdy) \/ Drained(o, rdy)
  <2>1. Close(o, TRUE) \/ Close(o, FALSE)
    BY <1>14 DEF NextMsg, Drained
  <2>2. st' \in {"HDR", "LEN"} /\ dropPacket' = dropPacket
    BY <1>3, <2>1 DEF Close, Fail, Advance
  <2> QED
    BY <1>5, <2>2
<1>15. CASE Draining(o, rdy)
  <2>1. st' = "DRAIN" /\ dropPacket' = dropPacket
    BY <1>3, <1>15 DEF Draining, Fail, Advance
  <2> QED
    BY <1>5, <2>1
<1> QED
  BY <1>7, <1>8, <1>9, <1>10, <1>12, <1>13, <1>14, <1>15 DEF Cycle

(***************************************************************************)
(* The sequence number that is expected                                    *)
(***************************************************************************)
Expects(s) == session = s.dg.sess /\ expSeq = s.seq + Len(s.dg.msgs)

\* Within a datagram the parser knows its header; after a well-formed one it
\* expects the number that follows it.
Expecting ==
  /\ st # "HDR" => thisSeq = tx.seq /\ session = tx.dg.sess
  /\ Idle /\ WellFormed(tx.dg) => Expects([dg |-> tx.dg, seq |-> tx.seq])
  /\ st = "HDR" /\ ~dropPacket /\ qn > 0 /\ tx.n > 1 /\ WellFormed(sent[tx.n - 1].dg)
       => Expects(sent[tx.n - 1])

\* Where a datagram ends the queue is empty.
LEMMA EndsEmpty ==
  ASSUME ParserInv, NEW o \in Offers, ~DrainLive, Ends(o)
  PROVE  Queue(o) = 0
<1>1. ~DrainDrop(o) /\ ~DrainStrad(o)
  BY DEF DrainDrop, DrainStrad
<1>2. Queue(o) = IF Room(o) THEN QnPost(o) ELSE BaseN
  BY <1>1 DEF Queue
<1>3. QnPost(o) = 0
  BY DEF Ends
<1>4. BaseN \in Nat /\ o.bytes \in Nat
  <2>1. o.bytes \in 0..BYTES /\ BYTES \in Nat
    BY OfferFields, Widths
  <2> QED
    BY <2>1, Drains
<1>5. BaseN = 0
  BY <1>3, <1>4 DEF QnPost
<1> QED
  BY <1>2, <1>3, <1>5

\* Waiting for the header, the queue is empty only between two datagrams.
LEMMA HdrWaits ==
  ASSUME FrameInv, IdleKeeps \subseteq {0}, NEW o \in Offers, NEW rdy, Send(o),
         HdrShort(o, rdy), ~eopSeen
  PROVE  /\ st' = "HDR" /\ dropPacket' = dropPacket /\ ~dropPacket
         /\ qn' \in Nat
         /\ qn' = 0 => qn = 0 /\ ~Take(o)
         /\ qn = 0 /\ ~Take(o) => qn' = 0
<1>1. /\ ParserInv /\ In("HDR", o) /\ DrainInt # HeaderBytes /\ qn \in Nat
  BY Sizes DEF HdrShort, FrameInv
<1>2. ~dropPacket /\ st = "HDR" /\ ~(Take(o) /\ ~o.keepOk)
  BY <1>1 DEF In
<1>3. BaseN = qn /\ ~DrainLive
  BY <1>1, <1>2, Drains
<1>4. Advance(o, "HDR") /\ dropPacket' = dropPacket
  BY DEF HdrShort
<1>5. ~DrainDrop(o) /\ ~DrainStrad(o)
  BY <1>3 DEF DrainDrop, DrainStrad
<1>6. qn' = IF Room(o) THEN QnPost(o) ELSE BaseN
  BY <1>4, <1>5 DEF Queue, Advance
<1>7. Take(o) <=> Room(o)
  BY <1>2, <1>5 DEF Take, TReady, Room
<1>8. CASE Take(o)
  <2>1. o.bytes \in 1..BYTES /\ BYTES \in Nat
    BY <1>1, <1>8, Taken, Widths
  <2>2. QnPost(o) = qn + o.bytes
    BY <1>2, <1>3, <1>8 DEF QnPost
  <2> QED
    BY <1>1, <1>2, <1>4, <1>6, <1>7, <1>8, <2>1, <2>2 DEF Advance
<1>9. CASE ~Take(o)
  BY <1>1, <1>2, <1>3, <1>4, <1>6, <1>7, <1>9 DEF Advance
<1> QED
  BY <1>8, <1>9

\* A step to ST_HDR without an error pulse.
LEMMA ToHdr ==
  ASSUME FrameInv, TrafficFits, Unblamed, tx.n \notin errors \/ Idle,
         NEW o \in Offers, NEW rdy, Cycle(o, rdy), ~error', st' = "HDR"
  PROVE  \/ HdrShort(o, rdy) /\ ~eopSeen
         \/ Hdr(o, rdy) /\ ~(tx.dg.count > 0) /\ Ends(o) /\ qn' = 0
         \/ /\ st # "HDR" /\ Behind /\ qn' = 0 /\ expSeq' = thisSeq + packCount
            /\ packLeft = 1 /\ UNCHANGED <<thisSeq, session>>
            /\ Ends(o) /\ BaseN = qn /\ ~DrainLive /\ \E s : In(s, o)
<1>1. /\ Send(o) /\ ParserInv /\ Position /\ IdleKeeps \subseteq {0}
  BY DEF Cycle, FrameInv, TrafficFits
<1>2. ~dropPacket /\ (st = "NEXT" => Behind)
  BY DEF Idle, Unblamed, Emitting
<1>3. ~Dropping(o, rdy) /\ ~BadKeep(o, rdy)
  BY <1>2 DEF Dropping, BadKeep
<1>4. CASE Hdr(o, rdy)
  <2>1. ~(tx.dg.count > 0) /\ Ends(o) /\ qn' = Queue(o)
    BY <1>4 DEF Hdr, HeaderHere, Advance, Fail
  <2>2. st = "HDR"
    BY <1>4 DEF Hdr, In
  <2>3. qn' = 0
    BY <1>1, <2>1, <2>2, Drains, EndsEmpty
  <2> QED
    BY <1>4, <2>1, <2>3
<1>5. CASE HdrShort(o, rdy)
  BY <1>5 DEF HdrShort, Fail
<1>6. ~(Capture(o, rdy) \/ Skip(o, rdy) \/ LenShort(o, rdy) \/ Draining(o, rdy))
  BY DEF Capture, Skip, LenShort, Draining, Advance, Fail
<1>7. ~(Stall(o, rdy) \/ Cap(o, rdy) \/ W0(o, rdy) \/ TS(o, rdy) \/ Body(o, rdy))
  <2>1. ~Stall(o, rdy)
    BY DEF Stall, Advance, In
  <2> QED
    BY <2>1 DEF Cap, W0, TS, Body, Emission, Advance
<1>8. CASE NextMsg(o, rdy) \/ Drained(o, rdy)
  <2>1. st # "HDR" /\ Behind /\ ~DrainLive /\ BaseN = qn /\ \E s : In(s, o)
    <3>1. CASE NextMsg(o, rdy)
      <4>1. st = "NEXT" /\ In("NEXT", o)
        BY <3>1 DEF NextMsg, In
      <4> QED
        BY <1>1, <1>2, <4>1, Drains
    <3>2. CASE Drained(o, rdy)
      BY <1>1, <3>2, DrainedBehind
    <3> QED
      BY <1>8, <3>1, <3>2
  <2>2. (Close(o, TRUE) \/ Close(o, FALSE)) /\ UNCHANGED <<thisSeq, session>>
    BY <1>8 DEF NextMsg, Drained
  <2>3. ~(packLeft > 1) /\ Ends(o) /\ expSeq' = Expected /\ qn' = Queue(o)
    BY <2>2 DEF Close, Advance, Fail
  <2>4. qn' = 0
    BY <1>1, <2>1, <2>3, EndsEmpty
  <2>5. packLeft = 1
    BY <1>1, <2>1, <2>3, Sizes DEF Behind, AtMessage, Counted
  <2> QED
    BY <2>1, <2>2, <2>3, <2>4, <2>5 DEF Expected
<1> QED
  BY <1>3, <1>4, <1>5, <1>6, <1>7, <1>8 DEF Cycle

\* The header is read at ST_HDR alone.
LEMMA HeaderKept ==
  ASSUME NEW o, NEW rdy, Cycle(o, rdy), ~Hdr(o, rdy)
  PROVE  UNCHANGED <<thisSeq, session>>
BY DEF Cycle, Dropping, BadKeep, HdrShort, Capture, Skip, LenShort, Stall, Cap, W0,
       TS, Body, Emission, NextMsg, Drained, Draining, headerVars

\* The header that is read is that of the datagram under way.
LEMMA HdrReads ==
  ASSUME FrameInv, History, NEW o \in Offers, NEW rdy, Send(o), Record(o, rdy), Hdr(o, rdy)
  PROVE  /\ st = "HDR" /\ ~dropPacket /\ qn > 0 /\ Same
         /\ thisSeq' = tx.seq /\ session' = tx.dg.sess
         /\ gap' <=> tx.dg.sess = session /\ tx.seq # expSeq
<1>1. ParserInv /\ In("HDR", o) /\ DrainInt = HeaderBytes
  BY DEF FrameInv, Hdr
<1>2. st = "HDR" /\ ~dropPacket
  BY <1>1 DEF In
<1>3. qn \in Nat /\ qn >= 20
  BY <1>1, <1>2, Drains
<1>4. qn > 0 /\ ~Idle
  BY <1>3 DEF Idle
<1>5. Same
  BY <1>4, SentMoves
<1>6. /\ thisSeq' = tx.seq /\ session' = tx.dg.sess
      /\ gap' = (tx.dg.sess = session /\ tx.seq # expSeq)
  BY DEF Hdr, HeaderHere
<1>7. gap' <=> tx.dg.sess = session /\ tx.seq # expSeq
  BY <1>6, Zenon
<1> QED
  BY <1>2, <1>4, <1>5, <1>6, <1>7

\* Every cycle keeps what is expected.
LEMMA ExpectingMoves ==
  ASSUME FrameInv, TrafficFits, History, Accused, Unblamed, Expecting,
         NEW o \in Offers, NEW rdy, Cycle(o, rdy), Record(o, rdy)
  PROVE  Expecting'
<1>1. /\ Send(o) /\ ParserInv /\ Position /\ IdleKeeps \subseteq {0} /\ qn \in Nat
      /\ tx.n \in Nat /\ tx.pos >= 1 /\ tx.pos \in Nat
  BY Sizes DEF Cycle, FrameInv, TrafficFits, History
<1>2. ASSUME st' # "HDR"
      PROVE  thisSeq' = tx'.seq /\ session' = tx'.dg.sess
  <2>1. CASE Hdr(o, rdy)
    <3>1. Same /\ thisSeq' = tx.seq /\ session' = tx.dg.sess
      BY <1>1, <2>1, HdrReads
    <3> QED
      BY <3>1 DEF Same
  <2>2. CASE ~Hdr(o, rdy)
    <3>1. UNCHANGED <<thisSeq, session>>
      BY <2>2, HeaderKept
    <3>2. st # "HDR"
      <4>1. SUFFICES ASSUME st = "HDR" PROVE FALSE
        OBVIOUS
      <4>2. Dropping(o, rdy) \/ BadKeep(o, rdy) \/ HdrShort(o, rdy)
        BY <2>2, <4>1 DEF Cycle, Capture, Skip, LenShort, Stall, Cap, W0, TS, Body,
             Emission, NextMsg, Drained, Draining, In
      <4> QED
        BY <1>2, <4>1, <4>2 DEF Dropping, BadKeep, HdrShort, Fail, Advance, RecordActive
    <3>3. Same
      BY <1>1, <3>2, SentMoves DEF Idle
    <3> QED
      BY <3>1, <3>2, <3>3 DEF Expecting, Same
  <2> QED
    BY <2>1, <2>2
<1>3. ASSUME st' = "HDR", error'
      PROVE  qn' = 0
  BY <1>3 DEF Cycle, Dropping, BadKeep, Hdr, HdrShort, Capture, Skip, LenShort, Stall,
       Cap, W0, TS, Body, Emission, NextMsg, Drained, Draining, Close, Advance, Fail
<1>4. ASSUME Idle', WellFormed(tx'.dg)
      PROVE  Expects([dg |-> tx.dg, seq |-> tx.seq])'
  <2>1. ~error'
    BY <1>4, ErrorsTell
  <2>2. st' = "HDR" /\ qn' = 0
    BY <1>4 DEF Idle
  <2>3. tx.n \notin errors \/ Idle
    <3>1. SUFFICES ASSUME ~Idle PROVE tx.n \notin errors
      OBVIOUS
    <3>2. Same
      BY <1>1, <3>1, SentMoves
    <3> QED
      BY <1>4, <3>2 DEF Same, Accused
  <2>4. CASE HdrShort(o, rdy) /\ ~eopSeen
    <3>1. qn = 0 /\ ~Take(o) /\ ~dropPacket /\ st = "HDR"
      BY <1>1, <2>2, <2>4, HdrWaits DEF HdrShort, In
    <3>2. Idle
      BY <3>1 DEF Idle
    <3>3. Same
      BY <1>1, <3>1, SentMoves
    <3>4. UNCHANGED <<session, expSeq>>
      BY <2>4 DEF HdrShort, headerVars
    <3> QED
      BY <1>4, <3>2, <3>3, <3>4 DEF Same, Expecting, Expects
  <2>5. CASE Hdr(o, rdy) /\ ~(tx.dg.count > 0)
    <3>1. Same /\ session' = tx.dg.sess
      BY <1>1, <2>5, HdrReads
    <3>2. Ends(o) /\ expSeq' = tx.seq
      <4>1. Ends(o)
        BY <2>1, <2>5 DEF Hdr, HeaderHere, Fail
      <4>2. tx.dg.count = 0
        BY <1>1, <2>5, Sizes
      <4> QED
        BY <2>5, <4>1, <4>2 DEF Hdr, HeaderHere
    <3>3. Len(tx.dg.msgs) = 0
      BY <1>1, <1>4, <2>5, <3>1, Sizes DEF Same, WellFormed
    <3>4. tx.seq + 0 = tx.seq
      BY DEF History
    <3> QED
      BY <3>1, <3>2, <3>3, <3>4 DEF Same, Expects
  <2>6. CASE /\ st # "HDR" /\ Behind /\ expSeq' = thisSeq + packCount
             /\ UNCHANGED <<thisSeq, session>>
    <3>1. Same
      BY <1>1, <2>6, SentMoves DEF Idle
    <3>2. packCount = Len(tx.dg.msgs)
      BY <1>4, <2>6, <3>1 DEF Same, WellFormed, Behind, AtMessage, Counted
    <3> QED
      BY <2>6, <3>1, <3>2 DEF Same, Expects, Expecting
  <2> QED
    BY <2>1, <2>2, <2>3, <2>4, <2>5, <2>6, ToHdr
<1>5. ASSUME st' = "HDR", ~dropPacket', qn' > 0, tx'.n > 1, WellFormed(sent'[tx'.n - 1].dg)
      PROVE  Expects(sent[tx.n - 1])'
  <2>1. qn' # 0 /\ ~error'
    BY <1>3, <1>5
  <2>2. ~dropPacket
    <3>1. SUFFICES ASSUME dropPacket PROVE FALSE
      OBVIOUS
    <3>2. qn = 0
      BY <1>1, <3>1 DEF Position, Discarding
    <3>3. Dropping(o, rdy) => qn' = qn
      BY DEF Dropping
    <3>4. Dropping(o, rdy)
      BY <3>1 DEF Cycle, BadKeep, Hdr, HdrShort, Capture, Skip, LenShort, Stall, Cap,
           W0, TS, Body, Emission, NextMsg, Drained, Draining, In
    <3> QED
      BY <2>1, <3>2, <3>3, <3>4
  <2>3. HdrShort(o, rdy) /\ ~eopSeen
    <3>1. ~BadKeep(o, rdy) /\ ~Dropping(o, rdy)
      BY <2>1, <2>2 DEF BadKeep, Dropping
    <3>2. ~Hdr(o, rdy)
      <4>1. SUFFICES ASSUME Hdr(o, rdy) PROVE FALSE
        OBVIOUS
      <4>2. Ends(o) /\ qn' = Queue(o) /\ st = "HDR"
        BY <1>5, <2>1, <4>1 DEF Hdr, HeaderHere, Advance, Fail, In
      <4> QED
        BY <1>1, <2>1, <4>2, Drains, EndsEmpty
    <3>3. ~(NextMsg(o, rdy) \/ Drained(o, rdy))
      <4>1. SUFFICES ASSUME NextMsg(o, rdy) \/ Drained(o, rdy) PROVE FALSE
        OBVIOUS
      <4>2. Close(o, TRUE) \/ Close(o, FALSE)
        BY <4>1 DEF NextMsg, Drained
      <4>3. Ends(o) /\ qn' = Queue(o)
        BY <1>5, <2>1, <4>2 DEF Close, Advance, Fail
      <4>4. ~DrainLive
        BY <1>1, <4>1, Drains DEF NextMsg, Drained, In
      <4> QED
        BY <1>1, <2>1, <4>3, <4>4, EndsEmpty
    <3>4. ~(Capture(o, rdy) \/ Skip(o, rdy) \/ LenShort(o, rdy) \/ Draining(o, rdy))
      BY <1>5, <2>1 DEF Capture, Skip, LenShort, Draining, Advance, Fail
    <3>5. ~(Stall(o, rdy) \/ Cap(o, rdy) \/ W0(o, rdy) \/ TS(o, rdy) \/ Body(o, rdy))
      <4>1. ~Stall(o, rdy)
        BY <1>5 DEF Stall, Advance, In
      <4> QED
        BY <1>5, <4>1 DEF Cap, W0, TS, Body, Emission, Advance
    <3>6. HdrShort(o, rdy)
      BY <3>1, <3>2, <3>3, <3>4, <3>5 DEF Cycle
    <3> QED
      BY <2>1, <3>6 DEF HdrShort, Fail
  <2>4. UNCHANGED <<session, expSeq>> /\ st = "HDR"
    BY <2>3 DEF HdrShort, headerVars, In
  <2>5. CASE qn = 0
    <3>1. Take(o)
      BY <1>1, <2>1, <2>3, <2>5, HdrWaits
    <3>2. Idle
      BY <2>2, <2>4, <2>5 DEF Idle
    <3>3. tx.pos = tx.dg.size
      BY <1>1, <2>2, <2>4, <2>5 DEF Position, AtHeader
    <3>4. Renewed
      BY <1>1, <3>1, <3>3, SentMoves
    <3>5. tx'.n - 1 = tx.n /\ tx.n >= 1
      BY <1>1, <1>5, <3>4 DEF Renewed
    <3> DEFINE s == [dg |-> tx'.dg, seq |-> tx'.seq]
               T == [dg : Datagrams, seq : Nat]
    <3>6. s \in T /\ sent' = Append(sent, s) /\ sent \in Seq(T) /\ Len(sent) = tx.n
      BY <3>4 DEF Renewed, History
    <3> HIDE DEF s, T
    <3>7. sent'[tx'.n - 1] = sent[tx.n]
      BY <1>1, <3>5, <3>6
    <3>8. sent[tx.n] = [dg |-> tx.dg, seq |-> tx.seq]
      BY <3>5 DEF History
    <3>9. WellFormed(tx.dg)
      BY <1>5, <3>7, <3>8
    <3>10. Expects([dg |-> tx.dg, seq |-> tx.seq])
      BY <3>2, <3>9 DEF Expecting
    <3> QED
      BY <2>4, <3>7, <3>8, <3>10 DEF Expects
  <2>6. CASE qn # 0
    <3>1. ~Idle /\ qn > 0
      BY <1>1, <2>6 DEF Idle
    <3>2. Same
      BY <1>1, <3>1, SentMoves
    <3>3. Expects(sent[tx.n - 1])
      BY <1>5, <2>2, <2>4, <3>1, <3>2 DEF Same, Expecting
    <3> QED
      BY <2>4, <3>2, <3>3 DEF Same, Expects
  <2> QED
    BY <2>5, <2>6
<1> QED
  BY <1>2, <1>4, <1>5 DEF Expecting

\* An error pulse counts for the datagram under way, and tells of it.
PastAccused ==
  \A k \in 1..Len(sent) : k < tx.n /\ k \in errors => ~WellFormed(sent[k].dg)

\* A new datagram leaves those before it as they are.
LEMMA SentGrows ==
  ASSUME History, Renewed
  PROVE  /\ tx.n \in Nat /\ tx'.n = tx.n + 1 /\ Len(sent) = tx.n /\ Len(sent') = tx.n + 1
         /\ \A k \in 1..tx.n : sent'[k] = sent[k]
<1> DEFINE s == [dg |-> tx'.dg, seq |-> tx'.seq]
           T == [dg : Datagrams, seq : Nat]
<1>1. s \in T /\ sent' = Append(sent, s) /\ sent \in Seq(T) /\ Len(sent) = tx.n
  BY DEF Renewed, History
<1>2. tx.n \in Nat /\ tx'.n = tx.n + 1
  BY DEF Renewed, History
<1> HIDE DEF s, T
<1> QED
  BY <1>1, <1>2

\* Every cycle keeps this of the datagrams before.
LEMMA PastMoves ==
  ASSUME FrameInv, History, Accused, PastAccused,
         NEW o \in Offers, NEW rdy, Send(o), Record(o, rdy)
  PROVE  PastAccused'
<1>1. errors' \subseteq errors \cup {tx'.n}
  BY DEF Record
<1>2. CASE Same
  BY <1>1, <1>2 DEF Same, PastAccused, History
<1>3. CASE Renewed
  <2>1. /\ tx.n \in Nat /\ tx'.n = tx.n + 1 /\ Len(sent) = tx.n /\ Len(sent') = tx.n + 1
        /\ \A k \in 1..tx.n : sent'[k] = sent[k]
    BY <1>3, SentGrows
  <2>2. SUFFICES ASSUME NEW k \in 1..(tx.n + 1), k < tx.n + 1, k \in errors'
                 PROVE  ~WellFormed(sent'[k].dg)
    BY <2>1 DEF PastAccused
  <2>3. k \in errors /\ k \in 1..tx.n /\ sent'[k] = sent[k]
    BY <1>1, <2>1, <2>2
  <2>4. CASE k < tx.n
    BY <2>1, <2>3, <2>4 DEF PastAccused
  <2>5. CASE k = tx.n
    <3>1. sent[k] = [dg |-> tx.dg, seq |-> tx.seq]
      BY <2>1, <2>3, <2>5 DEF History
    <3> QED
      BY <2>3, <2>5, <3>1 DEF Accused
  <2> QED
    BY <2>1, <2>3, <2>4, <2>5
<1> QED
  BY <1>2, <1>3, SentMoves

AccuseInv == FrameInv /\ History /\ Accused /\ PastAccused /\ Unblamed /\ Expecting

\* It holds at reset.
LEMMA AccuseInit == HInit => AccuseInv
<1> SUFFICES ASSUME HInit PROVE AccuseInv
  OBVIOUS
<1>1. FrameInv
  BY FrameInit
<1>2. /\ tx = [dg |-> NoDatagram, seq |-> 0, n |-> 0, pos |-> 1] /\ nextSeq = 1
      /\ st = "HDR" /\ qn = 0 /\ dropPacket = FALSE /\ sent = <<>> /\ errors = {}
  BY DEF HInit, Init
<1>3. tx.n = 0 /\ tx.pos = 1 /\ tx.seq = 0 /\ tx.dg = NoDatagram
  BY <1>2
<1>4. History
  BY <1>2, <1>3 DEF History
<1>5. Accused /\ PastAccused /\ Unblamed
  BY <1>2 DEF Accused, PastAccused, Unblamed, Emitting
<1>6. ~WellFormed(NoDatagram)
  <2>1. NoDatagram.size = 1 /\ Len(NoDatagram.msgs) = 0
    BY DEF NoDatagram
  <2>2. Begin(NoDatagram, 1) = 20
    BY BeginFirst
  <2> QED
    BY <2>1, <2>2 DEF WellFormed, Whole
<1>7. Expecting
  BY <1>2, <1>3, <1>6 DEF Expecting
<1> QED
  BY <1>1, <1>4, <1>5, <1>7 DEF AccuseInv

\* It is inductive.
LEMMA AccuseStep ==
  ASSUME TrafficFits, AccuseInv, [HNext]_hvars
  PROVE  AccuseInv'
<1>1. FrameInv'
  BY FrameStep DEF AccuseInv
<1>2. CASE HNext
  <2>1. PICK o \in Offers, rdy \in Readiness : Cycle(o, rdy) /\ Record(o, rdy)
    BY <1>2 DEF HNext, HCycle
  <2>2. Send(o) /\ IdleKeeps \subseteq {0}
    BY <2>1 DEF Cycle, TrafficFits
  <2>3. History'
    BY <2>1, <2>2, HistoryMoves DEF AccuseInv
  <2>4. Accused'
    BY <2>1, AccusedMoves DEF AccuseInv
  <2>5. PastAccused'
    BY <2>1, <2>2, PastMoves DEF AccuseInv
  <2>6. Unblamed'
    BY <2>1, UnblamedMoves DEF AccuseInv
  <2>7. Expecting'
    BY <2>1, ExpectingMoves DEF AccuseInv
  <2> QED
    BY <1>1, <2>3, <2>4, <2>5, <2>6, <2>7 DEF AccuseInv
<1>3. CASE UNCHANGED hvars
  <2>1. UNCHANGED <<tx, nextSeq, st, qn, packLeft, packCount, eopSeen, dropPacket,
                    msgReg, sent, errors, thisSeq, session, expSeq>>
    BY <1>3 DEF hvars, vars, senderVars, headerVars, recordVars
  <2>2. History'
    BY <2>1 DEF AccuseInv, History
  <2>3. Accused' /\ PastAccused'
    BY <2>1 DEF AccuseInv, Accused, PastAccused
  <2>4. Unblamed'
    BY <2>1 DEF AccuseInv, Unblamed, Emitting, Captured, Behind, AtMessage, Counted,
                Ended, Front, NextBegin, Done
  <2>5. Expecting'
    BY <2>1 DEF AccuseInv, Expecting, Expects, Idle
  <2> QED
    BY <1>1, <2>2, <2>3, <2>4, <2>5 DEF AccuseInv
<1> QED
  BY <1>2, <1>3

\* It holds of every state.
LEMMA AccuseInvariant ==
  ASSUME TrafficFits
  PROVE  HSpec => []AccuseInv
<1>1. HInit => AccuseInv
  BY AccuseInit
<1>2. AccuseInv /\ [HNext]_hvars => AccuseInv'
  BY AccuseStep
<1> QED
  BY <1>1, <1>2, PTL DEF HSpec

\* gap_detected comes with the header of a datagram exactly when its sequence
\* number, in the same session, is not the one that the well-formed datagram
\* before it leads to (exp_seq in ST_HDR, ST_NEXT and ST_DRAIN), whatever was
\* sent before these two and whatever messages were skipped.
THEOREM GapsFoundAlways ==
  ASSUME TrafficFits
  PROVE  HSpec => GapsFound
<1> DEFINE A == st = "HDR" /\ st' = "LEN" /\ tx.n > 1 /\ WellFormed(sent[tx.n - 1].dg) =>
                  LET before == sent[tx.n - 1]
                      now == sent[tx.n]
                  IN gap' <=> /\ now.dg.sess = before.dg.sess
                              /\ now.seq # before.seq + Len(before.dg.msgs)
<1>1. AccuseInv /\ [HNext]_hvars => [A]_hvars
  <2>1. SUFFICES ASSUME AccuseInv, HNext, st = "HDR", st' = "LEN", tx.n > 1,
                        WellFormed(sent[tx.n - 1].dg)
                 PROVE  gap' <=>
                          /\ sent[tx.n].dg.sess = sent[tx.n - 1].dg.sess
                          /\ sent[tx.n].seq # sent[tx.n - 1].seq
                                              + Len(sent[tx.n - 1].dg.msgs)
    BY Zenon
  <2>2. PICK o \in Offers, rdy \in Readiness : Cycle(o, rdy) /\ Record(o, rdy)
    BY <2>1 DEF HNext, HCycle
  <2>3. Hdr(o, rdy)
    BY <2>1, <2>2 DEF Cycle, Dropping, BadKeep, HdrShort, Capture, Skip, LenShort, Stall,
         Cap, W0, TS, Body, Emission, NextMsg, Drained, Draining, In, Advance, Fail
  <2>4. /\ ~dropPacket /\ qn > 0
        /\ gap' <=> tx.dg.sess = session /\ tx.seq # expSeq
    BY <2>1, <2>2, <2>3, HdrReads DEF AccuseInv, Cycle
  <2>5. Expects(sent[tx.n - 1])
    BY <2>1, <2>4 DEF AccuseInv, Expecting
  <2>6. sent[tx.n] = [dg |-> tx.dg, seq |-> tx.seq]
    BY <2>1 DEF AccuseInv, History
  <2> QED
    BY <2>4, <2>5, <2>6 DEF Expects
<1>2. HSpec => []AccuseInv
  BY AccuseInvariant
<1> QED
  BY <1>1, <1>2, PTL DEF HSpec, GapsFound

(***************************************************************************)
(* Datagrams without an error pulse                                        *)
(***************************************************************************)
\* The first k messages have the lengths of their types, and the beats so far
\* a well-formed tkeep.
Checked(k) ==
  \A j \in 1..k : tx.dg.msgs[j].len >= CommonHeader /\ LengthOk(tx.dg.msgs[j])
BeatsOk == tx.dg.badBeat = 0 \/ tx.pos <= (tx.dg.badBeat - 1) * BYTES

\* The messages that are done, and the one that was captured or is skipped,
\* have been looked at.
Looked ==
  /\ st = "LEN" => Checked(Done)
  /\ st = "CAP" \/ Emitting \/ st = "DRAIN" => Checked(Done + 1)

\* What is known of a datagram that no error pulse was raised for: it is well
\* formed if it is over, and as far as it was read otherwise.
Cleared ==
  /\ tx.n \notin errors => BeatsOk
  /\ tx.n >= 1 /\ tx.n \notin errors =>
       (Idle => WellFormed(tx.dg)) /\ Looked
\* The ones before it without an error pulse were well formed.
PastCleared ==
  \A k \in 1..Len(sent) : k < tx.n /\ k \notin errors => WellFormed(sent[k].dg)

\* A datagram under way is one of the traffic.
LEMMA SentIsDatagram ==
  ASSUME History, tx.n >= 1
  PROVE  tx.dg \in Datagrams
<1> DEFINE T == [dg : Datagrams, seq : Nat]
<1>1. sent \in Seq(T) /\ tx.n \in 1..Len(sent)
  BY DEF History
<1>2. \A t \in T : t.dg \in Datagrams
  OBVIOUS
<1>3. sent[tx.n].dg = tx.dg
  BY DEF History
<1> HIDE DEF T
<1>4. sent[tx.n] \in T
  BY <1>1
<1> QED
  BY <1>2, <1>3, <1>4

\* A step without an error pulse takes no malformed beat.
LEMMA CleanStep ==
  ASSUME FrameInv, History, Unblamed, TrafficFits, NEW o \in Offers, NEW rdy,
         Cycle(o, rdy), Record(o, rdy), tx'.n \notin errors'
  PROVE  /\ ~error' /\ ~dropPacket /\ (tx.n \notin errors \/ Idle)
         /\ ~Dropping(o, rdy) /\ ~BadKeep(o, rdy)
         /\ Take(o) => o.keepOk
<1>1. ~error' /\ tx'.n \notin errors
  BY DEF Record
<1>2. Idle \/ tx.n \notin errors
  BY <1>1, SentMoves DEF Same, Cycle
<1>3. ~dropPacket
  BY <1>2 DEF Idle, Unblamed
<1>4. ~Dropping(o, rdy) /\ ~BadKeep(o, rdy)
  BY <1>1, <1>3 DEF Dropping, BadKeep
<1>5. Take(o) => o.keepOk
  BY <1>3, <1>4 DEF Cycle, Dropping, BadKeep, Hdr, HdrShort, Capture, Skip, LenShort, Stall, Cap,
       W0, TS, Body, Emission, NextMsg, Drained, Draining, In
<1> QED
  BY <1>1, <1>2, <1>3, <1>4, <1>5

\* A beat with a good tkeep is not the malformed one.
LEMMA BeatsMove ==
  ASSUME FrameInv, History, IdleKeeps \subseteq {0},
         NEW o \in Offers, Send(o), Take(o) => o.keepOk,
         tx.pos # tx.dg.size \/ ~Take(o) => BeatsOk
  PROVE  BeatsOk'
<1>1. /\ ParserInv /\ Cut /\ tx.pos \in Nat /\ tx.dg.size \in Nat
  BY Sizes DEF FrameInv
<1>2. CASE ~Take(o)
  BY <1>1, <1>2, Taken DEF BeatsOk
<1>3. CASE Take(o)
  <2>1. /\ tx'.pos = o.pos + o.bytes /\ tx'.dg = o.dg /\ o.valid /\ o.keepOk
        /\ o.bytes \in 1..BYTES /\ BYTES \in {4, 8}
    BY <1>1, <1>3, Taken, Widths DEF Send
  <2>2. o.pos \in Nat /\ o.pos \div BYTES + 1 # o.dg.badBeat
    BY <1>1, <2>1, OfferKeep
  <2>3. /\ o.pos % BYTES = 0 /\ o.dg.badBeat \in Nat
        /\ o.dg.badBeat = 0 \/ o.pos <= (o.dg.badBeat - 1) * BYTES
    <3>1. CASE tx.pos < tx.dg.size /\ o.dg = tx.dg /\ o.pos = tx.pos /\ o.n = tx.n
      <4>1. tx.dg.badBeat \in Nat
        BY <1>1, DatagramFields, Sizes
      <4>2. tx.pos # tx.dg.size /\ tx.pos % BYTES = 0
        BY <1>1, <3>1 DEF Cut
      <4>3. BeatsOk
        BY <4>2
      <4> QED
        BY <3>1, <4>1, <4>2, <4>3 DEF BeatsOk
    <3>2. CASE o.dg \in Datagrams /\ o.pos = 0
      <4>1. o.dg.badBeat \in Nat
        BY <3>2, DatagramFields
      <4>2. 0 % BYTES = 0 /\ (o.dg.badBeat = 0 \/ 0 <= (o.dg.badBeat - 1) * BYTES)
        BY <2>1, <4>1
      <4> QED
        BY <3>2, <4>1, <4>2
    <3> QED
      BY <1>1, <2>1, <3>1, <3>2, OfferNames
  <2>4. o.dg.badBeat = 0 \/ o.pos + o.bytes <= (o.dg.badBeat - 1) * BYTES
    <3>1. CASE BYTES = 4
      BY <2>1, <2>2, <2>3, <3>1
    <3>2. CASE BYTES = 8
      BY <2>1, <2>2, <2>3, <3>2
    <3> QED
      BY <2>1, <3>1, <3>2
  <2> QED
    BY <2>1, <2>4 DEF BeatsOk
<1> QED
  BY <1>2, <1>3

\* A datagram that was taken to its end had no malformed beat.
LEMMA NoBadBeat ==
  ASSUME ParserInv', BeatsOk', tx'.dg \in Datagrams, Meant(tx'.dg), tx'.pos = tx'.dg.size
  PROVE  tx'.dg.badBeat = 0
<1>1. tx'.dg.badBeat \in Nat /\ tx'.dg.size \in Nat /\ BYTES \in {4, 8}
  BY DatagramFields, Widths
<1>2. tx'.dg.badBeat # 0 => (tx'.dg.badBeat - 1) * BYTES < tx'.dg.size
  BY DEF Meant
<1>3. tx'.dg.badBeat = 0 \/ tx'.dg.size <= (tx'.dg.badBeat - 1) * BYTES
  BY DEF BeatsOk
<1>4. CASE BYTES = 4
  BY <1>1, <1>2, <1>3, <1>4
<1>5. CASE BYTES = 8
  BY <1>1, <1>2, <1>3, <1>5
<1> QED
  BY <1>1, <1>4, <1>5

\* A header without messages that ends its datagram is all of it.
LEMMA HdrClears ==
  ASSUME FrameInv, IdleKeeps \subseteq {0}, tx.dg \in Datagrams, Meant(tx.dg),
         NEW o \in Offers, NEW rdy, Send(o), Hdr(o, rdy), Ends(o), ~(tx.dg.count > 0)
  PROVE  /\ tx'.dg = tx.dg /\ tx'.pos = tx.dg.size
         /\ Len(tx.dg.msgs) = 0 /\ tx.dg.count = 0 /\ tx.dg.size = Whole(tx.dg)
<1>1. /\ ParserInv /\ Position /\ In("HDR", o) /\ DrainInt = HeaderBytes
      /\ tx.dg.count \in Nat /\ tx.dg.msgs \in Seq(Wire) /\ tx.pos \in Nat /\ qn \in Nat
      /\ Len(tx.dg.msgs) \in Nat
  BY Sizes DEF Hdr, FrameInv
<1>2. ~dropPacket /\ st = "HDR" /\ ~(Take(o) /\ ~o.keepOk)
  BY <1>1 DEF In
<1>3. qn >= 20 /\ BaseN = qn - 20 /\ ~DrainLive
  BY <1>1, <1>2, Drains
<1>4. qn = tx.pos /\ Ended
  BY <1>1, <1>2, <1>3 DEF Position, AtHeader
<1>5. /\ tx'.dg = tx.dg
      /\ tx'.pos - QnPost(o) = tx.pos - BaseN
      /\ EopEff(o) <=> tx'.pos = tx.dg.size
  BY <1>1, <1>2, <1>3, <1>4, Transfers
<1>6. tx'.pos = tx.dg.size /\ tx.dg.size = 20
  <2>1. QnPost(o) = 0 /\ tx'.pos = tx.dg.size
    BY <1>5 DEF Ends
  <2>2. tx.dg.size - 0 = tx.pos - (tx.pos - 20)
    BY <1>3, <1>4, <1>5, <2>1
  <2>3. \A s, p \in Nat : s - 0 = p - (p - 20) => s = 20
    OBVIOUS
  <2>4. tx.dg.size = 20
    BY <1>1, <2>2, <2>3, Sizes, Zenon
  <2> QED
    BY <2>1, <2>4
<1>7. Len(tx.dg.msgs) = 0
  <2>1. SUFFICES ASSUME Len(tx.dg.msgs) # 0 PROVE FALSE
    OBVIOUS
  <2>2. /\ 1 \in 1..(Len(tx.dg.msgs) + 1) /\ 1 <= Len(tx.dg.msgs)
        /\ Len(tx.dg.msgs) \in 1..(Len(tx.dg.msgs) + 1) /\ tx.dg.msgs # <<>>
    BY <1>1, <2>1
  <2>3. /\ Begin(tx.dg, 1) <= Begin(tx.dg, Len(tx.dg.msgs))
        /\ Begin(tx.dg, Len(tx.dg.msgs)) \in Nat
    BY <2>2, BeginMonotone
  <2>4. tx.dg.size > Begin(tx.dg, Len(tx.dg.msgs)) /\ Begin(tx.dg, 1) = 20
    BY <2>2, BeginFirst DEF Meant
  <2> QED
    BY <1>6, <2>3, <2>4
<1>8. Whole(tx.dg) = 20
  <2>1. Len(tx.dg.msgs) + 1 = 1
    BY <1>7
  <2> QED
    BY <2>1, BeginFirst DEF Whole
<1> QED
  BY <1>1, <1>5, <1>6, <1>7, <1>8

\* The last message that the header counts, if it ends the datagram, is the
\* last that there is.
LEMMA CloseClears ==
  ASSUME FrameInv, IdleKeeps \subseteq {0}, tx.dg \in Datagrams, Meant(tx.dg),
         Behind, packLeft = 1, BaseN = qn, ~DrainLive, ~dropPacket,
         NEW s, NEW o \in Offers, In(s, o), Send(o), Ends(o)
  PROVE  /\ tx'.dg = tx.dg /\ tx'.pos = tx.dg.size
         /\ tx.dg.count = Len(tx.dg.msgs) /\ tx.dg.size = Whole(tx.dg)
         /\ Done + 1 = Len(tx.dg.msgs)
<1>1. /\ ParserInv /\ tx.dg.msgs \in Seq(Wire) /\ tx.pos \in Nat /\ qn \in Nat
      /\ Len(tx.dg.msgs) \in Nat /\ tx.dg.count \in Nat /\ tx.dg.size \in Nat
  BY Sizes DEF FrameInv
<1>2. ~(Take(o) /\ ~o.keepOk) /\ Ended
  BY DEF In, Behind
<1>3. /\ tx'.dg = tx.dg
      /\ tx'.pos - QnPost(o) = tx.pos - BaseN
      /\ EopEff(o) <=> tx'.pos = tx.dg.size
  BY <1>1, <1>2, Transfers
<1>4. QnPost(o) = 0 /\ tx'.pos = tx.dg.size
  BY <1>3 DEF Ends
<1>5. tx.pos - qn = Begin(tx.dg, Done + 2)
  BY DEF Behind, Front
<1>6. tx.dg.size = Begin(tx.dg, Done + 2)
  BY <1>1, <1>3, <1>4, <1>5
<1>7. /\ Done + 1 \in 1..Len(tx.dg.msgs) /\ Done = packCount - packLeft
      /\ packCount = tx.dg.count
  BY DEF Behind, AtMessage, Counted, Done
<1> DEFINE j == Done + 1
<1>8. j \in 1..Len(tx.dg.msgs) /\ Done + 2 = j + 1
  BY <1>1, <1>7
<1> HIDE DEF j
<1>9. j = Len(tx.dg.msgs)
  <2>1. SUFFICES ASSUME j # Len(tx.dg.msgs) PROVE FALSE
    OBVIOUS
  <2>2. /\ j + 1 \in 1..(Len(tx.dg.msgs) + 1) /\ j + 1 <= Len(tx.dg.msgs)
        /\ Len(tx.dg.msgs) \in 1..(Len(tx.dg.msgs) + 1) /\ tx.dg.msgs # <<>>
    <3>1. \A n \in Nat : \A k \in 1..n :
            k # n => k + 1 \in 1..(n + 1) /\ k + 1 <= n /\ n \in 1..(n + 1) /\ n # 0
      OBVIOUS
    <3>2. /\ j + 1 \in 1..(Len(tx.dg.msgs) + 1) /\ j + 1 <= Len(tx.dg.msgs)
          /\ Len(tx.dg.msgs) \in 1..(Len(tx.dg.msgs) + 1) /\ Len(tx.dg.msgs) # 0
      BY <1>1, <1>8, <2>1, <3>1, Zenon
    <3> QED
      BY <3>2
  <2>3. /\ Begin(tx.dg, j + 1) <= Begin(tx.dg, Len(tx.dg.msgs))
        /\ Begin(tx.dg, Len(tx.dg.msgs)) \in Nat
    BY <2>2, BeginMonotone
  <2>4. tx.dg.size > Begin(tx.dg, Len(tx.dg.msgs))
    BY <2>2 DEF Meant
  <2>5. tx.dg.size = Begin(tx.dg, j + 1)
    BY <1>6, <1>8
  <2> QED
    BY <1>1, <2>3, <2>4, <2>5
<1>10. tx.dg.size = Whole(tx.dg)
  BY <1>6, <1>8, <1>9 DEF Whole
<1>11. Done + 1 = Len(tx.dg.msgs)
  BY <1>9 DEF j
<1>12. tx.dg.count = Len(tx.dg.msgs)
  BY <1>1, <1>7, <1>11
<1> QED
  BY <1>3, <1>4, <1>10, <1>11, <1>12

\* A datagram that the parser is done with, without an error pulse, is well
\* formed.
LEMMA IdleClears ==
  ASSUME AccuseInv, Cleared, TrafficFits, TrafficMeant, BeatsOk', ParserInv',
         NEW o \in Offers, NEW rdy, Cycle(o, rdy), Record(o, rdy),
         tx'.n >= 1, tx'.n \notin errors', Idle'
  PROVE  WellFormed(tx'.dg)
<1>1. /\ FrameInv /\ History /\ Unblamed /\ Position /\ Send(o) /\ IdleKeeps \subseteq {0}
      /\ qn \in Nat /\ Len(tx.dg.msgs) \in Nat
  BY Sizes DEF AccuseInv, FrameInv, Cycle, TrafficFits
<1>2. /\ ~error' /\ ~dropPacket /\ (tx.n \notin errors \/ Idle)
  BY <1>1, CleanStep
<1>3. st' = "HDR" /\ qn' = 0 /\ errors \subseteq errors'
  BY DEF Idle, Record
<1>4. CASE HdrShort(o, rdy) /\ ~eopSeen
  <2>1. qn = 0 /\ ~Take(o) /\ ~dropPacket /\ st = "HDR"
    BY <1>1, <1>3, <1>4, HdrWaits DEF HdrShort, In
  <2>2. Idle
    BY <2>1 DEF Idle
  <2>3. Same
    BY <1>1, <2>1, SentMoves
  <2>4. tx.n >= 1 /\ tx.n \notin errors
    BY <1>3, <2>3 DEF Same
  <2> QED
    BY <2>2, <2>3, <2>4 DEF Cleared, Same
<1>5. ASSUME Same
      PROVE  tx.n \notin errors /\ tx.n >= 1 /\ tx.dg \in Datagrams /\ Meant(tx.dg)
  <2>1. tx.n \notin errors /\ tx.n >= 1
    BY <1>3, <1>5 DEF Same
  <2> QED
    BY <1>1, <2>1, SentIsDatagram DEF TrafficMeant
<1>6. CASE Hdr(o, rdy) /\ ~(tx.dg.count > 0) /\ Ends(o)
  <2>1. Same
    BY <1>1, <1>6, HdrReads
  <2>2. /\ tx'.dg = tx.dg /\ tx'.pos = tx.dg.size
        /\ Len(tx.dg.msgs) = 0 /\ tx.dg.count = 0 /\ tx.dg.size = Whole(tx.dg)
    BY <1>1, <1>5, <1>6, <2>1, HdrClears
  <2>3. tx.dg.badBeat = 0
    BY <1>5, <2>1, <2>2, NoBadBeat
  <2> QED
    BY <2>2, <2>3 DEF WellFormed
<1>7. CASE /\ st # "HDR" /\ Behind /\ packLeft = 1
           /\ Ends(o) /\ BaseN = qn /\ ~DrainLive /\ \E s : In(s, o)
  <2>1. Same
    BY <1>1, <1>7, SentMoves DEF Idle
  <2>2. PICK s : In(s, o)
    BY <1>7
  <2>3. /\ tx'.dg = tx.dg /\ tx'.pos = tx.dg.size
        /\ tx.dg.count = Len(tx.dg.msgs) /\ tx.dg.size = Whole(tx.dg)
        /\ Done + 1 = Len(tx.dg.msgs)
    BY <1>1, <1>2, <1>5, <1>7, <2>1, <2>2, CloseClears
  <2>4. tx.dg.badBeat = 0
    BY <1>5, <2>1, <2>3, NoBadBeat
  <2>5. Checked(Done + 1)
    <3>1. st \in {"NEXT", "DRAIN"}
      <4>1. NextMsg(o, rdy) \/ Drained(o, rdy)
        <5>1. ~Dropping(o, rdy) /\ ~BadKeep(o, rdy)
          BY <1>1, CleanStep
        <5>2. ~(Hdr(o, rdy) \/ HdrShort(o, rdy))
          BY <1>7 DEF Hdr, HdrShort, In
        <5>3. ~(Capture(o, rdy) \/ Skip(o, rdy) \/ LenShort(o, rdy) \/ Draining(o, rdy))
          BY <1>2, <1>3 DEF Capture, Skip, LenShort, Draining, Advance, Fail
        <5>4. ~(Stall(o, rdy) \/ Cap(o, rdy) \/ W0(o, rdy) \/ TS(o, rdy) \/ Body(o, rdy))
          <6>1. ~Stall(o, rdy)
            BY <1>3, <1>7 DEF Stall, Advance
          <6> QED
            BY <1>3, <6>1 DEF Cap, W0, TS, Body, Emission, Advance
        <5> QED
          BY <5>1, <5>2, <5>3, <5>4 DEF Cycle
      <4> QED
        BY <4>1 DEF NextMsg, Drained, In
    <3> QED
      BY <1>5, <2>1, <3>1 DEF Cleared, Looked, Emitting
  <2> QED
    BY <2>3, <2>4, <2>5 DEF WellFormed, Checked
<1> QED
  BY <1>1, <1>2, <1>3, <1>4, <1>6, <1>7, ToHdr

\* A message is looked at when it is captured or skipped.
LEMMA LookedMoves ==
  ASSUME FrameInv, TrafficFits, Unblamed, Looked, tx.n \notin errors, TrafficMeant,
         tx.dg \in Datagrams,
         NEW o \in Offers, NEW rdy, Cycle(o, rdy), tx'.dg = tx.dg,
         ~Dropping(o, rdy), ~BadKeep(o, rdy), ~error'
  PROVE  Looked'
<1>1. /\ ParserInv /\ Position /\ Send(o) /\ IdleKeeps \subseteq {0}
      /\ packLeft \in Nat /\ Len(tx.dg.msgs) \in Nat /\ tx.dg.count \in Nat
  BY Sizes DEF FrameInv, Cycle, TrafficFits
<1>2. ASSUME UNCHANGED <<packLeft, packCount>>
      PROVE  /\ Done' = Done
             /\ Checked(Done) => Checked(Done)'
             /\ Checked(Done + 1) => Checked(Done + 1)'
  BY <1>2 DEF Done, Checked
<1>3. CASE Hdr(o, rdy)
  <2>1. st' = "HDR" \/ (st' = "LEN" /\ packLeft' = tx.dg.count /\ packCount' = tx.dg.count)
    BY <1>3 DEF Hdr, HeaderHere, Advance, Fail
  <2>2. CASE st' = "HDR"
    BY <2>2 DEF Looked, Emitting
  <2>3. CASE st' = "LEN" /\ packLeft' = tx.dg.count /\ packCount' = tx.dg.count
    <3>1. Done' = 0
      BY <1>1, <2>3 DEF Done
    <3> QED
      BY <2>3, <3>1 DEF Looked, Emitting, Checked
  <2> QED
    BY <2>1, <2>2, <2>3
<1>4. CASE HdrShort(o, rdy)
  <2>1. st' = "HDR"
    BY <1>4 DEF HdrShort, Advance, Fail
  <2> QED
    BY <2>1 DEF Looked, Emitting
<1>5. CASE Capture(o, rdy) \/ Skip(o, rdy)
  <2>1. In("LEN", o) /\ st = "LEN" /\ qn >= 2 /\ UNCHANGED <<packLeft, packCount>>
        /\ st' \in {"CAP", "DRAIN"}
    BY <1>5 DEF Capture, Skip, In, headerVars
  <2>2. qn >= 1 /\ AtLength
    <3>1. AtLength
      BY <1>1, <2>1, LengthMoves
    <3>2. qn \in Nat
      BY <1>1, Sizes
    <3> QED
      BY <2>1, <3>1, <3>2
  <2>3. AtMessage /\ \A w \in WiresHere : w.m = tx.dg.msgs[Done + 1]
    BY <1>1, <2>2, AtHand
  <2> DEFINE m == tx.dg.msgs[Done + 1]
  <2>4. Done + 1 \in 1..Len(tx.dg.msgs) /\ Done \in Nat
    BY <1>1, <2>3 DEF AtMessage, Counted
  <2>5. m.len >= CommonHeader /\ LengthOk(m)
    <3>1. CASE Capture(o, rdy)
      <4>1. PICK w \in WiresHere : ~(w.m.len < CommonHeader \/ ~LengthOk(w.m))
        BY <3>1 DEF Capture
      <4>2. m.len \in Nat
        BY <1>1, <2>4, BeginNext, Sizes
      <4>3. ~(m.len < CommonHeader) /\ LengthOk(m)
        BY <2>3, <4>1
      <4> QED
        BY <4>2, <4>3 DEF CommonHeader
    <3>2. CASE Skip(o, rdy)
      <4>1. PICK w \in WiresHere : Oversize(w.m.len)
        BY <3>2 DEF Skip
      <4>2. Oversize(m.len) /\ m.len \in Nat
        BY <1>1, <2>3, <2>4, <4>1, BeginNext, Sizes
      <4>3. LengthOk(m)
        BY <2>4, <4>2 DEF TrafficMeant, Meant
      <4>4. QB >= 20 /\ QB \in Nat
        BY ParserAssumption DEF HeaderBytes
      <4> QED
        BY <4>2, <4>3, <4>4 DEF Oversize, CommonHeader
    <3> QED
      BY <1>5, <3>1, <3>2
  <2>6. Checked(Done + 1)
    <3>1. Checked(Done)
      BY <2>1 DEF Looked
    <3>2. \A j \in 1..(Done + 1) : j \in 1..Done \/ j = Done + 1
      BY <2>4
    <3> QED
      BY <2>5, <3>1, <3>2 DEF Checked
  <2> QED
    BY <1>2, <2>1, <2>6 DEF Looked, Emitting
<1>6. CASE LenShort(o, rdy)
  <2>1. /\ st = "LEN" /\ st' = "LEN" /\ UNCHANGED <<packLeft, packCount>>
    BY <1>6 DEF LenShort, Advance, Fail, In
  <2> QED
    BY <1>2, <2>1 DEF Looked, Emitting
<1>7. CASE Stall(o, rdy) \/ Cap(o, rdy) \/ W0(o, rdy) \/ TS(o, rdy) \/ Body(o, rdy)
  <2>1. /\ st = "CAP" \/ Emitting
        /\ st' \in {"CAP", "W0", "TS", "BODY", "NEXT"}
        /\ UNCHANGED <<packLeft, packCount>>
    <3>1. CASE Stall(o, rdy)
      BY <3>1 DEF Stall, In, Advance, headerVars, Emitting
    <3>2. CASE ~Stall(o, rdy)
      BY <1>7, <3>2 DEF Cap, W0, TS, Body, Emission, In, Advance, headerVars, Emitting
    <3> QED
      BY <3>1, <3>2
  <2> QED
    BY <1>2, <2>1 DEF Looked, Emitting
<1>8. CASE NextMsg(o, rdy) \/ Drained(o, rdy)
  <2>1. /\ Close(o, TRUE) \/ Close(o, FALSE)
        /\ UNCHANGED packCount
    BY <1>8 DEF NextMsg, Drained, In
  <2>2. CASE st' = "HDR"
    BY <2>2 DEF Looked, Emitting
  <2>3. CASE st' # "HDR"
    <3>1. st' = "LEN" /\ packLeft' = packLeft - 1
      BY <2>1, <2>3 DEF Close, Advance, Fail
    <3>2. Checked(Done + 1)
      BY <1>8 DEF NextMsg, Drained, In, Looked, Emitting
    <3>3. packCount \in Nat
      <4>1. Behind
        BY <1>1, <1>8, DrainedBehind DEF NextMsg, In, Unblamed, Emitting
      <4> QED
        BY <1>1, <4>1 DEF Behind, AtMessage, Counted
    <3>4. Done' = Done + 1
      BY <1>1, <2>1, <3>1, <3>3 DEF Done
    <3> QED
      BY <3>1, <3>2, <3>4 DEF Looked, Checked, Emitting
  <2> QED
    BY <2>2, <2>3
<1>9. CASE Draining(o, rdy)
  <2>1. st = "DRAIN" /\ st' = "DRAIN" /\ UNCHANGED <<packLeft, packCount>>
    BY <1>9 DEF Draining, Advance, Fail, In
  <2> QED
    BY <1>2, <2>1 DEF Looked, Emitting
<1> QED
  BY <1>3, <1>4, <1>5, <1>6, <1>7, <1>8, <1>9 DEF Cycle

\* Every cycle keeps this of the datagram under way.
LEMMA ClearedMoves ==
  ASSUME AccuseInv, Cleared, TrafficFits, TrafficMeant, ParserInv',
         NEW o \in Offers, NEW rdy, Cycle(o, rdy), Record(o, rdy)
  PROVE  Cleared'
<1>1. /\ FrameInv /\ History /\ Unblamed /\ Send(o) /\ IdleKeeps \subseteq {0}
  BY DEF AccuseInv, Cycle, TrafficFits
<1>2. SUFFICES ASSUME tx'.n \notin errors'
               PROVE  /\ BeatsOk'
                      /\ tx'.n >= 1 => (Idle => WellFormed(tx.dg))' /\ Looked'
  BY DEF Cleared
<1>3. /\ ~error' /\ (tx.n \notin errors \/ Idle)
      /\ ~Dropping(o, rdy) /\ ~BadKeep(o, rdy)
      /\ Take(o) => o.keepOk
  BY <1>1, <1>2, CleanStep
<1>4. errors \subseteq errors'
  BY DEF Record
<1>5. Same => tx.n \notin errors
  BY <1>2, <1>4 DEF Same
<1>6. BeatsOk'
  <2>1. tx.pos # tx.dg.size \/ ~Take(o) => Same
    BY <1>1, SentMoves
  <2>2. tx.pos # tx.dg.size \/ ~Take(o) => BeatsOk
    BY <1>5, <2>1 DEF Cleared
  <2> QED
    BY <1>1, <1>3, <2>2, BeatsMove
<1>7. ASSUME tx'.n >= 1 PROVE (Idle => WellFormed(tx.dg))'
  BY <1>1, <1>2, <1>6, <1>7, IdleClears
<1>8. ASSUME tx'.n >= 1 PROVE Looked'
  <2>1. CASE Same
    <3>1. tx.n >= 1 /\ tx.n \notin errors /\ tx'.dg = tx.dg
      BY <1>5, <1>8, <2>1 DEF Same
    <3>2. tx.dg \in Datagrams
      BY <1>1, <3>1, SentIsDatagram
    <3>3. Looked
      BY <3>1 DEF Cleared
    <3> QED
      BY <1>1, <1>3, <3>1, <3>2, <3>3, LookedMoves
  <2>2. CASE ~Same
    <3>1. Idle /\ st = "HDR"
      BY <1>1, <2>2, SentMoves DEF Idle
    <3>2. ~Hdr(o, rdy)
      BY <1>1, <2>2, HdrReads
    <3>3. HdrShort(o, rdy)
      BY <1>3, <3>1, <3>2 DEF Cycle, Capture, Skip, LenShort, Stall, Cap, W0, TS, Body,
         Emission, NextMsg, Drained, Draining, In
    <3>4. st' = "HDR"
      BY <3>3 DEF HdrShort, Advance, Fail
    <3> QED
      BY <3>4 DEF Looked, Emitting
  <2> QED
    BY <2>1, <2>2
<1> QED
  BY <1>6, <1>7, <1>8

\* Every cycle keeps this of the datagrams before.
LEMMA PastClearedMoves ==
  ASSUME FrameInv, History, Cleared, PastCleared,
         NEW o \in Offers, NEW rdy, Send(o), Record(o, rdy)
  PROVE  PastCleared'
<1>1. errors \subseteq errors'
  BY DEF Record
<1>2. CASE Same
  BY <1>1, <1>2 DEF Same, PastCleared, History
<1>3. CASE Renewed /\ Idle
  <2>1. /\ tx.n \in Nat /\ tx'.n = tx.n + 1 /\ Len(sent) = tx.n /\ Len(sent') = tx.n + 1
        /\ \A k \in 1..tx.n : sent'[k] = sent[k]
    BY <1>3, SentGrows
  <2>2. SUFFICES ASSUME NEW k \in 1..(tx.n + 1), k < tx.n + 1, k \notin errors'
                 PROVE  WellFormed(sent'[k].dg)
    BY <2>1 DEF PastCleared
  <2>3. k \notin errors /\ k \in 1..tx.n /\ sent'[k] = sent[k]
    BY <1>1, <2>1, <2>2
  <2>4. CASE k < tx.n
    BY <2>1, <2>3, <2>4 DEF PastCleared
  <2>5. CASE k = tx.n
    <3>1. sent[k] = [dg |-> tx.dg, seq |-> tx.seq] /\ tx.n >= 1
      BY <2>1, <2>3, <2>5 DEF History
    <3> QED
      BY <1>3, <2>3, <2>5, <3>1 DEF Cleared
  <2> QED
    BY <2>1, <2>3, <2>4, <2>5
<1> QED
  BY <1>2, <1>3, SentMoves

JudgeInv == AccuseInv /\ Cleared /\ PastCleared

\* Both hold at reset.
LEMMA JudgeInit == HInit => JudgeInv
<1> SUFFICES ASSUME HInit PROVE JudgeInv
  OBVIOUS
<1>1. /\ tx = [dg |-> NoDatagram, seq |-> 0, n |-> 0, pos |-> 1] /\ sent = <<>>
  BY DEF HInit, Init
<1>2. tx.n = 0 /\ tx.dg.badBeat = 0
  BY <1>1 DEF NoDatagram
<1>3. Cleared
  BY <1>2 DEF Cleared, BeatsOk
<1>4. PastCleared
  BY <1>1 DEF PastCleared
<1> QED
  BY <1>3, <1>4, AccuseInit DEF JudgeInv

\* Both are inductive.
LEMMA JudgeStep ==
  ASSUME TrafficFits, TrafficMeant, JudgeInv, [HNext]_hvars
  PROVE  JudgeInv'
<1>1. AccuseInv'
  BY AccuseStep DEF JudgeInv
<1>2. CASE HNext
  <2>1. PICK o \in Offers, rdy \in Readiness : Cycle(o, rdy) /\ Record(o, rdy)
    BY <1>2 DEF HNext, HCycle
  <2>2. Cleared'
    BY <1>1, <2>1, ClearedMoves DEF JudgeInv, AccuseInv, FrameInv
  <2>3. PastCleared'
    BY <2>1, PastClearedMoves DEF JudgeInv, AccuseInv, Cycle
  <2> QED
    BY <1>1, <2>2, <2>3 DEF JudgeInv
<1>3. CASE UNCHANGED hvars
  <2>1. UNCHANGED <<tx, st, qn, packLeft, packCount, dropPacket, sent, errors>>
    BY <1>3 DEF hvars, vars, senderVars, headerVars
  <2> QED
    BY <1>1, <2>1 DEF JudgeInv, Cleared, PastCleared, BeatsOk, Looked, Idle, Checked, Done, Emitting
<1> QED
  BY <1>2, <1>3

\* Of the datagrams that are over, exactly those that are not what their
\* headers say have raised an error pulse, and of the one under way a pulse
\* was raised only if it is not (the assignments to error in
\* rtl/parser/itch_parser.sv), however beats, stalls and skipped messages fall.
THEOREM JudgedAlways ==
  ASSUME TrafficFits, TrafficMeant
  PROVE  HSpec => []Judged
<1>1. JudgeInv => Judged
  <2>1. SUFFICES ASSUME JudgeInv, NEW n \in 1..Len(sent)
                 PROVE  /\ n \in errors => ~WellFormed(sent[n].dg)
                        /\ (n < tx.n \/ Idle) /\ n \notin errors => WellFormed(sent[n].dg)
    BY DEF Judged, Idle
  <2>2. tx.n \in Nat /\ Len(sent) = tx.n /\ n \in Nat /\ n >= 1 /\ n <= tx.n
    BY <2>1 DEF JudgeInv, AccuseInv, History
  <2>3. CASE n < tx.n
    BY <2>1, <2>3 DEF JudgeInv, AccuseInv, PastAccused, PastCleared
  <2>4. CASE n = tx.n
    <3>1. sent[n] = [dg |-> tx.dg, seq |-> tx.seq]
      BY <2>1, <2>2, <2>4 DEF JudgeInv, AccuseInv, History
    <3> QED
      BY <2>1, <2>2, <2>4, <3>1 DEF JudgeInv, AccuseInv, Accused, Cleared
  <2> QED
    BY <2>2, <2>3, <2>4
<1>2. HInit => JudgeInv
  BY JudgeInit
<1>3. JudgeInv /\ [HNext]_hvars => JudgeInv'
  BY JudgeStep
<1> QED
  BY <1>1, <1>2, <1>3, PTL DEF HSpec

(***************************************************************************)
(* Sequences                                                               *)
(***************************************************************************)
\* From a value, a step for each number gives a function up to any number.
IsIterate(f, V, a, step, n) ==
  /\ f \in [0..n -> V] /\ f[0] = a
  /\ \A i \in 1..n : f[i] = step[<<f[i - 1], i>>]

\* There is such a function.
LEMMA Iterates ==
  ASSUME NEW V, NEW a \in V, NEW step \in [V \X Nat -> V], NEW N \in Nat
  PROVE  \E f : IsIterate(f, V, a, step, N)
<1> DEFINE Up(n) == \E f : IsIterate(f, V, a, step, n)
           S == {n \in Nat : ~Up(n)}
<1>1. SUFFICES ASSUME S # {} PROVE FALSE
  OBVIOUS
<1>2. PICK x \in S : \A y \in S : x <= y
  BY <1>1, LowestExists
<1>3. x \in Nat /\ ~Up(x)
  OBVIOUS
<1>4. CASE x = 0
  <2>1. [i \in 0..0 |-> a] \in [0..0 -> V] /\ [i \in 0..0 |-> a][0] = a
    OBVIOUS
  <2>2. 1..0 = {}
    OBVIOUS
  <2>3. IsIterate([i \in 0..0 |-> a], V, a, step, 0)
    BY <2>1, <2>2 DEF IsIterate
  <2> QED
    BY <1>3, <1>4, <2>3
<1>5. CASE x # 0
  <2>1. x - 1 \in Nat /\ x - 1 \notin S
    BY <1>2, <1>3, <1>5
  <2>0. PICK g : IsIterate(g, V, a, step, x - 1)
    BY <2>1
  <2>2. /\ g \in [0..(x - 1) -> V] /\ g[0] = a
        /\ \A i \in 1..(x - 1) : g[i] = step[<<g[i - 1], i>>]
    BY <2>0 DEF IsIterate
  <2> DEFINE top == step[<<g[x - 1], x>>]
             f == [i \in 0..x |-> IF i < x THEN g[i] ELSE top]
  <2>3. top \in V
    BY <1>3, <2>1, <2>2
  <2> HIDE DEF top
  <2>4. f \in [0..x -> V] /\ f[0] = a
    BY <1>3, <1>5, <2>2, <2>3
  <2>5. ASSUME NEW i \in 1..x PROVE f[i] = step[<<f[i - 1], i>>]
    <3>1. i - 1 \in 0..x /\ i - 1 < x /\ i \in 0..x
      BY <1>3
    <3>2. f[i - 1] = g[i - 1]
      BY <3>1
    <3>3. CASE i < x
      <4>1. i \in 1..(x - 1) /\ f[i] = g[i]
        BY <1>3, <3>3
      <4> QED
        BY <2>2, <3>2, <4>1
    <3>4. CASE ~(i < x)
      <4>1. i = x
        BY <1>3, <3>4
      <4> QED
        BY <3>1, <3>2, <4>1 DEF top
    <3> QED
      BY <3>3, <3>4
  <2> HIDE DEF f
  <2>6. IsIterate(f, V, a, step, x)
    BY <2>4, <2>5 DEF IsIterate
  <2> QED
    BY <1>3, <2>6
<1> QED
  BY <1>4, <1>5

\* OfDatagram of no word, and with another word.
Picks(words, n, f) ==
  f = [i \in 0..Len(words) |->
        IF i = 0 THEN <<>>
        ELSE IF words[i].n = n THEN Append(f[i - 1], words[i]) ELSE f[i - 1]]

\* There is a function that picks the words of a datagram one by one.
LEMMA PicksExist ==
  ASSUME NEW T, NEW words \in Seq(T), NEW n
  PROVE  \E f \in [0..Len(words) -> Seq(T)] : Picks(words, n, f)
<1> DEFINE N == Len(words)
           V == Seq(T)
           step == [x \in V \X Nat |->
                      IF x[2] \in 1..N /\ words[x[2]].n = n
                      THEN Append(x[1], words[x[2]]) ELSE x[1]]
<1>1. N \in Nat /\ <<>> \in V
  OBVIOUS
<1>2. \A i \in 1..N : words[i] \in T
  OBVIOUS
<1>3. step \in [V \X Nat -> V]
  <2>1. ASSUME NEW x \in V \X Nat
        PROVE  (IF x[2] \in 1..N /\ words[x[2]].n = n
                THEN Append(x[1], words[x[2]]) ELSE x[1]) \in V
    <3>1. x[1] \in V
      OBVIOUS
    <3> HIDE DEF N
    <3>2. CASE x[2] \in 1..N /\ words[x[2]].n = n
      <4>1. words[x[2]] \in T
        BY <1>2, <3>2
      <4> QED
        BY <3>1, <3>2, <4>1
    <3> QED
      BY <3>1, <3>2
  <2> QED
    BY <2>1
<1>4. \A v \in V, i \in 1..N :
        step[<<v, i>>] = IF words[i].n = n THEN Append(v, words[i]) ELSE v
  OBVIOUS
<1> HIDE DEF step
<1>0. PICK f : IsIterate(f, V, <<>>, step, N)
  <2> HIDE DEF N, V
  <2> QED
    BY <1>1, <1>3, Iterates
<1>5. /\ f \in [0..N -> V] /\ f[0] = <<>>
      /\ \A i \in 1..N : f[i] = step[<<f[i - 1], i>>]
  BY <1>0 DEF IsIterate
<1>6. ASSUME NEW i \in 0..N
      PROVE  f[i] = IF i = 0 THEN <<>>
                    ELSE IF words[i].n = n THEN Append(f[i - 1], words[i]) ELSE f[i - 1]
  <2>1. CASE i = 0
    BY <1>5, <2>1
  <2>2. CASE i # 0
    <3>1. i \in 1..N /\ i - 1 \in 0..N
      BY <1>1, <2>2
    <3>2. f[i - 1] \in V
      BY <1>5, <3>1
    <3> HIDE DEF N, V
    <3>3. f[i] = step[<<f[i - 1], i>>]
      BY <1>5, <3>1
    <3> QED
      BY <1>4, <2>2, <3>1, <3>2, <3>3
  <2> QED
    BY <2>1, <2>2
<1>7. Picks(words, n, f)
  BY <1>5, <1>6 DEF Picks
<1> QED
  BY <1>5, <1>7

\* OfDatagram is such a function at its last value.
LEMMA OfDatagramPicks ==
  ASSUME NEW T, NEW words \in Seq(T), NEW n
  PROVE  \E f : /\ Picks(words, n, f)
                /\ OfDatagram(words, n) = f[Len(words)]
<1> DEFINE f == CHOOSE g : Picks(words, n, g)
<1>1. Picks(words, n, f)
  BY PicksExist
<1>2. OfDatagram(words, n) = f[Len(words)]
  BY DEF OfDatagram, Picks
<1> QED
  BY <1>1, <1>2

\* Of no words none are picked.
LEMMA OfNone ==
  ASSUME NEW n
  PROVE  OfDatagram(<<>>, n) = <<>>
<1>1. <<>> \in Seq({})
  OBVIOUS
<1>2. PICK f : Picks(<<>>, n, f) /\ OfDatagram(<<>>, n) = f[Len(<<>>)]
  BY <1>1, OfDatagramPicks
<1> QED
  BY <1>2 DEF Picks

\* Two functions that begin alike and go on alike are alike.
Alike(f, g, n) == f[0] = g[0] /\ \A i \in 1..n : f[i - 1] = g[i - 1] => f[i] = g[i]

\* They have the same values.
LEMMA AgreeUpTo ==
  ASSUME NEW N \in Nat, NEW f, NEW g, Alike(f, g, N)
  PROVE  \A i \in 0..N : f[i] = g[i]
<1> DEFINE S == {i \in 0..N : f[i] # g[i]}
<1>1. SUFFICES ASSUME S # {} PROVE FALSE
  OBVIOUS
<1>2. S \in SUBSET Nat
  OBVIOUS
<1>3. PICK x \in S : \A y \in S : x <= y
  BY <1>1, <1>2, LowestExists
<1>4. x \in 1..N
  BY DEF Alike
<1>5. x - 1 \in 0..N /\ x - 1 \notin S
  BY <1>3, <1>4
<1> QED
  BY <1>4, <1>5 DEF Alike

\* One more word is picked if it is of the datagram.
LEMMA OfAppend ==
  ASSUME NEW T, NEW words \in Seq(T), NEW w \in T, NEW n
  PROVE  OfDatagram(Append(words, w), n) =
           IF w.n = n THEN Append(OfDatagram(words, n), w) ELSE OfDatagram(words, n)
<1> DEFINE more == Append(words, w)
           N == Len(words)
<1>1. /\ more \in Seq(T) /\ Len(more) = N + 1 /\ N \in Nat
      /\ more[N + 1] = w /\ \A i \in 1..N : more[i] = words[i]
  OBVIOUS
<1> HIDE DEF more
<1>2. PICK f : Picks(words, n, f) /\ OfDatagram(words, n) = f[N]
  BY OfDatagramPicks
<1>3. PICK g : Picks(more, n, g) /\ OfDatagram(more, n) = g[N + 1]
  BY <1>1, OfDatagramPicks
<1>4. f[0] = <<>> /\ g[0] = <<>>
  BY <1>1, <1>2, <1>3 DEF Picks
<1>5. ASSUME NEW i \in 1..N, f[i - 1] = g[i - 1]
      PROVE  f[i] = g[i]
  <2>2. i \in 0..(N + 1) /\ i \in 0..N /\ i # 0
    BY <1>1
  <2>1. f[i] = IF words[i].n = n THEN Append(f[i - 1], words[i]) ELSE f[i - 1]
    BY <1>2, <2>2 DEF Picks
  <2>3. g[i] = IF more[i].n = n THEN Append(g[i - 1], more[i]) ELSE g[i - 1]
    BY <1>1, <1>3, <2>2 DEF Picks
  <2> QED
    BY <1>1, <1>5, <2>1, <2>3
<1>6. f[N] = g[N]
  <2>1. N \in 0..N /\ N \in Nat /\ f[0] = g[0]
    BY <1>1, <1>4
  <2> HIDE DEF N
  <2>3. Alike(f, g, N)
    BY <1>5, <2>1 DEF Alike
  <2>2. \A i \in 0..N : f[i] = g[i]
    BY <2>1, <2>3, AgreeUpTo
  <2> QED
    BY <2>1, <2>2
<1>7. g[N + 1] = IF w.n = n THEN Append(g[N], w) ELSE g[N]
  <2>1. N + 1 \in 0..(N + 1) /\ N + 1 # 0 /\ (N + 1) - 1 = N
    BY <1>1
  <2> QED
    BY <1>1, <1>3, <2>1 DEF Picks
<1> QED
  BY <1>2, <1>3, <1>6, <1>7 DEF more

(***************************************************************************)
(* The words of the oracle                                                 *)
(***************************************************************************)
IdSet == [n : Nat, j : Nat, k : Nat]

\* A message with the common header has a number of body words.
LEMMA BodyWordsType ==
  ASSUME NEW m, m.len \in Nat, m.len >= CommonHeader
  PROVE  BodyWords(m) \in Nat
<1>1. BYTES \in {4, 8}
  BY Widths
<1>2. m.len - 11 \in Nat
  BY DEF CommonHeader
<1> QED
  BY <1>1, <1>2 DEF BodyWords, CommonHeader

\* The words of one message.
LEMMA MessageWordsAre ==
  ASSUME NEW n \in Nat, NEW d \in Datagrams \cup {NoDatagram}, NEW j \in 1..Len(d.msgs)
  PROVE  /\ MessageWords(n, d, j) \in Seq(IdSet)
         /\ Emits(d.msgs[j]) =>
              /\ BodyWords(d.msgs[j]) \in Nat
              /\ Len(MessageWords(n, d, j)) = 2 + BodyWords(d.msgs[j])
         /\ ~Emits(d.msgs[j]) => Len(MessageWords(n, d, j)) = 0
         /\ Len(MessageWords(n, d, j)) \in Nat
         /\ \A k \in 1..Len(MessageWords(n, d, j)) :
              MessageWords(n, d, j)[k] = [n |-> n, j |-> j, k |-> k - 1]
<1> DEFINE m == d.msgs[j]
           B == BodyWords(m)
<1>1. d.msgs \in Seq(Wire)
  BY DatagramFields
<1>2. m.len \in Nat /\ j \in Nat
  BY <1>1, WireLength
<1>3. CASE ~Emits(m)
  BY <1>3 DEF MessageWords
<1>4. CASE Emits(m)
  <2>1. B \in Nat
    BY <1>2, <1>4, BodyWordsType DEF Emits
  <2> HIDE DEF B
  <2>2. LastK(m) + 1 = B + 2
    BY <2>1 DEF LastK, B
  <2>3. MessageWords(n, d, j) = [i \in 1..(B + 2) |-> [n |-> n, j |-> j, k |-> i - 1]]
    BY <1>4, <2>2 DEF MessageWords
  <2>4. \A i \in 1..(B + 2) : [n |-> n, j |-> j, k |-> i - 1] \in IdSet
    BY <1>2, <2>1 DEF IdSet
  <2>5. /\ [i \in 1..(B + 2) |-> [n |-> n, j |-> j, k |-> i - 1]] \in Seq(IdSet)
        /\ Len([i \in 1..(B + 2) |-> [n |-> n, j |-> j, k |-> i - 1]]) = B + 2
    BY <2>1, <2>4
  <2> QED
    BY <1>4, <2>1, <2>3, <2>5 DEF B
<1> QED
  BY <1>3, <1>4

IsOracle(n, d, f) ==
  f = [j \in 0..Len(d.msgs) |-> IF j = 0 THEN <<>> ELSE f[j - 1] \o MessageWords(n, d, j)]

\* There is a function that adds the words of one message after the other.
LEMMA OracleExists ==
  ASSUME NEW n \in Nat, NEW d \in Datagrams \cup {NoDatagram}
  PROVE  \E f : IsOracle(n, d, f) /\ f \in [0..Len(d.msgs) -> Seq(IdSet)]
<1> DEFINE N == Len(d.msgs)
           V == Seq(IdSet)
           step == [x \in V \X Nat |->
                      IF x[2] \in 1..N THEN x[1] \o MessageWords(n, d, x[2]) ELSE x[1]]
<1>1. N \in Nat /\ <<>> \in V
  BY DatagramFields
<1>2. \A j \in 1..N : MessageWords(n, d, j) \in V
  BY MessageWordsAre
<1> HIDE DEF N
<1>3. \A x \in V \X Nat :
        (IF x[2] \in 1..N THEN x[1] \o MessageWords(n, d, x[2]) ELSE x[1]) \in V
  BY <1>2
<1>4. step \in [V \X Nat -> V] /\ \A v \in V, i \in Nat : step[<<v, i>>] =
        IF i \in 1..N THEN v \o MessageWords(n, d, i) ELSE v
  BY <1>3
<1> HIDE DEF step, V
<1>5. PICK f : IsIterate(f, V, <<>>, step, N)
  BY <1>1, <1>4, Iterates
<1>6. /\ f \in [0..N -> V] /\ f[0] = <<>>
      /\ \A i \in 1..N : f[i] = step[<<f[i - 1], i>>]
  BY <1>5 DEF IsIterate
<1>7. ASSUME NEW i \in 0..N
      PROVE  f[i] = IF i = 0 THEN <<>> ELSE f[i - 1] \o MessageWords(n, d, i)
  <2>1. CASE i = 0
    BY <1>6, <2>1
  <2>2. CASE i # 0
    <3>1. i \in 1..N /\ i - 1 \in 0..N /\ i \in Nat
      BY <1>1, <2>2
    <3>2. f[i - 1] \in V /\ f[i] = step[<<f[i - 1], i>>]
      BY <1>6, <3>1
    <3> QED
      BY <1>4, <2>2, <3>1, <3>2
  <2> QED
    BY <2>1, <2>2
<1>8. f = [j \in 0..N |-> IF j = 0 THEN <<>> ELSE f[j - 1] \o MessageWords(n, d, j)]
  BY <1>6, <1>7
<1> QED
  BY <1>6, <1>8 DEF IsOracle, N, V

\* OracleWords is what its definition says.
LEMMA OracleIs ==
  ASSUME NEW n \in Nat, NEW d \in Datagrams \cup {NoDatagram}
  PROVE  /\ \A j \in 0..Len(d.msgs) : OracleWords(n, d, j) \in Seq(IdSet)
         /\ OracleWords(n, d, 0) = <<>>
         /\ \A j \in 1..Len(d.msgs) :
              OracleWords(n, d, j) = OracleWords(n, d, j - 1) \o MessageWords(n, d, j)
<1> DEFINE f == CHOOSE g : IsOracle(n, d, g)
           N == Len(d.msgs)
<1>1. IsOracle(n, d, f)
  BY OracleExists
<1>2. \A j : OracleWords(n, d, j) = f[j]
  BY DEF OracleWords, IsOracle
<1>3. PICK g : IsOracle(n, d, g) /\ g \in [0..N -> Seq(IdSet)]
  BY OracleExists
<1> HIDE DEF f
<1>4. N \in Nat
  BY DatagramFields
<1>5. f[0] = <<>> /\ g[0] = <<>>
  BY <1>1, <1>3, <1>4 DEF IsOracle
<1>6. ASSUME NEW j \in 1..N
      PROVE  /\ f[j] = f[j - 1] \o MessageWords(n, d, j)
             /\ g[j] = g[j - 1] \o MessageWords(n, d, j)
  <2>1. j \in 0..Len(d.msgs) /\ j # 0
    BY <1>4
  <2> QED
    BY <1>1, <1>3, <2>1 DEF IsOracle
<1>7. Alike(f, g, N)
  BY <1>5, <1>6 DEF Alike
<1>8. \A i \in 0..N : f[i] = g[i]
  BY <1>4, <1>7, AgreeUpTo
<1> QED
  BY <1>2, <1>3, <1>5, <1>6, <1>8

\* How many words the first messages have.
Sent(n, d, j) == Len(OracleWords(n, d, j))
\* They are counted message by message.
LEMMA OracleCounts ==
  ASSUME NEW n \in Nat, NEW d \in Datagrams \cup {NoDatagram}
  PROVE  /\ Sent(n, d, 0) = 0
         /\ \A j \in 0..Len(d.msgs) : Sent(n, d, j) \in Nat
         /\ \A j \in 1..Len(d.msgs) :
              Sent(n, d, j) = Sent(n, d, j - 1) + Len(MessageWords(n, d, j))
<1>1. d.msgs \in Seq(Wire)
  BY DatagramFields
<1>2. \A j \in 0..Len(d.msgs) : OracleWords(n, d, j) \in Seq(IdSet)
  BY OracleIs
<1>3. ASSUME NEW j \in 1..Len(d.msgs)
      PROVE  Sent(n, d, j) = Sent(n, d, j - 1) + Len(MessageWords(n, d, j))
  <2>1. j - 1 \in 0..Len(d.msgs)
    BY <1>1
  <2>2. OracleWords(n, d, j - 1) \in Seq(IdSet) /\ MessageWords(n, d, j) \in Seq(IdSet)
    BY <1>2, <2>1, MessageWordsAre
  <2> QED
    BY <2>2, OracleIs DEF Sent
<1> QED
  BY <1>2, <1>3, OracleIs DEF Sent

\* Later messages leave the words of the first ones where they are.
LEMMA OracleKeeps ==
  ASSUME NEW n \in Nat, NEW d \in Datagrams \cup {NoDatagram},
         NEW j \in 0..Len(d.msgs)
  PROVE  \A u \in 0..Len(d.msgs) : j <= u =>
           /\ Sent(n, d, j) <= Sent(n, d, u)
           /\ \A i \in 1..Sent(n, d, j) : OracleWords(n, d, u)[i] = OracleWords(n, d, j)[i]
<1> DEFINE N == Len(d.msgs)
           Keeps(u) == /\ Sent(n, d, j) <= Sent(n, d, u)
                       /\ \A i \in 1..Sent(n, d, j) :
                            OracleWords(n, d, u)[i] = OracleWords(n, d, j)[i]
           S == {u \in 0..N : j <= u /\ ~Keeps(u)}
<1>1. N \in Nat
  BY DatagramFields
<1>2. SUFFICES ASSUME S # {} PROVE FALSE
  OBVIOUS
<1>3. PICK x \in S : \A y \in S : x <= y
  <2>1. S \in SUBSET Nat
    OBVIOUS
  <2> QED
    BY <1>2, <2>1, LowestExists
<1>4. x \in 0..N /\ j <= x /\ ~Keeps(x)
  OBVIOUS
<1>5. \A k \in 0..N : Sent(n, d, k) \in Nat /\ OracleWords(n, d, k) \in Seq(IdSet)
  BY OracleCounts, OracleIs
<1>6. CASE x = j
  BY <1>4, <1>5, <1>6
<1>7. CASE x # j
  <2>1. x - 1 \in 0..N /\ j <= x - 1 /\ x \in 1..N /\ x - 1 \notin S
    BY <1>1, <1>3, <1>4, <1>7
  <2>2. Keeps(x - 1)
    BY <2>1
  <2>3. /\ OracleWords(n, d, x) = OracleWords(n, d, x - 1) \o MessageWords(n, d, x)
        /\ MessageWords(n, d, x) \in Seq(IdSet) /\ OracleWords(n, d, x - 1) \in Seq(IdSet)
    BY <1>5, <2>1, OracleIs, MessageWordsAre
  <2>4. \A s, t \in Seq(IdSet) : Len(s) <= Len(s \o t) /\ \A i \in 1..Len(s) : (s \o t)[i] = s[i]
    OBVIOUS
  <2>5. /\ Sent(n, d, x - 1) <= Sent(n, d, x)
        /\ \A i \in 1..Sent(n, d, x - 1) : OracleWords(n, d, x)[i] = OracleWords(n, d, x - 1)[i]
    BY <2>3, <2>4, Zenon DEF Sent
  <2>6. Sent(n, d, x) \in Nat /\ Sent(n, d, x - 1) \in Nat /\ Sent(n, d, j) \in Nat
    BY <1>5, <2>1
  <2> HIDE DEF N, S
  <2>7. Sent(n, d, j) <= Sent(n, d, x)
    BY <2>2, <2>5, <2>6
  <2>8. \A i \in 1..Sent(n, d, j) : i \in 1..Sent(n, d, x - 1)
    BY <2>2, <2>6
  <2>9. Keeps(x)
    BY <2>2, <2>5, <2>7, <2>8
  <2> QED
    BY <1>4, <2>9
<1> QED
  BY <1>6, <1>7

\* Where the words of a message are among those of the datagram.
LEMMA RegisterLaid ==
  ASSUME NEW n \in Nat, NEW d \in Datagrams \cup {NoDatagram}, NEW j \in 1..Len(d.msgs),
         NEW k \in 1..Len(MessageWords(n, d, j))
  PROVE  /\ Sent(n, d, j - 1) + k \in 1..Len(RegisterWords(n, d))
         /\ RegisterWords(n, d)[Sent(n, d, j - 1) + k] = [n |-> n, j |-> j, k |-> k - 1]
<1> DEFINE N == Len(d.msgs)
           before == OracleWords(n, d, j - 1)
           words == MessageWords(n, d, j)
<1>1. N \in Nat
  BY DatagramFields
<1>2. j - 1 \in 0..N /\ j \in 0..N /\ N \in 0..N /\ j <= N
  BY <1>1
<1>3. before \in Seq(IdSet) /\ words \in Seq(IdSet) /\ OracleWords(n, d, j) = before \o words
  BY <1>2, OracleIs, MessageWordsAre
<1>4. words[k] = [n |-> n, j |-> j, k |-> k - 1]
  BY MessageWordsAre
<1> HIDE DEF before, words
<1>5. \A s, t \in Seq(IdSet) : \A i \in 1..Len(t) :
        Len(s) + i \in 1..Len(s \o t) /\ (s \o t)[Len(s) + i] = t[i]
  OBVIOUS
<1>6. k \in 1..Len(words)
  BY DEF words
<1>7. /\ Len(before) + k \in 1..Len(OracleWords(n, d, j))
      /\ OracleWords(n, d, j)[Len(before) + k] = words[k]
  BY <1>3, <1>5, <1>6
<1>8. /\ Sent(n, d, j) <= Sent(n, d, N)
      /\ \A i \in 1..Sent(n, d, j) : OracleWords(n, d, N)[i] = OracleWords(n, d, j)[i]
  BY <1>2, OracleKeeps
<1>9. Sent(n, d, j) \in Nat /\ Sent(n, d, N) \in Nat
  BY <1>2, OracleCounts
<1>10. Sent(n, d, N) = Len(RegisterWords(n, d)) /\ RegisterWords(n, d) = OracleWords(n, d, N)
  BY DEF Sent, RegisterWords
<1>11. Len(before) = Sent(n, d, j - 1) /\ Len(OracleWords(n, d, j)) = Sent(n, d, j)
  BY DEF Sent, before
<1> HIDE DEF N
<1>12. \A x : x \in 1..Sent(n, d, j) => x \in 1..Sent(n, d, N)
  BY <1>8, <1>9
<1> QED
  BY <1>4, <1>7, <1>8, <1>10, <1>11, <1>12

\* After the words of the first messages comes the first word of a register,
\* or none.
LEMMA RegisterStops ==
  ASSUME NEW n \in Nat, NEW d \in Datagrams \cup {NoDatagram}, NEW j \in 0..Len(d.msgs)
  PROVE  /\ Sent(n, d, j) \in Nat /\ Len(RegisterWords(n, d)) \in Nat
         /\ Sent(n, d, j) <= Len(RegisterWords(n, d))
         /\ \/ Sent(n, d, j) = Len(RegisterWords(n, d))
            \/ RegisterWords(n, d)[Sent(n, d, j) + 1].k = 0
<1> DEFINE N == Len(d.msgs)
           S == {u \in 0..N : j < u /\ Sent(n, d, u) # Sent(n, d, j)}
<1>1. N \in Nat
  BY DatagramFields
<1>2. j \in 0..N /\ N \in 0..N /\ j <= N
  BY <1>1
<1>3. \A u \in 0..N : Sent(n, d, u) \in Nat
  BY OracleCounts
<1>4. Sent(n, d, N) = Len(RegisterWords(n, d))
  BY DEF Sent, RegisterWords
<1>5. Sent(n, d, j) <= Sent(n, d, N)
  BY <1>2, OracleKeeps
<1>6. CASE S = {}
  <2>1. Sent(n, d, N) = Sent(n, d, j)
    BY <1>1, <1>2, <1>6
  <2> QED
    BY <1>2, <1>3, <1>4, <1>5, <2>1
<1>7. CASE S # {}
  <2>1. PICK x \in S : \A y \in S : x <= y
    <3>1. S \in SUBSET Nat
      OBVIOUS
    <3> QED
      BY <1>7, <3>1, LowestExists
  <2>2. x \in 1..N /\ j < x /\ Sent(n, d, x) # Sent(n, d, j)
    BY <1>2
  <2>3. x - 1 \in 0..N /\ x - 1 \notin S /\ (j < x - 1 \/ j = x - 1)
    BY <1>1, <1>2, <2>1, <2>2
  <2>4. Sent(n, d, x - 1) = Sent(n, d, j)
    BY <2>3
  <2>5. Sent(n, d, x) = Sent(n, d, x - 1) + Len(MessageWords(n, d, x))
    BY <2>2, OracleCounts
  <2>6. Len(MessageWords(n, d, x)) \in Nat
    BY <2>2, MessageWordsAre
  <2>7. 1 \in 1..Len(MessageWords(n, d, x))
    BY <1>2, <1>3, <2>2, <2>4, <2>5, <2>6
  <2>8. RegisterWords(n, d)[Sent(n, d, x - 1) + 1] = [n |-> n, j |-> x, k |-> 1 - 1]
    BY <2>2, <2>7, RegisterLaid
  <2>9. RegisterWords(n, d)[Sent(n, d, j) + 1].k = 0
    BY <2>4, <2>8
  <2> QED
    BY <1>2, <1>3, <1>4, <1>5, <2>9
<1> QED
  BY <1>6, <1>7

(***************************************************************************)
(* The words that were shown                                               *)
(***************************************************************************)
WordSet == [n : Nat, j : Nat, k : Nat, idx : Nat, last : BOOLEAN]
IdOf(w) == [n |-> w.n, j |-> w.j, k |-> w.k]
OnPort(o) == IF o.valid THEN <<o.word>> ELSE <<>>

\* What was taken and what is on the port.
Ports == taken \in Seq(WordSet) /\ out.valid \in BOOLEAN /\ out.word \in WordSet
All == taken \o OnPort(out)

\* Ids drops the index and the last flag of every word.
LEMMA IdsAre ==
  ASSUME NEW s \in Seq(WordSet)
  PROVE  /\ Ids(s) \in Seq(IdSet) /\ Len(Ids(s)) = Len(s)
         /\ Ids(s) = [i \in 1..Len(s) |-> IdOf(s[i])]
         /\ \A i \in 1..Len(s) : s[i] \in WordSet /\ Ids(s)[i] = IdOf(s[i])
<1>1. DOMAIN s = 1..Len(s) /\ Len(s) \in Nat /\ \A i \in 1..Len(s) : s[i] \in WordSet
  OBVIOUS
<1>2. Ids(s) = [i \in 1..Len(s) |-> IdOf(s[i])]
  BY <1>1 DEF Ids, IdOf
<1>3. \A w \in WordSet : IdOf(w) \in IdSet
  BY DEF IdOf, IdSet, WordSet
<1> DEFINE g == [i \in 1..Len(s) |-> IdOf(s[i])]
<1>4. \A i \in 1..Len(s) : IdOf(s[i]) \in IdSet
  BY <1>1, <1>3
<1>5. \A N \in Nat : \A f \in [1..N -> IdSet] : f \in Seq(IdSet) /\ Len(f) = N
  OBVIOUS
<1>6. g \in [1..Len(s) -> IdSet] /\ \A i \in 1..Len(s) : g[i] = IdOf(s[i])
  BY <1>4
<1> HIDE DEF g
<1>7. g \in Seq(IdSet) /\ Len(g) = Len(s)
  BY <1>1, <1>5, <1>6
<1> QED
  BY <1>1, <1>2, <1>6, <1>7 DEF g

\* One more word.
LEMMA IdsAppend ==
  ASSUME NEW s \in Seq(WordSet), NEW w \in WordSet
  PROVE  Ids(Append(s, w)) = Append(Ids(s), IdOf(w)) /\ IdOf(w) \in IdSet
<1>1. /\ Append(s, w) \in Seq(WordSet) /\ Len(Append(s, w)) = Len(s) + 1
      /\ Append(s, w)[Len(s) + 1] = w /\ Len(s) \in Nat
      /\ \A i \in 1..Len(s) : Append(s, w)[i] = s[i]
  OBVIOUS
<1>2. Ids(s) \in Seq(IdSet) /\ Len(Ids(s)) = Len(s) /\ \A i \in 1..Len(s) : Ids(s)[i] = IdOf(s[i])
  BY IdsAre
<1>3. IdOf(w) \in IdSet
  BY DEF IdOf, IdSet, WordSet
<1> DEFINE a == Ids(Append(s, w))
           b == Append(Ids(s), IdOf(w))
<1>4. /\ a \in Seq(IdSet) /\ Len(a) = Len(s) + 1
      /\ \A i \in 1..(Len(s) + 1) : a[i] = IdOf(Append(s, w)[i])
  BY <1>1, IdsAre
<1>5. /\ b \in Seq(IdSet) /\ Len(b) = Len(s) + 1 /\ b[Len(s) + 1] = IdOf(w)
      /\ \A i \in 1..Len(s) : b[i] = Ids(s)[i]
  BY <1>1, <1>2, <1>3
<1>6. \A i \in 1..(Len(s) + 1) : i \in 1..Len(s) \/ i = Len(s) + 1
  BY <1>1
<1> HIDE DEF a, b
<1>7. ASSUME NEW i \in 1..(Len(s) + 1) PROVE a[i] = b[i]
  <2>1. CASE i \in 1..Len(s)
    BY <1>1, <1>2, <1>4, <1>5, <2>1
  <2>2. CASE i = Len(s) + 1
    BY <1>1, <1>4, <1>5, <2>2
  <2> QED
    BY <1>6, <2>1, <2>2
<1>8. \A x, y \in Seq(IdSet) : Len(x) = Len(y) /\ (\A i \in 1..Len(x) : x[i] = y[i]) => x = y
  OBVIOUS
<1>9. a = b
  BY <1>4, <1>5, <1>7, <1>8
<1> QED
  BY <1>3, <1>9 DEF a, b

\* Words taken and a word on the port, together.
LEMMA ShownOf ==
  ASSUME NEW s \in Seq(WordSet), NEW p, p.valid \in BOOLEAN, p.word \in WordSet
  PROVE  /\ Ids(s) \o Ids(OnPort(p)) = Ids(s \o OnPort(p))
         /\ s \o OnPort(p) \in Seq(WordSet)
         /\ s \o OnPort(p) = IF p.valid THEN Append(s, p.word) ELSE s
         /\ Ids(s \o OnPort(p)) \in Seq(IdSet)
<1>1. Ids(s) \in Seq(IdSet)
  BY IdsAre
<1>2. Ids(<<>>) = <<>>
  BY DEF Ids
<1>3. \A x \in Seq(IdSet), e \in IdSet : x \o <<e>> = Append(x, e) /\ x \o <<>> = x
  OBVIOUS
<1>4. \A x \in Seq(WordSet), e \in WordSet : x \o <<e>> = Append(x, e) /\ x \o <<>> = x
                                             /\ Append(x, e) \in Seq(WordSet)
  OBVIOUS
<1>5. CASE p.valid
  <2>1. OnPort(p) = <<p.word>>
    BY <1>5 DEF OnPort
  <2>2. s \o OnPort(p) = Append(s, p.word) /\ Append(s, p.word) \in Seq(WordSet)
    BY <1>4, <2>1
  <2>3. Ids(<<p.word>>) = <<IdOf(p.word)>>
    BY DEF Ids, IdOf
  <2>4. Ids(Append(s, p.word)) = Append(Ids(s), IdOf(p.word)) /\ IdOf(p.word) \in IdSet
    BY IdsAppend
  <2>5. Ids(s) \o Ids(OnPort(p)) = Append(Ids(s), IdOf(p.word))
    <3>1. Ids(OnPort(p)) = <<IdOf(p.word)>>
      BY <2>1, <2>3, Zenon
    <3>2. Ids(s) \o <<IdOf(p.word)>> = Append(Ids(s), IdOf(p.word))
      BY <1>1, <1>3, <2>4, Zenon
    <3> QED
      BY <3>1, <3>2, Zenon
  <2>6. Ids(Append(s, p.word)) \in Seq(IdSet)
    BY <2>2, IdsAre
  <2> QED
    BY <1>5, <2>2, <2>4, <2>5, <2>6
<1>6. CASE ~p.valid
  <2>1. OnPort(p) = <<>>
    BY <1>6 DEF OnPort
  <2> QED
    BY <1>1, <1>2, <1>3, <1>4, <1>6, <2>1
<1> QED
  BY <1>5, <1>6

\* What is shown, and what it is after a step.
LEMMA ShownIs ==
  /\ Ports => Shown = Ids(All) /\ All \in Seq(WordSet) /\ Shown \in Seq(IdSet)
  /\ Ports' => Shown' = Ids(All') /\ All' \in Seq(WordSet) /\ Shown' \in Seq(IdSet)
<1>1. Shown = Ids(taken) \o Ids(OnPort(out)) /\ Shown' = Ids(taken') \o Ids(OnPort(out'))
  BY DEF Shown, OnPort, Ids
<1>2. All = taken \o OnPort(out) /\ All' = taken' \o OnPort(out')
  BY DEF All
<1>3. Ports => Shown = Ids(All) /\ All \in Seq(WordSet) /\ Shown \in Seq(IdSet)
  <2>1. SUFFICES ASSUME Ports
                 PROVE  Shown = Ids(All) /\ All \in Seq(WordSet) /\ Shown \in Seq(IdSet)
    OBVIOUS
  <2>2. taken \in Seq(WordSet) /\ out.valid \in BOOLEAN /\ out.word \in WordSet
    BY <2>1 DEF Ports
  <2>3. /\ Ids(taken) \o Ids(OnPort(out)) = Ids(taken \o OnPort(out))
        /\ taken \o OnPort(out) \in Seq(WordSet)
        /\ Ids(taken \o OnPort(out)) \in Seq(IdSet)
    BY <2>2, ShownOf
  <2> QED
    BY <1>1, <1>2, <2>3, Zenon
<1>4. Ports' => Shown' = Ids(All') /\ All' \in Seq(WordSet) /\ Shown' \in Seq(IdSet)
  <2>1. SUFFICES ASSUME Ports'
                 PROVE  Shown' = Ids(All') /\ All' \in Seq(WordSet) /\ Shown' \in Seq(IdSet)
    OBVIOUS
  <2>2. taken' \in Seq(WordSet) /\ out'.valid \in BOOLEAN /\ out'.word \in WordSet
    BY <2>1 DEF Ports
  <2>3. /\ Ids(taken') \o Ids(OnPort(out')) = Ids(taken' \o OnPort(out'))
        /\ taken' \o OnPort(out') \in Seq(WordSet)
        /\ Ids(taken' \o OnPort(out')) \in Seq(IdSet)
    BY <2>2, ShownOf
  <2> QED
    BY <1>1, <1>2, <2>3, Zenon
<1> QED
  BY <1>3, <1>4

\* The words of a datagram are words.
LEMMA OfType ==
  ASSUME NEW T, NEW words \in Seq(T), NEW n
  PROVE  OfDatagram(words, n) \in Seq(T)
<1> DEFINE N == Len(words)
<1>1. PICK f : Picks(words, n, f) /\ OfDatagram(words, n) = f[N]
  BY OfDatagramPicks
<1>2. PICK g \in [0..N -> Seq(T)] : Picks(words, n, g)
  BY PicksExist
<1>3. N \in Nat /\ N \in 0..N
  OBVIOUS
<1>4. f[0] = g[0]
  BY <1>1, <1>2 DEF Picks
<1>5. ASSUME NEW i \in 1..N, f[i - 1] = g[i - 1]
      PROVE  f[i] = g[i]
  <2>1. i \in 0..N /\ i # 0
    OBVIOUS
  <2>2. f[i] = IF words[i].n = n THEN Append(f[i - 1], words[i]) ELSE f[i - 1]
    BY <1>1, <2>1 DEF Picks
  <2>3. g[i] = IF words[i].n = n THEN Append(g[i - 1], words[i]) ELSE g[i - 1]
    BY <1>2, <2>1 DEF Picks
  <2> QED
    BY <1>5, <2>2, <2>3
<1> HIDE DEF N
<1>6. Alike(f, g, N)
  BY <1>4, <1>5 DEF Alike
<1>7. \A i \in 0..N : f[i] = g[i]
  BY <1>3, <1>6, AgreeUpTo
<1>8. g[N] \in Seq(T)
  BY <1>2, <1>3
<1> QED
  BY <1>1, <1>3, <1>7, <1>8

\* An initial part, word by word.
LEMMA PrefixIs ==
  ASSUME NEW T, NEW s \in Seq(T), NEW t \in Seq(T)
  PROVE  PrefixOf(s, t) <=> Len(s) <= Len(t) /\ \A i \in 1..Len(s) : s[i] = t[i]
<1>1. Len(s) \in Nat /\ Len(t) \in Nat
  OBVIOUS
<1>2. CASE Len(s) <= Len(t)
  <2>1. /\ SubSeq(t, 1, Len(s)) \in Seq(T) /\ Len(SubSeq(t, 1, Len(s))) = Len(s)
        /\ \A i \in 1..Len(s) : SubSeq(t, 1, Len(s))[i] = t[i]
    BY <1>1, <1>2
  <2>2. \A x, y \in Seq(T) : Len(x) = Len(y) /\ (\A i \in 1..Len(x) : x[i] = y[i]) => x = y
    OBVIOUS
  <2> DEFINE u == SubSeq(t, 1, Len(s))
  <2> HIDE DEF u
  <2>3. u \in Seq(T) /\ Len(u) = Len(s) /\ \A i \in 1..Len(s) : u[i] = t[i]
    BY <2>1 DEF u
  <2>4. s = u <=> \A i \in 1..Len(s) : s[i] = t[i]
    BY <2>2, <2>3
  <2> QED
    BY <1>2, <2>4 DEF PrefixOf, u
<1>3. CASE ~(Len(s) <= Len(t))
  BY <1>3 DEF PrefixOf
<1> QED
  BY <1>2, <1>3

\* An initial part grows by the next word.
LEMMA PrefixGrows ==
  ASSUME NEW T, NEW s \in Seq(T), NEW t \in Seq(T), NEW e \in T, PrefixOf(s, t),
         Len(s) + 1 \in 1..Len(t), t[Len(s) + 1] = e
  PROVE  PrefixOf(Append(s, e), t)
<1>1. Len(s) <= Len(t) /\ \A i \in 1..Len(s) : s[i] = t[i]
  BY PrefixIs
<1>2. /\ Append(s, e) \in Seq(T) /\ Len(Append(s, e)) = Len(s) + 1 /\ Len(s) \in Nat
      /\ Append(s, e)[Len(s) + 1] = e /\ \A i \in 1..Len(s) : Append(s, e)[i] = s[i]
  OBVIOUS
<1> DEFINE a == Append(s, e)
<1> HIDE DEF a
<1>3. \A i \in 1..(Len(s) + 1) : a[i] = t[i]
  <2>1. \A i \in 1..(Len(s) + 1) : i \in 1..Len(s) \/ i = Len(s) + 1
    BY <1>2
  <2> QED
    BY <1>1, <1>2, <2>1 DEF a
<1>4. a \in Seq(T) /\ Len(a) = Len(s) + 1 /\ Len(s) + 1 <= Len(t)
  BY <1>2 DEF a
<1>5. PrefixOf(a, t)
  BY <1>3, <1>4, PrefixIs
<1> QED
  BY <1>5 DEF a

(***************************************************************************)
(* What a cycle shows                                                      *)
(***************************************************************************)
\* A cycle that drives no word on the port shows none.
LEMMA ShowsNone ==
  ASSUME Ports, NEW o, NEW rdy, Record(o, rdy),
         out' = Accepted(rdy) \/ (Free(rdy) /\ out' = Silent)
  PROVE  Ports' /\ Shown' = Shown
<1>0. Silent.valid = FALSE /\ Silent.word = NoWord /\ NoWord \in WordSet
  BY DEF Silent, NoWord, WordSet
<1>1. taken' = IF OutTake(rdy) THEN Append(taken, out.word) ELSE taken
  BY DEF Record
<1>2. CASE out.valid /\ rdy
  <2>1. taken' = Append(taken, out.word) /\ out' = Silent
    BY <1>1, <1>2 DEF OutTake, Accepted
  <2>2. All' = taken' /\ All = taken'
    <3>1. \A s \in Seq(WordSet), e \in WordSet :
            s \o <<e>> = Append(s, e) /\ s \o <<>> = s /\ Append(s, e) \in Seq(WordSet)
      OBVIOUS
    <3> QED
      BY <1>0, <1>2, <2>1, <3>1 DEF All, OnPort, Ports
  <2>3. Ports'
    <3>1. \A s \in Seq(WordSet), e \in WordSet : Append(s, e) \in Seq(WordSet)
      OBVIOUS
    <3> QED
      BY <1>0, <2>1, <3>1 DEF Ports
  <2>4. Shown' = Ids(All')
    BY <2>3, ShownIs
  <2> QED
    BY <2>2, <2>3, <2>4, ShownIs
<1>3. CASE ~(out.valid /\ rdy)
  <2>1. taken' = taken /\ (out' = out \/ (out' = Silent /\ ~out.valid))
    BY <1>1, <1>3 DEF OutTake, Accepted, Free, OutFree
  <2>2. Ports'
    BY <1>0, <2>1 DEF Ports
  <2>3. OnPort(out') = OnPort(out)
    BY <1>0, <2>1 DEF OnPort
  <2>4. Shown' = Ids(All') /\ Shown = Ids(All)
    BY <2>2, ShownIs
  <2>5. All' = All
    BY <2>1, <2>3 DEF All
  <2> QED
    BY <2>2, <2>4, <2>5
<1> QED
  BY <1>2, <1>3

\* A cycle that drives a word shows it behind the others.
LEMMA ShowsOne ==
  ASSUME Ports, NEW o, NEW rdy, Record(o, rdy), Free(rdy),
         NEW w \in WordSet, out' = [valid |-> TRUE, word |-> w]
  PROVE  Ports' /\ Shown' = Append(Shown, IdOf(w)) /\ IdOf(w) \in IdSet
<1>1. taken' = IF OutTake(rdy) THEN Append(taken, out.word) ELSE taken
  BY DEF Record
<1>2. \A s \in Seq(WordSet), e \in WordSet :
        s \o <<e>> = Append(s, e) /\ s \o <<>> = s /\ Append(s, e) \in Seq(WordSet)
  OBVIOUS
<1>3. taken' = All
  <2>1. CASE out.valid
    BY <1>1, <1>2, <2>1 DEF All, OnPort, Ports, Free, OutFree, OutTake
  <2>2. CASE ~out.valid
    BY <1>1, <1>2, <2>2 DEF All, OnPort, Ports, OutTake
  <2> QED
    BY <2>1, <2>2
<1>4. All \in Seq(WordSet)
  BY ShownIs
<1>5. Ports'
  BY <1>3, <1>4 DEF Ports
<1>6. OnPort(out') = <<w>>
  BY DEF OnPort
<1>7. All' = Append(All, w)
  BY <1>2, <1>3, <1>4, <1>6 DEF All
<1>8. Shown' = Ids(All') /\ Shown = Ids(All)
  BY <1>5, ShownIs
<1>9. Ids(Append(All, w)) = Append(Ids(All), IdOf(w)) /\ IdOf(w) \in IdSet
  BY <1>4, IdsAppend
<1> QED
  BY <1>5, <1>7, <1>8, <1>9

(***************************************************************************)
(* The words of the datagram under way                                     *)
(***************************************************************************)
\* The words of it so far, and those of its first j messages.
Put == Len(OfDatagram(Shown, tx.n))
Due(j) == Sent(tx.n, tx.dg, j)
LastMessage == Len(tx.dg.msgs)

\* Looking for a header.
Before ==
  st = "HDR" => /\ \E j \in 0..LastMessage : Put = Due(j)
                /\ qn > 0 => Put = 0
                /\ Idle /\ WellFormed(tx.dg) => Put = Due(LastMessage)
\* Between two messages.
Between == st \in {"LEN", "DRAIN"} => Put = Due(Done)

\* Words of the captured message that were emitted.
Written ==
  CASE st \in {"CAP", "W0"} -> 0
    [] st = "TS" -> 1
    [] st = "BODY" -> 2 + bi
    [] OTHER -> Len(MessageWords(tx.n, tx.dg, msgReg.j))
\* The captured message is one of the datagram, the next one unless the rest
\* is discarded.
Held ==
  /\ msgReg.n = tx.n /\ msgReg.j \in 1..LastMessage
  /\ msgReg.type = tx.dg.msgs[msgReg.j].type /\ msgReg.len = tx.dg.msgs[msgReg.j].len
  /\ msgReg.j = Done + 1 \/ (packLeft = 1 /\ tx.n \in errors)
Holds ==
  RecordActive =>
    /\ Held
    /\ st \in {"W0", "TS", "BODY"} => Emits(tx.dg.msgs[msgReg.j])
    /\ st \in {"CAP", "W0", "TS"} => bi = 0
    /\ st = "BODY" => bi <= BodyWords(tx.dg.msgs[msgReg.j])
    /\ Put = Due(msgReg.j - 1) + Written

Placed == Before /\ Between /\ Holds

\* Where the words are after a step that shows none.
LEMMA PutKept ==
  ASSUME Same, Shown' = Shown
  PROVE  /\ Put' = Put /\ LastMessage' = LastMessage /\ tx'.dg = tx.dg /\ tx'.n = tx.n
         /\ \A j : Sent(tx'.n, tx'.dg, j) = Due(j)
BY DEF Same, Put, LastMessage, Due

\* A step that shows no word and leads to ST_HDR.
LEMMA ToBefore ==
  ASSUME Same, Shown' = Shown, st' = "HDR", NEW j \in 0..LastMessage, Put = Due(j),
         qn' > 0 => Put = 0,
         Idle' /\ WellFormed(tx.dg) => Put = Due(LastMessage)
  PROVE  Placed'
<1>1. /\ Put' = Put /\ LastMessage' = LastMessage /\ tx'.dg = tx.dg
      /\ Due(j)' = Due(j) /\ Due(LastMessage)' = Due(LastMessage)
  BY PutKept DEF Due
<1>2. Before'
  BY <1>1 DEF Before
<1> QED
  BY <1>2 DEF Placed, Between, Holds, RecordActive

\* A step that shows no word and leads to ST_LEN or ST_DRAIN.
LEMMA ToBetween ==
  ASSUME Same, Shown' = Shown, st' \in {"LEN", "DRAIN"}, Put = Due(Done')
  PROVE  Placed'
<1>1. Put' = Put /\ Due(Done)' = Due(Done')
  BY PutKept DEF Due
<1> QED
  BY <1>1 DEF Placed, Before, Between, Holds, RecordActive

\* The record stays as it is, whatever becomes of the datagram.
LEMMA ToHeld ==
  ASSUME Same, Shown' = Shown, Placed, RecordActive, st' = st, msgReg' = msgReg, bi' = bi,
         errors \subseteq errors',
         \/ packLeft' = packLeft /\ packCount' = packCount
         \/ packLeft' = 1 /\ tx.n \in errors'
  PROVE  Placed'
<1>1. /\ Put' = Put /\ LastMessage' = LastMessage /\ tx'.dg = tx.dg /\ tx'.n = tx.n
      /\ Due(msgReg.j - 1)' = Due(msgReg.j - 1)
  BY PutKept DEF Due
<1>2. Written' = Written
  BY <1>1 DEF Written
<1>3. Held /\ Put = Due(msgReg.j - 1) + Written
  BY DEF Placed, Holds
<1>4. Held'
  BY <1>1, <1>3 DEF Held, Done
<1>5. /\ st \in {"W0", "TS", "BODY"} => Emits(tx.dg.msgs[msgReg.j])
      /\ st \in {"CAP", "W0", "TS"} => bi = 0
      /\ st = "BODY" => bi <= BodyWords(tx.dg.msgs[msgReg.j])
  BY DEF Placed, Holds
<1>6. Holds'
  BY <1>1, <1>2, <1>3, <1>4, <1>5 DEF Holds
<1> QED
  BY <1>6 DEF Placed, Before, Between, RecordActive

\* Numbers of messages and words.
LEMMA Numbers ==
  ASSUME FrameInv, History
  PROVE  /\ LastMessage \in Nat /\ tx.n \in Nat /\ tx.dg \in Datagrams \cup {NoDatagram}
         /\ \A j \in 0..LastMessage : Due(j) \in Nat
         /\ Due(0) = 0
         /\ \A j \in 1..LastMessage : Due(j) = Due(j - 1) + Len(MessageWords(tx.n, tx.dg, j))
         /\ 0 \in 0..LastMessage /\ LastMessage \in 0..LastMessage
<1>1. tx.dg \in Datagrams \cup {NoDatagram} /\ tx.dg.msgs \in Seq(Wire) /\ tx.n \in Nat
  BY Sizes DEF FrameInv, History
<1>2. LastMessage \in Nat
  BY <1>1 DEF LastMessage
<1> QED
  BY <1>1, <1>2, OracleCounts DEF Due, LastMessage

\* The rest of a datagram is discarded: after a beat with a malformed tkeep,
\* and on.
LEMMA DiscardPlaced ==
  ASSUME AccuseInv, AccuseInv', Placed, NEW o \in Offers, NEW rdy,
         Dropping(o, rdy) \/ BadKeep(o, rdy), Record(o, rdy), Same, Shown' = Shown
  PROVE  Placed'
<1>1. FrameInv /\ History /\ Position /\ LastMessage \in Nat
  BY Numbers DEF AccuseInv, FrameInv
<1>2. tx.n \in errors'
  <2>1. CASE Dropping(o, rdy)
    <3>1. tx.n \in errors
      BY <2>1 DEF Dropping, AccuseInv, Unblamed
    <3> QED
      BY <3>1 DEF Record
  <2>2. CASE BadKeep(o, rdy)
    <3>1. error' /\ tx'.n = tx.n
      BY <2>2 DEF BadKeep, Same
    <3> QED
      BY <3>1 DEF Record
  <2> QED
    BY <2>1, <2>2
<1>3. ~WellFormed(tx.dg)
  BY <1>2 DEF Same, AccuseInv, Accused
<1>4. errors \subseteq errors'
  BY DEF Record
<1>5. CASE RecordActive
  <2>1. st' = st /\ msgReg' = msgReg /\ bi' = bi /\ packCount' = packCount
        /\ (packLeft' = 1 \/ packLeft' = packLeft)
    BY <1>5 DEF Dropping, BadKeep, recordVars
  <2> QED
    BY <1>2, <1>4, <1>5, <2>1, ToHeld
<1>6. CASE ~RecordActive
  <2>1. \E j \in 0..LastMessage : Put = Due(j)
    <3>1. CASE st = "HDR"
      BY <3>1 DEF Placed, Before
    <3>2. CASE st \in {"LEN", "DRAIN"}
      <4>1. ~dropPacket
        BY <1>1, <3>2 DEF Position, Discarding, RecordActive
      <4>2. Done \in 0..LastMessage
        BY <1>1, <3>2, <4>1 DEF Position, AtLength, Skipping, AtMessage, Counted, LastMessage
      <4> QED
        BY <3>2, <4>2 DEF Placed, Between
    <3> QED
      BY <1>1, <1>6, <3>1, <3>2 DEF FrameInv, ParserInv, TypeOK, RecordActive
  <2>2. st' = "HDR" /\ (qn' > 0 => st = "HDR" /\ qn > 0)
    <3>1. CASE Dropping(o, rdy)
      <4>1. st = "HDR" /\ qn' = qn
        BY <1>1, <1>6, <3>1 DEF Dropping, Position, Discarding
      <4> QED
        BY <1>6, <3>1, <4>1 DEF Dropping
    <3>2. CASE BadKeep(o, rdy)
      <4>1. st' = "HDR" /\ qn' = 0
        BY <1>6, <3>2 DEF BadKeep
      <4> QED
        BY <4>1
    <3> QED
      BY <3>1, <3>2
  <2>3. qn' > 0 => Put = 0
    BY <2>2 DEF Placed, Before
  <2> QED
    BY <1>3, <2>1, <2>2, <2>3, ToBefore
<1> QED
  BY <1>5, <1>6

\* Waiting for a header, and reading it.
LEMMA HeaderPlaced ==
  ASSUME AccuseInv, AccuseInv', IdleKeeps \subseteq {0}, Placed, NEW o \in Offers, NEW rdy, Send(o),
         Hdr(o, rdy) \/ HdrShort(o, rdy), Record(o, rdy), Same, Shown' = Shown
  PROVE  Placed'
<1>1. /\ FrameInv /\ History /\ Position /\ LastMessage \in Nat /\ ParserInv
      /\ Due(0) = 0 /\ 0 \in 0..LastMessage /\ qn \in Nat
  BY Numbers, Sizes DEF AccuseInv, FrameInv
<1>2. st = "HDR" /\ ~dropPacket
  BY DEF Hdr, HdrShort, In
<1>3. PICK j \in 0..LastMessage : Put = Due(j)
  BY <1>2 DEF Placed, Before
<1>4. error' => ~WellFormed(tx.dg)
  BY DEF Record, AccuseInv, Accused, Same
<1>5. CASE Hdr(o, rdy)
  <2>1. qn > 0
    <3>1. qn >= 20
      BY <1>1, <1>2, <1>5, Drains DEF Hdr
    <3> QED
      BY <1>1, <3>1
  <2>2. Put = 0
    BY <1>2, <2>1 DEF Placed, Before
  <2>3. packLeft' = tx.dg.count /\ packCount' = tx.dg.count /\ tx.dg.count \in Nat
    BY <1>1, <1>5, Sizes DEF Hdr, HeaderHere
  <2>4. CASE tx.dg.count > 0
    <3>1. st' = "LEN"
      BY <1>5, <2>4 DEF Hdr, HeaderHere, Advance
    <3>2. Done' = 0
      BY <2>3 DEF Done
    <3> QED
      BY <1>1, <2>2, <3>1, <3>2, ToBetween
  <2>5. CASE ~(tx.dg.count > 0)
    <3>1. st' = "HDR"
      BY <1>5, <2>5 DEF Hdr, HeaderHere, Fail
    <3>2. WellFormed(tx.dg) => LastMessage = 0
      BY <2>3, <2>5 DEF WellFormed, LastMessage
    <3> QED
      BY <1>1, <2>2, <3>1, <3>2, ToBefore
  <2> QED
    BY <2>4, <2>5
<1>6. CASE HdrShort(o, rdy) /\ eopSeen
  <2>1. st' = "HDR" /\ error' /\ qn' = 0
    BY <1>6 DEF HdrShort, Fail
  <2>2. ~(qn' > 0)
    BY <2>1
  <2> QED
    BY <1>3, <1>4, <2>1, <2>2, ToBefore
<1>7. CASE HdrShort(o, rdy) /\ ~eopSeen
  <2>1. /\ st' = "HDR" /\ qn' \in Nat
        /\ qn' = 0 => qn = 0 /\ ~Take(o)
        /\ qn = 0 /\ ~Take(o) => qn' = 0
    BY <1>1, <1>7, HdrWaits
  <2>2. Idle' /\ WellFormed(tx.dg) => Put = Due(LastMessage)
    <3>1. Idle' => qn' = 0
      BY DEF Idle
    <3> QED
      BY <1>2, <2>1, <3>1 DEF Idle, Placed, Before
  <2>3. qn' > 0 => Put = 0
    <3>1. SUFFICES ASSUME qn' > 0 PROVE Put = 0
      OBVIOUS
    <3>2. CASE qn > 0
      BY <1>2, <3>2 DEF Placed, Before
    <3>3. CASE ~(qn > 0)
      <4>1. qn = 0
        BY <1>1, <3>3
      <4>2. Take(o)
        BY <2>1, <3>1, <4>1
      <4>3. tx.pos = tx.dg.size
        <5>1. tx.pos >= 1
          BY <1>1 DEF History
        <5> QED
          BY <1>1, <1>2, <4>1, <5>1, Sizes DEF Position, AtHeader
      <4>4. Renewed
        BY <1>1, <4>2, <4>3, SentMoves
      <4> QED
        BY <1>1, <4>4 DEF Renewed, Same, History
    <3> QED
      BY <3>2, <3>3
  <2> QED
    BY <1>3, <2>1, <2>2, <2>3, ToBefore
<1> QED
  BY <1>5, <1>6, <1>7

\* A message is captured, skipped or waited for.
LEMMA ReadingPlaced ==
  ASSUME AccuseInv, AccuseInv', TrafficFits, Placed, NEW o \in Offers, NEW rdy, Send(o),
         Capture(o, rdy) \/ Skip(o, rdy) \/ LenShort(o, rdy),
         Record(o, rdy), Same, Shown' = Shown
  PROVE  Placed'
<1>1. /\ FrameInv /\ History /\ Position /\ LastMessage \in Nat /\ ParserInv /\ qn \in Nat
      /\ \A j \in 0..LastMessage : Due(j) \in Nat
  BY Numbers, Sizes DEF AccuseInv, FrameInv
<1>2. st = "LEN" /\ ~dropPacket
  BY DEF Capture, Skip, LenShort, In
<1>3. AtLength /\ Put = Due(Done) /\ Done \in 0..LastMessage
  BY <1>1, <1>2 DEF Position, AtLength, Counted, LastMessage, Placed, Between
<1>4. error' => ~WellFormed(tx.dg)
  BY DEF Record, AccuseInv, Accused, Same
<1>5. CASE Capture(o, rdy)
  <2>1. qn >= 2 /\ qn >= 1
    BY <1>1, <1>5 DEF Capture
  <2>2. AtMessage /\ \A w \in WiresHere : w.m = tx.dg.msgs[Done + 1]
    BY <1>1, <1>3, <2>1, AtHand
  <2>3. Done + 1 \in 1..LastMessage /\ Front = Begin(tx.dg, Done + 1)
    BY <1>3, <2>2 DEF AtMessage, AtLength, NextBegin, LastMessage
  <2>4. PICK w \in WiresHere :
          msgReg' = [n |-> tx.n, j |-> w.j, type |-> w.m.type, len |-> w.m.len]
    BY <1>5 DEF Capture
  <2>5. w.j = Done + 1 /\ w.m = tx.dg.msgs[Done + 1]
    BY <1>1, <2>3, ReadsMessage, Sizes DEF LastMessage
  <2>6. /\ st' = "CAP" /\ bi' = 0 /\ packLeft' = packLeft /\ packCount' = packCount
    BY <1>5 DEF Capture, headerVars
  <2>7. /\ Put' = Put /\ LastMessage' = LastMessage /\ tx'.dg = tx.dg /\ tx'.n = tx.n
        /\ \A j : Sent(tx'.n, tx'.dg, j) = Due(j)
    BY PutKept
  <2>8. Done' = Done
    BY <2>6 DEF Done
  <2>9. /\ msgReg'.n = tx.n /\ msgReg'.j = Done + 1
        /\ msgReg'.type = tx.dg.msgs[Done + 1].type /\ msgReg'.len = tx.dg.msgs[Done + 1].len
    BY <2>4, <2>5
  <2>10. Held'
    BY <2>3, <2>7, <2>8, <2>9 DEF Held
  <2>11. Written' = 0
    BY <2>6 DEF Written
  <2>12. Put' = Due(msgReg.j - 1)' + Written'
    <3>1. msgReg'.j - 1 = Done /\ Due(msgReg.j - 1)' = Due(msgReg'.j - 1)
      BY <1>3, <2>7, <2>9 DEF Due
    <3> QED
      BY <1>1, <1>3, <2>7, <2>11, <3>1
  <2>13. Holds'
    BY <2>6, <2>10, <2>12 DEF Holds
  <2> QED
    BY <2>6, <2>13 DEF Placed, Before, Between
<1>6. ASSUME st' \in {"LEN", "DRAIN"}, packLeft' = packLeft, packCount' = packCount
      PROVE  Placed'
  BY <1>3, <1>6, ToBetween DEF Done
<1>7. CASE Skip(o, rdy)
  <2>1. st' = "DRAIN" /\ packLeft' = packLeft /\ packCount' = packCount
    BY <1>7 DEF Skip, headerVars
  <2> QED
    BY <1>6, <2>1
<1>8. CASE LenShort(o, rdy)
  <2>1. CASE eopSeen
    <3>1. st' = "HDR" /\ error' /\ qn' = 0
      BY <1>8, <2>1 DEF LenShort, Fail
    <3>2. ~(qn' > 0)
      BY <3>1
    <3> QED
      BY <1>3, <1>4, <3>1, <3>2, ToBefore
  <2>2. CASE ~eopSeen
    <3>1. st' = "LEN" /\ packLeft' = packLeft /\ packCount' = packCount
      BY <1>8, <2>2 DEF LenShort, Advance
    <3> QED
      BY <1>6, <3>1
  <2> QED
    BY <2>1, <2>2
<1> QED
  BY <1>5, <1>7, <1>8

\* The captured message has the words of the one it is.
LEMMA HeldWords ==
  ASSUME FrameInv, History, Held
  PROVE  LET m == tx.dg.msgs[msgReg.j]
             N == Len(MessageWords(tx.n, tx.dg, msgReg.j))
         IN /\ Emits(msgReg) <=> Emits(m)
            /\ BodyWords(msgReg) = BodyWords(m)
            /\ Emits(m) => BodyWords(m) \in Nat /\ N = 2 + BodyWords(m)
            /\ ~Emits(m) => N = 0
            /\ N \in Nat
            /\ msgReg.n \in Nat /\ msgReg.j \in Nat
<1>1. tx.dg \in Datagrams \cup {NoDatagram} /\ tx.n \in Nat /\ LastMessage \in Nat
  BY Numbers
<1>2. msgReg.j \in 1..Len(tx.dg.msgs) /\ msgReg.n = tx.n
  BY DEF Held, LastMessage
<1>3. msgReg.type = tx.dg.msgs[msgReg.j].type /\ msgReg.len = tx.dg.msgs[msgReg.j].len
  BY DEF Held
<1>4. Emits(msgReg) <=> Emits(tx.dg.msgs[msgReg.j])
  BY <1>3 DEF Emits, LengthOk
<1>5. BodyWords(msgReg) = BodyWords(tx.dg.msgs[msgReg.j])
  BY <1>3 DEF BodyWords
<1>6. msgReg.j \in Nat
  BY <1>1, <1>2 DEF LastMessage
<1> QED
  BY <1>1, <1>2, <1>4, <1>5, <1>6, MessageWordsAre

\* The emission waits, begins or is over.
LEMMA WaitingPlaced ==
  ASSUME AccuseInv, Placed, NEW o \in Offers, NEW rdy,
         \/ Stall(o, rdy) \/ Cap(o, rdy)
         \/ Body(o, rdy) /\ ~(bi < BodyWords(msgReg)),
         Record(o, rdy), Same, Shown' = Shown
  PROVE  Placed'
<1>1. FrameInv /\ History /\ ParserInv /\ bi \in Nat
  BY DEF AccuseInv, FrameInv, ParserInv, TypeOK
<1>2. errors \subseteq errors'
  BY DEF Record
<1>3. CASE Stall(o, rdy)
  <2>1. /\ RecordActive /\ st' = st /\ msgReg' = msgReg /\ bi' = bi
        /\ packLeft' = packLeft /\ packCount' = packCount
    BY <1>3 DEF Stall, In, Advance, recordVars, headerVars, RecordActive
  <2> QED
    BY <1>2, <2>1, ToHeld
<1>4. CASE Cap(o, rdy) \/ (Body(o, rdy) /\ ~(bi < BodyWords(msgReg)))
  <2>1. /\ \/ Cap(o, rdy) /\ st = "CAP" /\ st' = IF Emits(msgReg) THEN "W0" ELSE "NEXT"
           \/ Body(o, rdy) /\ st = "BODY" /\ st' = "NEXT"
        /\ msgReg' = msgReg /\ bi' = bi /\ packLeft' = packLeft /\ packCount' = packCount
    BY <1>4 DEF Cap, Body, Emission, In, Advance, headerVars
  <2>2. /\ Held /\ Put = Due(msgReg.j - 1) + Written
        /\ st = "BODY" => bi <= BodyWords(tx.dg.msgs[msgReg.j])
                          /\ Emits(tx.dg.msgs[msgReg.j])
        /\ st = "CAP" => bi = 0
    BY <2>1 DEF Placed, Holds, RecordActive
  <2> DEFINE m == tx.dg.msgs[msgReg.j]
             N == Len(MessageWords(tx.n, tx.dg, msgReg.j))
  <2>3. /\ Emits(msgReg) <=> Emits(m)
        /\ BodyWords(msgReg) = BodyWords(m)
        /\ Emits(m) => BodyWords(m) \in Nat /\ N = 2 + BodyWords(m)
        /\ ~Emits(m) => N = 0
        /\ N \in Nat
    BY <1>1, <2>2, HeldWords
  <2>4. /\ Put' = Put /\ LastMessage' = LastMessage /\ tx'.dg = tx.dg /\ tx'.n = tx.n
        /\ Due(msgReg.j - 1)' = Due(msgReg.j - 1)
    BY <2>1, PutKept DEF Due
  <2>5. Held'
    BY <1>2, <2>1, <2>2, <2>4 DEF Held, Done
  <2>6. Written' = Written
    <3>1. CASE st = "CAP" /\ Emits(msgReg)
      <4>1. st' = "W0"
        BY <2>1, <3>1
      <4> QED
        BY <3>1, <4>1 DEF Written
    <3>2. CASE st = "CAP" /\ ~Emits(msgReg)
      <4>1. st' = "NEXT"
        BY <2>1, <3>2
      <4>2. Written' = N
        BY <2>1, <2>4, <4>1 DEF Written
      <4>3. N = 0
        BY <2>3, <3>2
      <4> QED
        BY <3>2, <4>2, <4>3 DEF Written
    <3>3. CASE st = "BODY"
      <4>1. st' = "NEXT" /\ Body(o, rdy)
        BY <2>1, <3>3
      <4>2. Written' = N
        BY <2>1, <2>4, <4>1 DEF Written
      <4>3. N = 2 + BodyWords(m) /\ BodyWords(m) \in Nat /\ bi <= BodyWords(m)
        BY <2>2, <2>3, <3>3
      <4>4. ~(bi < BodyWords(m))
        <5>1. ~Cap(o, rdy)
          BY <3>3 DEF Cap, Emission, In
        <5> QED
          BY <1>4, <2>3, <5>1
      <4>5. Written = 2 + bi
        BY <3>3 DEF Written
      <4> HIDE DEF N, m
      <4> QED
        BY <1>1, <4>2, <4>3, <4>4, <4>5
    <3> QED
      BY <2>1, <3>1, <3>2, <3>3
  <2>7. /\ st' \in {"W0", "NEXT"}
        /\ st' = "W0" => bi' = 0 /\ Emits(tx'.dg.msgs[msgReg'.j])
    BY <2>1, <2>2, <2>3, <2>4
  <2>8. Holds'
    BY <2>2, <2>4, <2>5, <2>6, <2>7 DEF Holds
  <2> QED
    BY <2>7, <2>8 DEF Placed, Before, Between
<1> QED
  BY <1>3, <1>4

\* The message is over; all its words are out.
LEMMA ClosePlaced ==
  ASSUME AccuseInv, AccuseInv', IdleKeeps \subseteq {0}, Placed, NEW o \in Offers, NEW rdy, Record(o, rdy),
         Same, Shown' = Shown, ~DrainLive, ~dropPacket,
         NEW drops \in BOOLEAN, Close(o, drops), packCount' = packCount,
         NEW j \in 1..LastMessage, Put = Due(j),
         \/ j = Done + 1
         \/ packLeft = 1 /\ tx.n \in errors,
         tx.n \notin errors \/ packLeft > 1 => Behind
  PROVE  Placed'
<1>1. /\ FrameInv /\ History /\ LastMessage \in Nat /\ ParserInv /\ packLeft \in Nat
      /\ tx.dg.count \in Nat /\ j \in 0..LastMessage
  BY Numbers, Sizes DEF AccuseInv, FrameInv
<1>2. tx.n \in errors' => ~WellFormed(tx.dg)
  BY DEF AccuseInv, Accused, Same
<1>3. errors \subseteq errors' /\ (error' => tx.n \in errors')
  BY DEF Record, Same
<1>4. CASE packLeft > 1
  <2>1. st' = "LEN" /\ packLeft' = packLeft - 1
    BY <1>4 DEF Close, Advance
  <2>2. j = Done + 1
    BY <1>1, <1>4
  <2>3. packCount \in Nat
    BY <1>1, <1>4 DEF Behind, AtMessage, Counted
  <2>4. Done' = j
    BY <1>1, <2>1, <2>2, <2>3 DEF Done
  <2> QED
    BY <2>1, <2>4, ToBetween
<1>5. CASE ~(packLeft > 1) /\ Ends(o)
  <2>1. st' = "HDR" /\ qn' = Queue(o)
    BY <1>5 DEF Close
  <2>2. qn' = 0 /\ ~(qn' > 0)
    BY <1>1, <1>5, <2>1, EndsEmpty
  <2>3. WellFormed(tx.dg) => j = LastMessage
    <3>1. SUFFICES ASSUME WellFormed(tx.dg) PROVE j = LastMessage
      OBVIOUS
    <3>2. tx.n \notin errors /\ Behind
      BY <1>2, <1>3, <3>1
    <3>3. j = Done + 1 /\ packCount = tx.dg.count /\ packLeft \in 1..packCount
      BY <3>2 DEF Behind, AtMessage, Counted
    <3>4. tx.dg.count = LastMessage
      BY <3>1 DEF WellFormed, LastMessage
    <3> QED
      BY <1>1, <1>5, <3>3, <3>4 DEF Done
  <2> QED
    BY <1>1, <2>1, <2>2, <2>3, ToBefore
<1>6. CASE ~(packLeft > 1) /\ ~Ends(o)
  <2>1. st' = "HDR" /\ qn' = 0 /\ error'
    BY <1>6 DEF Close, Fail
  <2>2. ~(qn' > 0) /\ ~WellFormed(tx.dg)
    BY <1>2, <1>3, <2>1
  <2> QED
    BY <1>1, <2>1, <2>2, ToBefore
<1> QED
  BY <1>4, <1>5, <1>6

\* ST_NEXT: the words of the message are out.
LEMMA NextPlaced ==
  ASSUME AccuseInv, AccuseInv', IdleKeeps \subseteq {0}, Placed, NEW o \in Offers, NEW rdy,
         NextMsg(o, rdy), Record(o, rdy), Same, Shown' = Shown
  PROVE  Placed'
<1>1. /\ FrameInv /\ History /\ Position /\ ParserInv /\ LastMessage \in Nat
      /\ \A j \in 0..LastMessage : Due(j) \in Nat
      /\ \A j \in 1..LastMessage : Due(j) = Due(j - 1) + Len(MessageWords(tx.n, tx.dg, j))
  BY Numbers DEF AccuseInv, FrameInv
<1>2. st = "NEXT" /\ ~dropPacket /\ Close(o, TRUE) /\ packCount' = packCount
  BY DEF NextMsg, In
<1>3. Behind \/ Wrecked
  BY <1>1, <1>2 DEF Position
<1>4. packLeft > 1 => Behind
  <2>1. Wrecked => packLeft = 1
    BY DEF Wrecked
  <2> QED
    BY <1>3, <2>1
<1>5. tx.n \notin errors => Behind
  BY <1>2 DEF AccuseInv, Unblamed, Emitting
<1>6. Held /\ Put = Due(msgReg.j - 1) + Written
  BY <1>2 DEF Placed, Holds, RecordActive
<1>7. Written = Len(MessageWords(tx.n, tx.dg, msgReg.j)) /\ msgReg.j \in 1..LastMessage
  BY <1>2, <1>6 DEF Written, Held
<1>8. Put = Due(msgReg.j)
  BY <1>1, <1>6, <1>7
<1>9. msgReg.j = Done + 1 \/ (packLeft = 1 /\ tx.n \in errors)
  BY <1>6 DEF Held
<1>10. ~DrainLive
  BY <1>2 DEF DrainLive
<1> DEFINE j == msgReg.j
<1> HIDE DEF j
<1>11. j \in 1..LastMessage /\ Put = Due(j) /\ (j = Done + 1 \/ (packLeft = 1 /\ tx.n \in errors))
  BY <1>7, <1>8, <1>9 DEF j
<1> QED
  BY <1>2, <1>4, <1>5, <1>10, <1>11, ClosePlaced

\* A message that is skipped has no register.
LEMMA SkipsNothing ==
  ASSUME FrameInv, History, RegistersFit, Skipping
  PROVE  Due(Done + 1) = Due(Done) /\ Done + 1 \in 1..LastMessage
<1>1. /\ LastMessage \in Nat /\ tx.n \in Nat /\ tx.dg \in Datagrams \cup {NoDatagram}
      /\ tx.dg.msgs \in Seq(Wire)
      /\ \A j \in 0..LastMessage : Due(j) \in Nat
      /\ \A j \in 1..LastMessage : Due(j) = Due(j - 1) + Len(MessageWords(tx.n, tx.dg, j))
  BY Numbers, Sizes DEF FrameInv
<1>2. Done + 1 \in 1..LastMessage /\ Done \in 0..LastMessage
  BY DEF Skipping, AtMessage, Counted, LastMessage
<1>3. Oversize(tx.dg.msgs[Done + 1].len)
  BY DEF Skipping
<1>4. tx.dg.msgs[Done + 1] \in Wire
  BY <1>1, <1>2 DEF LastMessage
<1>5. ~Emits(tx.dg.msgs[Done + 1])
  BY <1>3, <1>4 DEF RegistersFit
<1>6. Len(MessageWords(tx.n, tx.dg, Done + 1)) = 0
  BY <1>1, <1>2, <1>5, MessageWordsAre DEF LastMessage
<1>7. (Done + 1) - 1 = Done
  BY <1>1, <1>2
<1>8. Due(Done + 1) = Due(Done) + 0
  BY <1>1, <1>2, <1>6, <1>7
<1> QED
  BY <1>1, <1>2, <1>8

\* ST_DRAIN: there are no words to wait for.
LEMMA DrainPlaced ==
  ASSUME AccuseInv, AccuseInv', TrafficFits, RegistersFit, Placed, NEW o \in Offers, NEW rdy, Send(o),
         Drained(o, rdy) \/ Draining(o, rdy), Record(o, rdy), Same, Shown' = Shown
  PROVE  Placed'
<1>1. FrameInv /\ History /\ Position /\ ParserInv /\ IdleKeeps \subseteq {0}
  BY DEF AccuseInv, FrameInv, TrafficFits
<1>2. st = "DRAIN" /\ ~dropPacket
  BY DEF Drained, Draining, In
<1>3. Skipping /\ Put = Due(Done)
  BY <1>1, <1>2 DEF Position, Placed, Between
<1>4. CASE Drained(o, rdy)
  <2>1. Behind /\ ~DrainLive
    BY <1>1, <1>4, DrainedBehind
  <2>2. Close(o, FALSE) /\ packCount' = packCount
    BY <1>4 DEF Drained
  <2>3. Due(Done + 1) = Due(Done) /\ Done + 1 \in 1..LastMessage
    BY <1>1, <1>3, SkipsNothing
  <2> DEFINE j == Done + 1
  <2>4. j \in 1..LastMessage /\ Put = Due(j) /\ j = Done + 1
    BY <1>3, <2>3
  <2> HIDE DEF j
  <2> QED
    BY <1>1, <1>2, <2>1, <2>2, <2>4, ClosePlaced
<1>5. CASE Draining(o, rdy)
  <2>1. ~eopSeen
    BY <1>1, <1>5, DrainsOn
  <2>2. st' = "DRAIN" /\ packLeft' = packLeft /\ packCount' = packCount
    BY <1>5, <2>1 DEF Draining, Advance
  <2> QED
    BY <1>3, <2>2, ToBetween DEF Done
<1> QED
  BY <1>4, <1>5

\* A cycle that emits: of the captured message, its next word.
Emitted(o, rdy) ==
  W0(o, rdy) \/ TS(o, rdy) \/ (Body(o, rdy) /\ bi < BodyWords(msgReg))

\* Its word is the one that the oracle has next.
LEMMA EmitsNext ==
  ASSUME AccuseInv, Placed, Ports, NEW o \in Offers, NEW rdy, Emitted(o, rdy),
         Record(o, rdy)
  PROVE  LET e == [n |-> tx.n, j |-> msgReg.j, k |-> Written]
         IN /\ Ports' /\ Shown' = Append(Shown, e) /\ e \in IdSet
            /\ Held /\ Put = Due(msgReg.j - 1) + Written
            /\ Written + 1 \in 1..Len(MessageWords(tx.n, tx.dg, msgReg.j))
<1> DEFINE m == tx.dg.msgs[msgReg.j]
           N == Len(MessageWords(tx.n, tx.dg, msgReg.j))
<1>1. FrameInv /\ History /\ bi \in Nat /\ msgIdx \in Nat
  BY DEF AccuseInv, FrameInv, ParserInv, TypeOK
<1>2. /\ Free(rdy) /\ msgReg' = msgReg
      /\ \/ st = "W0" /\ out' = Word(0, FALSE)
         \/ st = "TS" /\ out' = Word(1, FALSE)
         \/ st = "BODY" /\ bi < BodyWords(msgReg) /\ out' = Word(2 + bi, bi = BodyWords(msgReg) - 1)
  BY DEF Emitted, W0, TS, Body, Emission, In
<1>3. Held /\ Put = Due(msgReg.j - 1) + Written /\ Emits(m)
  BY <1>2 DEF Placed, Holds, RecordActive
<1>4. /\ BodyWords(msgReg) = BodyWords(m) /\ BodyWords(m) \in Nat /\ N = 2 + BodyWords(m)
      /\ msgReg.n \in Nat /\ msgReg.j \in Nat /\ msgReg.n = tx.n
  BY <1>1, <1>3, HeldWords DEF Held
<1> HIDE DEF N, m
<1>5. Written \in Nat /\ Written + 1 \in 1..N
  <2>1. CASE st = "W0"
    BY <1>4, <2>1 DEF Written
  <2>2. CASE st = "TS"
    BY <1>4, <2>2 DEF Written
  <2>3. CASE st = "BODY"
    <3>1. bi < BodyWords(m) /\ Written = 2 + bi
      BY <1>2, <1>4, <2>3 DEF Written
    <3> QED
      BY <1>1, <1>4, <3>1
  <2> QED
    BY <1>2, <2>1, <2>2, <2>3
<1>6. \E last \in BOOLEAN : out' = Word(Written, last)
  <2>1. CASE st = "W0"
    BY <1>2, <2>1 DEF Written
  <2>2. CASE st = "TS"
    BY <1>2, <2>2 DEF Written
  <2>3. CASE st = "BODY"
    <3>1. Written = 2 + bi /\ out' = Word(2 + bi, bi = BodyWords(msgReg) - 1)
      BY <1>2, <2>3 DEF Written
    <3>2. (bi = BodyWords(msgReg) - 1) \in BOOLEAN
      BY Zenon
    <3> QED
      BY <3>1, <3>2, Zenon
  <2> QED
    BY <1>2, <2>1, <2>2, <2>3
<1>7. PICK last \in BOOLEAN : out' = Word(Written, last)
  BY <1>6
<1> DEFINE w == [n |-> msgReg.n, j |-> msgReg.j, k |-> Written, idx |-> msgIdx, last |-> last]
<1>8. w \in WordSet
  BY <1>1, <1>4, <1>5, ZenonT(60) DEF WordSet
<1>9. out' = [valid |-> TRUE, word |-> w]
  BY <1>7 DEF Word
<1>10. IdOf(w) = [n |-> tx.n, j |-> msgReg.j, k |-> Written]
  BY <1>4 DEF IdOf
<1> HIDE DEF w
<1>11. Ports' /\ Shown' = Append(Shown, IdOf(w)) /\ IdOf(w) \in IdSet
  BY <1>2, <1>8, <1>9, ShowsOne
<1> QED
  BY <1>3, <1>5, <1>10, <1>11 DEF N

\* Any other cycle shows no word.
LEMMA OthersShowNone ==
  ASSUME Ports, NEW o, NEW rdy, Cycle(o, rdy), ~Emitted(o, rdy), Record(o, rdy)
  PROVE  Ports' /\ Shown' = Shown
<1>1. out' = Accepted(rdy) \/ (Free(rdy) /\ out' = Silent)
  <2>1. CASE Dropping(o, rdy) \/ BadKeep(o, rdy) \/ Hdr(o, rdy) \/ HdrShort(o, rdy)
             \/ Capture(o, rdy) \/ Skip(o, rdy) \/ LenShort(o, rdy) \/ Stall(o, rdy)
             \/ Drained(o, rdy) \/ Draining(o, rdy)
    BY <2>1 DEF Dropping, BadKeep, Hdr, HdrShort, Capture, Skip, LenShort, Stall, Drained, Draining
  <2>2. CASE Cap(o, rdy) \/ NextMsg(o, rdy)
    BY <2>2 DEF Cap, NextMsg
  <2>3. CASE Body(o, rdy) /\ ~(bi < BodyWords(msgReg))
    BY <2>3 DEF Body
  <2> QED
    BY <2>1, <2>2, <2>3 DEF Cycle, Emitted
<1> QED
  BY <1>1, ShowsNone

\* An emitted word is the next of its datagram's.
LEMMA PutGrows ==
  ASSUME AccuseInv, Ports, NEW e \in IdSet, Shown' = Append(Shown, e), Same
  PROVE  \A n : OfDatagram(Shown', n) = IF e.n = n THEN Append(OfDatagram(Shown, n), e)
                                        ELSE OfDatagram(Shown, n)
<1>1. Shown \in Seq(IdSet)
  BY ShownIs
<1> QED
  BY <1>1, OfAppend

\* One word more of the captured message is out.
LEMMA EmittedPlaced ==
  ASSUME AccuseInv, Placed, Ports, NEW o \in Offers, NEW rdy, Emitted(o, rdy),
         Record(o, rdy), Same
  PROVE  Placed'
<1> DEFINE e == [n |-> tx.n, j |-> msgReg.j, k |-> Written]
           N == Len(MessageWords(tx.n, tx.dg, msgReg.j))
           m == tx.dg.msgs[msgReg.j]
<1>1. /\ Shown' = Append(Shown, e) /\ e \in IdSet /\ e.n = tx.n
      /\ Held /\ Put = Due(msgReg.j - 1) + Written /\ Written + 1 \in 1..N
  BY EmitsNext
<1>2. FrameInv /\ History /\ bi \in Nat
  BY DEF AccuseInv, FrameInv, ParserInv, TypeOK
<1>3. Put' = Put + 1
  <2>1. OfDatagram(Shown', tx.n) = Append(OfDatagram(Shown, tx.n), e)
    BY <1>1, PutGrows
  <2>2. OfDatagram(Shown, tx.n) \in Seq(IdSet)
    BY ShownIs, OfType
  <2>3. \A s \in Seq(IdSet), x \in IdSet : Len(Append(s, x)) = Len(s) + 1
    OBVIOUS
  <2>4. Len(OfDatagram(Shown', tx.n)) = Len(OfDatagram(Shown, tx.n)) + 1
    BY <1>1, <2>1, <2>2, <2>3
  <2> QED
    BY <2>4 DEF Put, Same
<1>4. /\ BodyWords(msgReg) = BodyWords(m)
      /\ Emits(m) => BodyWords(m) \in Nat /\ N = 2 + BodyWords(m)
      /\ N \in Nat
  BY <1>1, <1>2, HeldWords
<1>5. /\ msgReg' = msgReg /\ packLeft' = packLeft /\ packCount' = packCount
      /\ \/ st = "W0" /\ st' = "TS" /\ bi' = bi
         \/ st = "TS" /\ st' = "BODY" /\ bi' = bi
         \/ st = "BODY" /\ bi < BodyWords(msgReg) /\ st' = "BODY" /\ bi' = bi + 1
  BY DEF Emitted, W0, TS, Body, Emission, In, Advance, headerVars
<1>6. /\ Emits(m) /\ (st \in {"W0", "TS"} => bi = 0)
  BY <1>5 DEF Placed, Holds, RecordActive
<1>7. errors \subseteq errors' /\ tx'.n = tx.n /\ tx'.dg = tx.dg /\ LastMessage' = LastMessage
  BY DEF Record, Same, LastMessage
<1>8. Held'
  BY <1>1, <1>5, <1>7 DEF Held, Done
<1>9. Due(msgReg.j - 1)' = Due(msgReg.j - 1)
  BY <1>5, <1>7 DEF Due
<1>10. Written \in Nat /\ Due(msgReg.j - 1) \in Nat
  <2>1. \A j \in 0..LastMessage : Due(j) \in Nat
    BY <1>2, Numbers
  <2>2. LastMessage \in Nat
    BY <1>2, Numbers
  <2>3. msgReg.j - 1 \in 0..LastMessage
    BY <1>1, <2>2 DEF Held
  <2>4. Written \in Nat
    BY <1>2, <1>5 DEF Written
  <2> QED
    BY <2>1, <2>3, <2>4
<1>11. Written' = Written + 1
  <2>1. CASE st = "W0"
    BY <1>5, <2>1 DEF Written
  <2>2. CASE st = "TS"
    <3>1. Written = 1 /\ st' = "BODY" /\ bi' = 0
      BY <1>5, <1>6, <2>2 DEF Written
    <3>2. Written' = 2 + bi'
      BY <3>1 DEF Written
    <3> QED
      BY <3>1, <3>2
  <2>3. CASE st = "BODY"
    <3>1. Written = 2 + bi /\ st' = "BODY" /\ bi' = bi + 1
      BY <1>5, <2>3 DEF Written
    <3>2. Written' = 2 + bi'
      BY <3>1 DEF Written
    <3> QED
      BY <1>2, <3>1, <3>2
  <2> QED
    BY <1>5, <2>1, <2>2, <2>3
<1>12. st' = "BODY" => bi' <= BodyWords(m)
  BY <1>2, <1>4, <1>5, <1>6
<1>13. Put' = Due(msgReg.j - 1)' + Written'
  BY <1>1, <1>3, <1>9, <1>10, <1>11
<1>14. st' = "TS" => bi' = 0
  BY <1>5, <1>6
<1>15. st' \in {"TS", "BODY"} /\ msgReg' = msgReg
  BY <1>5
<1>16. Emits(tx.dg.msgs[msgReg.j])' /\ (st' = "BODY" => bi' <= BodyWords(tx.dg.msgs[msgReg.j])')
  BY <1>6, <1>7, <1>12, <1>15 DEF Emits, LengthOk, BodyWords
<1> HIDE DEF m, N, e
<1>17. Holds'
  BY <1>8, <1>13, <1>14, <1>15, <1>16 DEF Holds
<1> QED
  BY <1>15, <1>17 DEF Placed, Before, Between

\* Nothing is shown of a datagram that was not sent yet.
Fresh == \A n \in Nat : n > tx.n => OfDatagram(Shown, n) = <<>>

\* A new datagram has no words.
LEMMA NewPlaced ==
  ASSUME AccuseInv, AccuseInv', IdleKeeps \subseteq {0}, Fresh, NEW o \in Offers, NEW rdy,
         Cycle(o, rdy), Record(o, rdy), Idle, Renewed, Take(o), Shown' = Shown
  PROVE  Placed'
<1>1. /\ FrameInv /\ History /\ ParserInv /\ Send(o) /\ tx.n \in Nat
      /\ FrameInv' /\ History'
  BY DEF AccuseInv, FrameInv, History, Cycle
<1>2. tx'.n \in Nat /\ tx'.n > tx.n /\ tx'.dg \in Datagrams
  BY <1>1 DEF Renewed
<1>3. Put' = 0
  <2>1. OfDatagram(Shown', tx'.n) = <<>>
    BY <1>2 DEF Fresh
  <2> QED
    BY <2>1 DEF Put
<1>4. Sent(tx'.n, tx'.dg, 0) = 0 /\ Len(tx'.dg.msgs) \in Nat
  <2>1. tx'.dg.msgs \in Seq(Wire)
    BY <1>2, DatagramFields
  <2> QED
    BY <1>2, <2>1, OracleCounts
<1>5. st = "HDR" /\ qn = 0 /\ ~dropPacket
  BY DEF Idle
<1>6. BadKeep(o, rdy) \/ HdrShort(o, rdy)
  <2>1. ~Hdr(o, rdy)
    <3>1. ~(qn >= 20)
      BY <1>5
    <3> QED
      BY <1>1, <1>5, <3>1, Drains DEF Hdr
  <2> QED
    BY <1>5, <2>1 DEF Cycle, Dropping, Capture, Skip, LenShort, Stall, Cap, W0, TS, Body, Emission,
         NextMsg, Drained, Draining, In
<1>7. st' = "HDR" /\ (error' \/ ~Idle')
  <2>1. CASE BadKeep(o, rdy)
    BY <1>5, <2>1 DEF BadKeep, RecordActive
  <2>2. CASE HdrShort(o, rdy) /\ eopSeen
    BY <2>2 DEF HdrShort, Fail
  <2>3. CASE HdrShort(o, rdy) /\ ~eopSeen
    <3>1. st' = "HDR" /\ qn' # 0
      BY <1>1, <2>3, HdrWaits
    <3> QED
      BY <3>1 DEF Idle
  <2> QED
    BY <1>6, <2>1, <2>2, <2>3
<1>8. error' => ~WellFormed(tx'.dg)
  BY DEF Record, AccuseInv, Accused
<1>9. 0 \in 0..LastMessage' /\ Put' = Due(0)'
  BY <1>3, <1>4 DEF LastMessage, Due
<1>10. Before'
  BY <1>3, <1>7, <1>8, <1>9 DEF Before
<1> QED
  BY <1>7, <1>10 DEF Placed, Between, Holds, RecordActive

\* A cycle that emits keeps to the datagram.
LEMMA EmittedSame ==
  ASSUME AccuseInv, NEW o \in Offers, NEW rdy, Emitted(o, rdy), Send(o), Record(o, rdy)
  PROVE  Same
<1>1. ~Idle
  BY DEF Emitted, W0, TS, Body, Emission, In, Idle
<1> QED
  BY <1>1, SentMoves DEF AccuseInv

\* Every cycle keeps the words where they should be.
LEMMA PlacedMoves ==
  ASSUME AccuseInv, AccuseInv', TrafficFits, RegistersFit, Ports, Placed, Fresh,
         NEW o \in Offers, NEW rdy, Cycle(o, rdy), Record(o, rdy)
  PROVE  Ports' /\ Placed'
<1>1. Send(o) /\ IdleKeeps \subseteq {0} /\ FrameInv /\ History
  BY DEF Cycle, TrafficFits, AccuseInv
<1>2. CASE Emitted(o, rdy)
  <2>1. Same
    BY <1>1, <1>2, EmittedSame
  <2>2. Placed'
    BY <1>2, <2>1, EmittedPlaced
  <2>3. Ports'
    BY <1>2, EmitsNext
  <2> QED
    BY <2>2, <2>3
<1>3. CASE ~Emitted(o, rdy)
  <2>1. Ports' /\ Shown' = Shown
    BY <1>3, OthersShowNone
  <2>2. CASE Same
    <3>1. CASE Dropping(o, rdy) \/ BadKeep(o, rdy)
      BY <2>1, <2>2, <3>1, DiscardPlaced
    <3>2. CASE Hdr(o, rdy) \/ HdrShort(o, rdy)
      BY <1>1, <2>1, <2>2, <3>2, HeaderPlaced
    <3>3. CASE Capture(o, rdy) \/ Skip(o, rdy) \/ LenShort(o, rdy)
      BY <1>1, <2>1, <2>2, <3>3, ReadingPlaced
    <3>4. CASE Stall(o, rdy) \/ Cap(o, rdy) \/ (Body(o, rdy) /\ ~(bi < BodyWords(msgReg)))
      BY <2>1, <2>2, <3>4, WaitingPlaced
    <3>5. CASE NextMsg(o, rdy)
      BY <1>1, <2>1, <2>2, <3>5, NextPlaced
    <3>6. CASE Drained(o, rdy) \/ Draining(o, rdy)
      BY <1>1, <2>1, <2>2, <3>6, DrainPlaced
    <3> QED
      BY <1>3, <2>1, <3>1, <3>2, <3>3, <3>4, <3>5, <3>6 DEF Cycle, Emitted
  <2>3. CASE Idle /\ Take(o) /\ Renewed
    <3>1. Placed'
      BY <1>1, <2>1, <2>3, NewPlaced
    <3> QED
      BY <2>1, <3>1
  <2> QED
    BY <1>1, <2>2, <2>3, SentMoves
<1> QED
  BY <1>2, <1>3

(***************************************************************************)
(* The words of all datagrams                                              *)
(***************************************************************************)
\* What was shown of a datagram begins as the oracle's words.
Prefixed ==
  \A n \in 1..Len(sent) : PrefixOf(OfDatagram(Shown, n), RegisterWords(n, sent[n].dg))
\* Datagrams follow each other.
Ordered ==
  /\ \A i \in 1..Len(Shown) : Shown[i].n <= tx.n
  /\ \A i \in 1..(Len(Shown) - 1) : Shown[i].n <= Shown[i + 1].n
\* Those that are over have whole registers, and all of them if they are well
\* formed.
Settled(n, d) ==
  LET words == Len(OfDatagram(Shown, n))
  IN /\ \E j \in 0..Len(d.msgs) : words = Sent(n, d, j)
     /\ WellFormed(d) => words = Sent(n, d, Len(d.msgs))
PastSettled == \A n \in 1..Len(sent) : n < tx.n => Settled(n, sent[n].dg)

\* What was sent are datagrams of the traffic.
LEMMA SentDatagrams ==
  ASSUME History
  PROVE  /\ \A n \in 1..Len(sent) : sent[n].dg \in Datagrams /\ n \in Nat /\ n <= tx.n
         /\ Len(sent) = tx.n /\ tx.n \in Nat
<1> DEFINE T == [dg : Datagrams, seq : Nat]
<1>1. sent \in Seq(T) /\ Len(sent) = tx.n /\ tx.n \in Nat
  BY DEF History
<1>2. \A t \in T : t.dg \in Datagrams
  OBVIOUS
<1> HIDE DEF T
<1>3. \A n \in 1..Len(sent) : sent[n] \in T /\ n \in Nat /\ n <= tx.n
  BY <1>1
<1> QED
  BY <1>1, <1>2, <1>3

\* The words of the oracle are words.
LEMMA RegisterType ==
  ASSUME NEW n \in Nat, NEW d \in Datagrams \cup {NoDatagram}
  PROVE  RegisterWords(n, d) \in Seq(IdSet)
<1>1. d.msgs \in Seq(Wire)
  BY DatagramFields
<1>2. Len(d.msgs) \in 0..Len(d.msgs)
  BY <1>1
<1> QED
  BY <1>2, OracleIs DEF RegisterWords

\* A cycle that shows no word.
LEMMA QuietMoves ==
  ASSUME AccuseInv, Fresh, Placed, Prefixed, Ordered, PastSettled, Ports, Shown' = Shown,
         Same \/ (Idle /\ Renewed)
  PROVE  Fresh' /\ Prefixed' /\ Ordered' /\ PastSettled'
<1>1. History
  BY DEF AccuseInv
<1>2. CASE Same
  <2>1. tx'.n = tx.n /\ sent' = sent
    BY <1>2 DEF Same
  <2> QED
    BY <2>1 DEF Fresh, Prefixed, Ordered, PastSettled, Settled
<1>3. CASE Idle /\ Renewed
  <2>1. /\ tx.n \in Nat /\ tx'.n = tx.n + 1 /\ Len(sent) = tx.n /\ Len(sent') = tx.n + 1
        /\ \A k \in 1..tx.n : sent'[k] = sent[k]
    BY <1>1, <1>3, SentGrows
  <2>2. sent'[tx.n + 1].dg = tx'.dg /\ tx'.dg \in Datagrams
    <3> DEFINE s == [dg |-> tx'.dg, seq |-> tx'.seq]
    <3>1. sent' = Append(sent, s) /\ tx'.dg \in Datagrams
      BY <1>3 DEF Renewed
    <3>2. sent \in Seq([dg : Datagrams, seq : Nat])
      BY <1>1 DEF History
    <3>3. s.dg = tx'.dg
      OBVIOUS
    <3> HIDE DEF s
    <3>4. sent'[tx.n + 1] = s
      BY <2>1, <3>1, <3>2
    <3> QED
      BY <3>1, <3>3, <3>4
  <2>3. Fresh'
    <3>1. \A n \in Nat : n > tx.n + 1 => n > tx.n
      BY <2>1
    <3> QED
      BY <2>1, <3>1 DEF Fresh
  <2>4. Prefixed'
    <3>1. SUFFICES ASSUME NEW n \in 1..(tx.n + 1)
                   PROVE  PrefixOf(OfDatagram(Shown, n), RegisterWords(n, sent'[n].dg))
      BY <2>1 DEF Prefixed
    <3>2. CASE n \in 1..tx.n
      BY <2>1, <3>2 DEF Prefixed
    <3>3. CASE n = tx.n + 1
      <4>1. OfDatagram(Shown, n) = <<>>
        BY <2>1, <3>3 DEF Fresh
      <4>2. RegisterWords(n, tx'.dg) \in Seq(IdSet)
        BY <2>1, <2>2, RegisterType
      <4>3. \A t \in Seq(IdSet) : PrefixOf(<<>>, t)
        BY DEF PrefixOf
      <4> QED
        BY <2>2, <3>3, <4>1, <4>2, <4>3
    <3> QED
      BY <2>1, <3>2, <3>3
  <2>5. Ordered'
    <3>1. \A i \in 1..Len(Shown) : Shown[i].n \in Nat
      <4>1. Shown \in Seq(IdSet)
        BY ShownIs
      <4>2. \A e \in IdSet : e.n \in Nat
        BY DEF IdSet
      <4> QED
        BY <4>1, <4>2
    <3>2. \A x, y \in Nat : x <= y => x <= y + 1
      OBVIOUS
    <3>3. \A i \in 1..Len(Shown) : Shown[i].n <= tx.n + 1
      BY <2>1, <3>1, <3>2 DEF Ordered
    <3> QED
      BY <2>1, <3>3 DEF Ordered
  <2>6. PastSettled'
    <3>1. SUFFICES ASSUME NEW n \in 1..(tx.n + 1), n < tx.n + 1
                   PROVE  Settled(n, sent'[n].dg)
      BY <2>1 DEF PastSettled, Settled
    <3>2. n \in 1..tx.n /\ sent'[n] = sent[n]
      BY <2>1, <3>1
    <3>3. CASE n < tx.n
      BY <2>1, <3>2, <3>3 DEF PastSettled
    <3>4. CASE ~(n < tx.n)
      <4>1. n = tx.n /\ n >= 1
        BY <2>1, <3>2, <3>4
      <4>2. sent[n].dg = tx.dg
        BY <1>1, <4>1 DEF History
      <4>3. /\ \E j \in 0..LastMessage : Put = Due(j)
            /\ WellFormed(tx.dg) => Put = Due(LastMessage)
        BY <1>3 DEF Placed, Before, Idle
      <4> QED
        BY <3>2, <4>1, <4>2, <4>3 DEF Settled, Put, Due, LastMessage
    <3> QED
      BY <3>3, <3>4
  <2> QED
    BY <2>3, <2>4, <2>5, <2>6
<1> QED
  BY <1>2, <1>3

\* A cycle that emits a word.
LEMMA EmittedMoves ==
  ASSUME AccuseInv, Fresh, Placed, Prefixed, Ordered, PastSettled, Ports,
         NEW o \in Offers, NEW rdy, Emitted(o, rdy), Record(o, rdy), Same
  PROVE  Fresh' /\ Prefixed' /\ Ordered' /\ PastSettled'
<1> DEFINE e == [n |-> tx.n, j |-> msgReg.j, k |-> Written]
           N == Len(MessageWords(tx.n, tx.dg, msgReg.j))
<1>1. /\ Shown' = Append(Shown, e) /\ e \in IdSet
      /\ Held /\ Put = Due(msgReg.j - 1) + Written /\ Written + 1 \in 1..N
  BY EmitsNext
<1>2. History /\ FrameInv /\ tx'.n = tx.n /\ sent' = sent /\ tx.n \in Nat /\ Shown \in Seq(IdSet)
  BY ShownIs DEF AccuseInv, History, Same
<1>3. \A n : OfDatagram(Shown', n) = IF e.n = n THEN Append(OfDatagram(Shown, n), e)
                                     ELSE OfDatagram(Shown, n)
  BY <1>1, PutGrows
<1>4. e.n = tx.n /\ e.j = msgReg.j /\ e.k = Written
  OBVIOUS
<1>5. tx.dg \in Datagrams \cup {NoDatagram} /\ msgReg.j \in 1..Len(tx.dg.msgs)
      /\ LastMessage \in Nat
  BY <1>1, <1>2, Numbers DEF Held, LastMessage
<1>6. Fresh'
  <2>1. \A n \in Nat : n > tx.n => n # tx.n
    BY <1>2
  <2> HIDE DEF e
  <2> QED
    BY <1>2, <1>3, <1>4, <2>1 DEF Fresh
<1>7. Prefixed'
  <2>1. SUFFICES ASSUME NEW n \in 1..Len(sent)
                 PROVE  PrefixOf(OfDatagram(Shown', n), RegisterWords(n, sent[n].dg))
    BY <1>2 DEF Prefixed
  <2>2. CASE n # tx.n
    BY <1>3, <1>4, <2>2 DEF Prefixed
  <2>3. CASE n = tx.n
    <3> DEFINE s == OfDatagram(Shown, tx.n)
               t == RegisterWords(tx.n, tx.dg)
    <3>1. n >= 1 /\ sent[n].dg = tx.dg
      BY <1>2, <2>3, SentDatagrams DEF History
    <3>2. s \in Seq(IdSet) /\ t \in Seq(IdSet) /\ Len(s) = Due(msgReg.j - 1) + Written
      BY <1>1, <1>2, <1>5, OfType, RegisterType DEF Put
    <3>3. /\ Due(msgReg.j - 1) + (Written + 1) \in 1..Len(t)
          /\ t[Due(msgReg.j - 1) + (Written + 1)]
               = [n |-> tx.n, j |-> msgReg.j, k |-> (Written + 1) - 1]
      BY <1>1, <1>2, <1>5, RegisterLaid DEF Due
    <3>4. Written \in Int /\ Due(msgReg.j - 1) \in Int
      <4>1. Written \in Nat
        BY <1>1 DEF IdSet
      <4>2. \A j \in 0..LastMessage : Due(j) \in Nat
        BY <1>2, Numbers
      <4>3. msgReg.j - 1 \in 0..LastMessage
        BY <1>1, <1>5 DEF Held
      <4> QED
        BY <4>1, <4>2, <4>3
    <3>5. Len(s) + 1 \in 1..Len(t) /\ t[Len(s) + 1] = e
      <4>1. Due(msgReg.j - 1) + (Written + 1) = Len(s) + 1 /\ (Written + 1) - 1 = Written
        BY <3>2, <3>4
      <4> QED
        BY <3>3, <4>1
    <3>6. PrefixOf(s, t)
      BY <2>3, <3>1 DEF Prefixed
    <3>7. OfDatagram(Shown', n) = Append(s, e)
      BY <1>3, <1>4, <2>3
    <3> HIDE DEF s, t, e
    <3>8. PrefixOf(Append(s, e), t)
      BY <1>1, <3>2, <3>5, <3>6, PrefixGrows
    <3> QED
      BY <2>3, <3>1, <3>7, <3>8 DEF t
  <2> QED
    BY <2>2, <2>3
<1>8. Ordered'
  <2> HIDE DEF e
  <2>1. /\ Len(Shown') = Len(Shown) + 1 /\ Len(Shown) \in Nat
        /\ Shown'[Len(Shown) + 1] = e /\ \A i \in 1..Len(Shown) : Shown'[i] = Shown[i]
    BY <1>1, <1>2
  <2>2. ASSUME NEW i \in 1..Len(Shown') PROVE Shown'[i].n <= tx.n
    <3>1. CASE i \in 1..Len(Shown)
      BY <2>1, <3>1 DEF Ordered
    <3>2. CASE i = Len(Shown) + 1
      BY <1>2, <1>4, <2>1, <3>2
    <3> QED
      BY <2>1, <3>1, <3>2
  <2>3. ASSUME NEW i \in 1..(Len(Shown') - 1) PROVE Shown'[i].n <= Shown'[i + 1].n
    <3>1. i \in 1..Len(Shown) /\ Shown'[i] = Shown[i]
      BY <2>1
    <3>2. CASE i = Len(Shown)
      BY <1>4, <2>1, <3>1, <3>2 DEF Ordered
    <3>3. CASE i # Len(Shown)
      <4>1. i \in 1..(Len(Shown) - 1) /\ i + 1 \in 1..Len(Shown)
        BY <2>1, <3>1, <3>3
      <4> QED
        BY <2>1, <3>1, <4>1 DEF Ordered
    <3> QED
      BY <3>2, <3>3
  <2> QED
    BY <1>2, <2>2, <2>3 DEF Ordered
<1>9. PastSettled'
  <2>1. SUFFICES ASSUME NEW n \in 1..Len(sent), n < tx.n
                 PROVE  Settled(n, sent[n].dg)'
    BY <1>2 DEF PastSettled, Settled
  <2>2. n # tx.n
    BY <1>2, <2>1, SentDatagrams
  <2>3. OfDatagram(Shown', n) = OfDatagram(Shown, n) /\ Settled(n, sent[n].dg)
    BY <1>3, <1>4, <2>1, <2>2 DEF PastSettled
  <2> QED
    BY <1>2, <2>3 DEF Settled
<1> QED
  BY <1>6, <1>7, <1>8, <1>9

WordsInv ==
  /\ AccuseInv /\ Ports /\ Placed
  /\ Fresh /\ Prefixed /\ Ordered /\ PastSettled

\* It holds at reset.
LEMMA WordsInit == HInit => WordsInv
<1> SUFFICES ASSUME HInit PROVE WordsInv
  OBVIOUS
<1>1. /\ tx = [dg |-> NoDatagram, seq |-> 0, n |-> 0, pos |-> 1] /\ sent = <<>>
      /\ taken = <<>> /\ out = Silent /\ st = "HDR" /\ qn = 0
  BY DEF HInit, Init
<1>2. tx.n = 0 /\ tx.dg = NoDatagram /\ NoDatagram.msgs = <<>> /\ Len(NoDatagram.msgs) = 0
  BY <1>1 DEF NoDatagram
<1>3. Ports
  BY <1>1 DEF Ports, Silent, NoWord, WordSet
<1>4. Shown = <<>>
  <2>1. out.valid = FALSE
    BY <1>1 DEF Silent
  <2>2. Ids(<<>>) = <<>>
    BY DEF Ids
  <2>3. Shown = Ids(<<>>) \o Ids(<<>>)
    BY <1>1, <2>1 DEF Shown
  <2> QED
    BY <2>2, <2>3
<1>5. \A n : OfDatagram(Shown, n) = <<>>
  BY <1>4, OfNone
<1>6. Placed
  <2>1. Put = 0 /\ Due(0) = 0 /\ LastMessage = 0
    <3>1. Sent(0, NoDatagram, 0) = 0
      BY OracleCounts
    <3> QED
      BY <1>2, <1>5, <3>1 DEF Put, Due, LastMessage
  <2>2. 0 \in 0..LastMessage
    BY <2>1
  <2>3. Before
    BY <2>1, <2>2 DEF Before
  <2> QED
    BY <1>1, <2>3 DEF Placed, Between, Holds, RecordActive
<1>7. Fresh /\ Prefixed /\ Ordered /\ PastSettled
  <2>1. Len(sent) = 0 /\ Len(Shown) = 0
    BY <1>1, <1>4
  <2> QED
    BY <1>5, <2>1 DEF Fresh, Prefixed, Ordered, PastSettled
<1> QED
  BY <1>3, <1>6, <1>7, AccuseInit DEF WordsInv

\* It is inductive.
LEMMA WordsStep ==
  ASSUME TrafficFits, RegistersFit, WordsInv, [HNext]_hvars
  PROVE  WordsInv'
<1>1. AccuseInv /\ AccuseInv'
  BY AccuseStep DEF WordsInv
<1>2. CASE HNext
  <2>1. PICK o \in Offers, rdy \in Readiness : Cycle(o, rdy) /\ Record(o, rdy)
    BY <1>2 DEF HNext, HCycle
  <2>2. Send(o) /\ FrameInv /\ History
    BY <1>1, <2>1 DEF Cycle, AccuseInv
  <2>3. Ports' /\ Placed'
    BY <1>1, <2>1, PlacedMoves DEF WordsInv
  <2>4. CASE Emitted(o, rdy)
    <3>1. Same
      BY <1>1, <2>1, <2>2, <2>4, EmittedSame
    <3> QED
      BY <1>1, <2>1, <2>3, <2>4, <3>1, EmittedMoves DEF WordsInv
  <2>5. CASE ~Emitted(o, rdy)
    <3>1. Shown' = Shown
      BY <2>1, <2>5, OthersShowNone DEF WordsInv
    <3>2. Same \/ (Idle /\ Renewed)
      BY <2>1, <2>2, SentMoves
    <3> QED
      BY <1>1, <2>3, <3>1, <3>2, QuietMoves DEF WordsInv
  <2> QED
    BY <2>4, <2>5
<1>3. CASE UNCHANGED hvars
  <2>1. UNCHANGED <<tx, st, qn, bi, msgReg, packLeft, packCount, dropPacket, out, taken, sent, errors>>
    BY <1>3 DEF hvars, vars, senderVars, headerVars, recordVars
  <2>2. Shown' = Shown /\ Ports'
    BY <2>1 DEF WordsInv, Shown, Ports
  <2>3. Placed'
    BY <2>1, <2>2 DEF WordsInv, Placed, Before, Between, Holds, Held, Put, Due, Done, Idle, RecordActive,
                      Written, LastMessage
  <2>4. Fresh' /\ Prefixed' /\ Ordered' /\ PastSettled'
    BY <2>1, <2>2 DEF WordsInv, Fresh, Prefixed, Ordered, PastSettled, Settled
  <2> QED
    BY <1>1, <2>2, <2>3, <2>4 DEF WordsInv
<1> QED
  BY <1>2, <1>3

\* What WordsMatch says of a datagram that is over.
LEMMA SettledWords ==
  ASSUME NEW n \in Nat, NEW d \in Datagrams \cup {NoDatagram}, Settled(n, d),
         Shown \in Seq(IdSet), PrefixOf(OfDatagram(Shown, n), RegisterWords(n, d))
  PROVE  LET words == OfDatagram(Shown, n)
             want == RegisterWords(n, d)
         IN IF WellFormed(d) THEN words = want
            ELSE words = <<>> \/ Len(words) = Len(want) \/ want[Len(words) + 1].k = 0
<1> DEFINE words == OfDatagram(Shown, n)
           want == RegisterWords(n, d)
<1>1. words \in Seq(IdSet) /\ want \in Seq(IdSet)
  BY OfType, RegisterType
<1>2. Len(words) <= Len(want) /\ \A i \in 1..Len(words) : words[i] = want[i]
  BY <1>1, PrefixIs
<1>3. Len(want) = Sent(n, d, Len(d.msgs))
  BY DEF Sent, RegisterWords
<1>4. PICK j \in 0..Len(d.msgs) : Len(words) = Sent(n, d, j)
  BY DEF Settled
<1>5. Len(words) = Len(want) \/ want[Len(words) + 1].k = 0
  BY <1>4, RegisterStops
<1>6. WellFormed(d) => Len(words) = Len(want)
  BY <1>3 DEF Settled
<1> HIDE DEF words, want
<1>7. \A s, t \in Seq(IdSet) : Len(s) = Len(t) /\ (\A i \in 1..Len(s) : s[i] = t[i]) => s = t
  OBVIOUS
<1>8. WellFormed(d) => words = want
  BY <1>1, <1>2, <1>6, <1>7
<1> QED
  BY <1>5, <1>8 DEF words, want

\* WordsMatch follows from it.
LEMMA WordsHold ==
  ASSUME WordsInv
  PROVE  WordsMatch
<1>1. History /\ Shown \in Seq(IdSet)
  BY ShownIs DEF WordsInv, AccuseInv
<1>2. /\ \A n \in 1..Len(sent) : sent[n].dg \in Datagrams /\ n \in Nat /\ n <= tx.n
      /\ Len(sent) = tx.n /\ tx.n \in Nat
  BY <1>1, SentDatagrams
<1>3. ASSUME NEW n \in 1..Len(sent), n < tx.n \/ Idle
      PROVE  Settled(n, sent[n].dg)
  <2>1. CASE n < tx.n
    BY <2>1 DEF WordsInv, PastSettled
  <2>2. CASE ~(n < tx.n)
    <3>1. n = tx.n /\ n >= 1 /\ Idle
      BY <1>2, <1>3, <2>2
    <3>2. sent[n].dg = tx.dg
      BY <1>1, <3>1 DEF History
    <3>3. /\ \E j \in 0..LastMessage : Put = Due(j)
          /\ WellFormed(tx.dg) => Put = Due(LastMessage)
      BY <3>1 DEF WordsInv, Placed, Before, Idle
    <3> QED
      BY <3>1, <3>2, <3>3 DEF Settled, Put, Due, LastMessage
  <2> QED
    BY <2>1, <2>2
<1>4. ASSUME NEW n \in 1..Len(sent)
      PROVE  LET words == OfDatagram(Shown, n)
                 want == RegisterWords(n, sent[n].dg)
                 over == n < tx.n \/ (st = "HDR" /\ qn = 0 /\ ~dropPacket)
             IN /\ PrefixOf(words, want)
                /\ over => IF WellFormed(sent[n].dg) THEN words = want
                           ELSE words = <<>> \/ Len(words) = Len(want)
                                \/ want[Len(words) + 1].k = 0
  <2>1. PrefixOf(OfDatagram(Shown, n), RegisterWords(n, sent[n].dg))
    BY DEF WordsInv, Prefixed
  <2>2. n < tx.n \/ Idle => Settled(n, sent[n].dg)
    BY <1>3
  <2>3. sent[n].dg \in Datagrams \cup {NoDatagram} /\ n \in Nat
    BY <1>2
  <2> QED
    BY <1>1, <2>1, <2>2, <2>3, SettledWords DEF Idle
<1>5. \A i \in 1..(Len(Shown) - 1) : Shown[i].n <= Shown[i + 1].n
  BY DEF WordsInv, Ordered
<1> QED
  BY <1>4, <1>5 DEF WordsMatch

\* It holds of every state.
LEMMA WordsInvariant ==
  ASSUME TrafficFits, RegistersFit
  PROVE  HSpec => []WordsInv
<1>1. HInit => WordsInv
  BY WordsInit
<1>2. WordsInv /\ [HNext]_hvars => WordsInv'
  BY WordsStep
<1> QED
  BY <1>1, <1>2, PTL DEF HSpec

\* The words on the port are those that iter_message_records makes of the
\* datagrams (rtl/parser/itch_parser.sv, ST_CAP to ST_NEXT): of each datagram
\* an initial part, each word once and in order, whole registers when the
\* parser is done with it and all of them if it is well formed, for every
\* stall of the consumer and every cut into beats.
THEOREM WordsMatchAlways ==
  ASSUME TrafficFits, RegistersFit
  PROVE  HSpec => []WordsMatch
<1>1. WordsInv => WordsMatch
  BY WordsHold
<1>2. HSpec => []WordsInv
  BY WordsInvariant
<1> QED
  BY <1>1, <1>2, PTL

(***************************************************************************)
(* The index                                                               *)
(***************************************************************************)
\* The messages of a datagram that fit, one by one.
LEMMA FittingCounts ==
  ASSUME NEW d \in Datagrams \cup {NoDatagram}
  PROVE  /\ Fitting(d, 0) = 0
         /\ \A j \in 0..Len(d.msgs) : Fitting(d, j) \in Nat
         /\ \A j \in 1..Len(d.msgs) :
              Fitting(d, j) = Fitting(d, j - 1) + (IF Oversize(d.msgs[j].len) THEN 0 ELSE 1)
<1> DEFINE S(j) == {i \in 1..j : ~Oversize(d.msgs[i].len)}
<1>1. \A j : Fitting(d, j) = Cardinality(S(j))
  BY DEF Fitting
<1>2. ASSUME NEW j \in Nat PROVE IsFiniteSet(S(j)) /\ Cardinality(S(j)) \in Nat
  <2>1. IsFiniteSet(1..j)
    BY FS_Interval
  <2>2. S(j) \subseteq 1..j
    OBVIOUS
  <2> QED
    BY <2>1, <2>2, FS_Subset, FS_CardinalityType
<1>3. S(0) = {}
  OBVIOUS
<1>4. Fitting(d, 0) = 0
  BY <1>1, <1>3, FS_EmptySet
<1>5. Len(d.msgs) \in Nat
  BY DatagramFields
<1>6. ASSUME NEW j \in 1..Len(d.msgs)
      PROVE  Fitting(d, j) = Fitting(d, j - 1) + (IF Oversize(d.msgs[j].len) THEN 0 ELSE 1)
  <2>1. j \in Nat /\ j - 1 \in Nat /\ j >= 1
    BY <1>5
  <2>2. CASE Oversize(d.msgs[j].len)
    <3>1. S(j) = S(j - 1)
      BY <2>1, <2>2
    <3>2. Fitting(d, j) = Fitting(d, j - 1) /\ Fitting(d, j) \in Nat
      BY <1>1, <1>2, <2>1, <3>1
    <3> QED
      BY <2>2, <3>2
  <2>3. CASE ~Oversize(d.msgs[j].len)
    <3>1. S(j) = S(j - 1) \cup {j} /\ j \notin S(j - 1)
      BY <2>1, <2>3
    <3>2. IsFiniteSet(S(j - 1))
      BY <1>2, <2>1
    <3>3. Cardinality(S(j - 1) \cup {j}) = Cardinality(S(j - 1)) + 1
      <4> HIDE DEF S
      <4> QED
        BY <3>1, <3>2, FS_AddElement
    <3> QED
      BY <1>1, <2>3, <3>1, <3>3
  <2> QED
    BY <2>2, <2>3
<1>7. \A j \in 0..Len(d.msgs) : Fitting(d, j) \in Nat
  <2>1. \A j \in 0..Len(d.msgs) : j \in Nat
    BY <1>5
  <2> QED
    BY <1>1, <1>2, <2>1
<1> QED
  BY <1>4, <1>6, <1>7

IsIndex(dgs, f) ==
  f = [n \in 0..Len(dgs) |->
        IF n = 0 THEN 0 ELSE f[n - 1] + Fitting(dgs[n].dg, Len(dgs[n].dg.msgs))]
SentSet == [dg : Datagrams, seq : Nat]

\* There is a function that adds the messages of one datagram after the other.
LEMMA IndexExists ==
  ASSUME NEW dgs \in Seq(SentSet)
  PROVE  \E f : IsIndex(dgs, f) /\ f \in [0..Len(dgs) -> Nat]
<1> DEFINE N == Len(dgs)
           More(i) == Fitting(dgs[i].dg, Len(dgs[i].dg.msgs))
           step == [x \in Nat \X Nat |-> IF x[2] \in 1..N THEN x[1] + More(x[2]) ELSE x[1]]
<1>1. N \in Nat /\ 0 \in Nat
  OBVIOUS
<1>2. ASSUME NEW i \in 1..N PROVE More(i) \in Nat
  <2>1. dgs[i] \in SentSet
    OBVIOUS
  <2>2. dgs[i].dg \in Datagrams
    BY <2>1 DEF SentSet
  <2>3. Len(dgs[i].dg.msgs) \in 0..Len(dgs[i].dg.msgs)
    BY <2>2, DatagramFields
  <2> QED
    BY <2>2, <2>3, FittingCounts
<1> HIDE DEF N, More
<1>3. \A x \in Nat \X Nat : (IF x[2] \in 1..N THEN x[1] + More(x[2]) ELSE x[1]) \in Nat
  BY <1>2
<1>4. step \in [Nat \X Nat -> Nat] /\ \A v \in Nat, i \in Nat : step[<<v, i>>] =
        IF i \in 1..N THEN v + More(i) ELSE v
  BY <1>3
<1> HIDE DEF step
<1>5. PICK f : IsIterate(f, Nat, 0, step, N)
  BY <1>1, <1>4, Iterates
<1>6. /\ f \in [0..N -> Nat] /\ f[0] = 0
      /\ \A i \in 1..N : f[i] = step[<<f[i - 1], i>>]
  BY <1>5 DEF IsIterate
<1>7. ASSUME NEW i \in 0..N
      PROVE  f[i] = IF i = 0 THEN 0 ELSE f[i - 1] + More(i)
  <2>1. CASE i = 0
    BY <1>6, <2>1
  <2>2. CASE i # 0
    <3>1. i \in 1..N /\ i - 1 \in 0..N /\ i \in Nat
      BY <1>1, <2>2
    <3>2. f[i - 1] \in Nat /\ f[i] = step[<<f[i - 1], i>>]
      BY <1>6, <3>1
    <3> QED
      BY <1>4, <2>2, <3>1, <3>2
  <2> QED
    BY <2>1, <2>2
<1>8. f = [i \in 0..N |-> IF i = 0 THEN 0 ELSE f[i - 1] + More(i)]
  BY <1>6, <1>7
<1> QED
  BY <1>6, <1>8 DEF IsIndex, N, More

\* IndexAfter is what its definition says.
LEMMA IndexIs ==
  ASSUME NEW dgs \in Seq(SentSet)
  PROVE  /\ IndexAfter(dgs, 0) = 0
         /\ \A n \in 0..Len(dgs) : IndexAfter(dgs, n) \in Nat
         /\ \A n \in 1..Len(dgs) : IndexAfter(dgs, n) =
              IndexAfter(dgs, n - 1) + Fitting(dgs[n].dg, Len(dgs[n].dg.msgs))
<1> DEFINE f == CHOOSE g : IsIndex(dgs, g)
           N == Len(dgs)
<1>1. IsIndex(dgs, f)
  BY IndexExists
<1>2. \A n : IndexAfter(dgs, n) = f[n]
  BY DEF IndexAfter, IsIndex
<1>3. PICK g : IsIndex(dgs, g) /\ g \in [0..N -> Nat]
  BY IndexExists
<1> HIDE DEF f
<1>4. N \in Nat
  OBVIOUS
<1>5. f[0] = 0 /\ g[0] = 0
  BY <1>1, <1>3, <1>4 DEF IsIndex
<1>6. ASSUME NEW j \in 1..N
      PROVE  /\ f[j] = f[j - 1] + Fitting(dgs[j].dg, Len(dgs[j].dg.msgs))
             /\ g[j] = g[j - 1] + Fitting(dgs[j].dg, Len(dgs[j].dg.msgs))
  <2>1. j \in 0..Len(dgs) /\ j # 0
    BY <1>4
  <2> QED
    BY <1>1, <1>3, <2>1 DEF IsIndex
<1>7. Alike(f, g, N)
  BY <1>5, <1>6 DEF Alike
<1>8. \A i \in 0..N : f[i] = g[i]
  BY <1>4, <1>7, AgreeUpTo
<1> QED
  BY <1>2, <1>3, <1>5, <1>6, <1>8

\* Another datagram leaves the index after the others as it was.
LEMMA IndexKept ==
  ASSUME NEW a \in Seq(SentSet), NEW b \in Seq(SentSet), Len(a) <= Len(b),
         \A k \in 1..Len(a) : b[k] = a[k]
  PROVE  \A n \in 0..Len(a) : IndexAfter(b, n) = IndexAfter(a, n)
<1> DEFINE N == Len(a)
           f == [n \in 0..N |-> IndexAfter(a, n)]
           g == [n \in 0..N |-> IndexAfter(b, n)]
<1>1. N \in Nat /\ Len(b) \in Nat /\ N <= Len(b)
  OBVIOUS
<1>2. ASSUME NEW i \in 1..N, g[i - 1] = f[i - 1]
      PROVE  g[i] = f[i]
  <2>1. i \in 0..N /\ i - 1 \in 0..N /\ i \in 1..Len(a) /\ i \in 1..Len(b)
    BY <1>1
  <2>2. /\ IndexAfter(a, i) = IndexAfter(a, i - 1) + Fitting(a[i].dg, Len(a[i].dg.msgs))
        /\ IndexAfter(b, i) = IndexAfter(b, i - 1) + Fitting(b[i].dg, Len(b[i].dg.msgs))
    BY <2>1, IndexIs
  <2>3. b[i] = a[i]
    OBVIOUS
  <2>4. IndexAfter(b, i - 1) = IndexAfter(a, i - 1)
    BY <1>2, <2>1
  <2>5. IndexAfter(b, i) = IndexAfter(a, i)
    BY <2>2, <2>3, <2>4, Zenon
  <2> QED
    BY <2>1, <2>5
<1>3. g[0] = f[0]
  <2>1. 0 \in 0..N
    BY <1>1
  <2> QED
    BY <2>1, IndexIs
<1>4. Alike(g, f, N)
  BY <1>2, <1>3 DEF Alike
<1>5. \A i \in 0..N : g[i] = f[i]
  <2> HIDE DEF f, g, N
  <2> QED
    BY <1>1, <1>4, AgreeUpTo
<1> QED
  BY <1>5

AllWell == \A n \in 1..Len(sent) : WellFormed(sent[n].dg)
\* Only messages that fit are captured.
Fitted == RecordActive => ~Oversize(msgReg.len)
Started == tx.n = 0 => tx.dg.msgs = <<>> /\ msgIdx = 0
\* The index so far.
Passed == IF st = "HDR" THEN 0 ELSE Done
Indexed ==
  tx.n >= 1 /\ AllWell =>
    msgIdx = IF Idle THEN IndexAfter(sent, tx.n)
             ELSE IndexAfter(sent, tx.n - 1) + Fitting(tx.dg, Passed)
\* The index on the port.
PortIndexed ==
  out.valid =>
    /\ out.word.n \in 1..tx.n
    /\ AllWell => out.word.idx = IndexAfter(sent, out.word.n - 1)
                                 + Fitting(sent[out.word.n].dg, out.word.j - 1)
IndexInv == WordsInv /\ Fitted /\ Started /\ Indexed /\ PortIndexed

\* A message that does not fit is never there as a whole.
LEMMA FittedMoves ==
  ASSUME AccuseInv, TrafficFits, SkippedSurely, Fitted, NEW o \in Offers, NEW rdy,
         Cycle(o, rdy)
  PROVE  Fitted'
<1>1. /\ FrameInv /\ ParserInv /\ Position /\ IdleKeeps \subseteq {0}
      /\ qn \in Nat /\ tx.dg.msgs \in Seq(Wire)
  BY Sizes DEF AccuseInv, FrameInv, TrafficFits
<1>2. CASE Capture(o, rdy)
  <2>1. st = "LEN" /\ ~dropPacket /\ qn >= 2 /\ qn >= 1
    BY <1>1, <1>2 DEF Capture, In
  <2>2. AtLength
    BY <1>1, <2>1 DEF Position
  <2>3. AtMessage /\ \A w \in WiresHere : w.m = tx.dg.msgs[Done + 1]
    BY <1>1, <2>1, <2>2, AtHand
  <2>4. PICK w \in WiresHere : qn >= 2 + w.m.len /\ msgReg'.len = w.m.len
    BY <1>2 DEF Capture
  <2> DEFINE j == Done + 1
  <2>5. j \in 1..Len(tx.dg.msgs) /\ w.m = tx.dg.msgs[j]
    BY <2>3 DEF AtMessage
  <2>6. tx.dg \in Datagrams
    <3>1. tx.dg # NoDatagram
      <4>1. NoDatagram.msgs = <<>>
        BY DEF NoDatagram
      <4> QED
        BY <2>5, <4>1
    <3> QED
      BY <1>1, <3>1 DEF ParserInv
  <2> HIDE DEF j
  <2>7. qn <= QBUFW /\ QBUFW \in Nat
    BY <1>1, Widths DEF ParserInv, TypeOK
  <2>8. tx.dg.msgs[j].len \in Nat
    BY <1>1, <2>5, WireLength
  <2>9. ~(2 + tx.dg.msgs[j].len > QBUFW)
    BY <1>1, <2>4, <2>5, <2>7, <2>8
  <2>10. ~Oversize(tx.dg.msgs[j].len)
    BY <2>5, <2>6, <2>9 DEF SkippedSurely
  <2> QED
    BY <2>4, <2>5, <2>10 DEF Fitted, Oversize
<1>3. CASE ~Capture(o, rdy)
  <2>1. msgReg' = msgReg /\ (RecordActive' => RecordActive)
    <3>1. CASE Dropping(o, rdy) \/ BadKeep(o, rdy)
      BY <3>1 DEF Dropping, BadKeep, recordVars, RecordActive
    <3>2. CASE Hdr(o, rdy) \/ HdrShort(o, rdy)
      BY <3>2 DEF Hdr, HdrShort, recordVars, RecordActive, Advance, Fail
    <3>3. CASE Skip(o, rdy) \/ LenShort(o, rdy)
      BY <3>3 DEF Skip, LenShort, recordVars, RecordActive, Advance, Fail
    <3>4. CASE Stall(o, rdy) \/ Cap(o, rdy) \/ W0(o, rdy) \/ TS(o, rdy) \/ Body(o, rdy)
      BY <3>4 DEF Stall, Cap, W0, TS, Body, Emission, In, recordVars, RecordActive, Advance
    <3>5. CASE NextMsg(o, rdy)
      BY <3>5 DEF NextMsg, In, RecordActive
    <3>6. CASE Drained(o, rdy) \/ Draining(o, rdy)
      BY <3>6 DEF Drained, Draining, Close, Advance, Fail, recordVars, RecordActive
    <3> QED
      BY <1>3, <3>1, <3>2, <3>3, <3>4, <3>5, <3>6 DEF Cycle
  <2> QED
    BY <2>1 DEF Fitted, Oversize
<1> QED
  BY <1>2, <1>3

\* The index moves only behind a message.
LEMMA IndexStays ==
  ASSUME NEW o, NEW rdy, Cycle(o, rdy), ~NextMsg(o, rdy)
  PROVE  msgIdx' = msgIdx
BY DEF Cycle, Dropping, BadKeep, Hdr, HdrShort, Capture, Skip, LenShort, Stall, Cap, W0, TS, Body,
       Emission, Drained, Draining, recordVars

\* Before the first datagram there is nothing to count.
LEMMA StartedMoves ==
  ASSUME AccuseInv, Placed, Started, NEW o \in Offers, NEW rdy, Cycle(o, rdy), Record(o, rdy)
  PROVE  Started'
<1>1. FrameInv /\ History /\ Send(o) /\ tx.n \in Nat
  BY DEF AccuseInv, Cycle, History
<1>2. CASE Renewed
  <2>1. tx'.n # 0
    BY <1>1, <1>2 DEF Renewed
  <2> QED
    BY <2>1 DEF Started
<1>3. CASE Same
  <2>1. SUFFICES ASSUME tx.n = 0 PROVE tx'.dg.msgs = <<>> /\ msgIdx' = 0
    BY <1>3 DEF Started, Same
  <2>2. tx.dg.msgs = <<>> /\ msgIdx = 0
    BY <2>1 DEF Started
  <2>3. ~NextMsg(o, rdy)
    <3>1. SUFFICES ASSUME NextMsg(o, rdy) PROVE FALSE
      OBVIOUS
    <3>2. RecordActive
      BY <3>1 DEF NextMsg, In, RecordActive
    <3>3. msgReg.j \in 1..Len(tx.dg.msgs)
      BY <3>2 DEF Placed, Holds, Held, LastMessage
    <3> QED
      BY <2>2, <3>3
  <2> QED
    BY <1>3, <2>2, <2>3, IndexStays DEF Same
<1> QED
  BY <1>1, <1>2, <1>3, SentMoves

\* What the datagram under way adds to the index.
LEMMA IndexHere ==
  ASSUME FrameInv, History
  PROVE  /\ sent \in Seq(SentSet) /\ Len(sent) = tx.n /\ tx.n \in Nat
         /\ IndexAfter(sent, 0) = 0
         /\ \A n \in 0..tx.n : IndexAfter(sent, n) \in Nat
         /\ tx.n >= 1 => IndexAfter(sent, tx.n)
                           = IndexAfter(sent, tx.n - 1) + Fitting(tx.dg, LastMessage)
         /\ Fitting(tx.dg, 0) = 0
         /\ \A j \in 0..LastMessage : Fitting(tx.dg, j) \in Nat
         /\ \A j \in 1..LastMessage : Fitting(tx.dg, j) =
              Fitting(tx.dg, j - 1) + (IF Oversize(tx.dg.msgs[j].len) THEN 0 ELSE 1)
<1>1. sent \in Seq(SentSet) /\ Len(sent) = tx.n /\ tx.n \in Nat
  BY DEF History, SentSet
<1>2. /\ Fitting(tx.dg, 0) = 0
      /\ \A j \in 0..LastMessage : Fitting(tx.dg, j) \in Nat
      /\ \A j \in 1..LastMessage : Fitting(tx.dg, j) =
              Fitting(tx.dg, j - 1) + (IF Oversize(tx.dg.msgs[j].len) THEN 0 ELSE 1)
  BY Numbers, FittingCounts DEF LastMessage
<1>3. IndexAfter(sent, 0) = 0 /\ \A n \in 0..tx.n : IndexAfter(sent, n) \in Nat
  BY <1>1, IndexIs
<1>4. tx.n >= 1 => IndexAfter(sent, tx.n)
                     = IndexAfter(sent, tx.n - 1) + Fitting(tx.dg, LastMessage)
  <2>1. SUFFICES ASSUME tx.n >= 1
                 PROVE  IndexAfter(sent, tx.n) = IndexAfter(sent, tx.n - 1) + Fitting(tx.dg, LastMessage)
    OBVIOUS
  <2>2. tx.n \in 1..Len(sent)
    BY <1>1, <2>1
  <2>3. sent[tx.n].dg = tx.dg
    BY <2>1 DEF History
  <2>4. IndexAfter(sent, tx.n) =
          IndexAfter(sent, tx.n - 1) + Fitting(sent[tx.n].dg, Len(sent[tx.n].dg.msgs))
    BY <1>1, <2>2, IndexIs
  <2> QED
    BY <2>3, <2>4 DEF LastMessage
<1> QED
  BY <1>1, <1>2, <1>3, <1>4

\* The message of the datagram is over: the last one, or the next is due.
LEMMA CloseIndexes ==
  ASSUME AccuseInv, NEW o \in Offers, Behind, BaseN = qn, ~DrainLive, WellFormed(tx.dg),
         ~error', NEW drops \in BOOLEAN, Close(o, drops), packCount' = packCount,
         dropPacket' = FALSE
  PROVE  /\ Done \in Nat /\ Done + 1 \in 1..LastMessage
         /\ \/ st' = "LEN" /\ Done' = Done + 1
            \/ Idle' /\ Done + 1 = LastMessage
<1>1. /\ FrameInv /\ ParserInv /\ packLeft \in Nat /\ LastMessage \in Nat
      /\ tx.dg.count \in Nat
  BY Sizes, Numbers DEF AccuseInv, FrameInv
<1>2. packCount = tx.dg.count /\ packLeft \in 1..packCount /\ Done + 1 \in 1..LastMessage
      /\ Done \in 0..LastMessage
  BY DEF Behind, AtMessage, Counted, LastMessage
<1>3. tx.dg.count = LastMessage
  BY DEF WellFormed, LastMessage
<1>4. CASE packLeft > 1
  <2>1. st' = "LEN" /\ packLeft' = packLeft - 1
    BY <1>4 DEF Close, Advance
  <2>2. Done' = Done + 1
    BY <1>1, <1>2, <2>1 DEF Done
  <2> QED
    BY <1>1, <1>2, <2>1, <2>2
<1>5. CASE ~(packLeft > 1)
  <2>1. Ends(o) /\ st' = "HDR" /\ qn' = Queue(o)
    BY <1>5 DEF Close, Fail
  <2>2. qn' = 0
    BY <1>1, <2>1, EndsEmpty
  <2>3. Done + 1 = LastMessage
    BY <1>1, <1>2, <1>3, <1>5 DEF Done
  <2> QED
    BY <1>1, <1>2, <2>1, <2>2, <2>3 DEF Idle
<1> QED
  BY <1>4, <1>5

\* Every cycle within a datagram keeps the count.
LEMMA IndexedSame ==
  ASSUME AccuseInv, AccuseInv', TrafficFits, Placed, Fitted, Indexed,
         NEW o \in Offers, NEW rdy, Cycle(o, rdy), Record(o, rdy), Same
  PROVE  Indexed'
<1> DEFINE Base == IndexAfter(sent, tx.n - 1)
           Full == IndexAfter(sent, tx.n)
<1>1. /\ FrameInv /\ History /\ ParserInv /\ Position /\ Unblamed /\ Send(o) /\ IdleKeeps \subseteq {0}
      /\ qn \in Nat /\ tx.n \in Nat /\ LastMessage \in Nat /\ tx.dg.count \in Nat /\ msgIdx \in Nat
  BY Sizes, Numbers DEF AccuseInv, FrameInv, Cycle, TrafficFits, ParserInv, TypeOK, History
<1>2. SUFFICES ASSUME tx.n >= 1, AllWell
               PROVE  msgIdx' = IF Idle' THEN Full ELSE Base + Fitting(tx.dg, Passed')
  BY DEF Same, Indexed, AllWell
<1>3. WellFormed(tx.dg)
  <2>1. tx.n \in 1..Len(sent) /\ sent[tx.n].dg = tx.dg
    BY <1>1, <1>2 DEF History
  <2> QED
    BY <1>2, <2>1 DEF AllWell
<1>4. tx'.n \notin errors' /\ tx.n \notin errors
  BY <1>3 DEF AccuseInv, Accused, Same
<1>5. /\ ~error' /\ ~dropPacket /\ ~Dropping(o, rdy) /\ ~BadKeep(o, rdy)
  BY <1>1, <1>4, CleanStep
<1>6. msgIdx = IF Idle THEN Full ELSE Base + Fitting(tx.dg, Passed)
  BY <1>2 DEF Indexed
<1>7. /\ Full = Base + Fitting(tx.dg, LastMessage) /\ Base \in Nat
      /\ Fitting(tx.dg, 0) = 0
      /\ \A j \in 0..LastMessage : Fitting(tx.dg, j) \in Nat
      /\ \A j \in 1..LastMessage : Fitting(tx.dg, j) =
              Fitting(tx.dg, j - 1) + (IF Oversize(tx.dg.msgs[j].len) THEN 0 ELSE 1)
  <2>1. tx.n - 1 \in 0..tx.n
    BY <1>1, <1>2
  <2> QED
    BY <1>1, <1>2, <2>1, IndexHere
<1> HIDE DEF Base, Full
<1>8. dropPacket' = FALSE
  <2>1. ~dropPacket' \/ tx'.n \in errors'
    BY DEF AccuseInv, Unblamed
  <2>2. dropPacket' \in BOOLEAN
    BY DEF AccuseInv, FrameInv, ParserInv, TypeOK
  <2> QED
    BY <1>4, <2>1, <2>2
<1>9. st # "HDR" => msgIdx = Base + Fitting(tx.dg, Done)
  BY <1>6 DEF Idle, Passed
<1>10. CASE Hdr(o, rdy)
  <2>1. st = "HDR" /\ qn >= 20 /\ BaseN \in Nat /\ ~DrainLive
    <3>1. st = "HDR" /\ DrainInt = HeaderBytes
      BY <1>10 DEF Hdr, In
    <3> QED
      BY <1>1, <3>1, Drains
  <2>2. msgIdx = Base
    <3>1. qn # 0
      BY <1>1, <2>1
    <3> QED
      BY <1>6, <1>7, <2>1, <3>1 DEF Idle, Passed
  <2>3. msgIdx' = msgIdx /\ packLeft' = tx.dg.count /\ packCount' = tx.dg.count
    BY <1>10 DEF Hdr, HeaderHere, recordVars
  <2>4. CASE tx.dg.count > 0
    <3>1. st' = "LEN"
      BY <1>10, <2>4 DEF Hdr, HeaderHere, Advance
    <3>2. Done' = 0
      BY <1>1, <2>3 DEF Done
    <3>3. ~Idle' /\ Passed' = 0
      BY <3>1, <3>2 DEF Idle, Passed
    <3> QED
      BY <1>7, <2>2, <2>3, <3>3
  <2>5. CASE ~(tx.dg.count > 0)
    <3>1. st' = "HDR" /\ Ends(o) /\ qn' = Queue(o)
      BY <1>5, <1>10, <2>5 DEF Hdr, HeaderHere, Fail
    <3>2. qn' = 0
      BY <1>1, <2>1, <3>1, EndsEmpty
    <3>3. Idle'
      BY <1>8, <3>1, <3>2 DEF Idle
    <3>4. LastMessage = 0
      BY <1>1, <1>3, <2>5 DEF WellFormed, LastMessage
    <3> QED
      BY <1>7, <2>2, <2>3, <3>3, <3>4
  <2> QED
    BY <2>4, <2>5
<1>11. CASE HdrShort(o, rdy)
  <2>1. ~eopSeen
    BY <1>5, <1>11 DEF HdrShort, Fail
  <2>2. /\ st = "HDR" /\ st' = "HDR" /\ msgIdx' = msgIdx
    BY <1>11, <2>1 DEF HdrShort, In, Advance, recordVars
  <2>3. /\ qn' = 0 => qn = 0 /\ ~Take(o)
        /\ qn = 0 /\ ~Take(o) => qn' = 0
    BY <1>1, <1>11, <2>1, HdrWaits
  <2>4. qn = 0 => ~Take(o)
    <3>1. SUFFICES ASSUME qn = 0, Take(o) PROVE FALSE
      OBVIOUS
    <3>2. tx.pos = tx.dg.size
      <4>1. tx.pos >= 1
        BY <1>1 DEF History
      <4> QED
        BY <1>1, <1>5, <2>2, <3>1, <4>1, Sizes DEF Position, AtHeader
    <3>3. Renewed
      BY <1>1, <3>1, <3>2, SentMoves
    <3> QED
      BY <1>1, <3>3 DEF Renewed, Same, History
  <2>5. Idle' <=> Idle
    BY <1>5, <1>8, <2>2, <2>3, <2>4 DEF Idle
  <2>6. Passed' = 0 /\ Passed = 0
    BY <2>2 DEF Passed
  <2> QED
    BY <1>6, <2>2, <2>5, <2>6
<1>12. CASE Capture(o, rdy) \/ Skip(o, rdy) \/ LenShort(o, rdy)
  <2>1. /\ st # "HDR" /\ st' # "HDR" /\ msgIdx' = msgIdx
        /\ packLeft' = packLeft /\ packCount' = packCount
    BY <1>5, <1>12 DEF Capture, Skip, LenShort, In, Advance, Fail, headerVars, recordVars
  <2>2. ~Idle' /\ Passed' = Done
    BY <2>1 DEF Idle, Passed, Done
  <2> QED
    BY <1>9, <2>1, <2>2
<1>13. CASE Stall(o, rdy) \/ Cap(o, rdy) \/ W0(o, rdy) \/ TS(o, rdy) \/ Body(o, rdy)
  <2>1. /\ st # "HDR" /\ st' # "HDR" /\ msgIdx' = msgIdx
        /\ packLeft' = packLeft /\ packCount' = packCount
    BY <1>13 DEF Stall, Cap, W0, TS, Body, Emission, In, Advance, headerVars, recordVars
  <2>2. ~Idle' /\ Passed' = Done
    BY <2>1 DEF Idle, Passed, Done
  <2> QED
    BY <1>9, <2>1, <2>2
<1>14. CASE NextMsg(o, rdy)
  <2>1. st = "NEXT" /\ Close(o, TRUE) /\ packCount' = packCount /\ msgIdx' = msgIdx + 1
    BY <1>14 DEF NextMsg, In, NextIdx
  <2>2. Behind
    BY <1>1, <1>4, <2>1 DEF Unblamed, Emitting
  <2>3. BaseN = qn /\ ~DrainLive
    BY <1>1, <2>1, Drains
  <2>4. /\ Done \in Nat /\ Done + 1 \in 1..LastMessage
        /\ \/ st' = "LEN" /\ Done' = Done + 1
           \/ Idle' /\ Done + 1 = LastMessage
    BY <1>3, <1>5, <1>8, <2>1, <2>2, <2>3, CloseIndexes
  <2>5. ~Oversize(tx.dg.msgs[Done + 1].len)
    <3>1. Held /\ ~Oversize(msgReg.len)
      BY <2>1 DEF Placed, Holds, Fitted, RecordActive
    <3>2. msgReg.j = Done + 1
      BY <1>4, <3>1 DEF Held
    <3> QED
      BY <3>1, <3>2 DEF Held
  <2>6. Fitting(tx.dg, Done + 1) = Fitting(tx.dg, Done) + 1 /\ Fitting(tx.dg, Done) \in Nat
    <3>1. (Done + 1) - 1 = Done /\ Done \in 0..LastMessage
      BY <1>1, <2>4
    <3> QED
      BY <1>7, <2>4, <2>5, <3>1
  <2>7. msgIdx' = Base + Fitting(tx.dg, Done + 1)
    BY <1>7, <1>9, <2>1, <2>6
  <2>8. CASE st' = "LEN" /\ Done' = Done + 1
    BY <2>7, <2>8 DEF Idle, Passed
  <2>9. CASE Idle' /\ Done + 1 = LastMessage
    BY <1>7, <2>7, <2>9
  <2> QED
    BY <2>4, <2>8, <2>9
<1>15. CASE Drained(o, rdy)
  <2>1. Close(o, FALSE) /\ packCount' = packCount /\ msgIdx' = msgIdx
    BY <1>15 DEF Drained, recordVars
  <2>2. Behind /\ BaseN = qn /\ ~DrainLive /\ st = "DRAIN"
    BY <1>1, <1>15, DrainedBehind
  <2>3. /\ Done \in Nat /\ Done + 1 \in 1..LastMessage
        /\ \/ st' = "LEN" /\ Done' = Done + 1
           \/ Idle' /\ Done + 1 = LastMessage
    BY <1>3, <1>5, <1>8, <2>1, <2>2, CloseIndexes
  <2>4. Oversize(tx.dg.msgs[Done + 1].len)
    BY <1>1, <1>5, <2>2 DEF Position, Skipping
  <2>5. Fitting(tx.dg, Done + 1) = Fitting(tx.dg, Done) /\ Fitting(tx.dg, Done) \in Nat
    <3>1. (Done + 1) - 1 = Done /\ Done \in 0..LastMessage
      BY <1>1, <2>3
    <3> QED
      BY <1>7, <2>3, <2>4, <3>1
  <2>6. msgIdx' = Base + Fitting(tx.dg, Done + 1)
    BY <1>9, <2>1, <2>2, <2>5
  <2>7. CASE st' = "LEN" /\ Done' = Done + 1
    BY <2>6, <2>7 DEF Idle, Passed
  <2>8. CASE Idle' /\ Done + 1 = LastMessage
    BY <1>7, <2>6, <2>8
  <2> QED
    BY <2>3, <2>7, <2>8
<1>16. CASE Draining(o, rdy)
  <2>1. /\ st # "HDR" /\ st' # "HDR" /\ msgIdx' = msgIdx
        /\ packLeft' = packLeft /\ packCount' = packCount
    BY <1>5, <1>16 DEF Draining, In, Advance, Fail, recordVars
  <2>2. ~Idle' /\ Passed' = Done
    BY <2>1 DEF Idle, Passed, Done
  <2> QED
    BY <1>9, <2>1, <2>2
<1> QED
  BY <1>5, <1>10, <1>11, <1>12, <1>13, <1>14, <1>15, <1>16 DEF Cycle

\* What another datagram leaves as it was.
LEMMA SentKept ==
  ASSUME AccuseInv, AccuseInv', Same \/ Renewed
  PROVE  /\ tx.n \in Nat /\ tx'.n \in Nat /\ tx.n <= tx'.n
         /\ Len(sent) = tx.n /\ Len(sent') = tx'.n
         /\ AllWell' => AllWell
         /\ \A n \in 1..tx.n : sent'[n] = sent[n]
         /\ \A n \in 0..tx.n : IndexAfter(sent', n) = IndexAfter(sent, n)
<1>1. FrameInv /\ History /\ History' /\ sent \in Seq(SentSet) /\ sent' \in Seq(SentSet)
  BY DEF AccuseInv, History, SentSet
<1>2. /\ tx.n \in Nat /\ tx'.n \in Nat /\ Len(sent) = tx.n /\ Len(sent') = tx'.n
  BY <1>1 DEF History
<1>3. tx.n <= tx'.n /\ \A n \in 1..tx.n : sent'[n] = sent[n]
  <2>1. CASE Same
    BY <1>2, <2>1 DEF Same
  <2>2. CASE Renewed
    BY <1>1, <1>2, <2>2, SentGrows
  <2> QED
    BY <2>1, <2>2
<1>4. \A n \in 0..tx.n : IndexAfter(sent', n) = IndexAfter(sent, n)
  BY <1>1, <1>2, <1>3, IndexKept
<1>5. AllWell' => AllWell
  <2>1. \A n \in 1..tx.n : n \in 1..tx'.n
    BY <1>2, <1>3
  <2> QED
    BY <1>2, <1>3, <2>1 DEF AllWell
<1> QED
  BY <1>2, <1>3, <1>4, <1>5

\* A new datagram counts on from the one before.
LEMMA IndexedNew ==
  ASSUME AccuseInv, AccuseInv', IdleKeeps \subseteq {0}, Started, Indexed,
         NEW o \in Offers, NEW rdy, Cycle(o, rdy), Record(o, rdy), Idle, Renewed, Take(o)
  PROVE  Indexed'
<1>1. /\ FrameInv /\ History /\ ParserInv /\ Send(o) /\ tx.n \in Nat
  BY DEF AccuseInv, FrameInv, History, Cycle
<1>2. SUFFICES ASSUME AllWell'
               PROVE  msgIdx' = IF Idle' THEN IndexAfter(sent', tx'.n)
                                ELSE IndexAfter(sent', tx'.n - 1) + Fitting(tx'.dg, Passed')
  BY DEF Indexed
<1>3. tx'.n = tx.n + 1 /\ AllWell /\ IndexAfter(sent', tx.n) = IndexAfter(sent, tx.n)
      /\ Len(sent') = tx'.n
  <2>1. tx.n \in 0..tx.n
    BY <1>1
  <2> QED
    BY <1>2, <2>1, SentKept DEF Renewed
<1>4. WellFormed(tx'.dg)
  <2>1. sent'[tx'.n] = [dg |-> tx'.dg, seq |-> tx'.seq]
    BY <1>1, <1>3 DEF AccuseInv, History
  <2>2. tx'.n \in 1..Len(sent')
    BY <1>1, <1>3
  <2> QED
    BY <1>2, <2>1, <2>2 DEF AllWell
<1>5. ~error'
  BY <1>4 DEF Record, AccuseInv, Accused
<1>6. st = "HDR" /\ qn = 0 /\ ~dropPacket
  BY DEF Idle
<1>7. HdrShort(o, rdy) /\ ~eopSeen
  <2>1. ~Hdr(o, rdy)
    <3>1. ~(qn >= 20)
      BY <1>6
    <3> QED
      BY <1>1, <1>6, <3>1, Drains DEF Hdr
  <2>2. HdrShort(o, rdy)
    BY <1>5, <1>6, <2>1 DEF Cycle, Dropping, BadKeep, Capture, Skip, LenShort, Stall, Cap, W0, TS, Body,
         Emission, NextMsg, Drained, Draining, In
  <2> QED
    BY <1>5, <2>2 DEF HdrShort, Fail
<1>8. st' = "HDR" /\ qn' # 0 /\ msgIdx' = msgIdx
  BY <1>1, <1>7, HdrWaits DEF HdrShort, recordVars
<1>9. ~Idle' /\ Passed' = 0
  BY <1>8 DEF Idle, Passed
<1>10. msgIdx = IndexAfter(sent, tx.n) /\ IndexAfter(sent, tx.n) \in Nat
  <2>1. IndexAfter(sent, 0) = 0 /\ \A n \in 0..tx.n : IndexAfter(sent, n) \in Nat
    BY <1>1, IndexHere
  <2>2. tx.n = 0 => msgIdx = 0
    BY DEF Started
  <2>3. tx.n # 0 => tx.n >= 1
    BY <1>1
  <2>4. tx.n \in 0..tx.n
    BY <1>1
  <2> QED
    BY <1>3, <2>1, <2>2, <2>3, <2>4 DEF Indexed
<1>11. Fitting(tx'.dg, 0) = 0
  BY FittingCounts DEF Renewed
<1>12. tx'.n - 1 = tx.n
  BY <1>1, <1>3
<1>13. IndexAfter(sent', tx'.n - 1) = IndexAfter(sent, tx.n)
  BY <1>3, <1>12
<1> QED
  BY <1>8, <1>9, <1>10, <1>11, <1>13

\* A word on the port keeps its index, a new one has that of its message.
LEMMA PortMoves ==
  ASSUME WordsInv, AccuseInv', TrafficFits, Started, Indexed, PortIndexed,
         NEW o \in Offers, NEW rdy, Cycle(o, rdy), Record(o, rdy)
  PROVE  PortIndexed'
<1>1. /\ AccuseInv /\ FrameInv /\ History /\ Send(o) /\ Placed /\ tx.n \in Nat
  BY DEF WordsInv, AccuseInv, Cycle, History
<1>2. Same \/ Renewed
  BY <1>1, SentMoves
<1>3. /\ tx.n \in Nat /\ tx'.n \in Nat /\ tx.n <= tx'.n
      /\ AllWell' => AllWell
      /\ \A n \in 1..tx.n : sent'[n] = sent[n]
      /\ \A n \in 0..tx.n : IndexAfter(sent', n) = IndexAfter(sent, n)
  BY <1>1, <1>2, SentKept
<1>4. CASE out' = out /\ out.valid
  <2> DEFINE n == out.word.n
  <2>1. n \in 1..tx.n
    BY <1>4 DEF PortIndexed
  <2>2. n \in 1..tx'.n /\ n - 1 \in 0..tx.n
    BY <1>3, <2>1
  <2>3. sent'[n] = sent[n] /\ IndexAfter(sent', n - 1) = IndexAfter(sent, n - 1)
    BY <1>3, <2>1, <2>2
  <2> QED
    BY <1>3, <1>4, <2>2, <2>3 DEF PortIndexed
<1>5. CASE ~out'.valid
  BY <1>5 DEF PortIndexed
<1>6. CASE Emitted(o, rdy)
  <2>1. Same
    BY <1>1, <1>6, EmittedSame
  <2>2. Held
    <3>1. RecordActive
      BY <1>6 DEF Emitted, W0, TS, Body, Emission, In, RecordActive
    <3> QED
      BY <1>1, <3>1 DEF Placed, Holds
  <2>3. /\ out'.word.n = msgReg.n /\ out'.word.j = msgReg.j /\ out'.word.idx = msgIdx
    BY <1>6 DEF Emitted, W0, TS, Body, Word
  <2>4. tx.n >= 1
    <3>1. SUFFICES ASSUME tx.n = 0 PROVE FALSE
      BY <1>1
    <3>2. tx.dg.msgs = <<>>
      BY <3>1 DEF Started
    <3>3. msgReg.j \in 1..Len(tx.dg.msgs)
      BY <2>2 DEF Held, LastMessage
    <3> QED
      BY <3>2, <3>3
  <2>5. tx.n \in 1..Len(sent) /\ sent[tx.n].dg = tx.dg
    BY <1>1, <2>4 DEF History
  <2>6. SUFFICES ASSUME AllWell
                 PROVE  msgIdx = IndexAfter(sent, tx.n - 1) + Fitting(sent[tx.n].dg, msgReg.j - 1)
    <3>1. out'.word.n = tx.n /\ tx'.n = tx.n /\ sent' = sent /\ tx.n \in 1..tx.n
      BY <1>1, <2>1, <2>2, <2>3, <2>4 DEF Held, Same
    <3> QED
      BY <2>3, <2>6, <3>1 DEF PortIndexed, AllWell
  <2>7. tx.n \notin errors
    BY <1>1, <2>5, <2>6 DEF AllWell, AccuseInv, Accused
  <2>8. msgReg.j = Done + 1
    BY <2>2, <2>7 DEF Held
  <2>9. msgReg.j - 1 = Done
    <3>1. Behind
      BY <1>1, <1>6, <2>7 DEF AccuseInv, Unblamed, Emitting, Emitted, W0, TS, Body, Emission, In
    <3>2. Done + 1 \in 1..LastMessage /\ Done \in 0..LastMessage /\ LastMessage \in Nat
      BY <1>1, <3>1, Numbers DEF Behind, AtMessage, Counted, LastMessage
    <3> QED
      BY <2>8, <3>2
  <2>10. msgIdx = IndexAfter(sent, tx.n - 1) + Fitting(tx.dg, Done)
    <3>1. st # "HDR"
      BY <1>6 DEF Emitted, W0, TS, Body, Emission, In
    <3> QED
      BY <2>4, <2>6, <3>1 DEF Indexed, Idle, Passed
  <2> QED
    BY <2>5, <2>9, <2>10
<1>7. CASE ~Emitted(o, rdy)
  <2>1. out' = Accepted(rdy) \/ out' = Silent
    <3>1. CASE Dropping(o, rdy) \/ BadKeep(o, rdy) \/ Hdr(o, rdy) \/ HdrShort(o, rdy)
               \/ Capture(o, rdy) \/ Skip(o, rdy) \/ LenShort(o, rdy) \/ Stall(o, rdy)
               \/ Drained(o, rdy) \/ Draining(o, rdy)
      BY <3>1 DEF Dropping, BadKeep, Hdr, HdrShort, Capture, Skip, LenShort, Stall, Drained, Draining
    <3>2. CASE Cap(o, rdy) \/ NextMsg(o, rdy)
      BY <3>2 DEF Cap, NextMsg
    <3>3. CASE Body(o, rdy) /\ ~(bi < BodyWords(msgReg))
      BY <3>3 DEF Body
    <3> QED
      BY <1>7, <3>1, <3>2, <3>3 DEF Cycle, Emitted
  <2>2. (out' = out /\ out.valid) \/ ~out'.valid
    <3>1. Silent.valid = FALSE
      BY DEF Silent
    <3> QED
      BY <2>1, <3>1 DEF Accepted
  <2> QED
    BY <1>4, <1>5, <2>2
<1> QED
  BY <1>6, <1>7

\* It holds at reset.
LEMMA IndexInit == HInit => IndexInv
<1> SUFFICES ASSUME HInit PROVE IndexInv
  OBVIOUS
<1>1. /\ tx = [dg |-> NoDatagram, seq |-> 0, n |-> 0, pos |-> 1] /\ msgIdx = 0
      /\ out = Silent /\ st = "HDR"
  BY DEF HInit, Init
<1>2. tx.n = 0 /\ tx.dg.msgs = <<>> /\ out.valid = FALSE
  BY <1>1 DEF NoDatagram, Silent
<1> QED
  BY <1>1, <1>2, WordsInit DEF IndexInv, Fitted, RecordActive, Started, Indexed, PortIndexed

\* It is inductive.
LEMMA IndexStep ==
  ASSUME TrafficFits, RegistersFit, SkippedSurely, IndexInv, [HNext]_hvars
  PROVE  IndexInv'
<1>1. WordsInv /\ WordsInv' /\ AccuseInv /\ AccuseInv'
  BY WordsStep DEF IndexInv, WordsInv
<1>2. CASE HNext
  <2>1. PICK o \in Offers, rdy \in Readiness : Cycle(o, rdy) /\ Record(o, rdy)
    BY <1>2 DEF HNext, HCycle
  <2>2. Send(o) /\ FrameInv /\ History /\ Placed /\ IdleKeeps \subseteq {0}
    BY <1>1, <2>1 DEF Cycle, AccuseInv, WordsInv, TrafficFits
  <2>3. Fitted'
    BY <1>1, <2>1, FittedMoves DEF IndexInv
  <2>4. Started'
    BY <1>1, <2>1, <2>2, StartedMoves DEF IndexInv
  <2>5. PortIndexed'
    BY <1>1, <2>1, PortMoves DEF IndexInv
  <2>6. Indexed'
    <3>1. CASE Same
      BY <1>1, <2>1, <2>2, <3>1, IndexedSame DEF IndexInv
    <3>2. CASE Idle /\ Take(o) /\ Renewed
      BY <1>1, <2>1, <2>2, <3>2, IndexedNew DEF IndexInv
    <3> QED
      BY <2>1, <2>2, <3>1, <3>2, SentMoves
  <2> QED
    BY <1>1, <2>3, <2>4, <2>5, <2>6 DEF IndexInv
<1>3. CASE UNCHANGED hvars
  <2>1. UNCHANGED <<tx, st, qn, msgReg, msgIdx, packLeft, packCount, dropPacket, out, sent>>
    BY <1>3 DEF hvars, vars, senderVars, headerVars, recordVars
  <2> QED
    BY <1>1, <2>1 DEF IndexInv, Fitted, RecordActive, Started, Indexed, PortIndexed, AllWell, Idle,
         Passed, Done, Oversize
<1> QED
  BY <1>2, <1>3

\* The words on the port are the oracle's: of each datagram an initial part of
\* its registers, each word once and in order, whole registers when the parser
\* is done with it and all of them if it is well formed; and their index
\* counts the messages before that fit in the queue.
THEOREM RegistersAlways ==
  ASSUME TrafficFits, RegistersFit, SkippedSurely
  PROVE  HSpec => []Registers
<1>1. IndexInv => Registers
  <2>1. SUFFICES ASSUME IndexInv PROVE Registers
    OBVIOUS
  <2>2. WordsMatch
    BY <2>1, WordsHold DEF IndexInv
  <2>3. IndexCounts
    BY <2>1 DEF IndexInv, PortIndexed, IndexCounts, AllWell
  <2> QED
    BY <2>2, <2>3 DEF Registers
<1>2. HInit => IndexInv
  BY IndexInit
<1>3. IndexInv /\ [HNext]_hvars => IndexInv'
  BY IndexStep
<1> QED
  BY <1>1, <1>2, <1>3, PTL DEF HSpec

=============================================================================
