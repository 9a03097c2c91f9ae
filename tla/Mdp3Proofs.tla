------------------------------- MODULE Mdp3Proofs -------------------------------
(***************************************************************************)
(* Proofs about Mdp3Stream, for any packets and any timing of the beats    *)
(* and of the consumer, and about the schema file of Mdp3Corpus.           *)
(*                                                                         *)
(* For both bus widths: the types (ParserInv) and, while no malformed      *)
(* tkeep is taken in CS_WAIT, that the capture and the decoder never work  *)
(* on the same buffer (Owners) and that the words in the FIFO and those    *)
(* still to be pushed are the ones owed (Books), hence RecordsInOrder.     *)
(* For the bus of 32 bits and packets that fit a datagram: where the       *)
(* capture is in the packet (Position) and what it has made of it so far   *)
(* (Account); from these InSync, Judged and GapsFound.                     *)
(*                                                                         *)
(* The two systems share no state: SchemaSafe, in the last section, is     *)
(* inductive by itself.                                                    *)
(***************************************************************************)
EXTENDS Mdp3Stream, Mdp3Corpus, FiniteSetTheorems, TLAPS

(***************************************************************************)
(* The packets and what the sender offers of them                          *)
(***************************************************************************)
\* What is captured and decoded.
Message == [n : Nat, j : Nat, wire : Wire]

SenderType == /\ tx \in [pk : Packet, n : 0..MaxPackets, pos : Nat]
              /\ tx.pos <= tx.pk.size

\* A beat of packet p from byte pos of it.
IsBeat(o, p, pos) ==
  /\ o.valid /\ o.pk = p /\ o.pos = pos
  /\ o.bytes \in 1..BYTES
  /\ pos + o.bytes <= p.size
  /\ o.last <=> pos + o.bytes = p.size
  /\ o.last \/ o.bytes = BYTES

LEMMA Widths == BYTES \in {4, 8}
<1>1. DW = 32 \/ DW = 64
  BY ParserAssumption
<1> QED
  BY <1>1 DEF BYTES

LEMMA PacketFields ==
  ASSUME NEW p \in Packet
  PROVE  /\ p.seq \in Nat /\ p.msgs \in Seq(Wire)
         /\ p.size \in Nat \ {0} /\ p.badBeat \in Nat
BY DEF Packet

LEMMA NoPacketIsPacket == NoPacket \in Packet
<1>1. <<>> \in Seq(Wire)
  OBVIOUS
<1> QED
  BY <1>1 DEF NoPacket, Packet

LEMMA StrayIsMessage == Stray \in Message
<1>1. 0 \in Nat /\ 0 \in {0, 46, 47, 52, 53} /\ 0 \in 0..255
  OBVIOUS
<1>2. {} \in SUBSET (1..255) /\ FALSE \in BOOLEAN
  OBVIOUS
<1>3. [size |-> 0, tpl |-> 0, signed |-> FALSE, n1 |-> 0, n2 |-> 0, badRefs |-> {}] \in Wire
  BY <1>1, <1>2, Zenon DEF Wire
<1> QED
  BY <1>1, <1>3, Zenon DEF Stray, Message

LEMMA BeatFields ==
  ASSUME NEW p \in Packet, NEW n, NEW pos \in Nat, pos < p.size,
         NEW o, o = Beat(p, n, pos)
  PROVE  /\ IsBeat(o, p, pos) /\ o.n = n
<1>1. p.size \in Nat
  BY PacketFields
<1>2. /\ o.valid = TRUE /\ o.pk = p /\ o.n = n /\ o.pos = pos
      /\ o.bytes = IF p.size - pos < BYTES THEN p.size - pos ELSE BYTES
  BY DEF Beat
<1>3. o.last <=> p.size - pos <= BYTES
  BY DEF Beat
<1> QED
  BY <1>1, <1>2, <1>3, Widths DEF IsBeat

\* Every offer is nothing, the next beat of the packet or the first of one.
OfferIs(o) ==
  \/ /\ o = NoBeat /\ ~o.valid /\ o.bytes = 0 /\ ~o.last /\ o.keepOk
     /\ o.pk = tx.pk /\ o.n = tx.n /\ o.pos = tx.pos
  \/ /\ tx.pos < tx.pk.size /\ o = Beat(tx.pk, tx.n, tx.pos)
     /\ IsBeat(o, tx.pk, tx.pos) /\ o.n = tx.n
  \/ /\ tx.pos = tx.pk.size /\ tx.n < MaxPackets
     /\ o.pk \in Packets /\ o = Beat(o.pk, tx.n + 1, 0)
     /\ IsBeat(o, o.pk, 0) /\ o.n = tx.n + 1

OfferType(o) ==
  /\ o.pk \in Packet /\ o.n \in 0..MaxPackets /\ o.pos \in Nat
  /\ o.bytes \in 0..BYTES /\ o.pos + o.bytes <= o.pk.size

LEMMA OfferFields ==
  ASSUME SenderType, NEW o \in Offers
  PROVE  OfferIs(o) /\ OfferType(o)
<1>1. /\ tx.pk \in Packet /\ tx.n \in 0..MaxPackets /\ tx.pos \in Nat
      /\ tx.pos <= tx.pk.size /\ tx.pk.size \in Nat
      /\ MaxPackets \in Nat
  BY PacketFields, ParserAssumption DEF SenderType
<1>2. CASE o = NoBeat
  <2>1. /\ o.valid = FALSE /\ o.bytes = 0 /\ o.last = FALSE /\ o.keepOk = TRUE
        /\ o.pk = tx.pk /\ o.n = tx.n /\ o.pos = tx.pos
    BY <1>2 DEF NoBeat
  <2>2. OfferIs(o)
    BY <1>2, <2>1 DEF OfferIs
  <2>3. OfferType(o)
    BY <1>1, <2>1, Widths DEF OfferType
  <2> QED
    BY <2>2, <2>3
<1>3. CASE tx.pos < tx.pk.size /\ o = Beat(tx.pk, tx.n, tx.pos)
  <2>1. /\ IsBeat(o, tx.pk, tx.pos) /\ o.n = tx.n
    BY <1>1, <1>3, BeatFields
  <2>2. OfferIs(o)
    BY <1>3, <2>1 DEF OfferIs
  <2>3. /\ o.pk = tx.pk /\ o.pos = tx.pos /\ o.bytes \in 1..BYTES
        /\ tx.pos + o.bytes <= tx.pk.size
    BY <2>1 DEF IsBeat
  <2>4. OfferType(o)
    BY <1>1, <2>1, <2>3, Widths DEF OfferType
  <2> QED
    BY <2>2, <2>4
<1>4. CASE tx.pos >= tx.pk.size /\ tx.n # MaxPackets
           /\ o \in {Beat(p, tx.n + 1, 0) : p \in Packets}
  <2>1. PICK p \in Packets : o = Beat(p, tx.n + 1, 0)
    BY <1>4
  <2>2. p \in Packet /\ p.size \in Nat \ {0}
    BY PacketFields, ParserAssumption
  <2>3. 0 \in Nat /\ 0 < p.size
    BY <2>2
  <2>4. /\ IsBeat(o, p, 0) /\ o.n = tx.n + 1
    BY <2>1, <2>2, <2>3, BeatFields
  <2>5. /\ o.pk = p /\ o.pos = 0 /\ o.bytes \in 1..BYTES /\ 0 + o.bytes <= p.size
    BY <2>4 DEF IsBeat
  <2>6. tx.pos = tx.pk.size /\ tx.n < MaxPackets /\ tx.n + 1 \in 0..MaxPackets
    BY <1>1, <1>4
  <2>7. OfferIs(o)
    BY <2>1, <2>4, <2>5, <2>6 DEF OfferIs
  <2>8. OfferType(o)
    BY <2>2, <2>4, <2>5, <2>6, Widths DEF OfferType
  <2> QED
    BY <2>7, <2>8
<1> QED
  BY <1>1, <1>2, <1>3, <1>4 DEF Offers

(***************************************************************************)
(* What is under way once a cycle has taken its beat                       *)
(***************************************************************************)
LEMMA SenderStep ==
  ASSUME SenderType, NEW o \in Offers, Send(o)
  PROVE  /\ SenderType'
         /\ tx'.pk = Source(o).pk /\ tx'.n = Source(o).n
         /\ tx'.pos = Source(o).pos + (IF Take(o) THEN o.bytes ELSE 0)
<1>1. OfferType(o) /\ OfferIs(o)
  BY OfferFields
<1>2. CASE Take(o)
  <2>1. tx' = [pk |-> o.pk, n |-> o.n, pos |-> o.pos + o.bytes]
    BY <1>2 DEF Send
  <2>2. /\ o.pk \in Packet /\ o.n \in 0..MaxPackets /\ o.pos + o.bytes \in Nat
        /\ o.pos + o.bytes <= o.pk.size
    BY <1>1, Widths DEF OfferType
  <2> QED
    BY <1>2, <2>1, <2>2 DEF SenderType, Source
<1>3. CASE ~Take(o)
  <2>1. tx' = tx
    BY <1>3 DEF Send
  <2>2. tx.pos \in Nat
    BY DEF SenderType
  <2> QED
    BY <1>3, <2>1, <2>2 DEF SenderType, Source
<1> QED
  BY <1>2, <1>3

LEMMA SourceType ==
  ASSUME SenderType, NEW o \in Offers
  PROVE  /\ Source(o).pk \in Packet /\ Source(o).n \in Nat /\ Source(o).pos \in Nat
<1>1. OfferType(o)
  BY OfferFields
<1> QED
  BY <1>1 DEF OfferType, Source, SenderType

\* What is read at the front of the queue is a message of the packet or none.
LEMMA MessageRead ==
  ASSUME SenderType, NEW o \in Offers
  PROVE  MessageAt(o) \in Message
<1> DEFINE pk == Source(o).pk
           here == {j \in 1..Len(pk.msgs) : Begin(pk, j) = AtFront(o)}
<1>1. pk \in Packet /\ Source(o).n \in Nat
  BY SourceType
<1>2. CASE here = {}
  BY <1>2, StrayIsMessage DEF MessageAt
<1>3. CASE here # {}
  <2>1. PICK j \in here : MessageAt(o) = [n |-> Source(o).n, j |-> j, wire |-> pk.msgs[j]]
    BY <1>3 DEF MessageAt
  <2>2. pk.msgs \in Seq(Wire)
    BY <1>1, PacketFields
  <2>3. pk.msgs[j] \in Wire /\ j \in Nat
    BY <2>2
  <2> QED
    BY <1>1, <2>1, <2>3 DEF Message
<1> QED
  BY <1>2, <1>3

(***************************************************************************)
(* The types of the two processes                                          *)
(***************************************************************************)
States == {"HDR", "SIZE", "BODY", "SKIP", "WAIT", "DISCARD"}
BusType == tready \in BOOLEAN /\ pkt_end \in BOOLEAN /\ qavail \in 0..255

CaptureType ==
  /\ cst \in States /\ hdr_pos \in 0..PKT_HDR
  /\ gap_check \in BOOLEAN /\ first_pkt \in BOOLEAN /\ wait_hdr \in BOOLEAN
  /\ gap \in BOOLEAN
  /\ cap_sel \in 0..1 /\ cap_len \in 0..MAX_MSG /\ skip_left \in Nat
  /\ cap \in Message /\ mbuf \in [0..1 -> Message]

\* A message of a size that the buffers are made for.
Fitting(m) == m.wire.size \in MSG_PREFIX..MAX_MSG

\* The message being stored, and how much of it is.
Storing == cst = "BODY" => Fitting(cap) /\ cap_len \in 2..(CapSize - 1)

CapturePart == BusType /\ CaptureType /\ Storing

LEMMA AvailType ==
  ASSUME SenderType, BusType, NEW o \in Offers
  PROVE  AvailEff(o) \in Nat /\ AvailEff(o) >= qavail
<1>1. OfferType(o)
  BY OfferFields
<1> QED
  BY <1>1, Widths DEF OfferType, BusType, AvailEff

LEMMA CapFields ==
  ASSUME CaptureType
  PROVE  CapSize \in Nat
BY DEF CaptureType, CapSize, Message, Wire

\* The queue's counter is a byte whatever is consumed, and so is an empty one.
LEMMA ConsumeType ==
  ASSUME SenderType, BusType, NEW o \in Offers, NEW n \in Int, Consume(o, n)
  PROVE  qavail' \in 0..255 /\ pkt_end' \in BOOLEAN
<1>1. OfferType(o)
  BY OfferFields
<1> DEFINE b == IF Appended(o) THEN o.bytes ELSE 0
<1>2. b \in Int
  BY <1>1, Widths DEF OfferType
<1>3. qavail' = (qavail + b - n) % 256
  BY DEF Consume, MAX_MSG
<1> HIDE DEF b
<1>4. qavail' \in 0..255
  <2>1. qavail + b - n \in Int
    BY <1>2 DEF BusType
  <2>2. \A x \in Int : x % 256 \in 0..255
    OBVIOUS
  <2> QED
    BY <1>3, <2>1, <2>2
<1>5. pkt_end' = (pkt_end \/ (Appended(o) /\ o.last))
  BY DEF Consume
<1>6. pkt_end' \in BOOLEAN
  BY <1>5, Zenon
<1> QED
  BY <1>4, <1>6

LEMMA FlushType ==
  ASSUME Flush
  PROVE  qavail' \in 0..255 /\ pkt_end' \in BOOLEAN
<1>1. pkt_end' \in BOOLEAN
  BY Zenon DEF Flush
<1> QED
  BY <1>1 DEF Flush

LEMMA RestartType ==
  ASSUME Restart
  PROVE  /\ qavail' \in 0..255 /\ pkt_end' \in BOOLEAN
         /\ cst' = "HDR" /\ hdr_pos' \in 0..PKT_HDR
BY FlushType DEF Restart, PKT_HDR

LEMMA QuietType ==
  ASSUME Quiet
  PROVE  gap' \in BOOLEAN
BY Zenon DEF Quiet

LEMMA ReadyType ==
  ASSUME NEW o, Capture(o)
  PROVE  tready' \in BOOLEAN
<1>1. tready' = Ready(o)
  BY DEF Capture
<1>2. Ready(o) \in BOOLEAN
  BY Zenon DEF Ready
<1> QED
  BY <1>1, <1>2

LEMMA SwitchType ==
  ASSUME CaptureType, NEW next \in {"HDR", "SIZE"}, Switch(next)
  PROVE  /\ cst' \in {next, "WAIT"} /\ wait_hdr' \in BOOLEAN /\ cap_sel' \in 0..1
<1>1. CASE ~occ[Other]
  <2>1. wait_hdr' \in BOOLEAN
    BY <1>1, Zenon DEF Switch
  <2> QED
    BY <1>1, <2>1 DEF Switch, CaptureType, Other
<1>2. CASE occ[Other]
  <2>1. cap_sel' = cap_sel /\ wait_hdr' = (next = "HDR") /\ cst' = "WAIT"
    BY <1>2 DEF Switch, Same
  <2>2. wait_hdr' \in BOOLEAN
    BY <2>1, Zenon
  <2> QED
    BY <2>1, <2>2 DEF CaptureType
<1> QED
  BY <1>1, <1>2

\* The variables of the capture after a step, without those of the bus.
CaptureNext == CaptureType' /\ Storing' /\ qavail' \in 0..255 /\ pkt_end' \in BOOLEAN

LEMMA BadKeepTypes ==
  ASSUME SenderType, CapturePart, NEW o \in Offers, BadKeep(o)
  PROVE  CaptureNext
<1>1. gap' \in BOOLEAN /\ gap_check' \in BOOLEAN
  BY QuietType, Zenon DEF BadKeep
<1>2. UNCHANGED <<first_pkt, wait_hdr, exp_seq, cap_sel, skip_left, cap, mbuf>>
  BY DEF BadKeep
<1>3. CASE o.last
  <2>1. Restart /\ cap_len' = 0
    BY <1>3 DEF BadKeep
  <2> QED
    BY <1>1, <1>2, <2>1, RestartType
    DEF CapturePart, CaptureType, Storing, CaptureNext, MAX_MSG, States
<1>4. CASE ~o.last
  <2>1. cst' = "DISCARD" /\ UNCHANGED <<qavail, pkt_end, hdr_pos, cap_len>>
    BY <1>4 DEF BadKeep
  <2> QED
    BY <1>1, <1>2, <2>1
    DEF CapturePart, CaptureType, BusType, Storing, CaptureNext, States
<1> QED
  BY <1>3, <1>4

LEMMA HdrTypes ==
  ASSUME SenderType, CapturePart, NEW o \in Offers, Hdr(o)
  PROVE  CaptureNext
<1>1. AvailEff(o) \in Nat
  BY AvailType DEF CapturePart
<1>2. HdrTake(o) \in Nat /\ hdr_pos + HdrTake(o) \in 0..PKT_HDR
  BY <1>1 DEF CapturePart, CaptureType, HdrTake, PKT_HDR
<1>3. /\ gap' \in BOOLEAN
      /\ UNCHANGED <<first_pkt, wait_hdr, exp_seq, cap_sel, cap_len, skip_left, cap, mbuf>>
  BY QuietType DEF Hdr
<1>4. CASE EndEff(o) /\ AvailEff(o) < PKT_HDR - hdr_pos
  <2>1. Restart /\ gap_check' = gap_check
    BY <1>4 DEF Hdr, Same
  <2> QED
    BY <1>3, <2>1, RestartType DEF CapturePart, CaptureType, Storing, CaptureNext, States
<1>5. CASE ~(EndEff(o) /\ AvailEff(o) < PKT_HDR - hdr_pos)
  <2>1. qavail' \in 0..255 /\ pkt_end' \in BOOLEAN
    <3>1. Consume(o, HdrTake(o))
      BY <1>5 DEF Hdr
    <3> QED
      BY <1>2, <3>1, ConsumeType DEF CapturePart
  <2>2. hdr_pos' \in 0..PKT_HDR
    BY <1>2, <1>5 DEF Hdr
  <2>3. cst' \in {"HDR", "SIZE"} /\ gap_check' \in BOOLEAN
    BY <1>5 DEF Hdr, In, CapturePart, CaptureType
  <2> QED
    BY <1>3, <2>1, <2>2, <2>3 DEF CapturePart, CaptureType, Storing, CaptureNext, States
<1> QED
  BY <1>4, <1>5

LEMMA SizeWaitTypes ==
  ASSUME SenderType, CapturePart, NEW o \in Offers, SizeWait(o)
  PROVE  CaptureNext
<1>1. Consume(o, 0) /\ UNCHANGED captureVars /\ gap' \in BOOLEAN
  BY QuietType DEF SizeWait
<1>2. qavail' \in 0..255 /\ pkt_end' \in BOOLEAN
  BY <1>1, ConsumeType DEF CapturePart
<1> QED
  BY <1>1, <1>2
  DEF captureVars, CapturePart, CaptureType, Storing, CaptureNext, CapSize, Fitting

LEMMA SizeTypes ==
  ASSUME SenderType, CapturePart, NEW o \in Offers, Size(o)
  PROVE  CaptureNext
<1> DEFINE m == MessageAt(o)
           size == m.wire.size
<1>1. m \in Message
  BY MessageRead
<1>2. size \in Nat
  BY <1>1 DEF Message, Wire
<1> HIDE DEF m
<1>3. gap' \in BOOLEAN /\ first_pkt' \in BOOLEAN
  <2>1. gap' = (gap_check /\ Lost(o)) /\ first_pkt' = (first_pkt \/ gap_check)
    BY DEF Size
  <2> QED
    BY <2>1, Zenon
<1>4. gap_check' \in BOOLEAN /\ UNCHANGED <<wait_hdr, cap_sel, mbuf>>
  BY Zenon DEF Size
<1>5. CASE EndEff(o) /\ (BadSize(size) \/ AvailEff(o) < size)
  <2>1. Restart /\ UNCHANGED <<cap_len, skip_left, cap>>
    BY <1>5 DEF Size, m
  <2> QED
    BY <1>3, <1>4, <2>1, RestartType
    DEF CapturePart, CaptureType, Storing, CaptureNext, States
<1>6. CASE ~(EndEff(o) /\ (BadSize(size) \/ AvailEff(o) < size))
  <2>1. Consume(o, 2) /\ hdr_pos' = hdr_pos
    BY <1>6 DEF Size, m, Same
  <2>2. qavail' \in 0..255 /\ pkt_end' \in BOOLEAN
    BY <2>1, ConsumeType DEF CapturePart
  <2>3. CASE BadSize(size)
    <3>1. cst' = "SKIP" /\ skip_left' = SkipLeft(size) /\ UNCHANGED <<cap_len, cap>>
      BY <1>6, <2>3 DEF Size, m
    <3>2. SkipLeft(size) \in Nat
      BY <1>2 DEF SkipLeft
    <3> QED
      BY <1>3, <1>4, <2>1, <2>2, <3>1, <3>2
      DEF CapturePart, CaptureType, Storing, CaptureNext, States
  <2>4. CASE ~BadSize(size)
    <3>1. cst' = "BODY" /\ cap' = m /\ cap_len' = 2 /\ skip_left' = skip_left
      BY <1>6, <2>4 DEF Size, m, Same
    <3>2. Fitting(cap') /\ CapSize' \in 10..256
      BY <1>2, <2>4, <3>1 DEF BadSize, Fitting, MSG_PREFIX, MAX_MSG, CapSize
    <3>3. CaptureType'
      BY <1>1, <1>3, <1>4, <2>1, <3>1 DEF CapturePart, CaptureType, States, MAX_MSG
    <3> QED
      BY <2>2, <3>1, <3>2, <3>3 DEF Storing, CaptureNext, CapSize
  <2> QED
    BY <2>3, <2>4
<1> QED
  BY <1>5, <1>6

LEMMA CompleteTypes ==
  ASSUME SenderType, CapturePart, NEW o \in Offers, Complete(o)
  PROVE  CaptureNext
<1>1. /\ gap' \in BOOLEAN
      /\ UNCHANGED <<gap_check, first_pkt, exp_seq, cap_len, skip_left, cap>>
  BY QuietType DEF Complete
<1>2. mbuf' \in [0..1 -> Message]
  BY DEF Complete, CapturePart, CaptureType
<1>3. /\ cst' \in {"HDR", "SIZE", "WAIT"} /\ wait_hdr' \in BOOLEAN /\ cap_sel' \in 0..1
      /\ qavail' \in 0..255 /\ pkt_end' \in BOOLEAN /\ hdr_pos' \in 0..PKT_HDR
  <2>1. CASE EndEff(o)
    <3>1. Flush /\ hdr_pos' = 0 /\ Switch("HDR")
      BY <2>1 DEF Complete
    <3> QED
      BY <3>1, FlushType, SwitchType DEF CapturePart, PKT_HDR
  <2>2. CASE ~EndEff(o)
    <3>1. Consume(o, CapSize - cap_len) /\ hdr_pos' = hdr_pos /\ Switch("SIZE")
      BY <2>2 DEF Complete, Same
    <3>2. CapSize - cap_len \in Int
      BY CapFields DEF CapturePart, CaptureType
    <3> QED
      BY <3>1, <3>2, ConsumeType, SwitchType DEF CapturePart, CaptureType
  <2> QED
    BY <2>1, <2>2
<1> QED
  BY <1>1, <1>2, <1>3 DEF CapturePart, CaptureType, Storing, CaptureNext, States

LEMMA BodyTypes ==
  ASSUME SenderType, CapturePart, NEW o \in Offers, Body(o)
  PROVE  CaptureNext
<1>1. /\ gap' \in BOOLEAN
      /\ UNCHANGED <<gap_check, first_pkt, wait_hdr, exp_seq, cap_sel, skip_left, cap, mbuf>>
  BY QuietType DEF Body
<1>2. AvailEff(o) \in Nat /\ CapSize \in Nat /\ CapSize' = CapSize
  BY <1>1, AvailType, CapFields DEF CapturePart, CapSize
<1>3. CASE EndEff(o) /\ AvailEff(o) # 0
  <2>1. Restart /\ cap_len' = 0
    BY <1>3 DEF Body
  <2> QED
    BY <1>1, <2>1, RestartType
    DEF CapturePart, CaptureType, Storing, CaptureNext, MAX_MSG, States
<1>4. CASE ~(EndEff(o) /\ AvailEff(o) # 0)
  <2>1. /\ Consume(o, AvailEff(o)) /\ cap_len' = cap_len + AvailEff(o)
        /\ cst' = cst /\ hdr_pos' = hdr_pos
    BY <1>4 DEF Body
  <2>2. qavail' \in 0..255 /\ pkt_end' \in BOOLEAN
    BY <1>2, <2>1, ConsumeType DEF CapturePart
  <2>3. /\ cst = "BODY" /\ Fitting(cap) /\ cap_len \in 2..(CapSize - 1)
        /\ AvailEff(o) < CapSize - cap_len
    BY DEF Body, In, CapturePart, Storing
  <2>4. Fitting(cap') /\ CapSize <= 256
    BY <1>1, <1>2, <2>3 DEF Fitting, MAX_MSG, MSG_PREFIX, CapSize
  <2>5. cap_len' \in 2..(CapSize' - 1) /\ cap_len' \in 0..256
    <3>1. cap_len' \in 2..(CapSize - 1)
      BY <1>2, <2>1, <2>3
    <3> QED
      BY <1>2, <2>4, <3>1
  <2> QED
    BY <1>1, <2>1, <2>2, <2>4, <2>5
    DEF CapturePart, CaptureType, Storing, CaptureNext, MAX_MSG
<1> QED
  BY <1>3, <1>4

LEMMA SkipTypes ==
  ASSUME SenderType, CapturePart, NEW o \in Offers, Skip(o)
  PROVE  CaptureNext
<1> DEFINE past == AvailEff(o) >= skip_left
           n == IF past THEN skip_left ELSE AvailEff(o)
<1>1. /\ gap' \in BOOLEAN
      /\ UNCHANGED <<gap_check, first_pkt, wait_hdr, exp_seq, cap_sel, cap_len, cap, mbuf>>
  BY QuietType DEF Skip
<1>2. AvailEff(o) \in Nat /\ skip_left \in Nat
  BY AvailType DEF CapturePart, CaptureType
<1>3. n \in Nat /\ skip_left' \in Nat
  <2>1. skip_left' = IF past THEN skip_left ELSE skip_left - n
    BY DEF Skip
  <2> QED
    BY <1>2, <2>1
<1>4. CASE EndEff(o)
  <2>1. Restart
    BY <1>4 DEF Skip
  <2> QED
    BY <1>1, <1>3, <2>1, RestartType
    DEF CapturePart, CaptureType, Storing, CaptureNext, States
<1>5. CASE ~EndEff(o)
  <2>1. Consume(o, n) /\ hdr_pos' = hdr_pos /\ cst' \in {"SIZE", "SKIP"}
    BY <1>5 DEF Skip, Same
  <2>2. qavail' \in 0..255 /\ pkt_end' \in BOOLEAN
    BY <1>3, <2>1, ConsumeType DEF CapturePart
  <2> QED
    BY <1>1, <1>3, <2>1, <2>2 DEF CapturePart, CaptureType, Storing, CaptureNext, States
<1> QED
  BY <1>4, <1>5

LEMMA WaitTypes ==
  ASSUME SenderType, CapturePart, NEW o \in Offers, Wait(o)
  PROVE  CaptureNext
<1>1. /\ gap' \in BOOLEAN /\ Consume(o, 0)
      /\ UNCHANGED <<hdr_pos, gap_check, first_pkt, exp_seq, cap_len, skip_left, cap, mbuf>>
  BY QuietType DEF Wait
<1>2. qavail' \in 0..255 /\ pkt_end' \in BOOLEAN
  BY <1>1, ConsumeType DEF CapturePart
<1>3. /\ cst' \in {"HDR", "SIZE", "WAIT"} /\ wait_hdr' \in BOOLEAN /\ cap_sel' \in 0..1
  <2>1. wait_hdr' \in BOOLEAN
    BY Zenon DEF Wait, CapturePart, CaptureType
  <2> QED
    BY <2>1 DEF Wait, In, Other, CapturePart, CaptureType
<1> QED
  BY <1>1, <1>2, <1>3 DEF CapturePart, CaptureType, Storing, CaptureNext, States

LEMMA DiscardTypes ==
  ASSUME SenderType, CapturePart, NEW o \in Offers, Discard(o)
  PROVE  CaptureNext
<1>1. /\ gap' \in BOOLEAN
      /\ UNCHANGED <<gap_check, first_pkt, wait_hdr, exp_seq, cap_sel, cap, mbuf>>
  BY QuietType DEF Discard
<1>2. CASE EndEff(o)
  <2>1. Restart /\ cap_len' = 0 /\ skip_left' = 0
    BY <1>2 DEF Discard
  <2> QED
    BY <1>1, <2>1, RestartType
    DEF CapturePart, CaptureType, Storing, CaptureNext, MAX_MSG, States
<1>3. CASE ~EndEff(o)
  <2>1. Consume(o, 0) /\ UNCHANGED <<cst, hdr_pos, cap_len, skip_left>> /\ cst = "DISCARD"
    BY <1>3 DEF Discard, In
  <2>2. qavail' \in 0..255 /\ pkt_end' \in BOOLEAN
    BY <2>1, ConsumeType DEF CapturePart
  <2> QED
    BY <1>1, <2>1, <2>2 DEF CapturePart, CaptureType, Storing, CaptureNext
<1> QED
  BY <1>2, <1>3

LEMMA CaptureTypes ==
  ASSUME SenderType, CapturePart, NEW o \in Offers, Capture(o)
  PROVE  CapturePart'
<1>1. CaptureNext
  <2>1. \/ BadKeep(o) \/ Hdr(o) \/ SizeWait(o) \/ Size(o)
        \/ Complete(o) \/ Body(o) \/ Skip(o) \/ Wait(o) \/ Discard(o)
    BY DEF Capture
  <2> QED
    BY <2>1, BadKeepTypes, HdrTypes, SizeWaitTypes, SizeTypes, CompleteTypes, BodyTypes,
       SkipTypes, WaitTypes, DiscardTypes
<1>2. tready' \in BOOLEAN
  BY ReadyType
<1> QED
  BY <1>1, <1>2 DEF CapturePart, BusType, CaptureNext

(***************************************************************************)
(* The buffers                                                             *)
(***************************************************************************)
\* A buffer that counts as full holds a message that fits.
Slots == occ \in [0..1 -> BOOLEAN] /\ \A s \in 0..1 : occ[s] => Fitting(mbuf[s])

\* What a cycle of the capture does to them.
Stores(o) ==
  \A s \in 0..1 : IF s \in Filled(o) THEN mbuf'[s] = cap /\ Fitting(cap)
                  ELSE mbuf'[s] = mbuf[s]

\* A message that has arrived is stored in this cycle.
LEMMA FilledCompletes ==
  ASSUME SenderType, CapturePart, NEW o \in Offers, Capture(o),
         In("BODY", o), AvailEff(o) >= CapSize - cap_len
  PROVE  Complete(o)
<1>1. ~BadKeep(o)
  BY Zenon DEF BadKeep, In
<1>2. cst = "BODY"
  BY DEF In
<1>3. ~Hdr(o) /\ ~SizeWait(o) /\ ~Skip(o) /\ ~Wait(o) /\ ~Discard(o)
  BY <1>2 DEF Hdr, SizeWait, Skip, Wait, Discard, In
<1>4. ~Size(o)
  BY <1>2 DEF Size, In
<1>5. ~Body(o)
  <2>1. AvailEff(o) \in Nat /\ CapSize - cap_len \in Int
    BY AvailType, CapFields DEF CapturePart, CaptureType
  <2> QED
    BY <2>1 DEF Body
<1> QED
  BY <1>1, <1>3, <1>4, <1>5, Zenon DEF Capture

LEMMA CaptureStores ==
  ASSUME SenderType, CapturePart, NEW o \in Offers, Capture(o)
  PROVE  Stores(o)
<1>1. mbuf \in [0..1 -> Message] /\ cap_sel \in 0..1
  BY DEF CapturePart, CaptureType
<1>2. CASE In("BODY", o) /\ AvailEff(o) >= CapSize - cap_len
  <2>1. Filled(o) = {cap_sel}
    BY <1>2 DEF Filled
  <2>2. Complete(o)
    BY <1>2, FilledCompletes
  <2>3. mbuf' = [mbuf EXCEPT ![cap_sel] = cap]
    BY <2>2 DEF Complete
  <2>4. Fitting(cap)
    BY <1>2 DEF In, CapturePart, Storing
  <2> QED
    BY <1>1, <2>1, <2>3, <2>4 DEF Stores
<1>3. CASE ~(In("BODY", o) /\ AvailEff(o) >= CapSize - cap_len)
  <2>1. Filled(o) = {}
    BY <1>3 DEF Filled
  <2>2. mbuf' = mbuf
    BY <1>3 DEF Capture, BadKeep, Hdr, SizeWait, Size, Complete, Body, Skip, Wait, Discard,
                captureVars
  <2> QED
    BY <2>1, <2>2 DEF Stores
<1> QED
  BY <1>2, <1>3

\* The occupancy after a cycle: what was filled or full, unless it is freed.
LEMMA HoldsType ==
  ASSUME Slots, NEW o
  PROVE  /\ Holds(o) \in [0..1 -> BOOLEAN]
         /\ \A s \in 0..1 : Holds(o)[s] <=> occ[s] \/ s \in Filled(o)
<1>1. \A s \in 0..1 : (occ[s] \/ s \in Filled(o)) \in BOOLEAN
  BY Zenon
<1> QED
  BY <1>1, Zenon DEF Holds

Occupies(o) == /\ occ' \in [0..1 -> BOOLEAN]
               /\ \A s \in 0..1 : occ'[s] => occ[s] \/ s \in Filled(o)

LEMMA KeepsOccupies ==
  ASSUME Slots, NEW o, Keeps(o)
  PROVE  Occupies(o)
BY HoldsType, Zenon DEF Keeps, Occupies

LEMMA FreesOccupies ==
  ASSUME Slots, NEW o, Frees(o), dec_sel \in 0..1
  PROVE  Occupies(o)
<1> DEFINE h == Holds(o)
<1>1. h \in [0..1 -> BOOLEAN] /\ \A s \in 0..1 : h[s] <=> occ[s] \/ s \in Filled(o)
  BY HoldsType
<1>2. occ' = [h EXCEPT ![dec_sel] = FALSE]
  BY DEF Frees
<1> HIDE DEF h
<1>3. FALSE \in BOOLEAN
  OBVIOUS
<1>4. occ' \in [0..1 -> BOOLEAN]
  BY <1>1, <1>2, <1>3, Zenon
<1>5. \A s \in 0..1 : occ'[s] => h[s]
  BY <1>1, <1>2
<1> QED
  BY <1>1, <1>4, <1>5, Zenon DEF Occupies

LEMMA DecodeOccupies ==
  ASSUME Slots, dec_sel \in 0..1, NEW o, NEW rdy, Decode(o, rdy)
  PROVE  Occupies(o)
<1>1. Keeps(o) \/ Frees(o)
  BY DEF Decode, Idle, Header, Root, Group1, Entry1, Dim2, Entry2, Push, Pushed, Pass,
         Full, Done, Plain
<1> QED
  BY <1>1, KeepsOccupies, FreesOccupies

LEMMA SlotsStep ==
  ASSUME Slots, NEW o, Stores(o), Occupies(o)
  PROVE  Slots'
<1>1. ASSUME NEW s \in 0..1, occ'[s] PROVE Fitting(mbuf'[s])
  <2>1. CASE s \in Filled(o)
    BY <2>1 DEF Stores, Fitting
  <2>2. CASE s \notin Filled(o)
    BY <1>1, <2>2 DEF Stores, Occupies, Slots, Fitting
  <2> QED
    BY <2>1, <2>2
<1> QED
  BY <1>1 DEF Slots, Occupies, Fitting

(***************************************************************************)
(* The decoder                                                             *)
(***************************************************************************)
DecodeStates == {"IDLE", "HDR", "ROOT", "G1", "G1_ENT", "G2_DIM", "G2_ENT", "PUSH",
                 "PASS", "DONE"}
DecodeType ==
  /\ dst \in DecodeStates /\ dec_sel \in 0..1 /\ d \in Message
  /\ g_idx \in Nat /\ g1_mode \in BOOLEAN /\ r_idx \in 0..18
  /\ p_n \in 0..3 /\ p_off \in 0..MAX_MSG /\ p_cnt \in 0..3

\* The message that is decoded fits, and a passthrough stays within it.
Decoding ==
  /\ dst = "HDR" => Fitting(mbuf[dec_sel])
  /\ dst \notin {"IDLE", "HDR"} => Fitting(d)
  /\ dst = "PASS" /\ p_n = 2 => p_off \in MSG_PREFIX..(d.wire.size - 1)

DecodePart == DecodeType /\ Decoding

\* A word of the FIFO.
FifoWord == [n : Nat, j : Nat, rec : Nat, idx : Nat, last : BOOLEAN]

\* Exactly when the core counts a word, one is pushed.
Pushes(rdy) == IF push_commit THEN \E w \in FifoWord : PushWord(rdy, w) ELSE NoPush(rdy)

\* The decoder after a step; a message is chosen from a buffer that is full now.
DecodeNext ==
  /\ DecodeType'
  /\ dst' = "HDR" => Fitting(mbuf[dec_sel'])
  /\ dst' \notin {"IDLE", "HDR"} => Fitting(d')
  /\ dst' = "PASS" /\ p_n' = 2 => p_off' \in MSG_PREFIX..(d'.wire.size - 1)

LEMMA WordType ==
  ASSUME DecodeType, NEW rec \in Nat, NEW idx \in Nat, NEW last \in BOOLEAN
  PROVE  Word(rec, idx, last) \in FifoWord
<1>1. d.n \in Nat /\ d.j \in Nat
  BY DEF DecodeType, Message
<1> QED
  BY <1>1, Zenon DEF Word, FifoWord

LEMMA MessageFields ==
  ASSUME NEW m \in Message
  PROVE  /\ m.wire.size \in Nat /\ m.wire.n1 \in Nat /\ m.wire.n2 \in Nat
BY DEF Message, Wire

LEMMA IdleTypes ==
  ASSUME Slots, DecodePart, NEW o, NEW rdy, Idle(o, rdy)
  PROVE  DecodeNext /\ Pushes(rdy)
<1>1. ~push_commit /\ NoPush(rdy)
  BY DEF Idle, Plain, push_commit
<1>2. UNCHANGED <<d, g_idx, g1_mode, r_idx, p_n, p_off, p_cnt>>
  BY DEF Idle
<1>3. CASE occ[0] \/ occ[1]
  <2>1. dec_sel' = Chosen /\ dst' = "HDR"
    BY <1>3 DEF Idle, Goes
  <2>2. Chosen \in 0..1 /\ occ[Chosen]
    BY <1>3 DEF Chosen
  <2>3. Fitting(mbuf[dec_sel'])
    BY <2>1, <2>2 DEF Slots
  <2> QED
    BY <1>1, <1>2, <2>1, <2>2, <2>3
    DEF DecodePart, DecodeType, DecodeNext, DecodeStates, Pushes
<1>4. CASE ~(occ[0] \/ occ[1])
  <2>1. UNCHANGED <<dec_sel, dst>> /\ dst = "IDLE"
    BY <1>4 DEF Idle
  <2> QED
    BY <1>1, <1>2, <2>1 DEF DecodePart, DecodeType, DecodeNext, Pushes
<1> QED
  BY <1>3, <1>4

LEMMA HeaderTypes ==
  ASSUME CapturePart, DecodePart, NEW o, NEW rdy, Header(o, rdy)
  PROVE  DecodeNext /\ Pushes(rdy)
<1>1. ~push_commit /\ NoPush(rdy)
  BY DEF Header, Plain, push_commit
<1>2. /\ d' = mbuf[dec_sel] /\ p_n' = 0 /\ dst' \in {"ROOT", "PASS"} /\ dst = "HDR"
      /\ UNCHANGED <<dec_sel, g_idx, g1_mode, r_idx, p_off, p_cnt>>
  BY DEF Header, Goes
<1>3. mbuf[dec_sel] \in Message
  BY DEF CapturePart, CaptureType, DecodePart, DecodeType
<1>4. Fitting(d')
  BY <1>2 DEF DecodePart, Decoding, Fitting
<1> QED
  BY <1>1, <1>2, <1>3, <1>4
  DEF DecodePart, DecodeType, DecodeNext, DecodeStates, Pushes

\* The states that only go on to others.
LEMMA PlainTypes ==
  ASSUME DecodePart, NEW o, NEW rdy,
         \/ Root(o, rdy) \/ Group1(o, rdy) \/ Entry1(o, rdy)
         \/ Dim2(o, rdy) \/ Entry2(o, rdy)
  PROVE  DecodeNext /\ Pushes(rdy)
<1>1. ~push_commit /\ NoPush(rdy) /\ dst \notin {"IDLE", "HDR"}
  BY DEF Root, Group1, Entry1, Dim2, Entry2, Plain, push_commit
<1>2. /\ UNCHANGED <<dec_sel, d, r_idx, p_n, p_off, p_cnt>>
      /\ dst' \in {"G1", "DONE", "G2_DIM", "G1_ENT", "PUSH", "G2_ENT"}
      /\ g_idx' \in Nat
  BY DEF Root, Group1, Entry1, Dim2, Entry2, Goes, AfterGroup1, Same, DecodePart, DecodeType
<1>3. g1_mode' \in BOOLEAN
  <2>1. g1_mode \in BOOLEAN
    BY DEF DecodePart, DecodeType
  <2>2. CASE Root(o, rdy) \/ Group1(o, rdy) \/ Entry2(o, rdy)
    BY <2>1, <2>2 DEF Root, Group1, Entry2
  <2>3. CASE Entry1(o, rdy)
    <3>1. g1_mode' = TRUE \/ g1_mode' = g1_mode
      BY <2>3 DEF Entry1, Same
    <3> QED
      BY <2>1, <3>1, Zenon
  <2>4. CASE Dim2(o, rdy)
    BY <2>4, Zenon DEF Dim2
  <2> QED
    BY <2>2, <2>3, <2>4
<1>4. Fitting(d')
  BY <1>1, <1>2 DEF DecodePart, Decoding, Fitting
<1> QED
  BY <1>1, <1>2, <1>3, <1>4
  DEF DecodePart, DecodeType, DecodeNext, DecodeStates, Pushes

LEMMA RlenType == Rlen \in {13, 18}
BY DEF Rlen, RecordWords

LEMMA PushTypes ==
  ASSUME DecodePart, NEW o, NEW rdy, Push(o, rdy)
  PROVE  DecodeNext /\ Pushes(rdy)
<1> DEFINE last == (r_idx = Rlen - 1)
           w == Word(RecNo, r_idx, last)
<1>1. /\ PushWord(rdy, w) /\ push_commit
      /\ UNCHANGED <<dec_sel, d, g1_mode, p_n, p_off, p_cnt>>
      /\ dst = "PUSH" /\ r_idx < Rlen
  BY DEF Push, push_commit
<1>2. /\ dst' \in {"IDLE", "PUSH"} /\ r_idx' \in {0, r_idx + 1}
      /\ g_idx' \in {g_idx, g_idx + 1}
  BY DEF Push, Goes
<1>3. w \in FifoWord
  <2>1. last \in BOOLEAN
    BY Zenon
  <2>2. r_idx \in Nat /\ RecNo \in Nat
    <3>1. d.wire.n1 \in Nat /\ g_idx \in Nat
      BY MessageFields DEF DecodePart, DecodeType
    <3> QED
      BY <3>1 DEF DecodePart, DecodeType, RecNo
  <2> HIDE DEF last
  <2> QED
    BY <2>1, <2>2, WordType DEF DecodePart
<1> HIDE DEF w
<1>4. Pushes(rdy)
  BY <1>1, <1>3, Zenon DEF Pushes
<1>5. Fitting(d')
  BY <1>1 DEF DecodePart, Decoding, Fitting
<1> QED
  BY <1>1, <1>2, <1>4, <1>5, RlenType DEF DecodePart, DecodeType, DecodeNext, DecodeStates

LEMMA PushedTypes ==
  ASSUME DecodePart, NEW o, NEW rdy, Pushed(o, rdy)
  PROVE  DecodeNext /\ Pushes(rdy)
<1>1. /\ NoPush(rdy) /\ ~push_commit /\ r_idx' = 0 /\ g_idx' = g_idx + 1
      /\ dst' \in {"G1_ENT", "G2_ENT"} /\ dst = "PUSH"
      /\ UNCHANGED <<dec_sel, d, g1_mode, p_n, p_off, p_cnt>>
  BY RlenType DEF Pushed, Plain, Goes, push_commit
<1>2. Fitting(d')
  BY <1>1 DEF DecodePart, Decoding, Fitting
<1> QED
  BY <1>1, <1>2 DEF DecodePart, DecodeType, DecodeNext, DecodeStates, Pushes

LEMMA PassTypes ==
  ASSUME DecodePart, NEW o, NEW rdy, Pass(o, rdy)
  PROVE  DecodeNext /\ Pushes(rdy)
<1>1. /\ dst = "PASS" /\ Room /\ Fitting(d)
      /\ UNCHANGED <<dec_sel, d, g_idx, g1_mode, r_idx>>
  BY DEF Pass, DecodePart, Decoding
<1>2. d.wire.size \in 10..256 /\ Fitting(d')
  BY <1>1 DEF Fitting, MSG_PREFIX, MAX_MSG
<1>3. CASE p_n = 0
  <2>1. PushWord(rdy, Word(1, 0, FALSE)) /\ p_n' = 1 /\ UNCHANGED <<dst, p_off, p_cnt>>
    <3>1. p_n # 1 /\ p_n # 2 /\ p_n # 3
      BY <1>3
    <3> QED
      BY <1>3, <3>1, Zenon DEF Pass
  <2>2. Word(1, 0, FALSE) \in FifoWord
    BY WordType DEF DecodePart
  <2>3. push_commit
    BY <1>1, <1>3 DEF push_commit
  <2>4. Pushes(rdy)
    BY <2>1, <2>2, <2>3, Zenon DEF Pushes
  <2> QED
    BY <1>1, <1>2, <2>1, <2>4 DEF DecodePart, DecodeType, DecodeNext
<1>4. CASE p_n = 1
  <2>1. /\ PushWord(rdy, Word(1, 1, PassEmpty)) /\ p_n' = (IF PassEmpty THEN 3 ELSE 2)
        /\ p_off' = MSG_PREFIX /\ p_cnt' = 0 /\ dst' = dst
    BY <1>4 DEF Pass, Same
  <2>2. Word(1, 1, PassEmpty) \in FifoWord
    <3>1. PassEmpty \in BOOLEAN
      BY Zenon DEF PassEmpty
    <3> QED
      BY <3>1, WordType DEF DecodePart
  <2>3. push_commit
    BY <1>1, <1>4 DEF push_commit
  <2>4. Pushes(rdy)
    BY <2>1, <2>2, <2>3, Zenon DEF Pushes
  <2>5. p_n' = 2 => p_off' \in MSG_PREFIX..(d'.wire.size - 1)
    BY <1>1, <1>2, <2>1 DEF PassEmpty, MSG_PREFIX
  <2> QED
    BY <1>1, <1>2, <2>1, <2>4, <2>5
    DEF DecodePart, DecodeType, DecodeNext, MSG_PREFIX, MAX_MSG
<1>5. CASE p_n = 2
  <2> DEFINE w == Word(1, 2 + ((p_off - MSG_PREFIX) \div 4), LastByte)
  <2>1. /\ IF WordDone THEN PushWord(rdy, w) ELSE NoPush(rdy)
        /\ p_n' = (IF LastByte THEN 3 ELSE 2) /\ dst' = dst
        /\ p_off' = p_off + 1 /\ p_cnt' = (IF WordDone THEN 0 ELSE p_cnt + 1)
    BY <1>5 DEF Pass, Same
  <2>2. p_off \in 10..(d.wire.size - 1)
    BY <1>1, <1>5 DEF DecodePart, Decoding, MSG_PREFIX
  <2>3. w \in FifoWord
    <3>1. LastByte \in BOOLEAN
      BY Zenon DEF LastByte
    <3>2. 2 + ((p_off - MSG_PREFIX) \div 4) \in Nat
      BY <1>2, <2>2 DEF MSG_PREFIX
    <3> QED
      BY <3>1, <3>2, WordType DEF DecodePart
  <2> HIDE DEF w
  <2>4. push_commit <=> WordDone
    BY <1>1, <1>2, <1>5, <2>2 DEF push_commit
  <2>5. Pushes(rdy)
    BY <2>1, <2>3, <2>4, Zenon DEF Pushes
  <2>6. p_off' \in 0..256 /\ (p_n' = 2 => p_off' \in 10..(d'.wire.size - 1))
    BY <1>1, <1>2, <2>1, <2>2 DEF LastByte
  <2>7. p_cnt' \in 0..3
    BY <2>1 DEF WordDone, DecodePart, DecodeType
  <2> QED
    BY <1>1, <1>2, <2>1, <2>5, <2>6, <2>7
    DEF DecodePart, DecodeType, DecodeNext, MSG_PREFIX, MAX_MSG
<1>6. CASE p_n = 3
  <2>1. NoPush(rdy) /\ dst' = "DONE" /\ UNCHANGED <<p_n, p_off, p_cnt>>
    BY <1>6 DEF Pass, Goes
  <2>2. ~push_commit
    BY <1>1, <1>6 DEF push_commit
  <2> QED
    BY <1>1, <1>2, <2>1, <2>2 DEF DecodePart, DecodeType, DecodeNext, DecodeStates, Pushes
<1> QED
  BY <1>3, <1>4, <1>5, <1>6 DEF Pass

LEMMA FullTypes ==
  ASSUME DecodePart, NEW o, NEW rdy, Full(o, rdy)
  PROVE  DecodeNext /\ Pushes(rdy)
<1>1. /\ NoPush(rdy) /\ ~push_commit /\ UNCHANGED decodeVars /\ dst \in {"PUSH", "PASS"}
  BY DEF Full, Plain, push_commit
<1> QED
  BY <1>1 DEF DecodePart, DecodeType, Decoding, DecodeNext, Pushes, decodeVars, Fitting

LEMMA DoneTypes ==
  ASSUME DecodePart, NEW o, NEW rdy, Done(o, rdy)
  PROVE  DecodeNext /\ Pushes(rdy)
<1>1. /\ NoPush(rdy) /\ ~push_commit /\ dst' = "IDLE"
      /\ UNCHANGED <<dec_sel, d, g_idx, g1_mode, r_idx, p_n, p_off, p_cnt>>
  BY DEF Done, Goes, push_commit
<1> QED
  BY <1>1 DEF DecodePart, DecodeType, DecodeNext, DecodeStates, Pushes

LEMMA DecodeTypes ==
  ASSUME Slots, CapturePart, DecodePart, NEW o, NEW rdy, Decode(o, rdy)
  PROVE  DecodeNext /\ Pushes(rdy)
<1>1. CASE Idle(o, rdy) \/ Header(o, rdy)
  BY <1>1, IdleTypes, HeaderTypes
<1>2. CASE \/ Root(o, rdy) \/ Group1(o, rdy) \/ Entry1(o, rdy)
           \/ Dim2(o, rdy) \/ Entry2(o, rdy)
  BY <1>2, PlainTypes
<1>3. CASE Push(o, rdy) \/ Pushed(o, rdy) \/ Pass(o, rdy)
  BY <1>3, PushTypes, PushedTypes, PassTypes
<1>4. CASE Full(o, rdy) \/ Done(o, rdy)
  BY <1>4, FullTypes, DoneTypes
<1> QED
  BY <1>1, <1>2, <1>3, <1>4 DEF Decode

LEMMA DecodeStep ==
  ASSUME CapturePart, NEW o, Stores(o), DecodeNext
  PROVE  DecodePart'
<1>1. ASSUME dst' = "HDR" PROVE Fitting(mbuf'[dec_sel'])
  <2>1. Fitting(mbuf[dec_sel']) /\ dec_sel' \in 0..1
    BY <1>1 DEF DecodeNext, DecodeType
  <2> QED
    BY <2>1 DEF Stores, Fitting
<1> QED
  BY <1>1 DEF DecodePart, Decoding, DecodeNext, Fitting

(***************************************************************************)
(* The FIFO                                                                *)
(***************************************************************************)
Fifo == /\ f_mem \in Seq(FifoWord) /\ CountExact /\ Len(f_mem) <= FIFO_DEPTH
        /\ out.valid => f_mem # <<>>

LEMMA FifoStep ==
  ASSUME Fifo, NEW rdy, Pushes(rdy), Count(rdy), Emit(rdy)
  PROVE  Fifo'
<1> DEFINE push == IF push_commit THEN 1 ELSE 0
           pop == IF Pop(rdy) THEN 1 ELSE 0
           mid == Popped(rdy)
<1>1. /\ f_mem \in Seq(FifoWord) /\ f_cnt = Len(f_mem) /\ Len(f_mem) <= FIFO_DEPTH
      /\ FIFO_DEPTH \in 1..256 /\ Len(f_mem) \in Nat
  BY ParserAssumption DEF Fifo, CountExact
<1>2. Pop(rdy) => Len(f_mem) >= 1
  BY <1>1 DEF Fifo, Pop
<1>3. mid \in Seq(FifoWord) /\ Len(mid) = Len(f_mem) - pop
  BY <1>1, <1>2 DEF Popped
<1>4. push_commit => f_cnt < FIFO_DEPTH
  BY DEF push_commit, Room
<1> HIDE DEF mid
<1>5. f_mem' \in Seq(FifoWord) /\ Len(f_mem') = Len(f_mem) - pop + push
  <2>1. CASE push_commit
    <3>1. PICK w \in FifoWord : f_mem' = Append(mid, w)
      BY <2>1 DEF Pushes, PushWord, mid
    <3> QED
      BY <1>1, <1>3, <2>1, <3>1
  <2>2. CASE ~push_commit
    <3>1. f_mem' = mid
      BY <2>2 DEF Pushes, NoPush, mid
    <3> QED
      BY <1>1, <1>3, <2>2, <3>1
  <2> QED
    BY <2>1, <2>2
<1>6. Len(f_mem') \in 0..FIFO_DEPTH
  BY <1>1, <1>2, <1>4, <1>5
<1>7. f_cnt' = Len(f_mem')
  <2>1. f_cnt' = (f_cnt + push - pop) % 512
    BY DEF Count
  <2>2. push \in {0, 1} /\ pop \in {0, 1}
    OBVIOUS
  <2> HIDE DEF push, pop
  <2>3. f_cnt + push - pop = Len(f_mem')
    BY <1>1, <1>5, <2>2
  <2>5. Len(f_mem') \in 0..511
    <3>1. \A x : x \in 0..FIFO_DEPTH => x \in 0..511
      BY ParserAssumption
    <3> QED
      BY <1>6, <3>1, Zenon
  <2>4. \A x \in 0..511 : x % 512 = x
    OBVIOUS
  <2>6. f_cnt' = Len(f_mem') % 512
    BY <2>1, <2>3, Zenon
  <2> QED
    BY <2>4, <2>5, <2>6, Zenon
<1>8. ASSUME out'.valid PROVE f_mem' # <<>>
  <2>1. CASE out.valid /\ ~rdy
    <3>1. Len(f_mem) >= 1 /\ ~Pop(rdy)
      BY <1>1, <2>1 DEF Fifo, Pop
    <3> QED
      BY <1>1, <1>5, <3>1
  <2>2. CASE ~(out.valid /\ ~rdy)
    <3>1. f_cnt > 1 \/ (f_cnt = 1 /\ ~out.valid)
      BY <1>8, <2>2 DEF Emit
    <3>2. Len(f_mem) - pop >= 1
      BY <1>1, <3>1 DEF Pop
    <3> QED
      BY <1>1, <1>5, <3>2
  <2> QED
    BY <2>1, <2>2
<1> QED
  BY <1>1, <1>5, <1>6, <1>7, <1>8 DEF Fifo, CountExact

(***************************************************************************)
(* Type correctness                                                        *)
(***************************************************************************)
ParserInv == SenderType /\ CapturePart /\ Slots /\ DecodePart /\ Fifo

LEMMA ParserInit ==
  ASSUME HInit
  PROVE  ParserInv
<1>1. Init
  BY DEF HInit
<1>2. SenderType
  <2>1. tx = [pk |-> NoPacket, n |-> 0, pos |-> 1]
    BY <1>1 DEF Init
  <2>2. NoPacket \in Packet /\ NoPacket.size = 1 /\ 0 \in 0..MaxPackets
    BY NoPacketIsPacket, ParserAssumption DEF NoPacket
  <2> QED
    BY <2>1, <2>2 DEF SenderType
<1>3. CapturePart
  <2>1. /\ tready \in BOOLEAN /\ pkt_end \in BOOLEAN /\ gap_check \in BOOLEAN
        /\ first_pkt \in BOOLEAN /\ wait_hdr \in BOOLEAN /\ gap \in BOOLEAN
    BY <1>1, Zenon DEF Init
  <2>2. mbuf \in [0..1 -> Message] /\ cap \in Message
    BY <1>1, StrayIsMessage DEF Init
  <2> QED
    BY <1>1, <2>1, <2>2
    DEF Init, CapturePart, BusType, CaptureType, Storing, States, PKT_HDR, MAX_MSG
<1>4. Slots
  <2>1. FALSE \in BOOLEAN /\ occ = [s \in 0..1 |-> FALSE]
    BY <1>1 DEF Init
  <2>2. occ \in [0..1 -> BOOLEAN]
    BY <2>1, Zenon
  <2> QED
    BY <2>1, <2>2 DEF Slots
<1>5. DecodePart
  <2>1. g1_mode \in BOOLEAN
    BY <1>1, Zenon DEF Init
  <2> QED
    BY <1>1, <2>1, StrayIsMessage
    DEF Init, DecodePart, DecodeType, Decoding, DecodeStates, MAX_MSG
<1>6. Fifo
  <2>1. f_mem = <<>> /\ f_cnt = 0 /\ out.valid = FALSE
    BY <1>1 DEF Init
  <2>2. FIFO_DEPTH \in 1..256
    BY ParserAssumption
  <2> QED
    BY <2>1, <2>2 DEF Fifo, CountExact
<1> QED
  BY <1>2, <1>3, <1>4, <1>5, <1>6 DEF ParserInv

LEMMA ParserCycle ==
  ASSUME ParserInv, NEW o \in Offers, NEW rdy \in BOOLEAN, Cycle(o, rdy)
  PROVE  ParserInv'
<1>1. /\ SenderType /\ CapturePart /\ Slots /\ DecodePart /\ Fifo
      /\ Send(o) /\ Capture(o) /\ Decode(o, rdy) /\ Count(rdy) /\ Emit(rdy)
  BY DEF ParserInv, Cycle
<1>2. SenderType' /\ CapturePart' /\ Stores(o)
  BY <1>1, SenderStep, CaptureTypes, CaptureStores
<1>3. dec_sel \in 0..1
  BY <1>1 DEF DecodePart, DecodeType
<1>4. Slots'
  BY <1>1, <1>2, <1>3, DecodeOccupies, SlotsStep
<1>5. DecodeNext /\ Pushes(rdy)
  BY <1>1, DecodeTypes
<1>6. DecodePart'
  BY <1>1, <1>2, <1>5, DecodeStep
<1>7. Fifo'
  BY <1>1, <1>5, FifoStep
<1> QED
  BY <1>2, <1>4, <1>6, <1>7 DEF ParserInv

LEMMA ParserStutter ==
  ASSUME ParserInv, UNCHANGED vars
  PROVE  ParserInv'
<1>1. SenderType' /\ CapturePart'
  BY DEF ParserInv, vars, busVars, captureVars, SenderType, CapturePart, BusType,
         CaptureType, Storing, CapSize, Fitting
<1>2. Slots' /\ DecodePart'
  BY DEF ParserInv, vars, captureVars, decodeVars, Slots, DecodePart, DecodeType, Decoding,
         Fitting
<1>3. Fifo'
  BY DEF ParserInv, vars, fifoVars, Fifo, CountExact
<1> QED
  BY <1>1, <1>2, <1>3 DEF ParserInv

LEMMA ParserNext ==
  ASSUME ParserInv, [HNext]_hvars
  PROVE  ParserInv'
<1>1. CASE HNext
  <2>1. PICK o \in Offers, rdy \in BOOLEAN : Cycle(o, rdy)
    BY <1>1 DEF HNext, HCycle
  <2> QED
    BY <2>1, ParserCycle
<1>2. CASE UNCHANGED hvars
  BY <1>2, ParserStutter DEF hvars
<1> QED
  BY <1>1, <1>2

LEMMA ParserTypes ==
  ASSUME ParserInv
  PROVE  TypeOK
<1>1. /\ SenderType /\ BusType /\ CaptureType /\ DecodeType /\ Fifo
  BY DEF ParserInv, CapturePart, DecodePart
<1>2. tx.n \in 0..MaxPackets /\ tx.pos \in 0..tx.pk.size
  BY <1>1, PacketFields DEF SenderType
<1>3. {tready, pkt_end, gap_check, first_pkt, wait_hdr, g1_mode, gap} \subseteq BOOLEAN
  BY <1>1, Zenon DEF BusType, CaptureType, DecodeType
<1>4. CountExact /\ Len(f_mem) <= FIFO_DEPTH /\ f_cnt \in 0..FIFO_DEPTH
  BY <1>1, ParserAssumption DEF Fifo, CountExact
<1>5. /\ qavail \in 0..(MAX_MSG - 1) /\ hdr_pos \in 0..PKT_HDR
      /\ cst \in {"HDR", "SIZE", "BODY", "SKIP", "WAIT", "DISCARD"}
      /\ {cap_sel, dec_sel} \subseteq 0..1 /\ cap_len \in 0..MAX_MSG
  BY <1>1 DEF BusType, CaptureType, DecodeType, States, MAX_MSG
<1>6. /\ dst \in {"IDLE", "HDR", "ROOT", "G1", "G1_ENT", "G2_DIM", "G2_ENT", "PUSH",
                  "PASS", "DONE"}
      /\ r_idx \in 0..18 /\ p_n \in 0..3 /\ p_off \in 0..MAX_MSG /\ p_cnt \in 0..3
  BY <1>1 DEF DecodeType, DecodeStates
<1> QED
  BY <1>2, <1>3, <1>4, <1>5, <1>6, Zenon DEF TypeOK

LEMMA ParserInvariant == HSpec => []ParserInv
<1>1. HInit => ParserInv
  BY ParserInit
<1>2. ParserInv /\ [HNext]_hvars => ParserInv'
  BY ParserNext
<1> QED
  BY <1>1, <1>2, PTL DEF HSpec

\* The counters and the words they count, whatever is sent: the FIFO's count
\* is the number of its words and stays below its depth, the copy of a message
\* stays within its buffer, and the decoder within the message.
THEOREM TypeCorrect == HSpec => []TypeOK
<1>1. ParserInv => TypeOK
  BY ParserTypes
<1> QED
  BY <1>1, ParserInvariant, PTL

LEMMA LowestExists ==
  ASSUME NEW S \in SUBSET Nat, S # {}
  PROVE  \E x \in S : \A y \in S : x <= y
<1> DEFINE R == {z \in Nat \X Nat : z[1] < z[2]}
<1>1. IsWellFoundedOn(R, Nat)
  BY NatLessThanWellFounded DEF OpToRel
<1>2. \A y, x \in Nat : y < x => <<y, x>> \in R
  OBVIOUS
<1> HIDE DEF R
<1>3. PICK x \in S : \A y \in S : ~(<<y, x>> \in R)
  BY <1>1, WFMin, Zenon
<1>4. ASSUME NEW y \in S PROVE x <= y
  <2>1. x \in Nat /\ y \in Nat
    OBVIOUS
  <2>2. ~(y < x)
    BY <2>1, <1>2, <1>3, Zenon
  <2> QED BY <2>1, <2>2
<1> QED
  BY <1>4

(***************************************************************************)
(* Where the messages of a packet begin                                    *)
(***************************************************************************)
\* Value i of a function that is Begin for a packet, after its value i - 1.
BeginStep(p, f, i) == IF i <= 1 THEN PKT_HDR ELSE f[i - 1] + p.msgs[i - 1].size
Begins(p, f, n) == f = [i \in 0..n |-> BeginStep(p, f, i)]

LEMMA BeginsExist ==
  ASSUME NEW p
  PROVE  \A n \in Nat : \E f : Begins(p, f, n)
<1> DEFINE S == {n \in Nat : ~ \E f : Begins(p, f, n)}
<1>1. SUFFICES ASSUME S # {} PROVE FALSE
  OBVIOUS
<1>2. PICK x \in S : \A y \in S : x <= y
  BY <1>1, LowestExists
<1>3. x \in Nat /\ ~ \E f : Begins(p, f, x)
  OBVIOUS
<1>4. CASE x = 0
  <2> DEFINE f == [i \in 0..0 |-> PKT_HDR]
  <2>1. f = [i \in 0..0 |-> BeginStep(p, f, i)]
    BY DEF BeginStep
  <2> QED
    BY <1>3, <1>4, <2>1 DEF Begins
<1>5. CASE x # 0
  <2>1. x - 1 \in Nat /\ x - 1 \notin S
    BY <1>2, <1>3, <1>5
  <2>2. PICK g : Begins(p, g, x - 1)
    BY <2>1
  <2> DEFINE f == [i \in 0..x |-> IF i < x THEN g[i] ELSE BeginStep(p, g, x)]
  <2>3. ASSUME NEW i \in 0..x PROVE f[i] = BeginStep(p, f, i)
    <3>1. \A k \in 0..(x - 1) : g[k] = BeginStep(p, g, k)
      BY <2>2 DEF Begins
    <3>2. BeginStep(p, f, i) = BeginStep(p, g, i)
      <4>1. CASE i <= 1
        BY <4>1 DEF BeginStep
      <4>2. CASE ~(i <= 1)
        <5>1. i - 1 \in 0..x /\ i - 1 < x
          BY <1>3, <4>2
        <5>2. f[i - 1] = g[i - 1]
          BY <5>1
        <5> QED
          BY <4>2, <5>2 DEF BeginStep
      <4> QED
        BY <4>1, <4>2
    <3>3. CASE i < x
      <4>1. i \in 0..(x - 1) /\ f[i] = g[i]
        BY <1>3, <3>3
      <4> QED
        BY <3>1, <3>2, <4>1
    <3>4. CASE ~(i < x)
      <4>1. i = x /\ f[i] = BeginStep(p, g, x)
        BY <1>3, <3>4
      <4> QED
        BY <3>2, <4>1
    <3> QED
      BY <3>3, <3>4
  <2>4. f = [i \in 0..x |-> BeginStep(p, f, i)]
    BY <2>3
  <2> HIDE DEF f
  <2> QED
    BY <1>3, <2>4 DEF Begins
<1> QED
  BY <1>4, <1>5

LEMMA BeginsAgree ==
  ASSUME NEW p, NEW f, NEW g, NEW m \in Nat, NEW n \in Nat,
         Begins(p, f, m), Begins(p, g, n)
  PROVE  \A i \in 0..m : i <= n => f[i] = g[i]
<1> DEFINE S == {i \in 0..m : i <= n /\ f[i] # g[i]}
<1>1. SUFFICES ASSUME S # {} PROVE FALSE
  OBVIOUS
<1>2. S \in SUBSET Nat
  OBVIOUS
<1>3. PICK x \in S : \A y \in S : x <= y
  BY <1>1, <1>2, LowestExists
<1>4. x \in 0..m /\ x \in 0..n /\ f[x] # g[x]
  OBVIOUS
<1>5. f[x] = BeginStep(p, f, x) /\ g[x] = BeginStep(p, g, x)
  BY <1>4 DEF Begins
<1>6. CASE x <= 1
  BY <1>4, <1>5, <1>6 DEF BeginStep
<1>7. CASE ~(x <= 1)
  <2>1. x - 1 \in 0..m /\ x - 1 <= n /\ x - 1 \notin S
    BY <1>3, <1>4, <1>7
  <2>2. f[x - 1] = g[x - 1]
    BY <2>1
  <2> QED
    BY <1>4, <1>5, <1>7, <2>2 DEF BeginStep
<1> QED
  BY <1>6, <1>7

\* Begin is what its definition says: the header before the first message,
\* each message before the next.
LEMMA BeginIs ==
  ASSUME NEW p, NEW j \in Nat
  PROVE  Begin(p, j) = IF j <= 1 THEN PKT_HDR ELSE Begin(p, j - 1) + p.msgs[j - 1].size
<1> DEFINE fs == [n \in Nat |-> CHOOSE f : Begins(p, f, n)]
           F == [n \in Nat |-> fs[n][n]]
           B == CHOOSE f : f = [i \in Nat |-> BeginStep(p, f, i)]
<1>1. \A n \in Nat : Begins(p, fs[n], n)
  BY BeginsExist
<1> HIDE DEF fs
<1>2. ASSUME NEW i \in Nat PROVE F[i] = BeginStep(p, F, i)
  <2>1. Begins(p, fs[i], i) /\ i \in 0..i
    BY <1>1
  <2>2. F[i] = BeginStep(p, fs[i], i)
    BY <2>1 DEF Begins
  <2>3. CASE i <= 1
    BY <2>2, <2>3 DEF BeginStep
  <2>4. CASE ~(i <= 1)
    <3>1. i - 1 \in Nat /\ i - 1 \in 0..(i - 1) /\ i - 1 <= i
      BY <2>4
    <3>2. Begins(p, fs[i - 1], i - 1)
      BY <1>1, <3>1
    <3>3. fs[i - 1][i - 1] = fs[i][i - 1]
      <4>1. \A k \in 0..(i - 1) : k <= i => fs[i - 1][k] = fs[i][k]
        BY <2>1, <3>1, <3>2, BeginsAgree
      <4> QED
        BY <3>1, <4>1
    <3>4. F[i - 1] = fs[i - 1][i - 1]
      BY <3>1
    <3> QED
      BY <2>2, <2>4, <3>3, <3>4 DEF BeginStep
  <2> QED
    BY <2>3, <2>4
<1>3. F = [i \in Nat |-> BeginStep(p, F, i)]
  BY <1>2
<1> HIDE DEF F
<1>4. B = [i \in Nat |-> BeginStep(p, B, i)]
  BY <1>3
<1>5. \A i \in Nat : Begin(p, i) = B[i]
  BY DEF Begin, BeginStep
<1> HIDE DEF B
<1>6. B[j] = BeginStep(p, B, j)
  BY <1>4
<1>7. CASE j <= 1
  BY <1>5, <1>6, <1>7 DEF BeginStep
<1>8. CASE ~(j <= 1)
  <2>1. j - 1 \in Nat
    BY <1>8
  <2> QED
    BY <1>5, <1>6, <1>8, <2>1 DEF BeginStep
<1> QED
  BY <1>7, <1>8

(***************************************************************************)
(* The two processes and the buffers between them                          *)
(***************************************************************************)
\* The capture owns the buffer it fills, the decoder the one it reads.
Owners ==
  /\ cst # "WAIT" => ~occ[cap_sel]
  /\ dst # "IDLE" => occ[dec_sel]
  /\ dst \notin {"IDLE", "HDR"} => d = mbuf[dec_sel]

LEMMA FilledIs ==
  ASSUME NEW o
  PROVE  \/ Filled(o) = {} /\ ~(In("BODY", o) /\ AvailEff(o) >= CapSize - cap_len)
         \/ Filled(o) = {cap_sel} /\ In("BODY", o) /\ AvailEff(o) >= CapSize - cap_len
BY DEF Filled

\* The buffer the capture has after a cycle is free and was not filled in it.
CaptureOwns(o) ==
  cst' # "WAIT" => cap_sel' \in 0..1 /\ ~occ[cap_sel'] /\ cap_sel' \notin Filled(o)

LEMMA SwitchOwns ==
  ASSUME CaptureType, NEW next, Switch(next), cst' # "WAIT"
  PROVE  cap_sel' \in 0..1 /\ cap_sel' # cap_sel /\ ~occ[cap_sel']
BY DEF Switch, Other, CaptureType, Same

LEMMA CompleteOwns ==
  ASSUME CaptureType, NEW o, Complete(o)
  PROVE  CaptureOwns(o)
<1>1. Switch("HDR") \/ Switch("SIZE")
  BY DEF Complete
<1>2. \A s \in Filled(o) : s = cap_sel
  BY FilledIs
<1> QED
  BY <1>1, <1>2, SwitchOwns DEF CaptureOwns

LEMMA OthersOwn ==
  ASSUME SenderType, CaptureType, KeepsInWait, Owners, NEW o \in Offers,
         Capture(o), ~Complete(o), Filled(o) = {}
  PROVE  CaptureOwns(o)
<1>1. cap_sel \in 0..1
  BY DEF CaptureType
<1>2. CASE cst # "WAIT"
  <2>1. cap_sel' = cap_sel
    BY <1>2 DEF Capture, BadKeep, Hdr, SizeWait, Size, Body, Skip, Wait, In, Discard,
                captureVars
  <2> QED
    BY <1>1, <1>2, <2>1 DEF Owners, CaptureOwns
<1>3. CASE cst = "WAIT"
  <2>1. ~BadKeep(o)
    BY <1>3 DEF BadKeep, Take, KeepsInWait
  <2>2. Wait(o)
    BY <1>3, <2>1 DEF Capture, Hdr, SizeWait, Size, Complete, Body, Skip, Discard, In
  <2> QED
    BY <1>1, <1>3, <2>2 DEF Wait, Other, CaptureOwns
<1> QED
  BY <1>2, <1>3

LEMMA CaptureKeepsOwners ==
  ASSUME SenderType, CapturePart, KeepsInWait, Owners, NEW o \in Offers, Capture(o)
  PROVE  CaptureOwns(o)
<1>1. CaptureType
  BY DEF CapturePart
<1>2. CASE Complete(o)
  BY <1>1, <1>2, CompleteOwns
<1>3. CASE ~Complete(o)
  <2>1. Filled(o) = {}
    <3>1. CASE In("BODY", o) /\ AvailEff(o) >= CapSize - cap_len
      BY <1>3, <3>1, FilledCompletes
    <3> QED
      BY <3>1, FilledIs
  <2> QED
    BY <1>1, <1>3, <2>1, OthersOwn
<1> QED
  BY <1>2, <1>3

\* The decoder keeps its buffer until it is through with it.
DecodeOwns(o) ==
  /\ dst' # "IDLE" => /\ dec_sel' \in 0..1 /\ occ[dec_sel']
                      /\ occ' = Holds(o)
  /\ dst' \notin {"IDLE", "HDR"} => d' = mbuf[dec_sel']

LEMMA DecodeKeepsOwners ==
  ASSUME Slots, DecodePart, Owners, NEW o, NEW rdy, Decode(o, rdy)
  PROVE  DecodeOwns(o)
<1>1. dec_sel \in 0..1
  BY DEF DecodePart, DecodeType
<1>2. CASE Idle(o, rdy)
  <2>1. Keeps(o) /\ (dst' # "IDLE" => dst' = "HDR" /\ dec_sel' = Chosen /\ (occ[0] \/ occ[1]))
    BY <1>2 DEF Idle, Plain, Goes
  <2> QED
    BY <2>1 DEF DecodeOwns, Chosen, Keeps
<1>3. CASE Header(o, rdy)
  <2>1. dst = "HDR" /\ Keeps(o) /\ d' = mbuf[dec_sel] /\ dec_sel' = dec_sel
    BY <1>3 DEF Header, Plain
  <2> QED
    BY <1>1, <2>1 DEF Owners, DecodeOwns, Keeps
<1>4. CASE ~Idle(o, rdy) /\ ~Header(o, rdy)
  <2>1. /\ dst \notin {"IDLE", "HDR"} /\ d' = d /\ dec_sel' = dec_sel
        /\ Keeps(o) \/ dst' = "IDLE"
    BY <1>4 DEF Decode, Root, Group1, Entry1, Dim2, Entry2, Push, Pushed, Pass, Full, Done,
                Plain, Goes, decodeVars
  <2> QED
    BY <1>1, <2>1 DEF Owners, DecodeOwns, Keeps
<1> QED
  BY <1>2, <1>3, <1>4

LEMMA OwnersStep ==
  ASSUME Slots, Owners, NEW o, Stores(o), Occupies(o), CaptureOwns(o), DecodeOwns(o),
         CaptureType
  PROVE  Owners'
<1>1. ASSUME cst' # "WAIT" PROVE ~occ'[cap_sel']
  BY <1>1 DEF CaptureOwns, Occupies
<1>2. ASSUME dst' # "IDLE" PROVE occ'[dec_sel']
  <2>1. dec_sel' \in 0..1 /\ occ[dec_sel'] /\ occ' = Holds(o)
    BY <1>2 DEF DecodeOwns
  <2>2. Holds(o)[dec_sel']
    BY <2>1, HoldsType
  <2> QED
    BY <2>1, <2>2
<1>3. ASSUME dst' \notin {"IDLE", "HDR"} PROVE d' = mbuf'[dec_sel']
  <2>1. dec_sel' \in 0..1 /\ occ[dec_sel'] /\ d' = mbuf[dec_sel']
    BY <1>3 DEF DecodeOwns
  <2>2. dec_sel' \notin Filled(o)
    <3>1. Filled(o) # {} => Filled(o) = {cap_sel} /\ ~occ[cap_sel]
      BY FilledIs DEF Owners, In
    <3> QED
      BY <2>1, <3>1
  <2> QED
    BY <2>1, <2>2 DEF Stores
<1> QED
  BY <1>1, <1>2, <1>3 DEF Owners

LEMMA OwnersNext ==
  ASSUME ParserInv, KeepsInWait, Owners, [HNext]_hvars
  PROVE  Owners'
<1>1. /\ SenderType /\ CapturePart /\ CaptureType /\ Slots /\ DecodePart
      /\ dec_sel \in 0..1
  BY DEF ParserInv, CapturePart, DecodePart, DecodeType
<1>2. CASE HNext
  <2>1. PICK o \in Offers, rdy \in BOOLEAN : Cycle(o, rdy)
    BY <1>2 DEF HNext, HCycle
  <2>2. Capture(o) /\ Decode(o, rdy)
    BY <2>1 DEF Cycle
  <2>3. Stores(o) /\ Occupies(o) /\ CaptureOwns(o) /\ DecodeOwns(o)
    BY <1>1, <2>2, CaptureStores, DecodeOccupies, CaptureKeepsOwners, DecodeKeepsOwners
  <2> QED
    BY <1>1, <2>3, OwnersStep
<1>3. CASE UNCHANGED hvars
  BY <1>3 DEF Owners, hvars, vars, captureVars, decodeVars
<1> QED
  BY <1>2, <1>3

LEMMA OwnersInvariant == HSpec /\ []KeepsInWait => []Owners
<1>1. HInit => Owners
  BY DEF HInit, Init, Owners
<1>2. ParserInv /\ KeepsInWait /\ Owners /\ [HNext]_hvars => Owners'
  BY OwnersNext
<1> QED
  BY <1>1, <1>2, ParserInvariant, PTL DEF HSpec

\* Without a malformed tkeep in CS_WAIT the capture never writes a buffer
\* whose message is still to be decoded, and what the decoder works on is in
\* its buffer: the parts of InSync that hold for both widths and all packets.
THEOREM BuffersKept ==
  HSpec /\ []KeepsInWait
    => []/\ SlotFree
         /\ dst \notin {"IDLE", "HDR"} => d = mbuf[dec_sel] /\ occ[dec_sel]
<1>1. Owners => /\ SlotFree
                /\ dst \notin {"IDLE", "HDR"} => d = mbuf[dec_sel] /\ occ[dec_sel]
  BY DEF Owners, SlotFree
<1> QED
  BY <1>1, OwnersInvariant, PTL

LEMMA BytesAreFour ==
  ASSUME TrafficFits
  PROVE  BYTES = 4
BY DEF TrafficFits, BYTES

LEMMA MessageSize ==
  ASSUME NEW p \in Packet, Sendable(p), NEW j \in 1..Len(p.msgs)
  PROVE  /\ p.msgs[j] \in Wire
         /\ p.msgs[j].size \in Nat /\ p.msgs[j].size >= 8 /\ p.msgs[j].size <= 65535
<1>1. p.msgs[j].size >= 8 /\ p.msgs[j].size <= 65535
  BY DEF Sendable
<1>2. p.msgs[j] \in Wire
  <2>1. p.msgs \in Seq(Wire)
    BY PacketFields
  <2> QED
    BY <2>1
<1>3. p.msgs[j].size \in Nat
  BY <1>2 DEF Wire
<1> QED
  BY <1>1, <1>2, <1>3

LEMMA BeginType ==
  ASSUME NEW p \in Packet, Sendable(p), NEW j \in 1..(Len(p.msgs) + 1)
  PROVE  Begin(p, j) \in Nat
<1> DEFINE n == Len(p.msgs) + 1
           S == {i \in 1..n : Begin(p, i) \notin Nat}
<1>1. n \in Nat
  BY PacketFields
<1> HIDE DEF n
<1>2. S = {}
  <2>1. SUFFICES ASSUME S # {} PROVE FALSE
    OBVIOUS
  <2>2. S \in SUBSET Nat
    BY <1>1
  <2>3. PICK x \in S : \A y \in S : x <= y
    BY <2>1, <2>2, LowestExists
  <2>4. x \in 1..n /\ Begin(p, x) \notin Nat /\ x \in Nat
    BY <2>2
  <2>5. CASE x = 1
    BY <2>4, <2>5, BeginIs DEF PKT_HDR
  <2>6. CASE x # 1
    <3>1. x - 1 \in 1..n /\ x - 1 \notin S /\ x - 1 \in 1..Len(p.msgs)
      BY <1>1, <2>3, <2>4, <2>6, PacketFields DEF n
    <3>2. Begin(p, x - 1) \in Nat /\ p.msgs[x - 1].size \in Nat
      BY <3>1, MessageSize
    <3>3. Begin(p, x) = Begin(p, x - 1) + p.msgs[x - 1].size
      <4>1. x \in Nat /\ ~(x <= 1)
        BY <2>4, <2>6
      <4> HIDE DEF S
      <4> QED
        BY <4>1, BeginIs
    <3> QED
      BY <2>4, <3>2, <3>3
  <2> QED
    BY <2>5, <2>6
<1> QED
  BY <1>2 DEF n

LEMMA BeginFirst ==
  ASSUME NEW p
  PROVE  Begin(p, 1) = 12
BY BeginIs DEF PKT_HDR

LEMMA BeginNext ==
  ASSUME NEW p \in Packet, Sendable(p), NEW j \in 1..Len(p.msgs)
  PROVE  /\ j \in 1..(Len(p.msgs) + 1) /\ j + 1 \in 1..(Len(p.msgs) + 1)
         /\ Begin(p, j) \in Nat /\ Begin(p, j + 1) \in Nat
         /\ Begin(p, j + 1) = Begin(p, j) + p.msgs[j].size
<1>1. Len(p.msgs) \in Nat
  BY PacketFields
<1>2. j \in 1..(Len(p.msgs) + 1) /\ j + 1 \in 1..(Len(p.msgs) + 1) /\ j + 1 \in Nat
  BY <1>1
<1>3. Begin(p, j + 1) = Begin(p, j) + p.msgs[j].size
  <2>1. ~(j + 1 <= 1) /\ (j + 1) - 1 = j
    BY <1>1
  <2> QED
    BY <1>2, <2>1, BeginIs
<1> QED
  BY <1>2, <1>3, BeginType

\* A message begins after all those before it.
LEMMA BeginGrows ==
  ASSUME NEW p \in Packet, Sendable(p),
         NEW i \in 1..(Len(p.msgs) + 1), NEW j \in 1..(Len(p.msgs) + 1), i < j
  PROVE  Begin(p, i) + p.msgs[i].size <= Begin(p, j)
<1> DEFINE n == Len(p.msgs) + 1
           end == Begin(p, i) + p.msgs[i].size
           S == {k \in 1..n : i < k /\ ~(end <= Begin(p, k))}
<1>1. n \in Nat /\ i \in 1..n /\ i \in 1..Len(p.msgs)
  BY PacketFields
<1>2. end \in Nat /\ Begin(p, i + 1) = end
  BY <1>1, BeginNext, MessageSize
<1> HIDE DEF end
<1>3. S = {}
  <2>1. SUFFICES ASSUME S # {} PROVE FALSE
    OBVIOUS
  <2>2. S \in SUBSET Nat
    BY <1>1
  <2>3. PICK x \in S : \A y \in S : x <= y
    BY <2>1, <2>2, LowestExists
  <2>4. x \in 1..n /\ i < x /\ ~(end <= Begin(p, x)) /\ x \in Nat
    BY <2>2
  <2>5. \A y \in 1..n : i < y /\ ~(x <= y) => end <= Begin(p, y)
    BY <2>3
  <2> HIDE DEF S, n
  <2>6. CASE x = i + 1
    BY <1>2, <2>4, <2>6
  <2>7. CASE x # i + 1
    <3>1. x - 1 \in 1..n /\ i < x - 1 /\ ~(x <= x - 1) /\ x - 1 \in 1..Len(p.msgs)
      BY <1>1, <2>4, <2>7, PacketFields DEF n
    <3>2. end <= Begin(p, x - 1)
      BY <2>5, <3>1
    <3>3. /\ Begin(p, x - 1) \in Nat /\ p.msgs[x - 1].size \in Nat
          /\ Begin(p, (x - 1) + 1) = Begin(p, x - 1) + p.msgs[x - 1].size
      BY <3>1, BeginNext, MessageSize
    <3>4. (x - 1) + 1 = x
      BY <2>4
    <3>5. Begin(p, x) = Begin(p, x - 1) + p.msgs[x - 1].size
      BY <3>3, <3>4, Zenon
    <3> QED
      BY <1>2, <2>4, <3>2, <3>3, <3>5
  <2> QED
    BY <2>6, <2>7
<1>4. j \in 1..n /\ j \notin S
  BY <1>3
<1> QED
  BY <1>4 DEF end

\* No two begin at the same byte, none within the header.
LEMMA BeginUnique ==
  ASSUME NEW p \in Packet, Sendable(p),
         NEW i \in 1..(Len(p.msgs) + 1), NEW j \in 1..(Len(p.msgs) + 1),
         Begin(p, i) = Begin(p, j)
  PROVE  i = j
<1>1. ASSUME NEW a \in 1..(Len(p.msgs) + 1), NEW b \in 1..(Len(p.msgs) + 1), a < b
      PROVE  Begin(p, a) # Begin(p, b)
  <2>1. Begin(p, a) + p.msgs[a].size <= Begin(p, b)
    BY <1>1, BeginGrows
  <2>2. a \in 1..Len(p.msgs)
    BY <1>1, PacketFields
  <2>3. p.msgs[a].size \in Nat /\ p.msgs[a].size >= 8
    BY <2>2, MessageSize
  <2>4. Begin(p, a) \in Nat /\ Begin(p, b) \in Nat
    BY <1>1, BeginType
  <2> QED
    BY <2>1, <2>3, <2>4
<1>2. i \in Nat /\ j \in Nat /\ Len(p.msgs) \in Nat
  BY PacketFields
<1>3. ~(i < j) /\ ~(j < i)
  BY <1>1
<1> QED
  BY <1>2, <1>3

LEMMA BeginAfterHeader ==
  ASSUME NEW p \in Packet, Sendable(p), NEW j \in 1..(Len(p.msgs) + 1)
  PROVE  Begin(p, j) >= 12
<1>1. Len(p.msgs) \in Nat /\ 1 \in 1..(Len(p.msgs) + 1) /\ Begin(p, j) \in Nat
  BY PacketFields, BeginType
<1>2. CASE j = 1
  BY <1>2, BeginFirst
<1>3. CASE j # 1
  <2>1. Begin(p, 1) + p.msgs[1].size <= Begin(p, j) /\ 1 \in 1..Len(p.msgs)
    BY <1>1, <1>3, BeginGrows
  <2> QED
    BY <1>1, <2>1, BeginFirst, MessageSize
<1> QED
  BY <1>2, <1>3

(***************************************************************************)
(* The bus                                                                 *)
(***************************************************************************)
\* Beats of four bytes, the last of a packet excepted.  The end of a packet is
\* kept until the capture is through with it, and none is offered meanwhile;
\* but for that the capture is between packets.
Bus ==
  /\ tx.pos % 4 = 0 \/ tx.pos = tx.pk.size
  /\ pkt_end => tx.pos = tx.pk.size /\ ~tready
  /\ tx.pos = tx.pk.size /\ ~pkt_end =>
       (cst = "HDR" /\ hdr_pos = 0) \/ (cst = "WAIT" /\ wait_hdr)

\* The bytes that a cycle takes.
Given(o) == IF Take(o) THEN o.bytes ELSE 0

LEMMA GivenType ==
  ASSUME TrafficFits, SenderType, BusType, NEW o \in Offers, Send(o)
  PROVE  /\ Given(o) \in 0..4 /\ AvailEff(o) = qavail + Given(o)
         /\ tx'.pk = Source(o).pk /\ tx'.n = Source(o).n
         /\ tx'.pos = Source(o).pos + Given(o) /\ tx'.pos <= tx'.pk.size
         /\ tx'.pk \in Packet /\ tx'.pos \in Nat /\ tx'.pk.size \in Nat
         /\ tx'.pk.size >= 1
         /\ qavail \in Nat
<1>1. OfferType(o) /\ BYTES = 4
  BY OfferFields, BytesAreFour
<1>2. Given(o) \in 0..4
  BY <1>1 DEF Given, OfferType
<1>3. AvailEff(o) = qavail + Given(o)
  BY DEF AvailEff, Given
<1>4. /\ SenderType'
      /\ tx'.pk = Source(o).pk /\ tx'.n = Source(o).n
      /\ tx'.pos = Source(o).pos + Given(o)
  BY SenderStep DEF Given
<1>5. tx'.pk \in Packet /\ tx'.pos \in Nat /\ tx'.pos <= tx'.pk.size
  BY <1>4 DEF SenderType
<1>6. tx'.pk.size \in Nat /\ tx'.pk.size >= 1
  BY <1>5, PacketFields
<1> QED
  BY <1>2, <1>3, <1>4, <1>5, <1>6 DEF BusType

LEMMA AlignStep ==
  ASSUME TrafficFits, SenderType, Bus, NEW o \in Offers, Send(o)
  PROVE  tx'.pos % 4 = 0 \/ tx'.pos = tx'.pk.size
<1>1. OfferType(o) /\ OfferIs(o) /\ BYTES = 4 /\ tx.pos \in Nat
  BY OfferFields, BytesAreFour DEF SenderType
<1>2. CASE Take(o)
  <2>1. tx' = [pk |-> o.pk, n |-> o.n, pos |-> o.pos + o.bytes] /\ o.valid
    BY <1>2 DEF Send, Take
  <2>2. /\ o.pos \in Nat /\ o.bytes \in 1..4
        /\ o.last <=> o.pos + o.bytes = o.pk.size
        /\ o.last \/ o.bytes = 4
        /\ o.pos = 0 \/ (o.pos = tx.pos /\ tx.pos < tx.pk.size)
    BY <1>1, <2>1 DEF OfferIs, IsBeat
  <2>3. tx.pos < tx.pk.size => tx.pos % 4 = 0
    BY <1>1, PacketFields DEF Bus, SenderType
  <2> QED
    BY <1>1, <2>1, <2>2, <2>3
<1>3. CASE ~Take(o)
  BY <1>3 DEF Send, Bus
<1> QED
  BY <1>2, <1>3

\* Once the end is seen, the packet is over and nothing more is taken.
LEMMA EndStops ==
  ASSUME TrafficFits, SenderType, Bus, NEW o \in Offers, Send(o), Capture(o), EndEff(o)
  PROVE  tx'.pos = tx'.pk.size /\ ~tready'
<1>1. ~tready'
  BY DEF Capture, Ready
<1>2. CASE pkt_end
  <2>1. tx' = tx /\ tx.pos = tx.pk.size
    BY <1>2 DEF Bus, Send, Take
  <2> QED
    BY <1>1, <2>1
<1>3. CASE ~pkt_end
  <2>1. Take(o) /\ o.last
    BY <1>3 DEF EndEff
  <2>2. tx' = [pk |-> o.pk, n |-> o.n, pos |-> o.pos + o.bytes] /\ o.valid
    BY <2>1 DEF Send, Take
  <2>3. OfferIs(o)
    BY OfferFields
  <2>4. o.pos + o.bytes = o.pk.size
    BY <2>1, <2>2, <2>3 DEF OfferIs, IsBeat
  <2> QED
    BY <1>1, <2>2, <2>4
<1> QED
  BY <1>2, <1>3

\* Within a packet a cycle takes bytes of it, and sees its end with the last.
InPacket(o) ==
  /\ tx'.pk = tx.pk /\ tx'.n = tx.n
  /\ Source(o).pk = tx.pk /\ Source(o).n = tx.n /\ Source(o).pos = tx.pos
  /\ tx'.pos = tx.pos + Given(o) /\ AvailEff(o) = qavail + Given(o)
  /\ EndEff(o) <=> tx'.pos = tx.pk.size

LEMMA PacketGoesOn ==
  ASSUME TrafficFits, SenderType, BusType, Bus, NEW o \in Offers, Send(o),
         tx.pos < tx.pk.size \/ pkt_end
  PROVE  InPacket(o)
<1>1. OfferType(o) /\ OfferIs(o) /\ tx.pos \in Nat /\ tx.pk.size \in Nat
  BY OfferFields, PacketFields DEF SenderType
<1>2. Take(o) => tx.pos < tx.pk.size /\ IsBeat(o, tx.pk, tx.pos) /\ o.n = tx.n
  BY <1>1 DEF Bus, Take, OfferIs
<1>3. Source(o).pk = tx.pk /\ Source(o).n = tx.n /\ Source(o).pos = tx.pos
  BY <1>2 DEF Source, IsBeat
<1>4. /\ tx'.pk = tx.pk /\ tx'.n = tx.n
      /\ tx'.pos = tx.pos + Given(o) /\ AvailEff(o) = qavail + Given(o)
  BY <1>3, GivenType
<1>5. EndEff(o) <=> tx'.pos = tx.pk.size
  <2>1. CASE Take(o)
    BY <1>1, <1>2, <1>4, <2>1 DEF EndEff, IsBeat, Given, Bus, Take
  <2>2. CASE ~Take(o)
    BY <1>1, <1>4, <2>2 DEF EndEff, Given, Bus
  <2> QED
    BY <2>1, <2>2
<1> QED
  BY <1>3, <1>4, <1>5 DEF InPacket

\* What is consumed leaves the queue, which then holds less than it can.
LEMMA ConsumeIs ==
  ASSUME TrafficFits, SenderType, BusType, NEW o \in Offers, Send(o),
         NEW s, In(s, o), s # "DISCARD",
         NEW n \in Nat, n <= AvailEff(o), AvailEff(o) <= 255, Consume(o, n)
  PROVE  qavail' = AvailEff(o) - n /\ (pkt_end' <=> EndEff(o))
<1>1. AvailEff(o) = qavail + Given(o) /\ AvailEff(o) \in Nat /\ Given(o) \in 0..4
  BY GivenType
<1>2. Appended(o) <=> Take(o)
  BY DEF Appended, In
<1>3. qavail' = (qavail + Given(o) - n) % 256
  BY <1>2 DEF Consume, Given, MAX_MSG
<1>4. qavail + Given(o) - n \in 0..255
  <2>1. n <= qavail + Given(o) /\ qavail + Given(o) <= 255 /\ qavail \in Nat
    BY <1>1 DEF BusType
  <2>2. Given(o) \in Nat /\ n \in Nat
    BY <1>1
  <2>3. qavail + Given(o) - n \in Nat /\ qavail + Given(o) - n <= 255
    BY <2>1, <2>2
  <2> QED
    BY <2>3
<1>5. \A x \in 0..255 : x % 256 = x
  OBVIOUS
<1>6. qavail' = qavail + Given(o) - n
  BY <1>3, <1>4, <1>5
<1>7. pkt_end' <=> EndEff(o)
  BY <1>2 DEF Consume, EndEff
<1> QED
  BY <1>1, <1>6, <1>7 DEF BusType

(***************************************************************************)
(* Where the capture is in the packet                                      *)
(***************************************************************************)
AtStart(j) == j \in 1..(Len(tx.pk.msgs) + 1) /\ Begin(tx.pk, j) = tx.pos - qavail

AtHdr ==
  /\ qavail = 0 /\ ~pkt_end
  /\ \/ hdr_pos = 0 /\ tx.pos = tx.pk.size
     \/ hdr_pos = tx.pos /\ tx.pos \in 1..11 /\ tx.pos < tx.pk.size
AtWaitHdr ==
  qavail = 0 /\ ~pkt_end /\ ~tready /\ tx.pos = tx.pk.size /\ hdr_pos = 0
AtWait == (\E j : AtStart(j)) /\ qavail <= 7 /\ (tready => qavail <= 3)
AtSize == (\E j : AtStart(j)) /\ qavail <= 8 /\ (tready => qavail <= 4)

\* The bytes of the message before the front are the ones stored.
AtBody ==
  /\ cap.j \in 1..Len(tx.pk.msgs)
  /\ cap.n = tx.n /\ cap.wire = tx.pk.msgs[cap.j]
  /\ Begin(tx.pk, cap.j) = tx.pos - qavail - cap_len
  /\ qavail <= 6 /\ (cap_len = 2 \/ qavail = 0)

\* Where the skip ends: at a message, or at no byte of the packet.
SkipsTo(j) ==
  j \in 1..(Len(tx.pk.msgs) + 1) /\ Begin(tx.pk, j) = tx.pos - qavail + skip_left
AtSkip ==
  /\ (\E j : SkipsTo(j)) \/ tx.pos - qavail + skip_left > tx.pk.size
  /\ qavail <= 6 /\ (qavail = 0 \/ skip_left >= 6) /\ ~pkt_end
AtDiscard == tx.pos < tx.pk.size /\ ~pkt_end

Where ==
  /\ cst = "HDR" => AtHdr
  /\ cst = "WAIT" /\ wait_hdr => AtWaitHdr
  /\ cst = "WAIT" /\ ~wait_hdr => AtWait
  /\ cst = "SIZE" => AtSize
  /\ cst = "BODY" => AtBody
  /\ cst = "SKIP" => AtSkip
  /\ cst = "DISCARD" => AtDiscard
Position == Sendable(tx.pk) /\ Where

\* The message at the front of the queue.
LEMMA MessageIs ==
  ASSUME SenderType, Sendable(tx.pk), NEW o, InPacket(o), NEW j, AtStart(j)
  PROVE  MessageAt(o) = IF j <= Len(tx.pk.msgs)
                        THEN [n |-> tx.n, j |-> j, wire |-> tx.pk.msgs[j]] ELSE Stray
<1> DEFINE here == {i \in 1..Len(tx.pk.msgs) : Begin(tx.pk, i) = tx.pos - qavail}
<1>1. tx.pk \in Packet /\ Len(tx.pk.msgs) \in Nat
  BY PacketFields DEF SenderType
<1>2. \A i \in 1..(Len(tx.pk.msgs) + 1) : Begin(tx.pk, i) = tx.pos - qavail => i = j
  BY <1>1, BeginUnique DEF AtStart
<1>3. /\ AtFront(o) = tx.pos - qavail
      /\ Source(o).pk = tx.pk /\ Source(o).n = tx.n
  BY DEF InPacket, AtFront
<1>4. MessageAt(o) = IF here = {} THEN Stray
                     ELSE LET i == CHOOSE i \in here : TRUE
                          IN [n |-> tx.n, j |-> i, wire |-> tx.pk.msgs[i]]
  BY <1>3 DEF MessageAt
<1>5. CASE j <= Len(tx.pk.msgs)
  <2>1. here = {j}
    BY <1>1, <1>2, <1>5 DEF AtStart
  <2> QED
    BY <1>4, <1>5, <2>1
<1>6. CASE ~(j <= Len(tx.pk.msgs))
  <2>1. here = {}
    BY <1>1, <1>2, <1>6 DEF AtStart
  <2> QED
    BY <1>4, <1>6, <2>1
<1> QED
  BY <1>5, <1>6

\* Where a cycle leaves the capture.
Lands(o) ==
  /\ Where'
  /\ pkt_end' => EndEff(o)
  /\ tx'.pos = tx'.pk.size /\ ~pkt_end' =>
       (cst' = "HDR" /\ hdr_pos' = 0) \/ (cst' = "WAIT" /\ wait_hdr')

LEMMA RestartLands ==
  ASSUME NEW o, Restart, tx'.pos = tx'.pk.size
  PROVE  Lands(o)
BY DEF Restart, Flush, Lands, Where, AtHdr

LEMMA TakenEnds ==
  ASSUME SenderType, Bus, NEW o \in Offers, Send(o), Take(o)
  PROVE  /\ ~pkt_end
         /\ EndEff(o) <=> tx'.pos = tx'.pk.size
         /\ EndEff(o) <=> o.last
         /\ Given(o) >= 1
<1>1. OfferIs(o) /\ OfferType(o)
  BY OfferFields
<1>2. tx' = [pk |-> o.pk, n |-> o.n, pos |-> o.pos + o.bytes]
  BY DEF Send
<1>3. o.bytes \in 1..BYTES /\ (o.last <=> o.pos + o.bytes = o.pk.size)
  BY <1>1 DEF OfferIs, IsBeat, Take
<1>4. ~pkt_end
  BY DEF Bus, Take
<1>5. o.bytes >= 1
  BY <1>3, Widths
<1> QED
  BY <1>2, <1>3, <1>4, <1>5 DEF EndEff, Given

LEMMA BadKeepLands ==
  ASSUME TrafficFits, ParserInv, KeepsInWait, Bus, Position,
         NEW o \in Offers, Send(o), Capture(o), BadKeep(o)
  PROVE  Lands(o)
<1>1. SenderType /\ BusType
  BY DEF ParserInv, CapturePart
<1>2. Take(o) /\ ~pkt_end /\ (EndEff(o) <=> tx'.pos = tx'.pk.size) /\ (EndEff(o) <=> o.last)
  BY <1>1, TakenEnds DEF BadKeep
<1>3. CASE o.last
  BY <1>2, <1>3, RestartLands DEF BadKeep
<1>4. CASE ~o.last
  <2>1. cst' = "DISCARD" /\ pkt_end' = pkt_end
    BY <1>4 DEF BadKeep
  <2>2. tx'.pos <= tx'.pk.size /\ tx'.pos \in Nat /\ tx'.pk.size \in Nat
    BY <1>1, GivenType
  <2> QED
    BY <1>2, <1>4, <2>1, <2>2 DEF Lands, Where, AtDiscard
<1> QED
  BY <1>3, <1>4

LEMMA HdrIdleLands ==
  ASSUME TrafficFits, ParserInv, Bus, Position,
         NEW o \in Offers, Send(o), Capture(o), Hdr(o), ~Take(o)
  PROVE  Lands(o)
<1>1. SenderType /\ BusType /\ AtHdr /\ cst = "HDR" /\ In("HDR", o)
  BY DEF ParserInv, CapturePart, Hdr, In, Position, Where
<1>2. tx' = tx /\ Given(o) = 0 /\ AvailEff(o) = 0 /\ ~EndEff(o)
  BY <1>1 DEF Send, Given, AvailEff, AtHdr, EndEff
<1>3. hdr_pos \in 0..11
  BY <1>1 DEF AtHdr
<1>4. HdrTake(o) = 0
  BY <1>2, <1>3 DEF HdrTake, PKT_HDR
<1>5. Consume(o, 0) /\ hdr_pos' = hdr_pos /\ cst' = cst
  BY <1>2, <1>3, <1>4 DEF Hdr, PKT_HDR
<1>6. qavail' = 0 /\ ~pkt_end'
  BY <1>1, <1>2, <1>5, ConsumeIs
<1> QED
  BY <1>1, <1>2, <1>5, <1>6 DEF Lands, Where, AtHdr

\* The header is taken as it comes, beat by beat.
LEMMA HdrTaken ==
  ASSUME TrafficFits, ParserInv, Bus, Position,
         NEW o \in Offers, Send(o), Capture(o), Hdr(o), Take(o)
  PROVE  /\ EndEff(o) <=> tx'.pos = tx'.pk.size
         /\ AvailEff(o) = Given(o) /\ HdrTake(o) = Given(o) /\ Given(o) \in 1..4
         /\ hdr_pos \in 0..8 /\ hdr_pos = Source(o).pos
         /\ tx'.pos = hdr_pos + Given(o)
<1>1. SenderType /\ BusType /\ AtHdr /\ cst = "HDR" /\ In("HDR", o)
  BY DEF ParserInv, CapturePart, Hdr, In, Position, Where
<1>2. /\ ~pkt_end /\ (EndEff(o) <=> tx'.pos = tx'.pk.size) /\ Given(o) >= 1
      /\ Given(o) \in 0..4 /\ AvailEff(o) = Given(o)
      /\ tx'.pos = Source(o).pos + Given(o)
  BY <1>1, TakenEnds, GivenType DEF AtHdr
<1>3. hdr_pos = Source(o).pos /\ hdr_pos \in 0..8
  <2>1. OfferIs(o) /\ tx.pos \in Nat /\ tx.pk.size \in Nat /\ tx.pos <= tx.pk.size
    BY <1>1, OfferFields, PacketFields DEF SenderType
  <2>2. CASE tx.pos < tx.pk.size
    <3>1. Source(o).pos = tx.pos
      BY <2>1, <2>2 DEF OfferIs, Source, IsBeat, Take
    <3>2. tx.pos \in 1..11 /\ hdr_pos = tx.pos
      BY <1>1, <2>1, <2>2 DEF AtHdr
    <3>3. tx.pos % 4 = 0
      BY <2>1, <2>2 DEF Bus
    <3>4. \A x \in 1..11 : x % 4 = 0 => x \in 0..8
      OBVIOUS
    <3> QED
      BY <3>1, <3>2, <3>3, <3>4
  <2>3. CASE tx.pos = tx.pk.size
    <3>1. Source(o).pos = 0
      BY <2>1, <2>3 DEF OfferIs, Source, IsBeat, Take
    <3>2. hdr_pos = 0
      BY <1>1, <2>3 DEF AtHdr
    <3> QED
      BY <3>1, <3>2
  <2> QED
    BY <2>2, <2>3, <1>1 DEF AtHdr
<1>4. HdrTake(o) = Given(o)
  BY <1>2, <1>3 DEF HdrTake, PKT_HDR
<1> QED
  BY <1>2, <1>3, <1>4

LEMMA HdrTakeLands ==
  ASSUME TrafficFits, ParserInv, Bus, Position,
         NEW o \in Offers, Send(o), Capture(o), Hdr(o), Take(o)
  PROVE  Lands(o)
<1>1. SenderType /\ BusType /\ AtHdr /\ cst = "HDR" /\ In("HDR", o)
  BY DEF ParserInv, CapturePart, Hdr, In, Position, Where
<1>2. /\ ~pkt_end /\ (EndEff(o) <=> tx'.pos = tx'.pk.size) /\ Given(o) >= 1
      /\ Given(o) \in 0..4 /\ AvailEff(o) = Given(o)
      /\ tx'.pos = Source(o).pos + Given(o) /\ tx'.pos <= tx'.pk.size
      /\ tx'.pk.size \in Nat /\ tx'.pos \in Nat /\ tx'.pk \in Packet
  BY <1>1, TakenEnds, GivenType DEF AtHdr
<1>3. /\ hdr_pos = Source(o).pos /\ hdr_pos \in 0..8 /\ HdrTake(o) = Given(o)
  BY HdrTaken
<1>4. CASE EndEff(o) /\ AvailEff(o) < PKT_HDR - hdr_pos
  BY <1>2, <1>4, RestartLands DEF Hdr
<1>5. CASE ~(EndEff(o) /\ AvailEff(o) < PKT_HDR - hdr_pos)
  <2>1. /\ Consume(o, Given(o)) /\ hdr_pos' = hdr_pos + Given(o)
        /\ IF hdr_pos' = 12 THEN cst' = "SIZE" ELSE cst' = "HDR"
    BY <1>1, <1>3, <1>5 DEF Hdr, PKT_HDR
  <2>2. qavail' = 0 /\ (pkt_end' <=> EndEff(o))
    BY <1>1, <1>2, <2>1, ConsumeIs
  <2>3. hdr_pos' = tx'.pos
    BY <1>2, <1>3, <2>1
  <2>4. CASE hdr_pos' = 12
    <3>1. Begin(tx'.pk, 1) = tx'.pos - qavail' /\ 1 \in 1..(Len(tx'.pk.msgs) + 1)
      BY <1>2, <2>2, <2>3, <2>4, BeginFirst, PacketFields
    <3>2. AtSize'
      BY <2>2, <3>1 DEF AtSize, AtStart
    <3> QED
      BY <1>2, <2>1, <2>2, <2>4, <3>2 DEF Lands, Where
  <2>5. CASE hdr_pos' # 12
    <3>1. ~EndEff(o) /\ hdr_pos' \in 1..11
      BY <1>2, <1>3, <1>5, <2>1, <2>5 DEF PKT_HDR
    <3>2. AtHdr'
      BY <1>2, <2>2, <2>3, <3>1 DEF AtHdr
    <3> QED
      BY <1>2, <2>1, <2>2, <2>5, <3>1, <3>2 DEF Lands, Where
  <2> QED
    BY <2>4, <2>5
<1> QED
  BY <1>4, <1>5

\* In the other states the capture is within a packet.
LEMMA Within ==
  ASSUME TrafficFits, ParserInv, Bus, Position,
         NEW o \in Offers, Send(o),
         cst \in {"SIZE", "BODY", "SKIP", "DISCARD"} \/ (cst = "WAIT" /\ ~wait_hdr)
  PROVE  /\ InPacket(o) /\ Given(o) \in 0..4 /\ (~tready => Given(o) = 0)
         /\ tx.pos \in Nat /\ qavail \in Nat /\ tx.pk.size \in Nat /\ tx'.pos \in Nat
         /\ tx'.pos <= tx.pk.size
         /\ tx.pk \in Packet /\ Len(tx.pk.msgs) \in Nat
<1>1. SenderType /\ BusType
  BY DEF ParserInv, CapturePart
<1>2. tx.pk \in Packet /\ tx.pos \in Nat /\ tx.pos <= tx.pk.size /\ tx.pk.size \in Nat
      /\ Len(tx.pk.msgs) \in Nat
  BY <1>1, PacketFields DEF SenderType
<1>3. tx.pos < tx.pk.size \/ pkt_end
  BY <1>2 DEF Bus
<1>4. InPacket(o)
  BY <1>1, <1>3, PacketGoesOn
<1>5. Given(o) \in 0..4 /\ tx'.pos \in Nat /\ tx'.pos <= tx'.pk.size /\ qavail \in Nat
  BY <1>1, GivenType
<1>6. tx'.pos <= tx.pk.size
  BY <1>4, <1>5 DEF InPacket
<1>7. ~tready => Given(o) = 0
  BY DEF Given, Take
<1> QED
  BY <1>2, <1>4, <1>5, <1>6, <1>7

\* The size field counts its own two bytes; less than those wraps.
LEMMA SkipLeftIs ==
  ASSUME NEW size \in Nat, size < 65536
  PROVE  SkipLeft(size) = IF size < 2 THEN size + 65534 ELSE size - 2
<1>1. \A x \in Int : x < 0 /\ x >= -65536 => x % 65536 = x + 65536
  OBVIOUS
<1>2. \A x \in Nat : x < 65536 => x % 65536 = x
  OBVIOUS
<1> DEFINE y == size - 2
<1>3. y \in Int /\ y < 65536 /\ y >= -65536
  OBVIOUS
<1>4. SkipLeft(size) = y % 65536
  BY DEF SkipLeft
<1> HIDE DEF y
<1>5. CASE y < 0
  <2>1. SkipLeft(size) = y + 65536
    BY <1>1, <1>3, <1>4, <1>5
  <2> QED
    BY <1>5, <2>1 DEF y
<1>6. CASE y >= 0
  <2>1. SkipLeft(size) = y
    BY <1>2, <1>3, <1>4, <1>6
  <2> QED
    BY <1>6, <2>1 DEF y
<1> QED
  BY <1>3, <1>5, <1>6

LEMMA SizeWaitLands ==
  ASSUME TrafficFits, ParserInv, Bus, Position,
         NEW o \in Offers, Send(o), Capture(o), SizeWait(o)
  PROVE  Lands(o)
<1>1. SenderType /\ BusType /\ cst = "SIZE" /\ In("SIZE", o) /\ AtSize
  BY DEF ParserInv, CapturePart, SizeWait, In, Position, Where
<1>2. InPacket(o) /\ Given(o) \in 0..4 /\ tx.pos \in Nat /\ qavail \in Nat
  BY <1>1, Within
<1>3. AvailEff(o) < 2 /\ Consume(o, 0) /\ cst' = "SIZE"
  BY <1>1 DEF SizeWait, captureVars
<1>4. AvailEff(o) \in Nat /\ 0 <= AvailEff(o) /\ AvailEff(o) <= 255
  BY <1>2, <1>3 DEF InPacket
<1>5. qavail' = AvailEff(o) /\ (pkt_end' <=> EndEff(o))
  BY <1>1, <1>3, <1>4, ConsumeIs
<1>6. PICK j : AtStart(j)
  BY <1>1 DEF AtSize
<1>7. tx'.pk = tx.pk /\ tx'.pos - qavail' = tx.pos - qavail
  BY <1>2, <1>5 DEF InPacket
<1>8. AtStart(j)'
  BY <1>6, <1>7 DEF AtStart
<1>9. AtSize'
  BY <1>3, <1>4, <1>5, <1>8 DEF AtSize
<1> QED
  BY <1>2, <1>3, <1>5, <1>9 DEF Lands, Where, InPacket

LEMMA SizeLands ==
  ASSUME TrafficFits, ParserInv, Bus, Position,
         NEW o \in Offers, Send(o), Capture(o), Size(o)
  PROVE  Lands(o)
<1> DEFINE m == MessageAt(o)
           size == m.wire.size
           F == tx.pos - qavail
<1>1. /\ SenderType /\ BusType /\ cst = "SIZE" /\ In("SIZE", o) /\ AtSize
      /\ Sendable(tx.pk) /\ AvailEff(o) >= 2
  BY DEF ParserInv, CapturePart, Size, In, Position, Where
<1>2. /\ InPacket(o) /\ Given(o) \in 0..4 /\ (~tready => Given(o) = 0)
      /\ tx.pos \in Nat /\ qavail \in Nat /\ tx.pk.size \in Nat
      /\ tx'.pos <= tx.pk.size /\ tx'.pos \in Nat
      /\ tx.pk \in Packet /\ Len(tx.pk.msgs) \in Nat
      /\ tx'.pk = tx.pk /\ tx'.pos = tx.pos + Given(o) /\ AvailEff(o) = qavail + Given(o)
  BY <1>1, Within DEF InPacket
<1>3. PICK j : AtStart(j)
  BY <1>1 DEF AtSize
<1>4. /\ m = IF j <= Len(tx.pk.msgs)
             THEN [n |-> tx.n, j |-> j, wire |-> tx.pk.msgs[j]] ELSE Stray
      /\ j \in 1..(Len(tx.pk.msgs) + 1) /\ Begin(tx.pk, j) = F
  BY <1>1, <1>2, <1>3, MessageIs DEF AtStart
<1>5. AvailEff(o) \in Nat /\ AvailEff(o) <= 8
  BY <1>1, <1>2 DEF InPacket, AtSize
<1> HIDE DEF m
<1>6. CASE EndEff(o) /\ (BadSize(size) \/ AvailEff(o) < size)
  <2>1. Restart
    BY <1>6 DEF Size, m
  <2> QED
    BY <1>2, <1>6, <2>1, RestartLands DEF InPacket
<1>7. CASE ~(EndEff(o) /\ (BadSize(size) \/ AvailEff(o) < size))
  <2>1. Consume(o, 2)
    BY <1>7 DEF Size, m
  <2>2. qavail' = AvailEff(o) - 2 /\ (pkt_end' <=> EndEff(o))
    BY <1>1, <1>5, <2>1, ConsumeIs
  <2>3. /\ qavail' \in Nat /\ qavail' <= 6
        /\ tx'.pk = tx.pk /\ tx'.pos - qavail' = F + 2
    <3>1. qavail' \in Nat /\ qavail' <= 6
      BY <1>1, <1>5, <2>2
    <3>2. tx'.pos - qavail' = F + 2
      <4>1. tx'.pos = tx.pos + Given(o) /\ qavail' = qavail + Given(o) - 2
        BY <1>2, <2>2
      <4>2. tx.pos \in Nat /\ qavail \in Nat /\ Given(o) \in Nat
        BY <1>2
      <4> QED
        BY <4>1, <4>2
    <3> QED
      BY <1>2, <3>1, <3>2
  <2>4. CASE BadSize(size)
    <3>1. cst' = "SKIP" /\ skip_left' = SkipLeft(size) /\ ~EndEff(o)
      BY <1>7, <2>4 DEF Size, m
    <3>2. CASE j <= Len(tx.pk.msgs)
      <4>1. j \in 1..Len(tx.pk.msgs) /\ size = tx.pk.msgs[j].size
        BY <1>2, <1>4, <3>2
      <4>2. size \in Nat /\ size >= 8 /\ size <= 65535
        BY <1>1, <1>2, <4>1, MessageSize
      <4>3. skip_left' = size - 2
        <5> HIDE DEF size
        <5> QED
          BY <3>1, <4>2, SkipLeftIs
      <4>4. Begin(tx.pk, j + 1) = F + size /\ j + 1 \in 1..(Len(tx.pk.msgs) + 1)
        BY <1>1, <1>2, <1>4, <4>1, BeginNext
      <4>5. Begin(tx'.pk, j + 1) = tx'.pos - qavail' + skip_left'
        <5>1. F \in Int
          BY <1>2
        <5> HIDE DEF F, size
        <5>2. F + 2 + (size - 2) = F + size
          BY <4>2, <5>1
        <5>3. tx'.pos - qavail' + skip_left' = F + 2 + (size - 2)
          BY <2>3, <4>3, Zenon
        <5> QED
          BY <2>3, <4>4, <5>2, <5>3, Zenon
      <4>6. SkipsTo(j + 1)'
        BY <2>3, <4>4, <4>5 DEF SkipsTo
      <4>7. AtSkip'
        BY <2>2, <2>3, <3>1, <4>2, <4>3, <4>6 DEF AtSkip
      <4> QED
        BY <1>2, <2>2, <3>1, <4>7 DEF Lands, Where, InPacket
    <3>3. CASE ~(j <= Len(tx.pk.msgs))
      <4>1. size = 0
        BY <1>4, <3>3 DEF Stray
      <4>2. skip_left' = 65534
        <5>1. SkipLeft(0) = 65534
          BY SkipLeftIs
        <5> HIDE DEF size
        <5> QED
          BY <3>1, <4>1, <5>1
      <4>3. F >= 12
        BY <1>1, <1>2, <1>4, BeginAfterHeader
      <4>4. tx.pk.size <= 65535
        BY <1>1 DEF Sendable
      <4>5. tx'.pos - qavail' + skip_left' > tx'.pk.size
        <5>1. F \in Int
          BY <1>2
        <5>2. F + 2 + 65534 > tx.pk.size
          <6> HIDE DEF F
          <6> QED
            BY <1>2, <4>3, <4>4, <5>1
        <5> HIDE DEF F
        <5> QED
          BY <1>2, <2>3, <4>2, <5>2
      <4>6. AtSkip'
        BY <2>2, <2>3, <3>1, <4>2, <4>5 DEF AtSkip
      <4> QED
        BY <1>2, <2>2, <3>1, <4>6 DEF Lands, Where, InPacket
    <3> QED
      BY <3>2, <3>3
  <2>5. CASE ~BadSize(size)
    <3>1. cst' = "BODY" /\ cap' = m /\ cap_len' = 2
      BY <1>7, <2>5 DEF Size, m
    <3>2. j <= Len(tx.pk.msgs)
      <4>1. BadSize(0)
        BY DEF BadSize, MSG_PREFIX, MAX_MSG
      <4> QED
        BY <1>4, <2>5, <4>1 DEF Stray
    <3>3. m = [n |-> tx.n, j |-> j, wire |-> tx.pk.msgs[j]] /\ j \in 1..Len(tx.pk.msgs)
      BY <1>2, <1>4, <3>2
    <3>4. cap'.n = tx.n /\ cap'.j = j /\ cap'.wire = tx.pk.msgs[j]
      BY <3>1, <3>3
    <3>5. Begin(tx.pk, j) = tx'.pos - qavail' - 2
      BY <1>2, <1>4, <2>3
    <3>6. AtBody'
      BY <1>2, <2>3, <3>1, <3>3, <3>4, <3>5 DEF AtBody, InPacket
    <3> QED
      BY <1>2, <2>2, <3>1, <3>6 DEF Lands, Where, InPacket
  <2> QED
    BY <2>4, <2>5
<1> QED
  BY <1>6, <1>7

LEMMA CompleteLands ==
  ASSUME TrafficFits, ParserInv, Bus, Position,
         NEW o \in Offers, Send(o), Capture(o), Complete(o)
  PROVE  Lands(o)
<1> DEFINE n == CapSize - cap_len
<1>1. /\ SenderType /\ BusType /\ cst = "BODY" /\ In("BODY", o) /\ AtBody
      /\ Sendable(tx.pk) /\ AvailEff(o) >= n
      /\ Fitting(cap) /\ cap_len \in 2..(CapSize - 1) /\ CaptureType
  BY DEF ParserInv, CapturePart, Storing, Complete, In, Position, Where
<1>2. /\ InPacket(o) /\ Given(o) \in 0..4 /\ (~tready => Given(o) = 0)
      /\ tx.pos \in Nat /\ qavail \in Nat /\ tx.pk.size \in Nat
      /\ tx'.pos <= tx.pk.size /\ tx'.pos \in Nat
      /\ tx.pk \in Packet /\ Len(tx.pk.msgs) \in Nat
      /\ tx'.pk = tx.pk /\ tx'.pos = tx.pos + Given(o) /\ AvailEff(o) = qavail + Given(o)
  BY <1>1, Within DEF InPacket
<1>3. CapSize \in Nat /\ CapSize >= 10 /\ cap_len \in Nat /\ cap_len >= 2 /\ n >= 1
  BY <1>1, CapFields DEF Fitting, CapSize, MSG_PREFIX, MAX_MSG
<1>4. AvailEff(o) \in Nat /\ AvailEff(o) <= 10 /\ AvailEff(o) - n <= 3 /\ n \in Nat
  <2>1. qavail <= 6 /\ (cap_len = 2 \/ qavail = 0)
    BY <1>1 DEF AtBody
  <2> QED
    BY <1>2, <1>3, <2>1
<1>5. CASE EndEff(o)
  <2>1. Flush /\ hdr_pos' = 0 /\ Switch("HDR")
    BY <1>5 DEF Complete
  <2>2. tx'.pos = tx'.pk.size /\ ~tready'
    BY <1>1, <1>5, EndStops
  <2>3. cst' = "HDR" \/ (cst' = "WAIT" /\ wait_hdr')
    BY <2>1 DEF Switch
  <2> QED
    BY <2>1, <2>2, <2>3 DEF Flush, Lands, Where, AtHdr, AtWaitHdr
<1>6. CASE ~EndEff(o)
  <2>1. Consume(o, n) /\ Switch("SIZE")
    BY <1>6 DEF Complete
  <2>2. qavail' = AvailEff(o) - n /\ ~pkt_end'
    BY <1>1, <1>4, <1>6, <2>1, ConsumeIs
  <2>3. cst' = "SIZE" \/ (cst' = "WAIT" /\ ~wait_hdr')
    BY <2>1 DEF Switch
  <2>4. cap.j \in 1..Len(tx.pk.msgs) /\ CapSize = tx.pk.msgs[cap.j].size
    BY <1>1 DEF AtBody, CapSize
  <2>5. /\ cap.j + 1 \in 1..(Len(tx.pk.msgs) + 1)
        /\ Begin(tx.pk, cap.j + 1) = Begin(tx.pk, cap.j) + CapSize
        /\ Begin(tx.pk, cap.j) \in Nat
    BY <1>1, <1>2, <2>4, BeginNext
  <2>6. Begin(tx.pk, cap.j) = tx.pos - qavail - cap_len
    BY <1>1 DEF AtBody
  <2>7. Begin(tx.pk, cap.j + 1) = tx'.pos - qavail'
    <3>1. (tx.pos - qavail - cap_len) + CapSize = (tx.pos - qavail) + n
      BY <1>2, <1>3
    <3> HIDE DEF n
    <3>2. tx'.pos - qavail' = (tx.pos - qavail) + n
      <4>1. Given(o) \in Int /\ tx.pos \in Int /\ qavail \in Int /\ n \in Int
        BY <1>2, <1>4
      <4>2. tx'.pos = tx.pos + Given(o) /\ qavail' = (qavail + Given(o)) - n
        BY <1>2, <2>2
      <4> QED
        BY <4>1, <4>2
    <3> QED
      BY <2>5, <2>6, <3>1, <3>2
  <2>8. AtStart(cap.j + 1)'
    <3>1. cap' = cap
      BY DEF Complete
    <3> QED
      BY <1>2, <2>5, <2>7, <3>1 DEF AtStart
  <2>9. qavail' <= 3 /\ qavail' \in Nat
    BY <1>4, <1>1, <2>2
  <2>10. AtSize' /\ AtWait'
    BY <2>8, <2>9 DEF AtSize, AtWait
  <2> QED
    BY <1>2, <1>6, <2>2, <2>3, <2>10 DEF Lands, Where, InPacket
<1> QED
  BY <1>5, <1>6

LEMMA BodyLands ==
  ASSUME TrafficFits, ParserInv, Bus, Position,
         NEW o \in Offers, Send(o), Capture(o), Body(o)
  PROVE  Lands(o)
<1>1. /\ SenderType /\ BusType /\ cst = "BODY" /\ In("BODY", o) /\ AtBody
      /\ cap_len \in 0..256
  BY DEF ParserInv, CapturePart, CaptureType, MAX_MSG, Body, In, Position, Where
<1>2. /\ InPacket(o) /\ Given(o) \in 0..4
      /\ tx.pos \in Nat /\ qavail \in Nat /\ tx'.pos \in Nat
      /\ tx'.pk = tx.pk /\ tx'.pos = tx.pos + Given(o) /\ AvailEff(o) = qavail + Given(o)
  BY <1>1, Within DEF InPacket
<1>3. AvailEff(o) \in Nat /\ AvailEff(o) <= 255
  BY <1>1, <1>2 DEF InPacket, AtBody
<1>4. CASE EndEff(o) /\ AvailEff(o) # 0
  <2>1. Restart
    BY <1>4 DEF Body
  <2> QED
    BY <1>2, <1>4, <2>1, RestartLands DEF InPacket
<1>5. CASE ~(EndEff(o) /\ AvailEff(o) # 0)
  <2>1. /\ Consume(o, AvailEff(o)) /\ cap_len' = cap_len + AvailEff(o)
        /\ cst' = "BODY" /\ cap' = cap
    BY <1>1, <1>5 DEF Body
  <2>2. qavail' = 0 /\ (pkt_end' <=> EndEff(o))
    BY <1>1, <1>3, <2>1, ConsumeIs
  <2>3. tx'.pos - qavail' - cap_len' = tx.pos - qavail - cap_len
    BY <1>1, <1>2, <2>1, <2>2
  <2>4. AtBody'
    BY <1>1, <1>2, <2>1, <2>2, <2>3 DEF AtBody, InPacket
  <2> QED
    BY <1>2, <2>1, <2>2, <2>4 DEF Lands, Where, InPacket
<1> QED
  BY <1>4, <1>5

LEMMA SkipLands ==
  ASSUME TrafficFits, ParserInv, Bus, Position,
         NEW o \in Offers, Send(o), Capture(o), Skip(o)
  PROVE  Lands(o)
<1>1. /\ SenderType /\ BusType /\ cst = "SKIP" /\ In("SKIP", o) /\ AtSkip
      /\ skip_left \in Nat
  BY DEF ParserInv, CapturePart, CaptureType, Skip, In, Position, Where
<1>2. /\ InPacket(o) /\ Given(o) \in 0..4
      /\ tx.pos \in Nat /\ qavail \in Nat /\ tx'.pos \in Nat
      /\ tx'.pos <= tx.pk.size /\ tx.pk.size \in Nat
      /\ tx'.pk = tx.pk /\ tx'.pos = tx.pos + Given(o) /\ AvailEff(o) = qavail + Given(o)
  BY <1>1, Within DEF InPacket
<1>3. AvailEff(o) \in Nat /\ AvailEff(o) <= 10
  BY <1>1, <1>2 DEF AtSkip
<1>4. CASE EndEff(o)
  <2>1. Restart
    BY <1>4 DEF Skip
  <2> QED
    BY <1>2, <1>4, <2>1, RestartLands DEF InPacket
<1>5. CASE ~EndEff(o) /\ AvailEff(o) >= skip_left
  <2>1. Consume(o, skip_left) /\ cst' = "SIZE"
    BY <1>5 DEF Skip
  <2>2. qavail' = AvailEff(o) - skip_left /\ ~pkt_end'
    BY <1>1, <1>3, <1>5, <2>1, ConsumeIs
  <2>3. tx'.pos - qavail' = tx.pos - qavail + skip_left
    BY <1>1, <1>2, <2>2
  <2>4. PICK j : SkipsTo(j)
    BY <1>1, <1>2, <1>3, <1>5 DEF AtSkip
  <2>5. AtStart(j)'
    BY <1>2, <2>3, <2>4 DEF SkipsTo, AtStart
  <2>6. qavail' <= 4 /\ qavail' \in Nat
    BY <1>1, <1>2, <1>3, <1>5, <2>2 DEF AtSkip
  <2>7. AtSize'
    BY <2>5, <2>6 DEF AtSize
  <2> QED
    BY <1>2, <1>5, <2>1, <2>2, <2>7 DEF Lands, Where, InPacket
<1>6. CASE ~EndEff(o) /\ ~(AvailEff(o) >= skip_left)
  <2>1. Consume(o, AvailEff(o)) /\ cst' = "SKIP" /\ skip_left' = skip_left - AvailEff(o)
    BY <1>6 DEF Skip
  <2>2. qavail' = 0 /\ ~pkt_end'
    BY <1>1, <1>3, <1>6, <2>1, ConsumeIs
  <2>3. tx'.pos - qavail' + skip_left' = tx.pos - qavail + skip_left
    BY <1>1, <1>2, <2>1, <2>2
  <2>4. \A j : SkipsTo(j) => SkipsTo(j)'
    BY <1>2, <2>3 DEF SkipsTo
  <2>5. AtSkip'
    BY <1>1, <1>2, <2>2, <2>3, <2>4 DEF AtSkip
  <2> QED
    BY <1>2, <1>6, <2>1, <2>2, <2>5 DEF Lands, Where, InPacket
<1> QED
  BY <1>4, <1>5, <1>6

LEMMA WaitHdrLands ==
  ASSUME TrafficFits, ParserInv, Bus, Position,
         NEW o \in Offers, Send(o), Capture(o), Wait(o), wait_hdr
  PROVE  Lands(o)
<1>1. SenderType /\ BusType /\ cst = "WAIT" /\ In("WAIT", o) /\ AtWaitHdr
  BY DEF ParserInv, CapturePart, Wait, In, Position, Where
<1>2. tx' = tx /\ AvailEff(o) = 0 /\ ~EndEff(o)
  BY <1>1 DEF AtWaitHdr, Send, Take, AvailEff, EndEff
<1>3. /\ Consume(o, 0) /\ hdr_pos' = hdr_pos
      /\ cst' = "HDR" \/ (cst' = "WAIT" /\ wait_hdr' = wait_hdr)
  BY <1>1 DEF Wait
<1>4. qavail' = 0 /\ ~pkt_end'
  BY <1>1, <1>2, <1>3, ConsumeIs
<1>5. ~tready'
  BY <1>1 DEF Capture, Ready
<1> QED
  BY <1>1, <1>2, <1>3, <1>4, <1>5 DEF Lands, Where, AtHdr, AtWaitHdr

LEMMA WaitSizeLands ==
  ASSUME TrafficFits, ParserInv, Bus, Position,
         NEW o \in Offers, Send(o), Capture(o), Wait(o), ~wait_hdr
  PROVE  Lands(o)
<1>1. SenderType /\ BusType /\ cst = "WAIT" /\ In("WAIT", o) /\ AtWait
  BY DEF ParserInv, CapturePart, Wait, In, Position, Where
<1>2. /\ InPacket(o) /\ Given(o) \in 0..4 /\ (~tready => Given(o) = 0)
      /\ tx.pos \in Nat /\ qavail \in Nat
  BY <1>1, Within
<1>3. AvailEff(o) \in Nat /\ AvailEff(o) <= 7
  BY <1>1, <1>2 DEF InPacket, AtWait
<1>4. Consume(o, 0) /\ (cst' = "SIZE" \/ (cst' = "WAIT" /\ wait_hdr' = wait_hdr))
  BY <1>1 DEF Wait
<1>5. qavail' = AvailEff(o) /\ (pkt_end' <=> EndEff(o))
  BY <1>1, <1>3, <1>4, ConsumeIs
<1>6. ~tready'
  BY <1>1 DEF Capture, Ready
<1>7. PICK j : AtStart(j)
  BY <1>1 DEF AtWait
<1>8. tx'.pk = tx.pk /\ tx'.pos - qavail' = tx.pos - qavail
  BY <1>2, <1>5 DEF InPacket
<1>9. AtStart(j)'
  BY <1>7, <1>8 DEF AtStart
<1>10. AtSize' /\ AtWait'
  BY <1>3, <1>5, <1>6, <1>9 DEF AtSize, AtWait
<1> QED
  BY <1>2, <1>4, <1>5, <1>10 DEF Lands, Where, InPacket

LEMMA DiscardLands ==
  ASSUME TrafficFits, ParserInv, Bus, Position,
         NEW o \in Offers, Send(o), Capture(o), Discard(o)
  PROVE  Lands(o)
<1>1. SenderType /\ BusType /\ cst = "DISCARD" /\ AtDiscard
  BY DEF ParserInv, CapturePart, Discard, In, Position, Where
<1>2. InPacket(o) /\ tx.pk.size \in Nat /\ tx'.pos \in Nat /\ tx'.pos <= tx.pk.size
  BY <1>1, Within
<1>3. CASE EndEff(o)
  <2>1. Restart
    BY <1>3 DEF Discard
  <2> QED
    BY <1>2, <1>3, <2>1, RestartLands DEF InPacket
<1>4. CASE ~EndEff(o)
  <2>1. Consume(o, 0) /\ cst' = "DISCARD"
    BY <1>1, <1>4 DEF Discard
  <2>2. ~pkt_end'
    BY <1>1, <2>1 DEF Consume, Appended, AtDiscard
  <2>3. tx'.pk = tx.pk /\ tx'.pos # tx.pk.size
    BY <1>2, <1>4 DEF InPacket
  <2>4. AtDiscard'
    BY <1>2, <2>2, <2>3 DEF AtDiscard
  <2> QED
    BY <2>1, <2>2, <2>3, <2>4 DEF Lands, Where
<1> QED
  BY <1>3, <1>4

LEMMA CaptureLands ==
  ASSUME TrafficFits, ParserInv, KeepsInWait, Bus, Position,
         NEW o \in Offers, Send(o), Capture(o)
  PROVE  Lands(o)
<1>1. CASE BadKeep(o)
  BY <1>1, BadKeepLands
<1>2. CASE Hdr(o)
  BY <1>2, HdrIdleLands, HdrTakeLands
<1>3. CASE SizeWait(o) \/ Size(o)
  BY <1>3, SizeWaitLands, SizeLands
<1>4. CASE Complete(o) \/ Body(o)
  BY <1>4, CompleteLands, BodyLands
<1>5. CASE Skip(o) \/ Discard(o)
  BY <1>5, SkipLands, DiscardLands
<1>6. CASE Wait(o)
  BY <1>6, WaitHdrLands, WaitSizeLands
<1> QED
  BY <1>1, <1>2, <1>3, <1>4, <1>5, <1>6 DEF Capture

LEMMA SendableStep ==
  ASSUME TrafficFits, SenderType, Sendable(tx.pk), NEW o \in Offers, Send(o)
  PROVE  Sendable(tx'.pk)
<1>1. OfferIs(o)
  BY OfferFields
<1>2. tx'.pk = o.pk \/ tx'.pk = tx.pk
  BY DEF Send
<1>3. o.pk = tx.pk \/ o.pk \in Packets
  BY <1>1 DEF OfferIs, IsBeat
<1> QED
  BY <1>2, <1>3 DEF TrafficFits

LEMMA PositionCycle ==
  ASSUME TrafficFits, ParserInv, KeepsInWait, Bus, Position,
         NEW o \in Offers, Send(o), Capture(o)
  PROVE  Bus' /\ Position'
<1>1. SenderType /\ Sendable(tx.pk)
  BY DEF ParserInv, Position
<1>2. Lands(o)
  BY CaptureLands
<1>3. tx'.pos % 4 = 0 \/ tx'.pos = tx'.pk.size
  BY <1>1, AlignStep
<1>4. pkt_end' => tx'.pos = tx'.pk.size /\ ~tready'
  BY <1>1, <1>2, EndStops DEF Lands
<1>5. Bus'
  BY <1>2, <1>3, <1>4 DEF Lands, Bus
<1>6. Sendable(tx.pk)'
  BY <1>1, SendableStep DEF Sendable
<1> QED
  BY <1>2, <1>5, <1>6 DEF Lands, Position

LEMMA PositionNext ==
  ASSUME TrafficFits, ParserInv, KeepsInWait, Bus, Position, [HNext]_hvars
  PROVE  Bus' /\ Position'
<1>1. CASE HNext
  <2>1. PICK o \in Offers, rdy \in BOOLEAN : Cycle(o, rdy)
    BY <1>1 DEF HNext, HCycle
  <2> QED
    BY <2>1, PositionCycle DEF Cycle
<1>2. CASE UNCHANGED hvars
  <2>1. UNCHANGED <<tx, tready, qavail, pkt_end, cst, hdr_pos, wait_hdr, cap_len, skip_left,
                    cap>>
    BY <1>2 DEF hvars, vars, busVars, captureVars
  <2>2. Bus'
    BY <2>1 DEF Bus
  <2>3. Where'
    BY <2>1 DEF Position, Where, AtHdr, AtWaitHdr, AtWait, AtSize, AtBody, AtSkip,
                AtDiscard, AtStart, SkipsTo
  <2>4. Sendable(tx.pk)'
    BY <2>1 DEF Position, Sendable
  <2> QED
    BY <2>2, <2>3, <2>4 DEF Position
<1> QED
  BY <1>1, <1>2

LEMMA PositionInit ==
  ASSUME HInit
  PROVE  Bus /\ Position
<1>1. /\ tx.pos = 1 /\ tx.pk = NoPacket /\ NoPacket.size = 1
      /\ qavail = 0 /\ ~pkt_end /\ cst = "HDR" /\ hdr_pos = 0
  BY DEF HInit, Init, NoPacket
<1>2. Sendable(NoPacket)
  <2>1. NoPacket.size = 1 /\ NoPacket.badBeat = 0 /\ Len(NoPacket.msgs) = 0
    BY DEF NoPacket
  <2> QED
    BY <2>1 DEF Sendable
<1>3. Bus
  BY <1>1 DEF Bus
<1>4. Where
  BY <1>1 DEF Where, AtHdr
<1> QED
  BY <1>1, <1>2, <1>3, <1>4 DEF Position

LEMMA PositionInvariant ==
  ASSUME TrafficFits
  PROVE  HSpec /\ []KeepsInWait => [](Bus /\ Position)
<1>1. HInit => Bus /\ Position
  BY PositionInit
<1>2. ParserInv /\ KeepsInWait /\ Bus /\ Position /\ [HNext]_hvars => Bus' /\ Position'
  BY PositionNext
<1> QED
  BY <1>1, <1>2, ParserInvariant, PTL DEF HSpec

LEMMA PositionInSync ==
  ASSUME TrafficFits, ParserInv, Owners, Position
  PROVE  InSync
<1>1. ASSUME cst = "SIZE"
      PROVE  \E j \in 1..(Len(tx.pk.msgs) + 1) : Begin(tx.pk, j) = tx.pos - qavail
  BY <1>1 DEF Position, Where, AtSize, AtStart
<1>2. ASSUME cst = "BODY" PROVE cap_len < CapSize /\ qavail <= 2 * BYTES
  <2>1. qavail <= 6
    BY <1>2 DEF Position, Where, AtBody
  <2>3. qavail \in Nat
    BY DEF ParserInv, CapturePart, BusType
  <2>2. cap_len \in 2..(CapSize - 1) /\ CapSize \in Nat
    BY <1>2, CapFields DEF ParserInv, CapturePart, Storing
  <2> QED
    BY <2>1, <2>2, <2>3, BytesAreFour
<1>3. InStep
  BY <1>1, <1>2 DEF InStep, Owners
<1>4. SlotFree
  BY DEF Owners, SlotFree
<1> QED
  BY <1>3, <1>4 DEF InSync

\* On the narrow bus, with packets that a venue can send and no malformed tkeep
\* in CS_WAIT, the capture looks for a size only where a message begins, the
\* copy stays within its lanes, and no message is written over.
THEOREM InSyncAlways ==
  ASSUME TrafficFits
  PROVE  HSpec /\ []KeepsInWait => []InSync
<1>1. ParserInv /\ Owners /\ Position => InSync
  BY PositionInSync
<1> QED
  BY <1>1, ParserInvariant, OwnersInvariant, PositionInvariant, PTL

(***************************************************************************)
(* Traffic without a malformed tkeep                                       *)
(***************************************************************************)
LEMMA CleanOffers ==
  ASSUME SenderType, tx.pk.badBeat = 0, CleanTraffic, NEW o \in Offers
  PROVE  o.keepOk /\ o.pk.badBeat = 0
<1>1. OfferIs(o) /\ OfferType(o)
  BY OfferFields
<1>2. \A k \in Nat : k \div BYTES + 1 # 0
  BY Widths
<1>3. ASSUME NEW p, NEW n, NEW pos \in Nat, o = Beat(p, n, pos), p.badBeat = 0
      PROVE  o.keepOk /\ o.pk.badBeat = 0
  BY <1>2, <1>3 DEF Beat
<1>4. CASE o = NoBeat
  BY <1>4 DEF NoBeat
<1>5. CASE o = Beat(tx.pk, tx.n, tx.pos)
  BY <1>3, <1>5 DEF SenderType
<1>6. CASE o.pk \in Packets /\ o = Beat(o.pk, tx.n + 1, 0)
  <2>1. o.pk.badBeat = 0
    BY <1>6 DEF CleanTraffic
  <2> QED
    BY <1>3, <1>6, <2>1
<1> QED
  BY <1>1, <1>4, <1>5, <1>6 DEF OfferIs

LEMMA CleanKeeps ==
  ASSUME CleanTraffic
  PROVE  HSpec => []KeepsInWait
<1> DEFINE Clean == tx.pk.badBeat = 0
<1>1. HInit => Clean
  BY DEF HInit, Init, NoPacket
<1>2. ParserInv /\ Clean /\ [HNext]_hvars => Clean'
  <2> SUFFICES ASSUME ParserInv, Clean, [HNext]_hvars PROVE Clean'
    OBVIOUS
  <2>1. CASE HNext
    <3>1. PICK o \in Offers : Send(o)
      BY <2>1 DEF HNext, HCycle, Cycle
    <3>2. o.pk.badBeat = 0
      BY CleanOffers DEF ParserInv
    <3> QED
      BY <3>1, <3>2 DEF Send
  <2>2. CASE UNCHANGED hvars
    BY <2>2 DEF hvars, vars
  <2> QED
    BY <2>1, <2>2
<1>3. ParserInv /\ Clean => KeepsInWait
  BY CleanOffers DEF ParserInv, KeepsInWait
<1> QED
  BY <1>1, <1>2, <1>3, ParserInvariant, PTL DEF HSpec

(***************************************************************************)
(* What the capture has made of the packet so far                          *)
(***************************************************************************)
Seen == {taken[i] : i \in 1..Len(taken)}

\* Before message j, exactly the sound ones were captured.
Before(j) == Seen = {i \in 1..(j - 1) : Sound(tx.pk, i)}

\* The number of the packet was compared, and will be.
Told == /\ first_pkt /\ exp_seq = tx.pk.seq + 1
        /\ before.ok => (gapped <=> tx.pk.seq # before.seq + 1)
Untold == before.ok => first_pkt /\ exp_seq = before.seq + 1 /\ ~gapped

\* What holds of a packet that is over.
Settled == /\ tx.pk.badBeat = 0 => Leading(tx.pk) \subseteq Seen
           /\ WellFormed(tx.pk) => Told

Stage ==
  /\ cst = "HDR" /\ tx.pos = tx.pk.size => Settled
  /\ cst = "HDR" /\ tx.pos < tx.pk.size => taken = <<>> /\ Untold
  /\ cst = "WAIT" /\ wait_hdr => Settled
  /\ cst = "WAIT" /\ ~wait_hdr =>
       (\A j : AtStart(j) => Before(j)) /\ Told /\ ~gap_check
  /\ cst = "SIZE" =>
       (\A j : AtStart(j) => Before(j)) /\ IF gap_check THEN Untold ELSE Told
  /\ cst = "BODY" => Before(cap.j) /\ Told /\ ~gap_check
  /\ cst = "SKIP" =>
       /\ Leading(tx.pk) \subseteq Seen /\ (\A j : SkipsTo(j) => Before(j))
       /\ Told /\ ~gap_check

\* The messages captured, in order and each a message.
Listed == /\ taken \in Seq(Nat)
          /\ \A i \in 1..(Len(taken) - 1) : taken[i] < taken[i + 1]
          /\ \A i \in 1..Len(taken) : Sound(tx.pk, taken[i])

\* The errors that were pulsed: none for a packet without a defect, one for a
\* malformed tkeep once that beat was taken.
Blamed ==
  /\ WellFormed(tx.pk) => blame = {} /\ cst \notin {"SKIP", "DISCARD"}
  /\ tx.pk.badBeat # 0 /\ 4 * (tx.pk.badBeat - 1) < tx.pos => "keep" \in blame
  /\ cst = "DISCARD" => tx.pk.badBeat # 0 /\ "keep" \in blame

Account == Listed /\ Blamed /\ Stage /\ tx.pos # 0

LEMMA LeadingBefore ==
  ASSUME SenderType, NEW j \in 1..(Len(tx.pk.msgs) + 1), Before(j),
         j = Len(tx.pk.msgs) + 1 \/ ~Sound(tx.pk, j)
  PROVE  Leading(tx.pk) \subseteq Seen
<1>1. Len(tx.pk.msgs) \in Nat
  BY PacketFields DEF SenderType
<1> SUFFICES ASSUME NEW k \in Leading(tx.pk) PROVE k \in Seen
  OBVIOUS
<1>2. k \in 1..Len(tx.pk.msgs) /\ \A i \in 1..k : Sound(tx.pk, i)
  BY DEF Leading
<1>3. k \in 1..(j - 1) /\ Sound(tx.pk, k)
  BY <1>1, <1>2
<1> QED
  BY <1>3 DEF Before

LEMMA NotWhole ==
  ASSUME NEW p, NEW j \in 1..Len(p.msgs), ~Sound(p, j)
  PROVE  ~WellFormed(p)
<1>1. j \notin Leading(p)
  <2>1. j \in 1..j
    OBVIOUS
  <2> QED
    BY <2>1 DEF Leading
<1> QED
  BY <1>1 DEF WellFormed

\* A message that is skipped is not one of those.
LEMMA BeforeSkipped ==
  ASSUME NEW j \in Nat, Before(j), ~Sound(tx.pk, j)
  PROVE  Before(j + 1)
<1>1. ASSUME NEW i \in 1..((j + 1) - 1), Sound(tx.pk, i) PROVE i \in 1..(j - 1)
  BY <1>1
<1>2. ASSUME NEW i \in 1..(j - 1) PROVE i \in 1..((j + 1) - 1)
  BY <1>2
<1>3. {i \in 1..((j + 1) - 1) : Sound(tx.pk, i)} = {i \in 1..(j - 1) : Sound(tx.pk, i)}
  BY <1>1, <1>2
<1> QED
  BY <1>3 DEF Before

(***************************************************************************)
(* What the record of a cycle is                                           *)
(***************************************************************************)
LEMMA FirstBeatIs ==
  ASSUME SenderType, tx.pos # 0, NEW o \in Offers
  PROVE  FirstBeat(o) <=> Take(o) /\ tx.pos = tx.pk.size
<1>1. OfferIs(o) /\ tx.pos \in Nat /\ tx.pk.size \in Nat
  BY OfferFields, PacketFields DEF SenderType
<1> QED
  BY <1>1 DEF FirstBeat, OfferIs, IsBeat, Take

LEMMA RecordKeeps ==
  ASSUME taken \in Seq(Nat), NEW o, NEW rdy, Record(o, rdy), Filled(o) = {}
  PROVE  /\ taken' = IF FirstBeat(o) THEN <<>> ELSE taken
         /\ blame' = (IF FirstBeat(o) THEN {} ELSE blame) \cup cap_error'
         /\ gapped' <=> (gap' \/ (gapped /\ ~FirstBeat(o)))
         /\ before' = IF FirstBeat(o)
                      THEN [seq |-> tx.pk.seq, ok |-> tx.n > 0 /\ WellFormed(tx.pk)]
                      ELSE before
<1> DEFINE old == IF FirstBeat(o) THEN <<>> ELSE taken
           new == [i \in 1..Len(Captured(o)) |-> cap.j]
<1>1. Captured(o) = <<>>
  BY DEF Captured
<1>2. new = <<>>
  BY <1>1
<1>3. old \in Seq(Nat)
  OBVIOUS
<1>4. taken' = old \o new
  BY DEF Record
<1> HIDE DEF new, old
<1>5. taken' = old
  BY <1>2, <1>3, <1>4
<1>6. gapped' <=> (gap' \/ (gapped /\ ~FirstBeat(o)))
  BY DEF Record
<1> QED
  BY <1>5, <1>6 DEF Record, old

LEMMA RecordAdds ==
  ASSUME taken \in Seq(Nat), cap.j \in Nat, NEW o, NEW rdy, Record(o, rdy),
         Filled(o) # {}, ~FirstBeat(o)
  PROVE  /\ taken' = Append(taken, cap.j)
         /\ blame' = blame \cup cap_error'
         /\ gapped' <=> gap' \/ gapped
         /\ before' = before
<1> DEFINE new == [i \in 1..Len(Captured(o)) |-> cap.j]
<1>1. Captured(o) = <<cap>>
  BY DEF Captured
<1>2. new = <<cap.j>>
  BY <1>1
<1>3. taken' = taken \o new
  BY DEF Record
<1> HIDE DEF new
<1>4. taken' = Append(taken, cap.j)
  BY <1>2, <1>3
<1>5. gapped' <=> gap' \/ gapped
  BY DEF Record
<1> QED
  BY <1>4, <1>5 DEF Record

\* Within a packet a cycle that stores no message leaves the reckoning as it is.
Carries ==
  /\ tx'.pk = tx.pk /\ taken' = taken /\ before' = before
  /\ blame' = blame \cup cap_error'
  /\ gapped' <=> gap' \/ gapped

LEMMA WithinCarries ==
  ASSUME SenderType, taken \in Seq(Nat), tx.pos # 0, NEW o \in Offers, NEW rdy,
         InPacket(o), Send(o), Record(o, rdy), Filled(o) = {}, Source(o).pos = tx.pos
  PROVE  Carries
<1>1. ~FirstBeat(o)
  <2>1. Take(o) => o.pos = tx.pos
    BY DEF Source
  <2> QED
    BY <2>1 DEF FirstBeat
<1> QED
  BY <1>1, RecordKeeps DEF InPacket, Carries

LEMMA CarriesOn ==
  ASSUME Carries
  PROVE  /\ Seen' = Seen
         /\ \A j : Before(j) => Before(j)'
         /\ Leading(tx.pk)' = Leading(tx.pk)
         /\ Quiet /\ UNCHANGED <<first_pkt, exp_seq>> =>
              (Told => Told') /\ (Untold => Untold') /\ (Settled => Settled')
<1>1. Seen' = Seen /\ tx'.pk = tx.pk
  BY DEF Carries, Seen
<1>2. \A j : Before(j) => Before(j)'
  BY <1>1 DEF Before
<1>3. Leading(tx.pk)' = Leading(tx.pk)
  BY <1>1
<1>4. ASSUME Quiet, UNCHANGED <<first_pkt, exp_seq>>
      PROVE  (Told => Told') /\ (Untold => Untold') /\ (Settled => Settled')
  <2>1. (gapped' <=> gapped) /\ before' = before /\ first_pkt' = first_pkt /\ exp_seq' = exp_seq
    BY <1>4 DEF Carries, Quiet
  <2>2. Told => Told'
    BY <1>1, <2>1 DEF Told
  <2>3. Untold => Untold'
    BY <2>1 DEF Untold
  <2>4. Settled => Settled'
    BY <1>1, <1>3, <2>2 DEF Settled
  <2> QED
    BY <2>2, <2>3, <2>4
<1> QED
  BY <1>1, <1>2, <1>3, <1>4

\* What is consumed moves the front of the queue.
LEMMA FrontMoves ==
  ASSUME TrafficFits, SenderType, BusType, NEW o \in Offers, Send(o), InPacket(o),
         NEW s, In(s, o), s # "DISCARD",
         NEW n \in Nat, n <= AvailEff(o), AvailEff(o) <= 255, Consume(o, n)
  PROVE  /\ tx'.pk = tx.pk
         /\ tx'.pos - qavail' = tx.pos - qavail + n
<1>1. qavail' = AvailEff(o) - n
  BY ConsumeIs
<1>2. tx'.pk = tx.pk /\ tx'.pos = tx.pos + Given(o) /\ AvailEff(o) = qavail + Given(o)
  BY DEF InPacket
<1>3. Given(o) \in Nat /\ tx.pos \in Nat /\ qavail \in Nat
  BY GivenType DEF SenderType
<1> QED
  BY <1>1, <1>2, <1>3

(***************************************************************************)
(* The reckoning of each step of the capture                               *)
(***************************************************************************)
\* A step blames no packet without a defect, and leaves the stage it says.
Reckons ==
  /\ WellFormed(tx.pk)' => cap_error' = {} /\ cst' \notin {"SKIP", "DISCARD"}
  /\ Stage'

LEMMA RestartReckons ==
  ASSUME tx'.pos \in Nat, tx'.pos = tx'.pk.size, cst' = "HDR", Settled',
         cap_error' = {} \/ ~WellFormed(tx.pk)'
  PROVE  Reckons
<1>1. ~(tx'.pos < tx'.pk.size)
  OBVIOUS
<1> QED
  BY <1>1 DEF Reckons, Stage

LEMMA MalformedIs ==
  ASSUME SenderType, NEW o \in Offers, Take(o), ~o.keepOk
  PROVE  o.pk.badBeat # 0 /\ o.pk.badBeat = o.pos \div BYTES + 1
<1>1. OfferIs(o) /\ OfferType(o)
  BY OfferFields
<1>2. o.pk.badBeat = o.pos \div BYTES + 1
  <2>1. ASSUME NEW p, NEW n, NEW pos, o = Beat(p, n, pos)
        PROVE  o.pk.badBeat = o.pos \div BYTES + 1
    BY <2>1 DEF Beat
  <2> QED
    BY <1>1, <2>1 DEF OfferIs, Take
<1>3. \A k \in Nat : k \div BYTES + 1 # 0
  BY Widths
<1> QED
  BY <1>1, <1>2, <1>3 DEF OfferType

LEMMA BadKeepReckons ==
  ASSUME TrafficFits, ParserInv, KeepsInWait, Bus, Position, Account,
         NEW o \in Offers, NEW rdy, Send(o), Capture(o), Record(o, rdy), BadKeep(o)
  PROVE  Reckons
<1>1. SenderType
  BY DEF ParserInv
<1>2. /\ Take(o) /\ ~o.keepOk
      /\ tx' = [pk |-> o.pk, n |-> o.n, pos |-> o.pos + o.bytes]
  BY DEF BadKeep, Send
<1>3. tx'.pk.badBeat # 0
  BY <1>1, <1>2, MalformedIs
<1>4. ~WellFormed(tx.pk)'
  BY <1>3 DEF WellFormed
<1>5. CASE o.last
  <2>1. Settled'
    BY <1>3, <1>4 DEF Settled
  <2>2. cst' = "HDR"
    BY <1>5 DEF BadKeep, Restart
  <2>3. tx'.pos = tx'.pk.size /\ tx'.pos \in Nat
    BY <1>1, <1>2, <1>5, TakenEnds, SenderStep DEF SenderType
  <2> QED
    BY <1>4, <2>1, <2>2, <2>3, RestartReckons
<1>6. CASE ~o.last
  BY <1>4, <1>6 DEF BadKeep, Reckons, Stage
<1> QED
  BY <1>5, <1>6

LEMMA NoneFilled ==
  ASSUME NEW o, ~In("BODY", o)
  PROVE  Filled(o) = {}
BY DEF Filled

LEMMA HdrIdleReckons ==
  ASSUME TrafficFits, ParserInv, Bus, Position, Account,
         NEW o \in Offers, NEW rdy, Send(o), Capture(o), Record(o, rdy), Hdr(o), ~Take(o)
  PROVE  Reckons
<1>1. SenderType /\ BusType /\ AtHdr /\ cst = "HDR" /\ In("HDR", o)
  BY DEF ParserInv, CapturePart, Hdr, In, Position, Where
<1>2. tx' = tx /\ Given(o) = 0 /\ AvailEff(o) = 0 /\ ~EndEff(o)
  BY <1>1 DEF Send, Given, AvailEff, AtHdr, EndEff
<1>3. hdr_pos \in 0..11
  BY <1>1 DEF AtHdr
<1>4. HdrTake(o) = 0
  BY <1>2, <1>3 DEF HdrTake, PKT_HDR
<1>5. cst' = "HDR" /\ cap_error' = {} /\ Quiet /\ UNCHANGED <<first_pkt, exp_seq>>
  BY <1>1, <1>2, <1>3, <1>4 DEF Hdr, PKT_HDR
<1>6. Filled(o) = {} /\ ~FirstBeat(o)
  BY <1>1, NoneFilled DEF In, FirstBeat
<1>7. Carries
  BY <1>2, <1>6, RecordKeeps DEF Carries, Account, Listed
<1>8. (Settled => Settled') /\ (Untold => Untold') /\ taken' = taken
  BY <1>5, <1>7, CarriesOn DEF Carries
<1>9. tx'.pos = tx.pos /\ tx'.pk = tx.pk
  BY <1>2
<1>10. Stage'
  BY <1>1, <1>5, <1>8, <1>9 DEF Account, Stage
<1> QED
  BY <1>5, <1>10 DEF Reckons

\* With the first beat of a packet the reckoning begins anew.
LEMMA HdrOpens ==
  ASSUME TrafficFits, ParserInv, Bus, Position, Account,
         NEW o \in Offers, NEW rdy, Send(o), Capture(o), Record(o, rdy), Hdr(o), Take(o)
  PROVE  taken' = <<>> /\ Untold'
<1>1. SenderType /\ AtHdr /\ cst = "HDR" /\ In("HDR", o) /\ tx.pos \in Nat
  BY DEF ParserInv, SenderType, Hdr, In, Position, Where
<1>2. Filled(o) = {} /\ (FirstBeat(o) <=> tx.pos = tx.pk.size)
  BY <1>1, NoneFilled, FirstBeatIs DEF In, Account
<1>3. gap' = FALSE /\ UNCHANGED <<first_pkt, exp_seq>>
  BY DEF Hdr, Quiet
<1>4. CASE FirstBeat(o)
  <2>1. /\ taken' = <<>> /\ ~gapped'
        /\ before' = [seq |-> tx.pk.seq, ok |-> tx.n > 0 /\ WellFormed(tx.pk)]
    BY <1>2, <1>3, <1>4, RecordKeeps DEF Account, Listed
  <2>2. Settled
    BY <1>1, <1>2, <1>4 DEF Account, Stage
  <2>3. before'.ok => WellFormed(tx.pk) /\ before'.seq = tx.pk.seq
    BY <2>1
  <2>4. before'.ok => first_pkt' /\ exp_seq' = before'.seq + 1
    BY <1>3, <2>2, <2>3 DEF Settled, Told
  <2> QED
    BY <2>1, <2>4 DEF Untold
<1>5. CASE ~FirstBeat(o)
  <2>1. taken' = taken /\ before' = before /\ (gapped' <=> gapped)
    BY <1>2, <1>3, <1>5, RecordKeeps DEF Account, Listed
  <2>2. tx.pos < tx.pk.size
    BY <1>1, <1>2, <1>5 DEF AtHdr
  <2>3. taken = <<>> /\ Untold
    BY <1>1, <2>2 DEF Account, Stage
  <2> QED
    BY <1>3, <2>1, <2>3 DEF Untold
<1> QED
  BY <1>4, <1>5

LEMMA HdrTakeReckons ==
  ASSUME TrafficFits, ParserInv, Bus, Position, Account,
         NEW o \in Offers, NEW rdy, Send(o), Capture(o), Record(o, rdy), Hdr(o), Take(o)
  PROVE  Reckons
<1> DEFINE p == tx'.pk
<1>1. SenderType /\ BusType /\ cst = "HDR" /\ In("HDR", o) /\ Sendable(tx.pk)
  BY DEF ParserInv, CapturePart, Hdr, In, Position, Where
<1>2. /\ EndEff(o) <=> tx'.pos = p.size
      /\ AvailEff(o) = Given(o) /\ HdrTake(o) = Given(o) /\ Given(o) \in 1..4
      /\ hdr_pos \in 0..8 /\ tx'.pos = hdr_pos + Given(o)
  BY HdrTaken
<1>3. /\ p \in Packet /\ p.size \in Nat /\ Len(p.msgs) \in Nat /\ Sendable(p)
      /\ tx'.pos <= p.size
  BY <1>1, GivenType, PacketFields, SendableStep
<1>4. taken' = <<>> /\ Untold'
  BY HdrOpens
<1>5. CASE EndEff(o) /\ AvailEff(o) < PKT_HDR - hdr_pos
  <2>1. p.size < 12
    BY <1>2, <1>5 DEF PKT_HDR
  <2>2. Leading(p) = {}
    <3>1. ASSUME NEW j \in 1..Len(p.msgs) PROVE ~Sound(p, 1)
      <4>1. 1 \in 1..Len(p.msgs)
        BY <1>3, <3>1
      <4> QED
        BY <1>3, <2>1, <4>1, BeginFirst, MessageSize DEF Sound
    <3>2. ASSUME NEW j \in 1..Len(p.msgs) PROVE 1 \in 1..j
      BY <3>2
    <3> QED
      BY <3>1, <3>2 DEF Leading
  <2>3. ~WellFormed(p)
    <3>1. Begin(p, Len(p.msgs) + 1) >= 12 /\ Begin(p, Len(p.msgs) + 1) \in Nat
      BY <1>3, BeginAfterHeader, BeginType
    <3> QED
      BY <1>3, <2>1, <3>1 DEF WellFormed
  <2>4. Settled'
    BY <2>2, <2>3 DEF Settled
  <2>5. cst' = "HDR"
    BY <1>5 DEF Hdr, Restart
  <2> QED
    BY <1>2, <1>5, <2>3, <2>4, <2>5, RestartReckons
<1>6. CASE ~(EndEff(o) /\ AvailEff(o) < PKT_HDR - hdr_pos)
  <2>1. /\ Consume(o, Given(o)) /\ hdr_pos' = hdr_pos + Given(o) /\ cap_error' = {}
        /\ IF hdr_pos' = 12 THEN cst' = "SIZE" /\ gap_check' = TRUE ELSE cst' = "HDR"
    BY <1>1, <1>2, <1>6 DEF Hdr, PKT_HDR
  <2>2. qavail' = 0
    BY <1>1, <1>2, <2>1, ConsumeIs
  <2>3. CASE hdr_pos' = 12
    <3>1. ASSUME NEW j, AtStart(j)' PROVE Before(j)'
      <4>1. j \in 1..(Len(p.msgs) + 1) /\ Begin(p, j) = 12
        BY <1>2, <2>1, <2>2, <2>3, <3>1 DEF AtStart
      <4>2. j = 1
        <5>1. 1 \in 1..(Len(p.msgs) + 1) /\ Begin(p, j) = Begin(p, 1)
          BY <1>3, <4>1, BeginFirst
        <5> HIDE DEF p
        <5> QED
          BY <1>3, <4>1, <5>1, BeginUnique
      <4>3. Seen' = {} /\ \A i : i \notin 1..(1 - 1)
        BY <1>4 DEF Seen
      <4> QED
        BY <4>2, <4>3 DEF Before
    <3> QED
      BY <1>4, <2>1, <2>3, <3>1 DEF Reckons, Stage
  <2>4. CASE hdr_pos' # 12
    <3>1. tx'.pos # p.size
      BY <1>2, <1>6, <2>1, <2>4 DEF PKT_HDR
    <3> QED
      BY <1>4, <2>1, <2>4, <3>1 DEF Reckons, Stage
  <2> QED
    BY <2>3, <2>4
<1> QED
  BY <1>5, <1>6

LEMMA BeginLast ==
  ASSUME NEW p \in Packet, Sendable(p), NEW k \in 1..(Len(p.msgs) + 1)
  PROVE  Begin(p, k) <= Begin(p, Len(p.msgs) + 1)
<1> DEFINE n == Len(p.msgs)
<1>1. n \in Nat /\ n + 1 \in 1..(n + 1)
  BY PacketFields
<1>2. Begin(p, k) \in Nat /\ Begin(p, n + 1) \in Nat
  BY <1>1, BeginType
<1>3. CASE k = n + 1
  BY <1>2, <1>3
<1>4. CASE k # n + 1
  <2>1. k \in 1..n /\ k < n + 1
    <3> HIDE DEF n
    <3>1. k \in 1..(n + 1)
      BY DEF n
    <3> QED
      BY <1>1, <1>4, <3>1
  <2>2. Begin(p, k) + p.msgs[k].size <= Begin(p, n + 1)
    BY <1>1, <2>1, BeginGrows
  <2>3. p.msgs[k].size \in Nat
    BY <2>1, MessageSize
  <2> QED
    BY <1>2, <2>2, <2>3
<1> QED
  BY <1>3, <1>4

LEMMA SizeWaitReckons ==
  ASSUME TrafficFits, ParserInv, Bus, Position, Account,
         NEW o \in Offers, NEW rdy, Send(o), Capture(o), Record(o, rdy), SizeWait(o)
  PROVE  Reckons
<1>1. SenderType /\ BusType /\ cst = "SIZE" /\ In("SIZE", o) /\ AtSize
  BY DEF ParserInv, CapturePart, SizeWait, In, Position, Where
<1>2. InPacket(o) /\ AvailEff(o) \in Nat
  BY <1>1, Within, AvailType
<1>3. /\ AvailEff(o) < 2 /\ Consume(o, 0) /\ Quiet /\ cap_error' = {} /\ cst' = "SIZE"
      /\ gap_check' = gap_check /\ UNCHANGED <<first_pkt, exp_seq>>
  BY <1>1 DEF SizeWait, captureVars
<1>4. 0 \in Nat /\ 0 <= AvailEff(o) /\ AvailEff(o) <= 255
  BY <1>2, <1>3
<1>5. tx'.pk = tx.pk /\ tx'.pos - qavail' = tx.pos - qavail + 0
  BY <1>1, <1>2, <1>3, <1>4, FrontMoves
<1>6. tx'.pos - qavail' = tx.pos - qavail
  BY <1>1, <1>5 DEF SenderType, BusType
<1>7. Carries
  BY <1>1, <1>2, NoneFilled, WithinCarries DEF In, Account, Listed, InPacket
<1>8. /\ \A j : Before(j) => Before(j)'
      /\ (Told => Told') /\ (Untold => Untold')
  BY <1>3, <1>7, CarriesOn
<1>9. \A j : AtStart(j)' => AtStart(j)
  BY <1>5, <1>6 DEF AtStart
<1> QED
  BY <1>1, <1>3, <1>8, <1>9 DEF Account, Reckons, Stage

\* The first size of a packet decides on its gap.
LEMMA SizeTells ==
  ASSUME TrafficFits, ParserInv, Bus, Position, Account,
         NEW o \in Offers, NEW rdy, Send(o), Capture(o), Record(o, rdy), Size(o)
  PROVE  Carries /\ Told' /\ ~gap_check'
<1>1. SenderType /\ BusType /\ cst = "SIZE" /\ In("SIZE", o)
  BY DEF ParserInv, CapturePart, Size, In
<1>2. InPacket(o)
  BY <1>1, Within
<1>3. Carries
  BY <1>1, <1>2, NoneFilled, WithinCarries DEF In, Account, Listed, InPacket
<1>4. /\ gap' = (gap_check /\ first_pkt /\ tx.pk.seq # exp_seq)
      /\ exp_seq' = IF gap_check THEN tx.pk.seq + 1 ELSE exp_seq
      /\ first_pkt' = (first_pkt \/ gap_check) /\ ~gap_check'
  BY <1>2 DEF Size, Lost, InPacket
<1>5. /\ gapped' <=> (gap' \/ gapped)
      /\ before' = before /\ tx'.pk = tx.pk
  BY <1>3 DEF Carries
<1>6. IF gap_check THEN Untold ELSE Told
  BY <1>1 DEF Account, Stage
<1>7. CASE gap_check
  <2>1. first_pkt' /\ exp_seq' = tx.pk.seq + 1
    BY <1>4, <1>7
  <2>2. ASSUME before.ok PROVE gapped' <=> tx.pk.seq # before.seq + 1
    BY <1>4, <1>5, <1>6, <1>7, <2>2 DEF Untold
  <2> QED
    BY <1>3, <1>4, <1>5, <2>1, <2>2 DEF Told
<1>8. CASE ~gap_check
  BY <1>3, <1>4, <1>5, <1>6, <1>8 DEF Told
<1> QED
  BY <1>7, <1>8

LEMMA SizeReckons ==
  ASSUME TrafficFits, ParserInv, Bus, Position, Account,
         NEW o \in Offers, NEW rdy, Send(o), Capture(o), Record(o, rdy), Size(o)
  PROVE  Reckons
<1> DEFINE m == MessageAt(o)
           size == m.wire.size
           F == tx.pos - qavail
           n == Len(tx.pk.msgs)
<1>1. /\ SenderType /\ BusType /\ cst = "SIZE" /\ In("SIZE", o) /\ AtSize
      /\ Sendable(tx.pk) /\ AvailEff(o) >= 2
  BY DEF ParserInv, CapturePart, Size, In, Position, Where
<1>2. /\ InPacket(o) /\ tx.pk \in Packet /\ n \in Nat
      /\ tx.pos \in Nat /\ qavail \in Nat /\ tx.pk.size \in Nat
      /\ tx'.pos <= tx.pk.size /\ tx'.pos \in Nat
  BY <1>1, Within
<1>3. PICK j : AtStart(j)
  BY <1>1 DEF AtSize
<1>4. /\ m = IF j <= n THEN [n |-> tx.n, j |-> j, wire |-> tx.pk.msgs[j]] ELSE Stray
      /\ j \in 1..(n + 1) /\ Begin(tx.pk, j) = F
  BY <1>1, <1>2, <1>3, MessageIs DEF AtStart
<1>5. /\ AvailEff(o) \in Nat /\ AvailEff(o) <= 8 /\ F \in Int
      /\ tx'.pos = F + AvailEff(o)
  <2>1. /\ tx'.pos = tx.pos + Given(o) /\ AvailEff(o) = qavail + Given(o)
        /\ Given(o) \in 0..4 /\ (~tready => Given(o) = 0)
    BY <1>1, <1>2, Within DEF InPacket
  <2>2. tx.pos \in Nat /\ qavail \in Nat /\ qavail <= 8 /\ (tready => qavail <= 4)
    BY <1>1, <1>2 DEF AtSize
  <2> QED
    BY <2>1, <2>2
<1>6. Carries /\ Told' /\ ~gap_check'
  BY SizeTells
<1>7. Before(j)' /\ Seen' = Seen /\ Before(j) /\ tx'.pk = tx.pk
  BY <1>1, <1>3, <1>6, CarriesOn DEF Account, Stage, Carries
<1> HIDE DEF m
<1>8. j <= n => j \in 1..n /\ size = tx.pk.msgs[j].size /\ size \in Nat /\ size >= 8
  BY <1>1, <1>2, <1>4, MessageSize
<1>9. ~(j <= n) => j = n + 1 /\ size = 0
  BY <1>2, <1>4 DEF Stray
\* A size that cannot be, or a message that is cut.
<1>10. ASSUME BadSize(size) \/ (EndEff(o) /\ AvailEff(o) < size)
       PROVE  ~WellFormed(tx.pk) /\ (j = n + 1 \/ ~Sound(tx.pk, j))
  <2>1. CASE j <= n
    <3>1. ~Sound(tx.pk, j)
      <4>1. CASE BadSize(size)
        BY <1>8, <2>1, <4>1 DEF Sound
      <4>2. CASE EndEff(o) /\ AvailEff(o) < size
        <5>1. tx'.pos = tx.pk.size
          BY <1>2, <4>2 DEF InPacket
        <5>2. ~(F + size <= tx.pk.size)
          <6> HIDE DEF F, size
          <6> QED
            BY <1>2, <1>5, <1>8, <2>1, <4>2, <5>1
        <5>3. Begin(tx.pk, j) = F /\ tx.pk.msgs[j].size = size
          BY <1>4, <1>8, <2>1
        <5>4. ~(Begin(tx.pk, j) + tx.pk.msgs[j].size <= tx.pk.size)
          BY <5>2, <5>3, Zenon
        <5> QED
          BY <5>4 DEF Sound
      <4> QED
        BY <1>10, <4>1, <4>2
    <3> QED
      BY <1>8, <2>1, <3>1, NotWhole
  <2>2. CASE ~(j <= n)
    <3>1. Begin(tx.pk, n + 1) = F /\ j = n + 1
      BY <1>4, <1>9, <2>2
    <3>2. F # tx.pk.size
      <4> HIDE DEF F
      <4> QED
        BY <1>1, <1>2, <1>5
    <3> QED
      BY <3>1, <3>2 DEF WellFormed
  <2> QED
    BY <2>1, <2>2
<1>11. CASE EndEff(o) /\ (BadSize(size) \/ AvailEff(o) < size)
  <2>1. cst' = "HDR"
    BY <1>11 DEF Size, m, Restart
  <2>2. tx'.pos = tx'.pk.size
    BY <1>2, <1>11 DEF InPacket
  <2>3. ~WellFormed(tx.pk)' /\ Leading(tx.pk)' \subseteq Seen'
    BY <1>1, <1>4, <1>7, <1>10, <1>11, LeadingBefore
  <2>4. Settled'
    BY <1>6, <2>3 DEF Settled
  <2> QED
    BY <1>2, <2>1, <2>2, <2>3, <2>4, RestartReckons
<1>12. CASE ~(EndEff(o) /\ (BadSize(size) \/ AvailEff(o) < size))
  <2>1. Consume(o, 2)
    BY <1>12 DEF Size, m
  <2>2. tx'.pos - qavail' = F + 2
    BY <1>1, <1>2, <1>5, <2>1, FrontMoves
  <2>3. CASE BadSize(size)
    <3>1. cst' = "SKIP" /\ skip_left' = SkipLeft(size) /\ gap_check' = FALSE
      BY <1>12, <2>3 DEF Size, m
    <3>2. ~WellFormed(tx.pk)' /\ Leading(tx.pk)' \subseteq Seen'
      BY <1>1, <1>4, <1>7, <1>10, <2>3, LeadingBefore
    <3>3. ASSUME NEW k, SkipsTo(k)' PROVE Before(k)'
      <4>1. k \in 1..(n + 1) /\ Begin(tx.pk, k) = F + 2 + skip_left'
        BY <1>7, <2>2, <3>3 DEF SkipsTo
      <4>2. CASE j <= n
        <5>1. size <= 65535
          BY <1>1, <1>2, <1>8, <4>2, MessageSize
        <5>2. skip_left' = size - 2
          <6> HIDE DEF size
          <6> QED
            BY <1>8, <3>1, <4>2, <5>1, SkipLeftIs
        <5>3. Begin(tx.pk, j + 1) = F + size /\ j + 1 \in 1..(n + 1) /\ j \in Nat
          <6>1. j \in 1..Len(tx.pk.msgs) /\ j \in Nat
            BY <1>8, <4>2
          <6>2. /\ j + 1 \in 1..(Len(tx.pk.msgs) + 1)
                /\ Begin(tx.pk, j + 1) = Begin(tx.pk, j) + tx.pk.msgs[j].size
            BY <1>1, <1>2, <6>1, BeginNext
          <6>3. Begin(tx.pk, j) = F /\ tx.pk.msgs[j].size = size
            BY <1>4, <1>8, <4>2
          <6> QED
            BY <6>1, <6>2, <6>3, Zenon
        <5>4. F + 2 + (size - 2) = F + size
          <6> HIDE DEF F, size
          <6> QED
            BY <1>5, <1>8, <4>2
        <5>5. Begin(tx.pk, k) = Begin(tx.pk, j + 1)
          <6> HIDE DEF F, size
          <6> QED
            BY <4>1, <5>2, <5>3, <5>4
        <5>6. k = j + 1
          BY <1>1, <1>2, <4>1, <5>3, <5>5, BeginUnique
        <5>7. Before(j + 1)
          BY <1>7, <1>8, <1>10, <2>3, <4>2, <5>3, BeforeSkipped
        <5> QED
          BY <1>6, <5>6, <5>7, CarriesOn
      <4>3. CASE ~(j <= n)
        <5>1. skip_left' = 65534
          <6>1. SkipLeft(0) = 65534
            BY SkipLeftIs
          <6> HIDE DEF size
          <6> QED
            BY <1>9, <3>1, <4>3, <6>1
        <5>2. Begin(tx.pk, k) <= Begin(tx.pk, n + 1)
          BY <1>1, <1>2, <4>1, BeginLast
        <5>3. Begin(tx.pk, n + 1) = F
          BY <1>4, <1>9, <4>3
        <5>4. ~(F + 2 + 65534 <= F)
          <6> HIDE DEF F
          <6> QED
            BY <1>5
        <5> HIDE DEF F
        <5> QED
          BY <4>1, <5>1, <5>2, <5>3, <5>4
      <4> QED
        BY <4>2, <4>3
    <3> QED
      BY <1>6, <3>1, <3>2, <3>3 DEF Reckons, Stage
  <2>4. CASE ~BadSize(size)
    <3>1. cst' = "BODY" /\ cap' = m /\ cap_error' = {} /\ gap_check' = FALSE
      BY <1>12, <2>4 DEF Size, m
    <3>2. j <= n
      <4>1. BadSize(0)
        BY DEF BadSize, MSG_PREFIX, MAX_MSG
      <4> QED
        BY <1>9, <2>4, <4>1
    <3>3. cap'.j = j
      BY <1>4, <3>1, <3>2
    <3>4. Before(cap.j)'
      BY <1>7, <3>3 DEF Before
    <3> QED
      BY <1>6, <3>1, <3>4 DEF Reckons, Stage
  <2> QED
    BY <2>3, <2>4
<1> QED
  BY <1>11, <1>12

\* What the cycle has of the message being stored.
LEMMA BodyHas ==
  ASSUME TrafficFits, ParserInv, Bus, Position,
         NEW o \in Offers, Send(o), cst = "BODY"
  PROVE  /\ InPacket(o) /\ tx'.pk = tx.pk /\ tx.pk \in Packet /\ tx'.pos \in Nat
         /\ tx'.pos <= tx.pk.size /\ tx.pk.size \in Nat
         /\ cap.j \in 1..Len(tx.pk.msgs) /\ CapSize = tx.pk.msgs[cap.j].size
         /\ ~BadSize(CapSize) /\ CapSize \in Nat /\ CapSize - cap_len \in Nat
         /\ CapSize - cap_len # 0
         /\ AvailEff(o) \in Nat /\ AvailEff(o) <= 255
         /\ Begin(tx.pk, cap.j) \in Nat
         /\ Begin(tx.pk, cap.j) + CapSize = tx.pos - qavail + (CapSize - cap_len)
         /\ tx'.pos = tx.pos - qavail + AvailEff(o)
<1>1. /\ SenderType /\ BusType /\ AtBody /\ Sendable(tx.pk)
      /\ Fitting(cap) /\ cap_len \in 2..(CapSize - 1) /\ CaptureType
  BY DEF ParserInv, CapturePart, Storing, Position, Where
<1>2. /\ InPacket(o) /\ Given(o) \in 0..4 /\ tx.pos \in Nat /\ qavail \in Nat
      /\ tx.pk.size \in Nat /\ tx'.pos <= tx.pk.size /\ tx'.pos \in Nat
      /\ tx.pk \in Packet /\ tx'.pk = tx.pk
      /\ tx'.pos = tx.pos + Given(o) /\ AvailEff(o) = qavail + Given(o)
  BY Within DEF InPacket
<1>3. cap.j \in 1..Len(tx.pk.msgs) /\ CapSize = tx.pk.msgs[cap.j].size
  BY <1>1 DEF AtBody, CapSize
<1>4. ~BadSize(CapSize) /\ CapSize \in Nat
  BY <1>1, CapFields DEF Fitting, BadSize, MSG_PREFIX, MAX_MSG, CapSize
<1>5. CapSize - cap_len \in Nat /\ CapSize - cap_len # 0 /\ cap_len \in Nat
  <2>1. cap_len \in 2..(CapSize - 1)
    BY <1>1
  <2> QED
    BY <1>4, <2>1
<1>6. AvailEff(o) \in Nat /\ AvailEff(o) <= 255
  <2>1. qavail <= 6
    BY <1>1 DEF AtBody
  <2> QED
    BY <1>2, <2>1
<1>7. Begin(tx.pk, cap.j) = tx.pos - qavail - cap_len /\ Begin(tx.pk, cap.j) \in Nat
  BY <1>1, <1>2, <1>3, BeginNext DEF AtBody
<1>8. Begin(tx.pk, cap.j) + CapSize = tx.pos - qavail + (CapSize - cap_len)
  BY <1>2, <1>4, <1>5, <1>7
<1>9. tx'.pos = tx.pos - qavail + AvailEff(o)
  BY <1>2
<1> QED
  BY <1>2, <1>3, <1>4, <1>5, <1>6, <1>7, <1>8, <1>9

\* The message that is stored comes after those captured, and it is one.
LEMMA CompleteLists ==
  ASSUME TrafficFits, ParserInv, Bus, Position, Account,
         NEW o \in Offers, NEW rdy, Send(o), Capture(o), Record(o, rdy), Complete(o)
  PROVE  /\ Listed' /\ Sound(tx.pk, cap.j) /\ Before(cap.j + 1)'
         /\ Told' /\ tx'.pk = tx.pk /\ blame' = blame \cup cap_error'
<1> DEFINE j == cap.j
           n == Len(taken)
<1>1. /\ SenderType /\ BusType /\ cst = "BODY" /\ In("BODY", o) /\ Sendable(tx.pk)
      /\ AvailEff(o) >= CapSize - cap_len
  BY DEF ParserInv, CapturePart, Complete, In, Position, Where
<1>2. /\ InPacket(o) /\ tx'.pk = tx.pk /\ tx.pk \in Packet /\ tx'.pos \in Nat
      /\ tx'.pos <= tx.pk.size /\ tx.pk.size \in Nat
      /\ j \in 1..Len(tx.pk.msgs) /\ CapSize = tx.pk.msgs[j].size
      /\ ~BadSize(CapSize) /\ CapSize \in Nat /\ CapSize - cap_len \in Nat
      /\ AvailEff(o) \in Nat
      /\ Begin(tx.pk, j) \in Nat
      /\ Begin(tx.pk, j) + CapSize = tx.pos - qavail + (CapSize - cap_len)
      /\ tx'.pos = tx.pos - qavail + AvailEff(o)
  BY <1>1, BodyHas
<1>3. Sound(tx.pk, j)
  <2>1. tx.pos - qavail \in Int
    BY <1>1 DEF SenderType, BusType
  <2> DEFINE F == tx.pos - qavail
             rest == CapSize - cap_len
  <2>2. F \in Int /\ rest \in Nat /\ AvailEff(o) >= rest /\ tx'.pos = F + AvailEff(o)
    BY <1>1, <1>2, <2>1
  <2>3. Begin(tx.pk, j) + CapSize = F + rest
    BY <1>2
  <2> HIDE DEF F, rest
  <2>4. Begin(tx.pk, j) + CapSize <= tx.pk.size
    BY <1>2, <2>2, <2>3
  <2>5. ~BadSize(tx.pk.msgs[j].size) /\ Begin(tx.pk, j) + tx.pk.msgs[j].size <= tx.pk.size
    BY <1>2, <2>4
  <2> QED
    BY <2>5 DEF Sound
<1>4. j \in Nat /\ taken \in Seq(Nat) /\ n \in Nat
  BY <1>2 DEF Account, Listed
<1>5. Filled(o) # {} /\ ~FirstBeat(o)
  <2>1. Take(o) => o.pos = tx.pos
    BY <1>2 DEF InPacket, Source
  <2> QED
    BY <1>1, <2>1 DEF Filled, FirstBeat, Account
<1>6. /\ taken' = Append(taken, j) /\ blame' = blame \cup cap_error'
      /\ (gapped' <=> gap' \/ gapped) /\ before' = before
  BY <1>4, <1>5, RecordAdds
<1>7. Before(j) /\ Told
  BY <1>1 DEF Account, Stage
<1>8. Told'
  <2>1. gap' = FALSE /\ UNCHANGED <<first_pkt, exp_seq>>
    BY DEF Complete, Quiet
  <2> QED
    BY <1>2, <1>6, <1>7, <2>1 DEF Told
<1>9. /\ taken' \in Seq(Nat) /\ Len(taken') = n + 1 /\ taken'[n + 1] = j
      /\ \A i \in 1..n : taken'[i] = taken[i]
  BY <1>4, <1>6
<1>10. \A i \in 1..n : taken[i] < j
  <2> SUFFICES ASSUME NEW i \in 1..n PROVE taken[i] < j
    OBVIOUS
  <2>1. taken[i] \in Seen
    BY DEF Seen
  <2>2. taken[i] \in 1..(j - 1)
    BY <1>7, <2>1 DEF Before
  <2> QED
    BY <1>4, <2>2
<1>11. Listed'
  <2>1. \A i \in 1..(Len(taken') - 1) : taken'[i] < taken'[i + 1]
    <3> SUFFICES ASSUME NEW i \in 1..(Len(taken') - 1) PROVE taken'[i] < taken'[i + 1]
      OBVIOUS
    <3>1. i \in 1..n /\ taken'[i] = taken[i]
      BY <1>4, <1>9
    <3>2. CASE i = n
      BY <1>9, <1>10, <3>1, <3>2
    <3>3. CASE i # n
      <4>1. i \in 1..(n - 1) /\ i + 1 \in 1..n
        BY <1>4, <3>1, <3>3
      <4>2. taken[i] < taken[i + 1]
        BY <4>1 DEF Account, Listed
      <4> QED
        BY <1>9, <3>1, <4>1, <4>2
    <3> QED
      BY <3>2, <3>3
  <2>2. \A i \in 1..Len(taken') : Sound(tx'.pk, taken'[i])
    <3> SUFFICES ASSUME NEW i \in 1..Len(taken') PROVE Sound(tx'.pk, taken'[i])
      OBVIOUS
    <3>1. CASE i = n + 1
      BY <1>2, <1>3, <1>9, <3>1
    <3>2. CASE i # n + 1
      <4>1. i \in 1..n
        BY <1>4, <1>9, <3>2
      <4>2. Sound(tx.pk, taken[i])
        BY <4>1 DEF Account, Listed
      <4> QED
        BY <1>2, <1>9, <4>1, <4>2
    <3> QED
      BY <3>1, <3>2
  <2> QED
    BY <1>9, <2>1, <2>2 DEF Listed
<1>12. Before(j + 1)'
  <2>1. Seen' = Seen \cup {j}
    <3>1. Seen' = {taken'[i] : i \in 1..(n + 1)}
      BY <1>9 DEF Seen
    <3>2. ASSUME NEW x \in Seen PROVE x \in Seen'
      <4>1. PICK i \in 1..n : x = taken[i]
        BY <3>2 DEF Seen
      <4>2. i \in 1..(n + 1) /\ x = taken'[i]
        BY <1>4, <1>9, <4>1
      <4> QED
        BY <3>1, <4>2, ZenonT(60)
    <3>3. j \in Seen'
      BY <1>4, <1>9, <3>1
    <3>4. ASSUME NEW x \in Seen' PROVE x \in Seen \cup {j}
      <4>1. PICK i \in 1..(n + 1) : x = taken'[i]
        BY <3>1, <3>4
      <4>2. CASE i = n + 1
        BY <1>9, <4>1, <4>2
      <4>3. CASE i # n + 1
        <5>1. i \in 1..n
          BY <1>4, <4>1, <4>3
        <5>2. x = taken[i]
          BY <1>9, <4>1, <5>1
        <5> QED
          BY <5>1, <5>2 DEF Seen
      <4> QED
        BY <4>2, <4>3
    <3> QED
      BY <3>2, <3>3, <3>4
  <2>2. Seen = {i \in 1..(j - 1) : Sound(tx.pk, i)}
    BY <1>7 DEF Before
  <2>3. 1..((j + 1) - 1) = (1..(j - 1)) \cup {j}
    <3> HIDE DEF j
    <3> QED
      BY <1>4, <1>2 DEF j
  <2>4. {i \in 1..((j + 1) - 1) : Sound(tx.pk, i)}
          = {i \in 1..(j - 1) : Sound(tx.pk, i)} \cup {j}
    BY <1>3, <2>3
  <2>5. Seen' = {i \in 1..((j + 1) - 1) : Sound(tx'.pk, i)}
    BY <1>2, <2>1, <2>2, <2>4
  <2>6. cap' = cap
    BY DEF Complete
  <2> QED
    BY <2>5, <2>6 DEF Before
<1> QED
  BY <1>2, <1>3, <1>6, <1>8, <1>11, <1>12

LEMMA CompleteReckons ==
  ASSUME TrafficFits, ParserInv, Bus, Position, Account,
         NEW o \in Offers, NEW rdy, Send(o), Capture(o), Record(o, rdy), Complete(o)
  PROVE  Reckons
<1> DEFINE j == cap.j
           rest == CapSize - cap_len
           F == tx.pos - qavail
<1>1. /\ SenderType /\ BusType /\ cst = "BODY" /\ In("BODY", o) /\ Sendable(tx.pk)
      /\ AvailEff(o) >= rest /\ cap_error' = {} /\ ~gap_check /\ gap_check' = gap_check
      /\ cap' = cap
  BY DEF ParserInv, CapturePart, Complete, In, Position, Where, Account, Stage
<1>2. /\ InPacket(o) /\ tx.pk \in Packet /\ tx.pk.size \in Nat /\ tx'.pos \in Nat
      /\ j \in 1..Len(tx.pk.msgs) /\ CapSize = tx.pk.msgs[j].size /\ rest \in Nat
      /\ AvailEff(o) \in Nat /\ AvailEff(o) <= 255
      /\ Begin(tx.pk, j) + CapSize = F + rest
      /\ tx'.pos = F + AvailEff(o)
  BY <1>1, BodyHas
<1>3. Before(j + 1)' /\ Told' /\ tx'.pk = tx.pk
  BY CompleteLists
<1>4. /\ j + 1 \in 1..(Len(tx.pk.msgs) + 1)
      /\ Begin(tx.pk, j + 1) = F + rest
  <2>1. Begin(tx.pk, j + 1) = Begin(tx.pk, j) + tx.pk.msgs[j].size
    BY <1>1, <1>2, BeginNext
  <2> QED
    BY <1>1, <1>2, <2>1, BeginNext
<1>5. F \in Int
  BY <1>1 DEF SenderType, BusType
<1>6. CASE EndEff(o)
  <2>1. /\ tx'.pos = tx'.pk.size
        /\ cst' = "HDR" \/ (cst' = "WAIT" /\ wait_hdr')
    BY <1>2, <1>3, <1>6 DEF InPacket, Complete, Switch
  <2>2. j + 1 = Len(tx.pk.msgs) + 1 \/ ~Sound(tx.pk, j + 1)
    <3> SUFFICES ASSUME j + 1 # Len(tx.pk.msgs) + 1 PROVE ~Sound(tx.pk, j + 1)
      OBVIOUS
    <3>1. j + 1 \in 1..Len(tx.pk.msgs)
      <4>1. j \in 1..Len(tx.pk.msgs) /\ Len(tx.pk.msgs) \in Nat
        BY <1>2, PacketFields
      <4> HIDE DEF j
      <4> QED
        BY <4>1
    <3>2. tx.pk.msgs[j + 1].size \in Nat /\ tx.pk.msgs[j + 1].size >= 8
      <4>1. tx.pk \in Packet /\ Sendable(tx.pk)
        BY <1>1, <1>2
      <4> HIDE DEF j
      <4> QED
        BY <3>1, <4>1, MessageSize
    <3>3. AvailEff(o) <= rest + 3
      <4>1. qavail <= 6 /\ (cap_len = 2 \/ qavail = 0)
        BY <1>1 DEF Position, Where, AtBody
      <4>2. AvailEff(o) = qavail + Given(o) /\ Given(o) \in 0..4 /\ qavail \in Nat
        BY <1>1, GivenType
      <4>3. rest >= 1 /\ (cap_len = 2 => rest >= 8)
        <5>1. CapSize >= 10 /\ CapSize \in Nat /\ cap_len \in Nat
          BY <1>1, CapFields DEF ParserInv, CapturePart, Storing, Fitting, CapSize,
                                  MSG_PREFIX, CaptureType
        <5>2. rest # 0
          BY <1>1, BodyHas
        <5>3. rest = CapSize - cap_len
          OBVIOUS
        <5>4. rest \in Nat
          BY <1>2
        <5> HIDE DEF rest
        <5> QED
          BY <5>1, <5>2, <5>3, <5>4
      <4>4. rest \in Nat
        BY <1>2
      <4> HIDE DEF rest
      <4> QED
        BY <4>1, <4>2, <4>3, <4>4
    <3>4. tx.pk.size = F + AvailEff(o)
      <4>1. tx'.pos = F + AvailEff(o)
        BY <1>2
      <4> HIDE DEF F
      <4> QED
        BY <1>3, <2>1, <4>1
    <3>5. ~(F + rest + tx.pk.msgs[j + 1].size <= tx.pk.size)
      <4> DEFINE next == tx.pk.msgs[j + 1].size
      <4>1. rest \in Nat /\ AvailEff(o) \in Nat
        BY <1>2
      <4>2. next \in Nat /\ next >= 8
        BY <3>2
      <4> HIDE DEF F, rest, next
      <4>3. ~(F + rest + next <= tx.pk.size)
        BY <1>5, <3>3, <3>4, <4>1, <4>2
      <4> QED
        BY <4>3 DEF next
    <3>6. ~(Begin(tx.pk, j + 1) + tx.pk.msgs[j + 1].size <= tx.pk.size)
      BY <1>4, <3>5, Zenon
    <3> QED
      BY <3>6 DEF Sound
  <2>3. Leading(tx.pk)' \subseteq Seen'
    <3>1. Before(j + 1)' /\ SenderType'
      BY <1>1, <1>3, SenderStep
    <3>2. /\ Len(tx'.pk.msgs) \in Nat
          /\ Seen' = {i \in 1..((j + 1) - 1) : Sound(tx'.pk, i)}
      BY <1>1, <3>1, PacketFields DEF SenderType, Before
    <3> SUFFICES ASSUME NEW k \in Leading(tx'.pk) PROVE k \in Seen'
      OBVIOUS
    <3>3. k \in 1..Len(tx.pk.msgs) /\ \A i \in 1..k : Sound(tx.pk, i)
      BY <1>3 DEF Leading
    <3>4. k \in 1..((j + 1) - 1) /\ Sound(tx'.pk, k)
      <4>1. ~(j + 1 <= k)
        <5>1. ASSUME j + 1 <= k PROVE FALSE
          <6>1. j + 1 \in 1..k
            BY <1>2, <1>4, <3>3, <5>1
          <6>2. j + 1 # Len(tx.pk.msgs) + 1
            BY <1>2, <1>3, <3>2, <3>3, <5>1
          <6> QED
            BY <2>2, <3>3, <6>1, <6>2
        <5> QED
          BY <5>1
      <4>2. Sound(tx.pk, k)
        BY <3>3
      <4> QED
        BY <1>2, <1>3, <3>3, <4>1, <4>2
    <3> QED
      BY <3>2, <3>4
  <2>4. Settled'
    BY <1>3, <2>3 DEF Settled
  <2> QED
    BY <1>1, <1>2, <1>3, <2>1, <2>4 DEF Reckons, Stage
<1>7. CASE ~EndEff(o)
  <2>1. /\ Consume(o, rest)
        /\ cst' = "SIZE" \/ (cst' = "WAIT" /\ ~wait_hdr')
    BY <1>7 DEF Complete, Switch
  <2>2. tx'.pos - qavail' = F + rest
    <3>1. InPacket(o) /\ rest \in Nat /\ rest <= AvailEff(o) /\ AvailEff(o) <= 255
      BY <1>1, <1>2
    <3>2. SenderType /\ BusType /\ In("BODY", o)
      BY <1>1
    <3> HIDE DEF rest
    <3> QED
      BY <2>1, <3>1, <3>2, FrontMoves
  <2>3. ASSUME NEW k, AtStart(k)' PROVE Before(k)'
    <3>1. k \in 1..(Len(tx.pk.msgs) + 1) /\ Begin(tx.pk, k) = Begin(tx.pk, j + 1)
      BY <1>3, <1>4, <2>2, <2>3 DEF AtStart
    <3>2. k = j + 1
      BY <1>1, <1>2, <1>4, <3>1, BeginUnique
    <3> QED
      BY <1>1, <1>3, <3>2 DEF Before
  <2> QED
    BY <1>1, <1>3, <2>1, <2>3 DEF Reckons, Stage
<1> QED
  BY <1>6, <1>7

LEMMA BodyReckons ==
  ASSUME TrafficFits, ParserInv, Bus, Position, Account,
         NEW o \in Offers, NEW rdy, Send(o), Capture(o), Record(o, rdy), Body(o)
  PROVE  Reckons
<1> DEFINE j == cap.j
           rest == CapSize - cap_len
           F == tx.pos - qavail
<1>1. /\ SenderType /\ BusType /\ cst = "BODY" /\ In("BODY", o)
      /\ AvailEff(o) < rest /\ ~gap_check /\ gap_check' = gap_check /\ Quiet
      /\ Before(j) /\ Told /\ cap' = cap /\ UNCHANGED <<first_pkt, exp_seq>>
  BY DEF ParserInv, CapturePart, Body, In, Account, Stage
<1>2. /\ InPacket(o) /\ tx.pk.size \in Nat /\ tx'.pos \in Nat
      /\ j \in 1..Len(tx.pk.msgs) /\ CapSize = tx.pk.msgs[j].size /\ rest \in Nat
      /\ AvailEff(o) \in Nat
      /\ Begin(tx.pk, j) + CapSize = F + rest
      /\ tx'.pos = F + AvailEff(o) /\ tx'.pk = tx.pk
  BY <1>1, BodyHas
<1>3. Filled(o) = {}
  BY <1>1, <1>2 DEF Filled
<1>4. Carries
  BY <1>1, <1>2, <1>3, WithinCarries DEF Account, Listed, InPacket
<1>5. Before(j)' /\ Told' /\ Seen' = Seen
  <2>1. (\A k : Before(k) => Before(k)') /\ (Told => Told') /\ Seen' = Seen
    BY <1>1, <1>4, CarriesOn
  <2>2. Before(j)'
    BY <1>1, <1>2, <2>1 DEF Before
  <2> QED
    BY <1>1, <2>1, <2>2
<1>6. CASE EndEff(o) /\ AvailEff(o) # 0
  <2>1. cst' = "HDR" /\ tx'.pos = tx'.pk.size
    BY <1>2, <1>6 DEF Body, Restart, InPacket
  <2>2. ~Sound(tx.pk, j)
    <3>1. tx.pk.size = F + AvailEff(o) /\ F \in Int /\ AvailEff(o) < rest
      <4>1. F \in Int /\ AvailEff(o) < rest
        BY <1>1 DEF SenderType, BusType
      <4>2. tx'.pos = F + AvailEff(o) /\ tx'.pk = tx.pk
        BY <1>2
      <4> HIDE DEF F, rest
      <4> QED
        BY <2>1, <4>1, <4>2
    <3>2. ~(F + rest <= tx.pk.size) /\ rest \in Nat
      <4>1. rest \in Nat /\ AvailEff(o) \in Nat
        BY <1>2
      <4> HIDE DEF F, rest
      <4> QED
        BY <3>1, <4>1
    <3>3. ~(Begin(tx.pk, j) + tx.pk.msgs[j].size <= tx.pk.size)
      BY <1>2, <3>2, Zenon
    <3> QED
      BY <3>3 DEF Sound
  <2>3. ~WellFormed(tx.pk)'
    BY <1>2, <2>2, NotWhole
  <2>4. Leading(tx.pk)' \subseteq Seen'
    <3>1. j \in 1..(Len(tx.pk.msgs) + 1)
      BY <1>1, <1>2, PacketFields DEF SenderType
    <3> QED
      BY <1>1, <1>2, <1>5, <2>2, <3>1, LeadingBefore
  <2>5. Settled'
    BY <1>5, <2>4 DEF Settled
  <2> QED
    BY <1>2, <2>1, <2>3, <2>5, RestartReckons
<1>7. CASE ~(EndEff(o) /\ AvailEff(o) # 0)
  <2>1. cap_error' = {} /\ cst' = "BODY"
    BY <1>1, <1>7 DEF Body
  <2> QED
    BY <1>1, <1>5, <2>1 DEF Reckons, Stage
<1> QED
  BY <1>6, <1>7

LEMMA SkipReckons ==
  ASSUME TrafficFits, ParserInv, Bus, Position, Account,
         NEW o \in Offers, NEW rdy, Send(o), Capture(o), Record(o, rdy), Skip(o)
  PROVE  Reckons
<1> DEFINE past == AvailEff(o) >= skip_left
           F == tx.pos - qavail
<1>1. /\ SenderType /\ BusType /\ cst = "SKIP" /\ In("SKIP", o) /\ AtSkip
      /\ skip_left \in Nat /\ ~gap_check /\ gap_check' = gap_check /\ Quiet
      /\ UNCHANGED <<first_pkt, exp_seq>>
  BY DEF ParserInv, CapturePart, CaptureType, Skip, In, Position, Where, Account, Stage
<1>2. /\ Leading(tx.pk) \subseteq Seen /\ Told /\ \A k : SkipsTo(k) => Before(k)
  BY <1>1 DEF Account, Stage
<1>3. ~WellFormed(tx.pk)
  BY <1>1 DEF Account, Blamed
<1>4. /\ InPacket(o) /\ Given(o) \in 0..4 /\ qavail \in Nat /\ tx.pos \in Nat
      /\ tx'.pos \in Nat /\ tx'.pk = tx.pk /\ AvailEff(o) = qavail + Given(o)
  BY <1>1, Within DEF InPacket
<1>5. AvailEff(o) \in Nat /\ AvailEff(o) <= 255 /\ F \in Int
  BY <1>1, <1>4 DEF AtSkip
<1>6. Carries
  BY <1>1, <1>4, NoneFilled, WithinCarries DEF In, Account, Listed, InPacket
<1>7. /\ Leading(tx.pk)' \subseteq Seen' /\ Told' /\ ~WellFormed(tx.pk)'
      /\ \A k : Before(k) => Before(k)'
  BY <1>1, <1>2, <1>3, <1>4, <1>6, CarriesOn
<1>8. CASE EndEff(o)
  <2>1. cst' = "HDR" /\ tx'.pos = tx'.pk.size
    BY <1>4, <1>8 DEF Skip, Restart, InPacket
  <2>2. Settled'
    BY <1>7 DEF Settled
  <2> QED
    BY <1>4, <1>7, <2>1, <2>2, RestartReckons
<1>9. CASE ~EndEff(o) /\ past
  <2>1. Consume(o, skip_left) /\ cst' = "SIZE" /\ cap_error' = {}
    BY <1>9 DEF Skip
  <2>2. tx'.pos - qavail' = F + skip_left
    BY <1>1, <1>4, <1>5, <1>9, <2>1, FrontMoves
  <2>3. \A k : AtStart(k)' => SkipsTo(k)
    BY <1>4, <2>2 DEF AtStart, SkipsTo
  <2> QED
    BY <1>1, <1>2, <1>7, <2>1, <2>3 DEF Reckons, Stage
<1>10. CASE ~EndEff(o) /\ ~past
  <2>1. /\ Consume(o, AvailEff(o)) /\ cst' = "SKIP"
        /\ skip_left' = skip_left - AvailEff(o)
    BY <1>10 DEF Skip
  <2>2. tx'.pos - qavail' = F + AvailEff(o)
    BY <1>1, <1>4, <1>5, <2>1, FrontMoves
  <2>3. tx'.pos - qavail' + skip_left' = F + skip_left
    <3> HIDE DEF F
    <3> QED
      BY <1>1, <1>5, <2>1, <2>2
  <2>4. \A k : SkipsTo(k)' => SkipsTo(k)
    BY <1>4, <2>3 DEF SkipsTo
  <2> QED
    BY <1>1, <1>2, <1>7, <2>1, <2>4 DEF Reckons, Stage
<1> QED
  BY <1>8, <1>9, <1>10

LEMMA WaitHdrReckons ==
  ASSUME TrafficFits, ParserInv, Bus, Position, Account,
         NEW o \in Offers, NEW rdy, Send(o), Capture(o), Record(o, rdy), Wait(o), wait_hdr
  PROVE  Reckons
<1>1. /\ SenderType /\ BusType /\ cst = "WAIT" /\ In("WAIT", o) /\ AtWaitHdr /\ Settled
      /\ tx.pos \in Nat
  BY DEF ParserInv, SenderType, CapturePart, Wait, In, Position, Where, Account, Stage
<1>2. tx' = tx /\ ~FirstBeat(o) /\ Filled(o) = {}
  BY <1>1, NoneFilled DEF AtWaitHdr, Send, Take, FirstBeat, In
<1>3. Carries
  BY <1>2, RecordKeeps DEF Carries, Account, Listed
<1>4. Quiet /\ UNCHANGED <<first_pkt, exp_seq>> /\ cap_error' = {}
  BY DEF Wait
<1>5. cst' = "HDR" \/ (cst' = "WAIT" /\ wait_hdr')
  BY <1>1 DEF Wait
<1>6. Settled'
  BY <1>1, <1>3, <1>4, CarriesOn
<1>7. ~(tx'.pos < tx'.pk.size)
  BY <1>1, <1>2 DEF AtWaitHdr
<1> QED
  BY <1>4, <1>5, <1>6, <1>7 DEF Reckons, Stage

LEMMA WaitSizeReckons ==
  ASSUME TrafficFits, ParserInv, Bus, Position, Account,
         NEW o \in Offers, NEW rdy, Send(o), Capture(o), Record(o, rdy), Wait(o), ~wait_hdr
  PROVE  Reckons
<1>1. /\ SenderType /\ BusType /\ cst = "WAIT" /\ In("WAIT", o) /\ AtWait
      /\ (\A j : AtStart(j) => Before(j)) /\ Told /\ ~gap_check
  BY DEF ParserInv, CapturePart, Wait, In, Position, Where, Account, Stage
<1>2. /\ InPacket(o) /\ Given(o) \in 0..4 /\ qavail \in Nat /\ tx.pos \in Nat
      /\ AvailEff(o) = qavail + Given(o)
  BY <1>1, Within DEF InPacket
<1>3. 0 \in Nat /\ 0 <= AvailEff(o) /\ AvailEff(o) <= 255
  BY <1>1, <1>2 DEF AtWait
<1>4. /\ Consume(o, 0) /\ Quiet /\ UNCHANGED <<first_pkt, exp_seq, gap_check>>
      /\ cap_error' = {}
      /\ cst' = "SIZE" \/ (cst' = "WAIT" /\ wait_hdr' = wait_hdr)
  BY <1>1 DEF Wait
<1>5. tx'.pk = tx.pk /\ tx'.pos - qavail' = tx.pos - qavail + 0
  BY <1>1, <1>2, <1>3, <1>4, FrontMoves
<1>6. tx'.pos - qavail' = tx.pos - qavail
  BY <1>2, <1>5
<1>7. Carries
  BY <1>1, <1>2, NoneFilled, WithinCarries DEF In, Account, Listed, InPacket
<1>8. (\A j : Before(j) => Before(j)') /\ Told'
  BY <1>1, <1>4, <1>7, CarriesOn
<1>9. \A j : AtStart(j)' => AtStart(j)
  BY <1>5, <1>6 DEF AtStart
<1> QED
  BY <1>1, <1>4, <1>8, <1>9 DEF Reckons, Stage

LEMMA DiscardReckons ==
  ASSUME TrafficFits, ParserInv, Bus, Position, Account,
         NEW o \in Offers, NEW rdy, Send(o), Capture(o), Record(o, rdy), Discard(o)
  PROVE  Reckons
<1>1. /\ SenderType /\ BusType /\ cst = "DISCARD" /\ AtDiscard /\ tx.pk.badBeat # 0
  BY DEF ParserInv, CapturePart, Discard, In, Position, Where, Account, Blamed
<1>2. InPacket(o) /\ tx'.pk = tx.pk /\ tx'.pos \in Nat
  BY <1>1, Within DEF InPacket
<1>3. ~WellFormed(tx.pk)' /\ Settled'
  BY <1>1, <1>2 DEF WellFormed, Settled
<1>4. CASE EndEff(o)
  <2>1. cst' = "HDR" /\ tx'.pos = tx'.pk.size
    BY <1>2, <1>4 DEF Discard, Restart, InPacket
  <2> QED
    BY <1>2, <1>3, <2>1, RestartReckons
<1>5. CASE ~EndEff(o)
  <2>1. cst' = "DISCARD"
    BY <1>1, <1>5 DEF Discard
  <2> QED
    BY <1>3, <2>1 DEF Reckons, Stage
<1> QED
  BY <1>4, <1>5

LEMMA CaptureReckons ==
  ASSUME TrafficFits, ParserInv, KeepsInWait, Bus, Position, Account,
         NEW o \in Offers, NEW rdy, Send(o), Capture(o), Record(o, rdy)
  PROVE  Reckons
<1>1. CASE BadKeep(o)
  BY <1>1, BadKeepReckons
<1>2. CASE Hdr(o)
  BY <1>2, HdrIdleReckons, HdrTakeReckons
<1>3. CASE SizeWait(o) \/ Size(o)
  BY <1>3, SizeWaitReckons, SizeReckons
<1>4. CASE Complete(o) \/ Body(o)
  BY <1>4, CompleteReckons, BodyReckons
<1>5. CASE Skip(o) \/ Discard(o)
  BY <1>5, SkipReckons, DiscardReckons
<1>6. CASE Wait(o)
  BY <1>6, WaitHdrReckons, WaitSizeReckons
<1> QED
  BY <1>1, <1>2, <1>3, <1>4, <1>5, <1>6 DEF Capture

LEMMA ListedStep ==
  ASSUME TrafficFits, ParserInv, Bus, Position, Account,
         NEW o \in Offers, NEW rdy, Send(o), Capture(o), Record(o, rdy)
  PROVE  Listed'
<1>1. CASE Complete(o)
  BY <1>1, CompleteLists
<1>2. CASE ~Complete(o)
  <2>1. Filled(o) = {}
    BY <1>2, FilledIs, FilledCompletes DEF ParserInv
  <2>2. taken' = IF FirstBeat(o) THEN <<>> ELSE taken
    BY <2>1, RecordKeeps DEF Account, Listed
  <2>3. CASE FirstBeat(o)
    <3>1. taken' = <<>>
      BY <2>2, <2>3
    <3> QED
      BY <3>1 DEF Listed
  <2>4. CASE ~FirstBeat(o)
    <3>1. tx'.pk = tx.pk
      BY <2>4, OfferFields DEF ParserInv, OfferIs, IsBeat, FirstBeat, Send
    <3> QED
      BY <2>2, <2>4, <3>1 DEF Account, Listed
  <2> QED
    BY <2>3, <2>4
<1> QED
  BY <1>1, <1>2

\* A malformed tkeep is seen with its beat.
LEMMA KeepSeen ==
  ASSUME TrafficFits, ParserInv, Bus, Position, Account,
         NEW o \in Offers, NEW rdy, Send(o), Capture(o), Record(o, rdy), Take(o),
         o.pk.badBeat # 0, 4 * (o.pk.badBeat - 1) < o.pos + o.bytes,
         FirstBeat(o) \/ ~(4 * (o.pk.badBeat - 1) < tx.pos)
  PROVE  "keep" \in blame'
<1> DEFINE b == o.pk.badBeat
<1>1. SenderType /\ OfferIs(o) /\ OfferType(o) /\ o.pk \in Packet /\ BYTES = 4
  BY OfferFields, BytesAreFour DEF ParserInv, OfferType
<1>2. b \in Nat /\ o.pos \in Nat /\ o.bytes \in 1..4
  BY <1>1, PacketFields DEF OfferIs, IsBeat, Take, OfferType
<1>3. o.pos % 4 = 0 /\ ~(4 * (b - 1) < o.pos)
  <2>1. CASE FirstBeat(o)
    BY <1>2, <2>1 DEF FirstBeat
  <2>2. CASE ~FirstBeat(o)
    <3>1. o.pos = tx.pos /\ tx.pos < tx.pk.size
      BY <1>1, <2>2 DEF OfferIs, IsBeat, FirstBeat, Take
    <3>2. tx.pos \in Nat /\ tx.pk.size \in Nat
      BY <1>1, PacketFields DEF SenderType
    <3> QED
      BY <2>2, <3>1, <3>2 DEF Bus
  <2> QED
    BY <2>1, <2>2
<1>4. b = o.pos \div 4 + 1
  <2>1. 4 * (b - 1) < o.pos + o.bytes /\ b # 0
    OBVIOUS
  <2> HIDE DEF b
  <2> DEFINE q == o.pos \div 4
  <2>2. q \in Nat /\ o.pos = 4 * q
    BY <1>2, <1>3
  <2> HIDE DEF q
  <2>3. b = q + 1
    BY <1>2, <1>3, <2>1, <2>2
  <2> QED
    BY <2>3 DEF q
<1>5. ~o.keepOk
  <2>1. ASSUME NEW p, NEW n, NEW pos, o = Beat(p, n, pos)
        PROVE  o.keepOk <=> o.pos \div BYTES + 1 # o.pk.badBeat
    BY <2>1 DEF Beat
  <2> QED
    BY <1>1, <1>4, <2>1 DEF OfferIs, Take
<1>6. CASE cst = "DISCARD"
  <2>1. tx.pos < tx.pk.size
    BY <1>6 DEF Position, Where, AtDiscard
  <2>2. ~FirstBeat(o)
    BY <1>1, <2>1, FirstBeatIs, PacketFields DEF Account, SenderType
  <2>3. "keep" \in blame
    BY <1>6 DEF Account, Blamed
  <2> QED
    BY <2>2, <2>3 DEF Record
<1>7. CASE cst # "DISCARD"
  <2>1. BadKeep(o)
    BY <1>5, <1>7 DEF Capture, Hdr, SizeWait, Size, Complete, Body, Skip, Wait, Discard, In
  <2> QED
    BY <2>1 DEF BadKeep, Record
<1> QED
  BY <1>6, <1>7

LEMMA BlamedStep ==
  ASSUME TrafficFits, ParserInv, KeepsInWait, Bus, Position, Account, Reckons,
         NEW o \in Offers, NEW rdy, Send(o), Capture(o), Record(o, rdy)
  PROVE  Blamed'
<1>1. SenderType /\ OfferIs(o) /\ Blamed /\ tx.pos # 0
  BY OfferFields DEF ParserInv, Account
<1>2. blame' = (IF FirstBeat(o) THEN {} ELSE blame) \cup cap_error'
  BY DEF Record
<1>3. ~FirstBeat(o) => tx'.pk = tx.pk
  BY <1>1 DEF OfferIs, IsBeat, FirstBeat, Send
<1>4. WellFormed(tx.pk)' => blame' = {} /\ cst' \notin {"SKIP", "DISCARD"}
  BY <1>1, <1>2, <1>3 DEF Reckons, Blamed
<1>5. ASSUME tx'.pk.badBeat # 0, 4 * (tx'.pk.badBeat - 1) < tx'.pos
      PROVE  "keep" \in blame'
  <2>1. CASE Take(o)
    <3>1. tx' = [pk |-> o.pk, n |-> o.n, pos |-> o.pos + o.bytes]
      BY <2>1 DEF Send
    <3>2. o.pk.badBeat # 0 /\ 4 * (o.pk.badBeat - 1) < o.pos + o.bytes
      BY <1>5, <3>1
    <3>3. CASE FirstBeat(o) \/ ~(4 * (o.pk.badBeat - 1) < tx.pos)
      BY <2>1, <3>2, <3>3, KeepSeen
    <3>4. CASE ~FirstBeat(o) /\ 4 * (o.pk.badBeat - 1) < tx.pos
      <4>1. o.pk = tx.pk
        BY <1>3, <3>1, <3>4
      <4> QED
        BY <1>1, <1>2, <3>2, <3>4, <4>1 DEF Blamed
    <3> QED
      BY <3>3, <3>4
  <2>2. CASE ~Take(o)
    BY <1>1, <1>2, <1>5, <2>2 DEF Send, FirstBeat, Blamed
  <2> QED
    BY <2>1, <2>2
<1>6. ASSUME cst' = "DISCARD" PROVE tx'.pk.badBeat # 0 /\ "keep" \in blame'
  <2>1. BadKeep(o) \/ (Discard(o) /\ cst = "DISCARD")
    <3>1. CASE SizeWait(o)
      BY <1>6, <3>1 DEF SizeWait, captureVars, In
    <3>2. CASE Hdr(o) \/ Size(o) \/ Body(o) \/ Skip(o)
      BY <1>6, <3>2 DEF Hdr, Size, Body, Skip, In, Restart
    <3>3. CASE Complete(o) \/ Wait(o)
      BY <1>6, <3>3 DEF Complete, Wait, In, Switch
    <3>4. CASE Discard(o)
      BY <3>4 DEF Discard, In
    <3> QED
      BY <3>1, <3>2, <3>3, <3>4 DEF Capture
  <2>2. CASE BadKeep(o)
    <3>1. Take(o) /\ ~o.keepOk /\ cap_error' = {"keep"}
      BY <2>2 DEF BadKeep
    <3>2. tx'.pk.badBeat # 0
      BY <1>1, <3>1, MalformedIs DEF Send
    <3> QED
      BY <1>2, <3>1, <3>2
  <2>3. CASE Discard(o) /\ cst = "DISCARD"
    <3>1. tx.pk.badBeat # 0 /\ "keep" \in blame
      BY <1>1, <2>3 DEF Blamed
    <3>2. tx.pos < tx.pk.size
      BY <2>3 DEF Position, Where, AtDiscard
    <3>3. ~FirstBeat(o)
      BY <1>1, <3>2, FirstBeatIs, PacketFields DEF SenderType
    <3> QED
      BY <1>2, <1>3, <3>1, <3>3
  <2> QED
    BY <2>1, <2>2, <2>3
<1> QED
  BY <1>4, <1>5, <1>6 DEF Blamed

LEMMA AccountNext ==
  ASSUME TrafficFits, ParserInv, KeepsInWait, Bus, Position, Account, [HNext]_hvars
  PROVE  Account'
<1>1. CASE HNext
  <2>1. PICK o \in Offers, rdy \in BOOLEAN :
          Send(o) /\ Capture(o) /\ Record(o, rdy)
    BY <1>1 DEF HNext, HCycle, Cycle
  <2>2. Reckons
    BY <2>1, CaptureReckons
  <2>3. Listed' /\ Blamed'
    BY <2>1, <2>2, ListedStep, BlamedStep
  <2>4. tx'.pos # 0
    <3>1. SenderType /\ tx.pos # 0 /\ tx.pos \in Nat
      BY DEF ParserInv, Account, SenderType
    <3>2. CASE Take(o)
      <4>1. tx'.pos = o.pos + o.bytes
        BY <2>1, <3>2 DEF Send
      <4>2. o.pos \in Nat /\ o.bytes \in 1..BYTES
        BY <3>1, <3>2, OfferFields DEF OfferIs, OfferType, IsBeat, Take
      <4>3. BYTES \in Nat
        BY Widths
      <4> QED
        BY <4>1, <4>2, <4>3
    <3>3. CASE ~Take(o)
      BY <2>1, <3>1, <3>3 DEF Send
    <3> QED
      BY <3>2, <3>3
  <2> QED
    BY <2>2, <2>3, <2>4 DEF Account, Reckons
<1>2. CASE UNCHANGED hvars
  <2>1. UNCHANGED <<tx, qavail, cst, wait_hdr, gap_check, first_pkt, exp_seq, skip_left, cap,
                    taken, blame, before, gapped>>
    BY <1>2 DEF hvars, vars, busVars, captureVars, history
  <2>2. Listed' /\ Blamed' /\ tx'.pos # 0
    BY <2>1 DEF Account, Listed, Blamed
  <2>3. Seen' = Seen /\ (Told => Told') /\ (Untold => Untold')
    BY <2>1 DEF Seen, Told, Untold
  <2>4. (Settled => Settled') /\ \A j : Before(j) => Before(j)'
    BY <2>1, <2>3 DEF Settled, Before
  <2>5. \A j : (AtStart(j)' => AtStart(j)) /\ (SkipsTo(j)' => SkipsTo(j))
    BY <2>1 DEF AtStart, SkipsTo
  <2>6. Before(cap.j) => Before(cap.j)'
    BY <2>1, <2>3 DEF Before
  <2>7. Stage'
    BY <2>1, <2>3, <2>4, <2>5, <2>6 DEF Account, Stage
  <2> QED
    BY <2>2, <2>7 DEF Account
<1> QED
  BY <1>1, <1>2

LEMMA AccountInit ==
  ASSUME HInit
  PROVE  Account
<1>1. /\ tx.pos = 1 /\ tx.pk = NoPacket /\ cst = "HDR" /\ taken = <<>> /\ blame = {}
  BY DEF HInit, Init
<1>2. NoPacket.size = 1 /\ NoPacket.badBeat = 0 /\ Len(NoPacket.msgs) = 0
  BY DEF NoPacket
<1>3. Begin(NoPacket, 1) = 12
  BY BeginFirst
<1>4. ~WellFormed(NoPacket)
  BY <1>2, <1>3 DEF WellFormed
<1>5. Leading(NoPacket) = {}
  BY <1>2 DEF Leading
<1>6. Stage
  BY <1>1, <1>2, <1>4, <1>5 DEF Stage, Settled
<1>7. Listed
  BY <1>1 DEF Listed
<1>8. Blamed
  BY <1>1, <1>2 DEF Blamed
<1> QED
  BY <1>1, <1>6, <1>7, <1>8 DEF Account

LEMMA AccountInvariant ==
  ASSUME TrafficFits
  PROVE  HSpec /\ []KeepsInWait => []Account
<1>1. HInit => Account
  BY AccountInit
<1>2. ParserInv /\ KeepsInWait /\ Bus /\ Position /\ Account /\ [HNext]_hvars => Account'
  BY AccountNext
<1> QED
  BY <1>1, <1>2, ParserInvariant, PositionInvariant, PTL DEF HSpec

LEMMA AccountSettles ==
  ASSUME ParserInv, Account, Over
  PROVE  Settled
BY DEF Account, Stage, Over

LEMMA AccountJudges ==
  ASSUME ParserInv, Position, Account
  PROVE  Judged
<1> SUFFICES ASSUME Over
             PROVE  /\ \A i \in 1..(Len(taken) - 1) : taken[i] < taken[i + 1]
                    /\ \A i \in 1..Len(taken) : Sound(tx.pk, taken[i])
                    /\ tx.pk.badBeat = 0 =>
                         Leading(tx.pk) \subseteq {taken[i] : i \in 1..Len(taken)}
                    /\ WellFormed(tx.pk) => blame = {}
                    /\ tx.pk.badBeat # 0 => "keep" \in blame
  BY DEF Judged
<1>1. Settled
  BY AccountSettles
<1>2. tx.pk.badBeat = 0 => Leading(tx.pk) \subseteq {taken[i] : i \in 1..Len(taken)}
  BY <1>1 DEF Settled, Seen
<1>3. ASSUME tx.pk.badBeat # 0 PROVE "keep" \in blame
  <2>1. 4 * (tx.pk.badBeat - 1) < tx.pos
    BY <1>3 DEF Position, Sendable, Over
  <2> QED
    BY <1>3, <2>1 DEF Account, Blamed
<1> QED
  BY <1>2, <1>3 DEF Account, Listed, Blamed

\* On the narrow bus every sound message of a packet that arrives is captured
\* up to the first defect, none twice and none out of order, and a packet
\* without a defect is not blamed: whatever its messages, however its beats
\* and the decoder are timed.
THEOREM JudgedAlways ==
  ASSUME TrafficFits
  PROVE  HSpec /\ []KeepsInWait => []Judged
<1>1. ParserInv /\ Position /\ Account => Judged
  BY AccountJudges
<1> QED
  BY <1>1, ParserInvariant, PositionInvariant, AccountInvariant, PTL

\* The gap of a well-formed packet after another is found from the number that
\* the capture remembers, whatever else happened in both.
THEOREM GapsFoundAlways ==
  ASSUME TrafficFits
  PROVE  HSpec /\ []KeepsInWait => []GapsFound
<1>1. ParserInv /\ Account => GapsFound
  <2> SUFFICES ASSUME ParserInv, Account, Over, before.ok, WellFormed(tx.pk)
               PROVE  gapped <=> tx.pk.seq # before.seq + 1
    BY DEF GapsFound
  <2>1. Told
    BY AccountSettles DEF Settled
  <2> QED
    BY <2>1 DEF Told
<1> QED
  BY <1>1, ParserInvariant, AccountInvariant, PTL

(***************************************************************************)
(* The words of a message                                                  *)
(***************************************************************************)
\* From a value, a step for each number gives a function up to any number.
IsIterate(f, V, a, advance, n) ==
  /\ f \in [0..n -> V] /\ f[0] = a
  /\ \A i \in 1..n : f[i] = advance[<<f[i - 1], i>>]

\* There is such a function.
LEMMA Iterates ==
  ASSUME NEW V, NEW a \in V, NEW advance \in [V \X Nat -> V], NEW N \in Nat
  PROVE  \E f : IsIterate(f, V, a, advance, N)
<1> DEFINE Up(n) == \E f : IsIterate(f, V, a, advance, n)
           S == {n \in Nat : ~Up(n)}
<1>1. SUFFICES ASSUME S # {} PROVE FALSE
  OBVIOUS
<1>2. PICK x \in S : \A y \in S : x <= y
  BY <1>1, LowestExists
<1>3. x \in Nat /\ ~Up(x)
  OBVIOUS
<1>4. CASE x = 0
  <2>1. [i \in 0..0 |-> a] \in [0..0 -> V] /\ [i \in 0..0 |-> a][0] = a
    OBVIOUS
  <2>2. 1..0 = {}
    OBVIOUS
  <2>3. IsIterate([i \in 0..0 |-> a], V, a, advance, 0)
    BY <2>1, <2>2 DEF IsIterate
  <2> QED
    BY <1>3, <1>4, <2>3
<1>5. CASE x # 0
  <2>1. x - 1 \in Nat /\ x - 1 \notin S
    BY <1>2, <1>3, <1>5
  <2>0. PICK g : IsIterate(g, V, a, advance, x - 1)
    BY <2>1
  <2>2. /\ g \in [0..(x - 1) -> V] /\ g[0] = a
        /\ \A i \in 1..(x - 1) : g[i] = advance[<<g[i - 1], i>>]
    BY <2>0 DEF IsIterate
  <2> DEFINE top == advance[<<g[x - 1], x>>]
             f == [i \in 0..x |-> IF i < x THEN g[i] ELSE top]
  <2>3. top \in V
    BY <1>3, <2>1, <2>2
  <2> HIDE DEF top
  <2>4. f \in [0..x -> V] /\ f[0] = a
    BY <1>3, <1>5, <2>2, <2>3
  <2>5. ASSUME NEW i \in 1..x PROVE f[i] = advance[<<f[i - 1], i>>]
    <3>1. i - 1 \in 0..x /\ i - 1 < x /\ i \in 0..x
      BY <1>3
    <3>2. f[i - 1] = g[i - 1]
      BY <3>1
    <3>3. CASE i < x
      <4>1. i \in 1..(x - 1) /\ f[i] = g[i]
        BY <1>3, <3>3
      <4> QED
        BY <2>2, <3>2, <4>1
    <3>4. CASE ~(i < x)
      <4>1. i = x
        BY <1>3, <3>4
      <4> QED
        BY <3>1, <3>2, <4>1 DEF top
    <3> QED
      BY <3>3, <3>4
  <2> HIDE DEF f
  <2>6. IsIterate(f, V, a, advance, x)
    BY <2>4, <2>5 DEF IsIterate
  <2> QED
    BY <1>3, <2>6
<1> QED
  BY <1>4, <1>5

\* Words before record r of a message, in numbers.
Wide(m, x) == IF m.tpl \in {46, 52} THEN 13 * x ELSE 18 * x
Start(m, r) ==
  IF ~Subset(m) THEN IF r = 1 THEN 0 ELSE Records(m)[1]
  ELSE IF r <= m.n1 + 1 THEN Wide(m, r - 1)
  ELSE Wide(m, m.n1) + 18 * (r - 1 - m.n1)

\* The lengths are numbers.
LEMMA RecordsType ==
  ASSUME NEW c \in Message, Fitting(c)
  PROVE  Records(c.wire) \in Seq(Nat)
<1> DEFINE m == c.wire
<1>1. /\ m.size \in 10..256 /\ m.n1 \in Nat /\ m.n2 \in Nat
  BY MessageFields DEF Fitting, MSG_PREFIX, MAX_MSG
<1>2. CASE ~Subset(m)
  <2>1. Records(m) = <<2 + ((m.size - 10 + 3) \div 4)>>
    BY <1>2 DEF Records, MSG_PREFIX
  <2>2. 2 + ((m.size - 10 + 3) \div 4) \in Nat
    BY <1>1
  <2> QED
    BY <2>1, <2>2
<1>3. CASE Subset(m) /\ ~Fits1(m)
  BY <1>3 DEF Records
<1>4. CASE Subset(m) /\ Fits1(m)
  <2> DEFINE N == m.n1 + (IF m.tpl = 46 /\ Fits2(m) THEN m.n2 ELSE 0)
  <2>1. N \in Nat
    BY <1>1
  <2>2. Records(m) = [i \in 1..N |-> RecordWords(m.tpl, i <= m.n1)]
    BY <1>4 DEF Records
  <2>3. \A i \in 1..N : RecordWords(m.tpl, i <= m.n1) \in Nat
    BY DEF RecordWords
  <2> HIDE DEF N
  <2> QED
    BY <2>1, <2>2, <2>3
<1> QED
  BY <1>2, <1>3, <1>4

\* The records begin one behind the other.
LEMMA StartIs ==
  ASSUME NEW c \in Message, Fitting(c)
  PROVE  /\ Start(c.wire, 1) = 0
         /\ \A r \in 1..(Len(Records(c.wire)) + 1) : Start(c.wire, r) \in Nat
         /\ \A r \in 1..Len(Records(c.wire)) :
              Start(c.wire, r + 1) = Start(c.wire, r) + Records(c.wire)[r]
<1> DEFINE m == c.wire
<1>1. /\ m.size \in 10..256 /\ m.n1 \in Nat /\ m.n2 \in Nat
  BY MessageFields DEF Fitting, MSG_PREFIX, MAX_MSG
<1>2. CASE ~Subset(m)
  <2>1. Len(Records(m)) = 1
    BY <1>2 DEF Records
  <2>2. Start(m, 1) = 0 /\ Start(m, 2) = Records(m)[1]
    BY <1>2 DEF Start
  <2>3. Records(m)[1] \in Nat
    BY <2>1, RecordsType
  <2> HIDE DEF m
  <2>4. \A r \in 1..2 : Start(m, r) \in Nat
    BY <2>2, <2>3
  <2> QED
    BY <2>1, <2>2, <2>3, <2>4 DEF m
<1>3. CASE Subset(m) /\ ~Fits1(m)
  <2>1. Records(m) = <<>>
    BY <1>3 DEF Records
  <2>2. Start(m, 1) = 0
    BY <1>1, <1>3 DEF Start, Wide
  <2> HIDE DEF m
  <2> QED
    BY <2>1, <2>2 DEF m
<1>4. CASE Subset(m) /\ Fits1(m)
  <2> DEFINE N == m.n1 + (IF m.tpl = 46 /\ Fits2(m) THEN m.n2 ELSE 0)
             w == IF m.tpl \in {46, 52} THEN 13 ELSE 18
  <2>1. N \in Nat
    BY <1>1
  <2>2. Records(m) = [i \in 1..N |-> RecordWords(m.tpl, i <= m.n1)]
    BY <1>4 DEF Records
  <2>3. \A i \in 1..N : Records(m)[i] = IF i <= m.n1 THEN w ELSE 18
    BY <2>2 DEF RecordWords
  <2>4. Len(Records(m)) = N
    BY <2>1, <2>2
  <2> HIDE DEF N
  <2>5. \A r \in 1..(N + 1) :
          Start(m, r) = IF r <= m.n1 + 1 THEN w * (r - 1) ELSE w * m.n1 + 18 * (r - 1 - m.n1)
    BY <1>4 DEF Start, Wide
  <2>6. CASE m.tpl \in {46, 52}
    <3>1. w = 13
      BY <2>6
    <3> HIDE DEF m, w
    <3>2. \A r \in 1..(N + 1) : Start(m, r) \in Nat
      BY <1>1, <2>1, <2>5, <3>1
    <3>3. ASSUME NEW r \in 1..N
          PROVE  Start(m, r + 1) = Start(m, r) + Records(m)[r]
      <4>1. r \in 1..(N + 1) /\ r + 1 \in 1..(N + 1)
        BY <2>1
      <4>2. CASE r <= m.n1
        BY <1>1, <2>1, <2>3, <2>5, <3>1, <4>1, <4>2
      <4>3. CASE r > m.n1
        <5>1. Records(m)[r] = 18
          BY <1>1, <2>3, <4>3
        <5>2. Start(m, r) = w * m.n1 + 18 * (r - 1 - m.n1)
          BY <1>1, <2>1, <2>5, <3>1, <4>1, <4>3
        <5>3. Start(m, r + 1) = w * m.n1 + 18 * (r + 1 - 1 - m.n1)
          BY <1>1, <2>1, <2>5, <3>1, <4>1, <4>3
        <5> QED
          BY <1>1, <2>1, <3>1, <5>1, <5>2, <5>3
      <4> QED
        BY <1>1, <2>1, <4>2, <4>3
    <3>4. Start(m, 1) = 0
      BY <1>1, <2>1, <2>5, <3>1
    <3> QED
      BY <2>4, <3>2, <3>3, <3>4 DEF m
  <2>7. CASE m.tpl \notin {46, 52}
    <3>1. w = 18
      BY <2>7
    <3> HIDE DEF m, w
    <3>2. \A r \in 1..(N + 1) : Start(m, r) \in Nat
      BY <1>1, <2>1, <2>5, <3>1
    <3>3. ASSUME NEW r \in 1..N
          PROVE  Start(m, r + 1) = Start(m, r) + Records(m)[r]
      <4>1. r \in 1..(N + 1) /\ r + 1 \in 1..(N + 1)
        BY <2>1
      <4>2. CASE r <= m.n1
        BY <1>1, <2>1, <2>3, <2>5, <3>1, <4>1, <4>2
      <4>3. CASE r > m.n1
        <5>1. Records(m)[r] = 18
          BY <1>1, <2>3, <4>3
        <5>2. Start(m, r) = w * m.n1 + 18 * (r - 1 - m.n1)
          BY <1>1, <2>1, <2>5, <3>1, <4>1, <4>3
        <5>3. Start(m, r + 1) = w * m.n1 + 18 * (r + 1 - 1 - m.n1)
          BY <1>1, <2>1, <2>5, <3>1, <4>1, <4>3
        <5> QED
          BY <1>1, <2>1, <3>1, <5>1, <5>2, <5>3
      <4> QED
        BY <1>1, <2>1, <4>2, <4>3
    <3>4. Start(m, 1) = 0
      BY <1>1, <2>1, <2>5, <3>1
    <3> QED
      BY <2>4, <3>2, <3>3, <3>4 DEF m
  <2> QED
    BY <2>6, <2>7
<1> QED
  BY <1>2, <1>3, <1>4

\* Words of a message up to a record.
Lists(c, f) ==
  f = [r \in 0..Len(Records(c.wire)) |->
        IF r = 0 THEN <<>> ELSE f[r - 1] \o RecordAt(c, r)]

\* The words of a record are words of the FIFO.
LEMMA RecordAtType ==
  ASSUME NEW c \in Message, Fitting(c), NEW r \in 1..Len(Records(c.wire))
  PROVE  /\ RecordAt(c, r) \in Seq(FifoWord)
         /\ Len(RecordAt(c, r)) = Records(c.wire)[r]
         /\ \A i \in 1..Records(c.wire)[r] : RecordAt(c, r)[i] = WordOf(c, r, i)
<1> DEFINE len == Records(c.wire)[r]
           W(i) == WordOf(c, r, i)
<1>1. len \in Nat /\ r \in Nat
  BY RecordsType
<1>2. c.n \in Nat /\ c.j \in Nat
  BY DEF Message
<1> HIDE DEF len
<1>3. ASSUME NEW i \in 1..len PROVE W(i) \in FifoWord
  <2>1. i - 1 \in Nat
    BY <1>1
  <2>2. (i = len) \in BOOLEAN
    BY Zenon
  <2> QED
    BY <1>1, <1>2, <2>1, <2>2, Zenon DEF FifoWord, WordOf, len
<1>4. RecordAt(c, r) = [i \in 1..len |-> W(i)]
  BY DEF RecordAt, len
<1> HIDE DEF W
<1>5. RecordAt(c, r) \in Seq(FifoWord) /\ Len(RecordAt(c, r)) = len
  BY <1>1, <1>3, <1>4
<1>6. \A i \in 1..len : RecordAt(c, r)[i] = W(i)
  BY <1>1, <1>4
<1> QED
  BY <1>5, <1>6 DEF len, W

\* There is such a function.
LEMMA ListsExist ==
  ASSUME NEW c \in Message, Fitting(c)
  PROVE  \E f \in [0..Len(Records(c.wire)) -> Seq(FifoWord)] : Lists(c, f)
<1> DEFINE N == Len(Records(c.wire))
           V == Seq(FifoWord)
           advance == [x \in V \X Nat |->
                      IF x[2] \in 1..N THEN x[1] \o RecordAt(c, x[2]) ELSE x[1]]
<1>1. N \in Nat /\ <<>> \in V
  BY RecordsType
<1>2. \A i \in 1..N : RecordAt(c, i) \in V
  BY RecordAtType
<1>3. advance \in [V \X Nat -> V]
  <2>1. ASSUME NEW x \in V \X Nat
        PROVE  (IF x[2] \in 1..N THEN x[1] \o RecordAt(c, x[2]) ELSE x[1]) \in V
    <3>1. x[1] \in V
      OBVIOUS
    <3> HIDE DEF N
    <3>2. CASE x[2] \in 1..N
      <4>1. RecordAt(c, x[2]) \in V
        BY <1>2, <3>2
      <4> QED
        BY <3>1, <3>2, <4>1
    <3> QED
      BY <3>1, <3>2
  <2> QED
    BY <2>1
<1>4. ASSUME NEW v \in V, NEW i \in 1..N
      PROVE  advance[<<v, i>>] = v \o RecordAt(c, i)
  <2>1. <<v, i>> \in V \X Nat
    BY <1>1
  <2> HIDE DEF N, V
  <2>2. <<v, i>>[1] = v /\ <<v, i>>[2] = i
    OBVIOUS
  <2> QED
    BY <2>1, <2>2
<1> HIDE DEF advance
<1>0. PICK f : IsIterate(f, V, <<>>, advance, N)
  <2> HIDE DEF N, V
  <2> QED
    BY <1>1, <1>3, Iterates
<1>5. /\ f \in [0..N -> V] /\ f[0] = <<>>
      /\ \A i \in 1..N : f[i] = advance[<<f[i - 1], i>>]
  BY <1>0 DEF IsIterate
<1>6. ASSUME NEW i \in 0..N
      PROVE  f[i] = IF i = 0 THEN <<>> ELSE f[i - 1] \o RecordAt(c, i)
  <2>1. CASE i = 0
    BY <1>5, <2>1
  <2>2. CASE i # 0
    <3>1. i \in 1..N /\ i - 1 \in 0..N
      BY <1>1, <2>2
    <3>2. f[i - 1] \in V
      BY <1>5, <3>1
    <3> HIDE DEF N, V
    <3>3. f[i] = advance[<<f[i - 1], i>>]
      BY <1>5, <3>1
    <3> QED
      BY <1>4, <2>2, <3>1, <3>2, <3>3
  <2> QED
    BY <2>1, <2>2
<1>7. Lists(c, f)
  BY <1>5, <1>6 DEF Lists
<1> QED
  BY <1>5, <1>7

\* What two sequences one behind the other are made of.
IsJoin(T, a, b, c) ==
  /\ c \in Seq(T) /\ Len(c) = Len(a) + Len(b)
  /\ \A k \in 1..Len(a) : c[k] = a[k]
  /\ \A k \in 1..Len(b) : c[Len(a) + k] = b[k]

LEMMA Joined ==
  ASSUME NEW T, NEW a \in Seq(T), NEW b \in Seq(T)
  PROVE  IsJoin(T, a, b, a \o b)
<1>1. Len(a) \in Nat /\ Len(b) \in Nat
  OBVIOUS
<1>2. a \o b \in Seq(T) /\ Len(a \o b) = Len(a) + Len(b)
  OBVIOUS
<1>3. \A k \in 1..Len(a) : (a \o b)[k] = a[k]
  BY <1>1
<1>4. ASSUME NEW k \in 1..Len(b) PROVE (a \o b)[Len(a) + k] = b[k]
  <2>1. Len(a) + k \in 1..(Len(a) + Len(b)) /\ ~(Len(a) + k <= Len(a)) /\ Len(a) + k - Len(a) = k
    BY <1>1
  <2> QED
    BY <1>1, <2>1
<1> QED
  BY <1>2, <1>3, <1>4 DEF IsJoin

\* So many words of a message are those of its first records.
Covers(c, r, f) ==
  /\ f[r] \in Seq(FifoWord) /\ Len(f[r]) = Start(c.wire, r + 1)
  /\ \A s \in 1..r : \A i \in 1..Records(c.wire)[s] :
       /\ Start(c.wire, s) + i <= Start(c.wire, r + 1)
       /\ f[r][Start(c.wire, s) + i] = WordOf(c, s, i)

\* The words of one more record come behind.
LEMMA CoversNext ==
  ASSUME NEW c \in Message, Fitting(c), NEW f, NEW r \in 1..Len(Records(c.wire)),
         Covers(c, r - 1, f), f[r] = f[r - 1] \o RecordAt(c, r)
  PROVE  Covers(c, r, f)
<1> DEFINE S(s) == Start(c.wire, s)
           R == Records(c.wire)
           N == Len(R)
           W(s, i) == WordOf(c, s, i)
           old == f[r - 1]
           new == RecordAt(c, r)
<1>1. /\ N \in Nat /\ r \in 1..N /\ r - 1 + 1 = r
      /\ R[r] \in Nat
  BY RecordsType
<1>2. /\ S(r) \in Nat /\ S(r + 1) = S(r) + R[r]
      /\ \A s \in 1..(N + 1) : S(s) \in Nat
  <2>1. r \in 1..(N + 1)
    BY <1>1
  <2> QED
    BY <2>1, StartIs
<1>3. /\ old \in Seq(FifoWord) /\ Len(old) = S(r)
      /\ \A s \in 1..(r - 1) : \A i \in 1..R[s] :
           S(s) + i <= S(r) /\ old[S(s) + i] = W(s, i)
  BY <1>1 DEF Covers
<1>4. /\ new \in Seq(FifoWord) /\ Len(new) = R[r]
      /\ \A i \in 1..R[r] : new[i] = W(r, i)
  BY <1>1, RecordAtType
<1>5. f[r] = old \o new
  OBVIOUS
<1>6. \A s \in 1..(r - 1) : R[s] \in Nat /\ S(s) \in Nat
  <2>1. \A s \in 1..(r - 1) : s \in 1..N /\ s \in 1..(N + 1)
    BY <1>1
  <2>2. \A s \in 1..N : R[s] \in Nat
    BY RecordsType
  <2> HIDE DEF S, R, N
  <2> QED
    BY <1>2, <2>1, <2>2
<1> HIDE DEF S, R, N, W, old, new
<1>j. /\ f[r] \in Seq(FifoWord) /\ Len(f[r]) = S(r) + R[r]
      /\ \A k \in 1..S(r) : f[r][k] = old[k]
      /\ \A k \in 1..R[r] : f[r][S(r) + k] = new[k]
  <2>1. old \in Seq(FifoWord) /\ new \in Seq(FifoWord)
    BY <1>3, <1>4
  <2>2. IsJoin(FifoWord, old, new, old \o new)
    BY <2>1, Joined
  <2> QED
    BY <1>3, <1>4, <1>5, <2>2, Zenon DEF IsJoin
<1>7. f[r] \in Seq(FifoWord) /\ Len(f[r]) = S(r + 1)
  BY <1>2, <1>j
<1>8. \A k \in 1..S(r) : f[r][k] = old[k]
  BY <1>j
<1>9. \A k \in 1..R[r] : f[r][S(r) + k] = new[k]
  BY <1>j
<1>10. ASSUME NEW s \in 1..r, NEW i \in 1..R[s]
       PROVE  S(s) + i <= S(r + 1) /\ f[r][S(s) + i] = W(s, i)
  <2>1. CASE s = r
    <3>1. i \in 1..R[r] /\ i \in Nat /\ i <= R[r]
      BY <1>1, <2>1
    <3>2. new[i] = W(r, i) /\ f[r][S(r) + i] = new[i]
      BY <1>4, <1>9, <3>1
    <3>3. S(r) + i <= S(r + 1)
      BY <1>1, <1>2, <3>1
    <3> QED
      BY <2>1, <3>2, <3>3
  <2>2. CASE s # r
    <3>1. s \in 1..(r - 1)
      BY <1>1, <2>2
    <3>2. S(s) + i <= S(r) /\ old[S(s) + i] = W(s, i)
      BY <1>3, <3>1
    <3>3. S(s) + i \in 1..S(r)
      BY <1>2, <1>6, <3>1, <3>2
    <3>4. f[r][S(s) + i] = W(s, i)
      BY <1>8, <3>2, <3>3
    <3>5. S(s) + i <= S(r + 1)
      <4>1. i \in Nat
        BY <1>6, <3>1
      <4> QED
        BY <1>1, <1>2, <1>6, <3>1, <3>2, <4>1
    <3> QED
      BY <3>4, <3>5
  <2> QED
    BY <2>1, <2>2
<1> QED
  BY <1>7, <1>10 DEF Covers, S, R, W

LEMMA CoversAll ==
  ASSUME NEW c \in Message, Fitting(c), NEW f, Lists(c, f)
  PROVE  Covers(c, Len(Records(c.wire)), f)
<1> DEFINE N == Len(Records(c.wire))
           S == {r \in 0..N : ~Covers(c, r, f)}
<1>1. N \in Nat
  BY RecordsType
<1>2. SUFFICES ASSUME S # {} PROVE FALSE
  BY <1>1
<1>3. S \in SUBSET Nat
  OBVIOUS
<1>4. PICK x \in S : \A y \in S : x <= y
  BY <1>2, <1>3, LowestExists
<1>5. x \in 0..N /\ ~Covers(c, x, f)
  OBVIOUS
<1>6. CASE x = 0
  <2>1. f[0] = <<>> /\ <<>> \in Seq(FifoWord) /\ Len(<<>>) = 0
    BY <1>1 DEF Lists
  <2>2. Start(c.wire, 0 + 1) = 0
    BY StartIs
  <2>3. 1..0 = {}
    OBVIOUS
  <2>4. Covers(c, 0, f)
    BY <2>1, <2>2, <2>3 DEF Covers
  <2> QED
    BY <1>5, <1>6, <2>4
<1>7. CASE x # 0
  <2>1. x - 1 \in 0..N /\ x - 1 \notin S /\ x \in 1..N
    BY <1>1, <1>4, <1>5, <1>7
  <2>2. Covers(c, x - 1, f)
    BY <2>1
  <2>3. f[x] = f[x - 1] \o RecordAt(c, x)
    <3>1. x # 0 /\ x \in 0..N
      BY <1>7
    <3> HIDE DEF S
    <3> QED
      BY <3>1 DEF Lists
  <2>4. Covers(c, x, f)
    <3> HIDE DEF S
    <3> QED
      BY <2>1, <2>2, <2>3, CoversNext
  <2> QED
    BY <1>5, <2>4
<1> QED
  BY <1>6, <1>7

\* The words of a message: those of record s begin behind Start of it.
LEMMA WordsAre ==
  ASSUME NEW c \in Message, Fitting(c)
  PROVE  /\ Words(c) \in Seq(FifoWord)
         /\ Len(Words(c)) = Start(c.wire, Len(Records(c.wire)) + 1)
         /\ \A s \in 1..Len(Records(c.wire)) : \A i \in 1..Records(c.wire)[s] :
              /\ Start(c.wire, s) + i <= Len(Words(c))
              /\ Words(c)[Start(c.wire, s) + i] = WordOf(c, s, i)
<1> DEFINE f == CHOOSE g : Lists(c, g)
<1>1. Lists(c, f)
  BY ListsExist
<1>2. Words(c) = f[Len(Records(c.wire))]
  BY DEF Words, Lists
<1> HIDE DEF f
<1>3. Covers(c, Len(Records(c.wire)), f)
  BY <1>1, CoversAll
<1> QED
  BY <1>2, <1>3 DEF Covers

(***************************************************************************)
(* The words pushed of the message that is decoded                         *)
(***************************************************************************)
\* How many, in each state.
Sent ==
  IF dst = "PUSH" THEN Start(d.wire, RecNo) + r_idx
  ELSE IF dst = "G1_ENT" THEN Start(d.wire, g_idx + 1)
  ELSE IF dst = "G2_DIM" THEN Start(d.wire, d.wire.n1 + 1)
  ELSE IF dst = "G2_ENT"
  THEN Start(d.wire, IF Fits2(d.wire) THEN d.wire.n1 + g_idx + 1 ELSE d.wire.n1 + 1)
  ELSE IF dst = "PASS"
  THEN IF p_n < 2 THEN p_n
       ELSE IF p_n = 2 THEN 2 + ((p_off - MSG_PREFIX) \div 4) ELSE Len(Words(d))
  ELSE IF dst = "DONE" THEN Len(Words(d)) ELSE 0

Grouped == Subset(d.wire) /\ Fits1(d.wire)

\* What the decoder has found out of the message.
Progress ==
  /\ dst # "PUSH" => r_idx = 0
  /\ dst \in {"ROOT", "G1"} => Subset(d.wire)
  /\ dst = "G1_ENT" => Grouped /\ g_idx <= d.wire.n1
  /\ dst = "PUSH" => /\ Grouped /\ r_idx <= Rlen
                     /\ IF g1_mode THEN g_idx < d.wire.n1
                        ELSE d.wire.tpl = 46 /\ Fits2(d.wire) /\ g_idx < d.wire.n2
  /\ dst = "G2_DIM" => Grouped /\ d.wire.tpl = 46
  /\ dst = "G2_ENT" => /\ Grouped /\ d.wire.tpl = 46 /\ ~g1_mode
                       /\ Fits2(d.wire) => g_idx <= d.wire.n2
  /\ dst = "PASS" => /\ ~Subset(d.wire)
                     /\ p_n = 2 => p_cnt = (p_off - MSG_PREFIX) % 4

\* A step of the decoder pushes the next word of the message, or none, and is
\* through with the message only when it has pushed all of them.
Advances(rdy) ==
  LET all == Len(Words(d))
      upto == IF push_commit THEN Sent + 1 ELSE Sent
  IN /\ IF push_commit THEN Sent < all /\ PushWord(rdy, Words(d)[Sent + 1])
        ELSE NoPush(rdy)
     /\ IF dst' = "IDLE" THEN upto = all ELSE Sent' = upto

\* The records of a message with groups that fit.
LEMMA GroupRecords ==
  ASSUME NEW c \in Message, Subset(c.wire), Fits1(c.wire)
  PROVE  /\ Len(Records(c.wire)) =
              c.wire.n1 + (IF c.wire.tpl = 46 /\ Fits2(c.wire) THEN c.wire.n2 ELSE 0)
         /\ \A i \in 1..Len(Records(c.wire)) :
              Records(c.wire)[i] = RecordWords(c.wire.tpl, i <= c.wire.n1)
<1> DEFINE m == c.wire
           N == m.n1 + (IF m.tpl = 46 /\ Fits2(m) THEN m.n2 ELSE 0)
<1>1. N \in Nat
  BY MessageFields
<1>2. Records(m) = [i \in 1..N |-> RecordWords(m.tpl, i <= m.n1)]
  BY DEF Records
<1> HIDE DEF N, m
<1>3. Len(Records(m)) = N /\ \A i \in 1..N : Records(m)[i] = RecordWords(m.tpl, i <= m.n1)
  BY <1>1, <1>2
<1> QED
  BY <1>3 DEF N, m

\* All words of such a message are out when its last record is.
LEMMA GroupTotal ==
  ASSUME NEW c \in Message, Fitting(c), Subset(c.wire), Fits1(c.wire)
  PROVE  /\ c.wire.tpl # 46 => Len(Words(c)) = Start(c.wire, c.wire.n1 + 1)
         /\ Fits2(c.wire) /\ c.wire.tpl = 46
              => Len(Words(c)) = Start(c.wire, c.wire.n1 + c.wire.n2 + 1)
         /\ ~Fits2(c.wire) => Len(Words(c)) = Start(c.wire, c.wire.n1 + 1)
<1>1. c.wire.n1 \in Nat /\ c.wire.n2 \in Nat
  BY MessageFields
<1>2. Len(Words(c)) = Start(c.wire, Len(Records(c.wire)) + 1)
  BY WordsAre
<1>3. Len(Records(c.wire)) =
        c.wire.n1 + (IF c.wire.tpl = 46 /\ Fits2(c.wire) THEN c.wire.n2 ELSE 0)
  BY GroupRecords
<1>4. CASE c.wire.tpl # 46 \/ ~Fits2(c.wire)
  <2>1. Len(Records(c.wire)) = c.wire.n1
    BY <1>1, <1>3, <1>4
  <2> QED
    BY <1>2, <1>4, <2>1
<1>5. CASE c.wire.tpl = 46 /\ Fits2(c.wire)
  <2>1. Len(Records(c.wire)) = c.wire.n1 + c.wire.n2
    BY <1>1, <1>3, <1>5
  <2> QED
    BY <1>2, <1>5, <2>1
<1> QED
  BY <1>4, <1>5

\* The record under way in DS_PUSH.
LEMMA RecordUnderWay ==
  ASSUME DecodePart, Progress, dst = "PUSH"
  PROVE  /\ RecNo \in 1..Len(Records(d.wire)) /\ Records(d.wire)[RecNo] = Rlen
         /\ Start(d.wire, RecNo) \in Nat
         /\ Start(d.wire, RecNo + 1) = Start(d.wire, RecNo) + Rlen
         /\ \A i \in 1..Rlen :
              /\ Start(d.wire, RecNo) + i <= Len(Words(d))
              /\ Words(d)[Start(d.wire, RecNo) + i] = WordOf(d, RecNo, i)
<1>1. /\ d \in Message /\ Fitting(d) /\ g_idx \in Nat /\ g1_mode \in BOOLEAN
      /\ Subset(d.wire) /\ Fits1(d.wire) /\ d.wire.n1 \in Nat /\ d.wire.n2 \in Nat
  BY MessageFields DEF DecodePart, DecodeType, Decoding, Progress, Grouped
<1>2. /\ Len(Records(d.wire)) =
           d.wire.n1 + (IF d.wire.tpl = 46 /\ Fits2(d.wire) THEN d.wire.n2 ELSE 0)
      /\ \A i \in 1..Len(Records(d.wire)) :
           Records(d.wire)[i] = RecordWords(d.wire.tpl, i <= d.wire.n1)
  BY <1>1, GroupRecords
<1>3. RecNo \in 1..Len(Records(d.wire)) /\ (RecNo <= d.wire.n1 <=> g1_mode)
  <2>1. CASE g1_mode
    <3>1. RecNo = g_idx + 1 /\ g_idx < d.wire.n1
      BY <2>1 DEF Progress, RecNo
    <3> QED
      BY <1>1, <1>2, <2>1, <3>1
  <2>2. CASE ~g1_mode
    <3>1. /\ RecNo = d.wire.n1 + g_idx + 1 /\ g_idx < d.wire.n2
          /\ d.wire.tpl = 46 /\ Fits2(d.wire)
      BY <2>2 DEF Progress, RecNo
    <3> QED
      BY <1>1, <1>2, <2>2, <3>1, SMTT(30)
  <2> QED
    BY <2>1, <2>2
<1>4. Records(d.wire)[RecNo] = Rlen
  <2>1. Records(d.wire)[RecNo] = RecordWords(d.wire.tpl, RecNo <= d.wire.n1)
    BY <1>2, <1>3
  <2>2. CASE g1_mode
    BY <1>3, <2>1, <2>2 DEF Rlen, RecordWords
  <2>3. CASE ~g1_mode
    BY <1>3, <2>1, <2>3 DEF Rlen, RecordWords
  <2> QED
    BY <2>2, <2>3
<1>5. /\ Start(d.wire, RecNo) \in Nat
      /\ Start(d.wire, RecNo + 1) = Start(d.wire, RecNo) + Rlen
  <2>1. Len(Records(d.wire)) \in Nat
    BY <1>1, RecordsType
  <2>2. RecNo \in 1..(Len(Records(d.wire)) + 1)
    BY <1>3, <2>1
  <2> QED
    BY <1>1, <1>3, <1>4, <2>2, StartIs
<1>6. \A i \in 1..Rlen :
        /\ Start(d.wire, RecNo) + i <= Len(Words(d))
        /\ Words(d)[Start(d.wire, RecNo) + i] = WordOf(d, RecNo, i)
  BY <1>1, <1>3, <1>4, WordsAre
<1> QED
  BY <1>3, <1>4, <1>5, <1>6

\* The word that is pushed is the reference's.
LEMMA WordIs ==
  ASSUME NEW rec, NEW idx \in Nat, NEW last \in BOOLEAN,
         last <=> idx + 1 = Records(d.wire)[rec]
  PROVE  Word(rec, idx, last) = WordOf(d, rec, idx + 1)
<1> DEFINE b == (idx + 1 = Records(d.wire)[rec])
<1>1. idx + 1 - 1 = idx
  OBVIOUS
<1>2. b = last
  BY Zenon
<1>3. WordOf(d, rec, idx + 1) =
        [n |-> d.n, j |-> d.j, rec |-> rec, idx |-> idx + 1 - 1, last |-> b]
  BY DEF WordOf
<1> HIDE DEF b
<1> QED
  BY <1>1, <1>2, <1>3 DEF Word

\* DS_PUSH.
LEMMA PushAdvances ==
  ASSUME DecodePart, Progress, NEW o, NEW rdy, Push(o, rdy)
  PROVE  Progress' /\ Advances(rdy)
<1>1. /\ dst = "PUSH" /\ Room /\ r_idx < Rlen /\ push_commit
      /\ PushWord(rdy, Word(RecNo, r_idx, r_idx = Rlen - 1))
      /\ UNCHANGED <<dec_sel, d, g1_mode, p_n, p_off, p_cnt>>
  BY DEF Push, push_commit
<1>2. /\ d \in Message /\ Fitting(d) /\ g_idx \in Nat /\ g1_mode \in BOOLEAN /\ r_idx \in Nat
      /\ Subset(d.wire) /\ Fits1(d.wire) /\ d.wire.n1 \in Nat /\ d.wire.n2 \in Nat
  BY <1>1, MessageFields DEF DecodePart, DecodeType, Decoding, Progress, Grouped
<1>3. Rlen \in {13, 18}
  BY RlenType
<1>4. /\ Start(d.wire, RecNo) \in Nat
      /\ Start(d.wire, RecNo + 1) = Start(d.wire, RecNo) + Rlen
      /\ RecNo \in Nat
  BY <1>1, RecordUnderWay
<1>5. Sent = Start(d.wire, RecNo) + r_idx
  BY <1>1 DEF Sent
<1>6. /\ Sent + 1 <= Len(Words(d))
      /\ Words(d)[Sent + 1] = WordOf(d, RecNo, r_idx + 1)
  <2>1. r_idx + 1 \in 1..Rlen
    BY <1>1, <1>2, <1>3
  <2>2. \A i \in 1..Rlen :
          /\ Start(d.wire, RecNo) + i <= Len(Words(d))
          /\ Words(d)[Start(d.wire, RecNo) + i] = WordOf(d, RecNo, i)
    BY <1>1, RecordUnderWay
  <2>3. Start(d.wire, RecNo) + (r_idx + 1) = Sent + 1
    BY <1>2, <1>4, <1>5
  <2> QED
    BY <2>1, <2>2, <2>3
<1>7. Word(RecNo, r_idx, r_idx = Rlen - 1) = Words(d)[Sent + 1]
  <2>1. (r_idx = Rlen - 1) <=> r_idx + 1 = Records(d.wire)[RecNo]
    BY <1>1, <1>2, <1>3, RecordUnderWay
  <2>2. (r_idx = Rlen - 1) \in BOOLEAN
    BY Zenon
  <2> DEFINE l == (r_idx = Rlen - 1)
  <2> HIDE DEF l
  <2>3. Word(RecNo, r_idx, l) = WordOf(d, RecNo, r_idx + 1)
    BY <1>2, <2>1, <2>2, WordIs DEF l
  <2> QED
    BY <1>6, <2>3 DEF l
<1>8. Len(Words(d)) \in Nat
  BY <1>2, WordsAre
<1>9. Sent < Len(Words(d)) /\ PushWord(rdy, Words(d)[Sent + 1])
  <2>1. Sent < Len(Words(d))
    BY <1>2, <1>4, <1>5, <1>6, <1>8
  <2> QED
    BY <1>1, <1>7, <2>1, Zenon
<1>10. CASE r_idx = Rlen - 1 /\ LastRecord
  <2>1. dst' = "IDLE" /\ r_idx' = 0
    BY <1>10 DEF Push, Goes
  <2>2. Sent + 1 = Start(d.wire, RecNo + 1)
    BY <1>2, <1>3, <1>4, <1>5, <1>10
  <2>3. Start(d.wire, RecNo + 1) = Len(Words(d))
    <3>1. CASE g1_mode
      <4>1. RecNo + 1 = d.wire.n1 + 1 /\ d.wire.tpl # 46
        BY <1>1, <1>2, <1>10, <3>1 DEF LastRecord, RecNo, Progress
      <4> QED
        BY <1>2, <4>1, GroupTotal
    <3>2. CASE ~g1_mode
      <4>1. RecNo + 1 = d.wire.n1 + d.wire.n2 + 1 /\ Fits2(d.wire) /\ d.wire.tpl = 46
        BY <1>1, <1>2, <1>10, <3>2 DEF LastRecord, RecNo, Progress
      <4> QED
        BY <1>2, <4>1, GroupTotal
    <3> QED
      BY <3>1, <3>2
  <2>4. Advances(rdy)
    BY <1>1, <1>9, <2>1, <2>2, <2>3 DEF Advances
  <2>5. Progress'
    BY <2>1 DEF Progress
  <2> QED
    BY <2>4, <2>5
<1>11. CASE ~(r_idx = Rlen - 1 /\ LastRecord)
  <2>1. dst' = dst /\ r_idx' = r_idx + 1 /\ g_idx' = g_idx
    BY <1>11 DEF Push
  <2>2. RecNo' = RecNo /\ Rlen' = Rlen
    BY <1>1, <2>1 DEF RecNo, Rlen
  <2>3. Sent' = Sent + 1
    <3>1. Sent' = Start(d.wire, RecNo) + r_idx'
      BY <1>1, <2>1, <2>2 DEF Sent
    <3> QED
      BY <1>2, <1>4, <1>5, <2>1, <3>1
  <2>4. Advances(rdy)
    BY <1>1, <1>9, <2>1, <2>3 DEF Advances
  <2>5. Progress'
    <3>1. r_idx' <= Rlen'
      BY <1>1, <1>2, <1>3, <2>1, <2>2
    <3> QED
      BY <1>1, <2>1, <3>1 DEF Progress, Grouped
  <2> QED
    BY <2>4, <2>5
<1> QED
  BY <1>10, <1>11

\* DS_PUSH behind the last word of a record.
LEMMA PushedAdvances ==
  ASSUME DecodePart, Progress, NEW o, NEW rdy, Pushed(o, rdy)
  PROVE  Progress' /\ Advances(rdy)
<1>1. /\ dst = "PUSH" /\ r_idx = Rlen /\ ~push_commit /\ NoPush(rdy)
      /\ r_idx' = 0 /\ g_idx' = g_idx + 1
      /\ dst' = (IF g1_mode THEN "G1_ENT" ELSE "G2_ENT")
      /\ UNCHANGED <<dec_sel, d, g1_mode, p_n, p_off, p_cnt>>
  BY RlenType DEF Pushed, Plain, Goes, push_commit
<1>2. /\ g_idx \in Nat /\ g1_mode \in BOOLEAN
      /\ Grouped /\ d.wire.n1 \in Nat /\ d.wire.n2 \in Nat
  BY <1>1, MessageFields DEF DecodePart, DecodeType, Decoding, Progress
<1>3. Sent = Start(d.wire, RecNo + 1)
  BY <1>1, RecordUnderWay DEF Sent
<1>4. CASE g1_mode
  <2>1. RecNo + 1 = g_idx' + 1 /\ g_idx' <= d.wire.n1 /\ dst' = "G1_ENT"
    BY <1>1, <1>2, <1>4 DEF RecNo, Progress
  <2>2. Sent' = Sent
    BY <1>1, <1>3, <2>1 DEF Sent
  <2>3. Progress'
    BY <1>1, <1>2, <2>1 DEF Progress, Grouped
  <2> QED
    BY <1>1, <2>1, <2>2, <2>3 DEF Advances
<1>5. CASE ~g1_mode
  <2>1. /\ RecNo + 1 = d.wire.n1 + g_idx' + 1 /\ g_idx' <= d.wire.n2 /\ dst' = "G2_ENT"
        /\ Fits2(d.wire) /\ d.wire.tpl = 46
    BY <1>1, <1>2, <1>5 DEF RecNo, Progress
  <2>2. Sent' = Sent
    BY <1>1, <1>3, <2>1 DEF Sent
  <2>3. Progress'
    BY <1>1, <1>2, <1>5, <2>1 DEF Progress, Grouped
  <2> QED
    BY <1>1, <2>1, <2>2, <2>3 DEF Advances
<1> QED
  BY <1>4, <1>5

\* The states that only go on to others.
LEMMA Group1Advances ==
  ASSUME DecodePart, Progress, NEW o, NEW rdy, Group1(o, rdy)
  PROVE  Progress' /\ Advances(rdy)
<1>1. /\ dst = "G1" /\ ~push_commit /\ NoPush(rdy) /\ g_idx' = 0
      /\ dst' = (IF ~Fits1(d.wire) THEN "DONE"
                 ELSE IF d.wire.n1 = 0 THEN AfterGroup1 ELSE "G1_ENT")
      /\ UNCHANGED <<dec_sel, d, g1_mode, r_idx, p_n, p_off, p_cnt>>
  BY DEF Group1, Plain, Goes, push_commit
<1>2. /\ d \in Message /\ Fitting(d) /\ d.wire.n1 \in Nat /\ d.wire.n2 \in Nat
      /\ Subset(d.wire) /\ r_idx = 0
  BY <1>1, MessageFields DEF DecodePart, DecodeType, Decoding, Progress
<1>3. Sent = 0 /\ Start(d.wire, 1) = 0
  BY <1>1, <1>2, StartIs DEF Sent
<1>4. CASE ~Fits1(d.wire)
  <2>1. Records(d.wire) = <<>>
    BY <1>2, <1>4 DEF Records
  <2>2. Len(Words(d)) = Start(d.wire, 0 + 1)
    BY <1>2, <2>1, WordsAre
  <2>3. dst' = "DONE"
    BY <1>1, <1>4
  <2>4. Sent' = 0
    BY <1>1, <1>3, <2>2, <2>3 DEF Sent
  <2> QED
    BY <1>1, <1>2, <1>3, <2>3, <2>4 DEF Advances, Progress
<1>5. CASE Fits1(d.wire) /\ d.wire.n1 = 0 /\ d.wire.tpl = 46
  <2>1. dst' = "G2_DIM"
    BY <1>1, <1>5 DEF AfterGroup1
  <2>2. Sent' = Start(d.wire, 0 + 1)
    BY <1>1, <1>5, <2>1 DEF Sent
  <2>3. Progress'
    BY <1>1, <1>2, <1>5, <2>1 DEF Progress, Grouped
  <2> QED
    BY <1>1, <1>3, <2>1, <2>2, <2>3 DEF Advances
<1>6. CASE Fits1(d.wire) /\ d.wire.n1 = 0 /\ d.wire.tpl # 46
  <2>1. dst' = "DONE"
    BY <1>1, <1>6 DEF AfterGroup1
  <2>2. Len(Words(d)) = Start(d.wire, 0 + 1)
    BY <1>2, <1>6, GroupTotal
  <2>3. Sent' = Len(Words(d))
    BY <1>1, <2>1 DEF Sent
  <2>4. Progress'
    BY <1>1, <1>2, <2>1 DEF Progress
  <2> QED
    BY <1>1, <1>3, <2>1, <2>2, <2>3, <2>4 DEF Advances
<1>7. CASE Fits1(d.wire) /\ d.wire.n1 # 0
  <2>1. dst' = "G1_ENT"
    BY <1>1, <1>7
  <2>2. Sent' = Start(d.wire, 0 + 1)
    BY <1>1, <2>1 DEF Sent
  <2>3. Progress'
    BY <1>1, <1>2, <1>7, <2>1 DEF Progress, Grouped
  <2> QED
    BY <1>1, <1>3, <2>1, <2>2, <2>3 DEF Advances
<1> QED
  BY <1>4, <1>5, <1>6, <1>7

LEMMA Entry1Advances ==
  ASSUME DecodePart, Progress, NEW o, NEW rdy, Entry1(o, rdy)
  PROVE  Progress' /\ Advances(rdy)
<1>1. /\ dst = "G1_ENT" /\ ~push_commit /\ NoPush(rdy)
      /\ IF g_idx < d.wire.n1 THEN g1_mode' = TRUE /\ dst' = "PUSH"
         ELSE g1_mode' = g1_mode /\ dst' = AfterGroup1
      /\ UNCHANGED <<dec_sel, d, g_idx, r_idx, p_n, p_off, p_cnt>>
  BY DEF Entry1, Plain, Goes, push_commit, Same
<1>2. /\ d \in Message /\ Fitting(d) /\ d.wire.n1 \in Nat /\ d.wire.n2 \in Nat /\ g_idx \in Nat
      /\ Subset(d.wire) /\ Fits1(d.wire) /\ g_idx <= d.wire.n1 /\ r_idx = 0
  BY <1>1, MessageFields DEF DecodePart, DecodeType, Decoding, Progress, Grouped
<1>3. Sent = Start(d.wire, g_idx + 1)
  BY <1>1 DEF Sent
<1>s. Start(d.wire, g_idx + 1) \in Nat
  <2>1. Len(Records(d.wire)) \in Nat /\ g_idx <= Len(Records(d.wire))
    BY <1>2, GroupRecords
  <2>2. g_idx + 1 \in 1..(Len(Records(d.wire)) + 1)
    BY <1>2, <2>1
  <2> QED
    BY <1>2, <2>2, StartIs
<1>4. CASE g_idx < d.wire.n1
  <2>1. dst' = "PUSH" /\ g1_mode' = TRUE
    BY <1>1, <1>4
  <2>2. RecNo' = g_idx + 1
    BY <1>1, <2>1 DEF RecNo
  <2>3. Sent' = Start(d.wire, g_idx + 1) + 0
    BY <1>1, <1>2, <2>1, <2>2 DEF Sent
  <2>4. r_idx' <= Rlen'
    <3>1. Rlen' \in {13, 18}
      BY DEF Rlen, RecordWords
    <3> QED
      BY <1>1, <1>2, <3>1
  <2>5. Progress'
    BY <1>1, <1>2, <1>4, <2>1, <2>4 DEF Progress, Grouped
  <2> QED
    BY <1>1, <1>3, <1>s, <2>1, <2>3, <2>5 DEF Advances
<1>5. CASE ~(g_idx < d.wire.n1) /\ d.wire.tpl = 46
  <2>1. dst' = "G2_DIM" /\ g_idx = d.wire.n1
    BY <1>1, <1>2, <1>5 DEF AfterGroup1
  <2>2. Sent' = Start(d.wire, g_idx + 1)
    BY <1>1, <2>1 DEF Sent
  <2>3. Progress'
    BY <1>1, <1>2, <1>5, <2>1 DEF Progress, Grouped
  <2> QED
    BY <1>1, <1>3, <2>1, <2>2, <2>3 DEF Advances
<1>6. CASE ~(g_idx < d.wire.n1) /\ d.wire.tpl # 46
  <2>1. dst' = "DONE" /\ g_idx = d.wire.n1
    BY <1>1, <1>2, <1>6 DEF AfterGroup1
  <2>2. Len(Words(d)) = Start(d.wire, d.wire.n1 + 1)
    BY <1>2, <1>6, GroupTotal
  <2>3. Sent' = Len(Words(d))
    BY <1>1, <2>1 DEF Sent
  <2>4. Progress'
    BY <1>1, <1>2, <2>1 DEF Progress
  <2> QED
    BY <1>1, <1>3, <2>1, <2>2, <2>3, <2>4 DEF Advances
<1> QED
  BY <1>4, <1>5, <1>6

LEMMA Dim2Advances ==
  ASSUME DecodePart, Progress, NEW o, NEW rdy, Dim2(o, rdy)
  PROVE  Progress' /\ Advances(rdy)
<1>1. /\ dst = "G2_DIM" /\ ~push_commit /\ NoPush(rdy)
      /\ dst' = "G2_ENT" /\ g1_mode' = FALSE /\ g_idx' = 0
      /\ UNCHANGED <<dec_sel, d, r_idx, p_n, p_off, p_cnt>>
  BY DEF Dim2, Plain, Goes, push_commit
<1>2. /\ d.wire.n1 \in Nat /\ d.wire.n2 \in Nat /\ r_idx = 0
      /\ Grouped /\ d.wire.tpl = 46
  BY <1>1, MessageFields DEF DecodePart, DecodeType, Progress
<1>3. Sent = Start(d.wire, d.wire.n1 + 1)
  BY <1>1 DEF Sent
<1>4. Sent' = Sent
  <2>1. d.wire.n1 + g_idx' + 1 = d.wire.n1 + 1
    BY <1>1, <1>2
  <2>2. Sent' = Start(d.wire, IF Fits2(d.wire) THEN d.wire.n1 + g_idx' + 1 ELSE d.wire.n1 + 1)
    BY <1>1 DEF Sent
  <2> QED
    BY <1>3, <2>1, <2>2
<1>5. Progress'
  BY <1>1, <1>2 DEF Progress, Grouped
<1> QED
  BY <1>1, <1>4, <1>5 DEF Advances

LEMMA Entry2Advances ==
  ASSUME DecodePart, Progress, NEW o, NEW rdy, Entry2(o, rdy)
  PROVE  Progress' /\ Advances(rdy)
<1>1. /\ dst = "G2_ENT" /\ ~push_commit /\ NoPush(rdy)
      /\ dst' = (IF Fits2(d.wire) /\ g_idx < d.wire.n2 THEN "PUSH" ELSE "DONE")
      /\ UNCHANGED <<dec_sel, d, g_idx, g1_mode, r_idx, p_n, p_off, p_cnt>>
  BY DEF Entry2, Plain, Goes, push_commit
<1>2. /\ d \in Message /\ Fitting(d) /\ d.wire.n1 \in Nat /\ d.wire.n2 \in Nat /\ g_idx \in Nat
      /\ Subset(d.wire) /\ Fits1(d.wire) /\ d.wire.tpl = 46 /\ ~g1_mode
      /\ (Fits2(d.wire) => g_idx <= d.wire.n2) /\ r_idx = 0
  BY <1>1, MessageFields DEF DecodePart, DecodeType, Decoding, Progress, Grouped
<1>3. Sent = Start(d.wire, IF Fits2(d.wire) THEN d.wire.n1 + g_idx + 1 ELSE d.wire.n1 + 1)
  BY <1>1 DEF Sent
<1>4. CASE Fits2(d.wire) /\ g_idx < d.wire.n2
  <2>1. dst' = "PUSH"
    BY <1>1, <1>4
  <2>2. RecNo' = d.wire.n1 + g_idx + 1
    BY <1>1, <1>2 DEF RecNo
  <2>3. r_idx' <= Rlen'
    <3>1. Rlen' \in {13, 18}
      BY DEF Rlen, RecordWords
    <3> QED
      BY <1>1, <1>2, <3>1
  <2>4. Progress'
    BY <1>1, <1>2, <1>4, <2>1, <2>3 DEF Progress, Grouped
  <2>5. Start(d.wire, d.wire.n1 + g_idx + 1) \in Nat
    <3>1. Len(Records(d.wire)) = d.wire.n1 + d.wire.n2
      BY <1>2, <1>4, GroupRecords
    <3>2. d.wire.n1 + g_idx + 1 \in 1..(Len(Records(d.wire)) + 1)
      BY <1>2, <1>4, <3>1, SMTT(30)
    <3> QED
      BY <1>2, <3>2, StartIs
  <2>6. Sent' = Start(d.wire, d.wire.n1 + g_idx + 1) + 0
    BY <1>1, <1>2, <2>1, <2>2 DEF Sent
  <2> QED
    BY <1>1, <1>3, <1>4, <2>1, <2>4, <2>5, <2>6 DEF Advances
<1>5. CASE ~(Fits2(d.wire) /\ g_idx < d.wire.n2)
  <2>1. dst' = "DONE"
    BY <1>1, <1>5
  <2>2. Len(Words(d)) = Sent
    <3>1. CASE Fits2(d.wire)
      <4>1. g_idx = d.wire.n2
        BY <1>2, <1>5, <3>1
      <4> QED
        BY <1>2, <1>3, <3>1, <4>1, GroupTotal
    <3>2. CASE ~Fits2(d.wire)
      BY <1>2, <1>3, <3>2, GroupTotal
    <3> QED
      BY <3>1, <3>2
  <2>3. Sent' = Len(Words(d))
    BY <1>1, <2>1 DEF Sent
  <2>4. Progress'
    BY <1>1, <1>2, <2>1 DEF Progress
  <2> QED
    BY <1>1, <2>1, <2>2, <2>3, <2>4 DEF Advances
<1> QED
  BY <1>4, <1>5

LEMMA RestAdvances ==
  ASSUME DecodePart, Progress, NEW o, NEW rdy,
         Root(o, rdy) \/ Full(o, rdy) \/ Done(o, rdy)
  PROVE  Progress' /\ Advances(rdy)
<1>1. CASE Root(o, rdy)
  <2>1. /\ dst = "ROOT" /\ dst' = "G1" /\ ~push_commit /\ NoPush(rdy)
        /\ UNCHANGED <<dec_sel, d, g_idx, g1_mode, r_idx, p_n, p_off, p_cnt>>
    BY <1>1 DEF Root, Plain, Goes, push_commit
  <2>2. Sent' = Sent
    BY <2>1 DEF Sent
  <2> QED
    BY <2>1, <2>2 DEF Progress, Advances
<1>2. CASE Full(o, rdy)
  <2>1. /\ dst \in {"PUSH", "PASS"} /\ ~push_commit /\ NoPush(rdy)
        /\ UNCHANGED <<dst, dec_sel, d, g_idx, g1_mode, r_idx, p_n, p_off, p_cnt>>
    BY <1>2 DEF Full, Plain, push_commit, decodeVars
  <2>2. Sent' = Sent
    BY <2>1 DEF Sent, RecNo
  <2>3. Progress'
    BY <2>1 DEF Progress, Grouped, Rlen
  <2> QED
    BY <2>1, <2>2, <2>3 DEF Advances
<1>3. CASE Done(o, rdy)
  <2>1. /\ dst = "DONE" /\ dst' = "IDLE" /\ ~push_commit /\ NoPush(rdy)
        /\ UNCHANGED <<dec_sel, d, g_idx, g1_mode, r_idx, p_n, p_off, p_cnt>>
    BY <1>3 DEF Done, Goes, push_commit
  <2>2. Sent = Len(Words(d))
    BY <2>1 DEF Sent
  <2> QED
    BY <2>1, <2>2 DEF Progress, Advances
<1> QED
  BY <1>1, <1>2, <1>3

\* The words of a passthrough.
LEMMA PassWords ==
  ASSUME NEW c \in Message, Fitting(c), ~Subset(c.wire)
  PROVE  LET all == 2 + ((c.wire.size - MSG_PREFIX + 3) \div 4)
         IN /\ Len(Words(c)) = all
            /\ Records(c.wire)[1] = all
            /\ \A i \in 1..all : Words(c)[i] = WordOf(c, 1, i)
<1> DEFINE all == 2 + ((c.wire.size - MSG_PREFIX + 3) \div 4)
<1>1. Records(c.wire) = <<all>>
  BY DEF Records
<1>2. all \in Nat
  BY MessageFields DEF Fitting, MSG_PREFIX, MAX_MSG
<1> HIDE DEF all
<1>3. Len(Records(c.wire)) = 1 /\ Records(c.wire)[1] = all
  BY <1>1
<1>4. Start(c.wire, 1) = 0 /\ Start(c.wire, 1 + 1) = all
  <2>1. /\ Start(c.wire, 1) = 0 /\ 1 \in 1..1
        /\ Start(c.wire, 1 + 1) = Start(c.wire, 1) + Records(c.wire)[1]
    BY <1>3, StartIs
  <2> QED
    BY <1>2, <1>3, <2>1
<1>5. Len(Words(c)) = all
  BY <1>3, <1>4, WordsAre
<1>6. \A s \in 1..Len(Records(c.wire)) : \A i \in 1..Records(c.wire)[s] :
        Words(c)[Start(c.wire, s) + i] = WordOf(c, s, i)
  BY WordsAre
<1>7. ASSUME NEW i \in 1..all
      PROVE  Words(c)[i] = WordOf(c, 1, i)
  <2>1. 1 \in 1..Len(Records(c.wire)) /\ i \in 1..Records(c.wire)[1]
    BY <1>3
  <2>2. Start(c.wire, 1) + i = i
    BY <1>2, <1>4
  <2> QED
    BY <1>3, <1>6, <2>1, <2>2
<1> QED
  BY <1>3, <1>5, <1>7 DEF all

\* DS_PASS.
LEMMA PassAdvances ==
  ASSUME DecodePart, Progress, NEW o, NEW rdy, Pass(o, rdy)
  PROVE  Progress' /\ Advances(rdy)
<1> DEFINE size == d.wire.size
           all == 2 + ((size - MSG_PREFIX + 3) \div 4)
<1>1. /\ dst = "PASS" /\ Room
      /\ UNCHANGED <<dec_sel, d, g_idx, g1_mode, r_idx>>
  BY DEF Pass
<1>2. /\ d \in Message /\ Fitting(d) /\ ~Subset(d.wire) /\ r_idx = 0
      /\ p_n \in 0..3 /\ p_cnt \in 0..3 /\ p_off \in 0..256
  BY <1>1 DEF DecodePart, DecodeType, Decoding, Progress, MAX_MSG
<1>3. size \in 10..256
  BY <1>2, MessageFields DEF Fitting, MSG_PREFIX, MAX_MSG
<1>4. /\ Len(Words(d)) = all /\ Records(d.wire)[1] = all
      /\ \A i \in 1..all : Words(d)[i] = WordOf(d, 1, i)
  BY <1>2, PassWords
<1>5. all \in 2..64
  BY <1>3 DEF MSG_PREFIX
<1>6. all = 2 + ((size - 7) \div 4)
  BY <1>3 DEF MSG_PREFIX
<1>7. ASSUME NEW k \in 0..(all - 1), NEW last, last <=> k + 1 = all, last \in BOOLEAN
      PROVE  Word(1, k, last) = Words(d)[k + 1]
  <2>1. k + 1 \in 1..all /\ k \in Nat
    BY <1>5
  <2>2. Words(d)[k + 1] = WordOf(d, 1, k + 1)
    BY <1>4, <2>1
  <2> HIDE DEF all
  <2>3. Word(1, k, last) = WordOf(d, 1, k + 1)
    BY <1>4, <1>7, <2>1, WordIs
  <2> QED
    BY <2>2, <2>3
<1> HIDE DEF all
<1>8. CASE p_n = 0
  <2>1. PushWord(rdy, Word(1, 0, FALSE)) /\ p_n' = 1 /\ UNCHANGED <<dst, p_off, p_cnt>>
    <3>1. p_n # 1 /\ p_n # 2 /\ p_n # 3
      BY <1>8
    <3> QED
      BY <1>8, <3>1, Zenon DEF Pass
  <2>2. push_commit
    BY <1>1, <1>8 DEF push_commit
  <2>3. Word(1, 0, FALSE) = Words(d)[0 + 1]
    <3>1. 0 \in 0..(all - 1) /\ (FALSE <=> 0 + 1 = all) /\ FALSE \in BOOLEAN
      BY <1>5
    <3> QED
      BY <1>7, <3>1
  <2>4. Sent = 0 /\ Sent' = 1
    BY <1>1, <1>8, <2>1 DEF Sent
  <2>5. Progress'
    BY <1>1, <1>2, <2>1 DEF Progress
  <2>6. PushWord(rdy, Words(d)[Sent + 1])
    BY <2>1, <2>3, <2>4, Zenon
  <2> QED
    BY <1>1, <1>4, <1>5, <2>1, <2>2, <2>4, <2>5, <2>6 DEF Advances
<1>9. CASE p_n = 1
  <2>1. /\ PushWord(rdy, Word(1, 1, PassEmpty)) /\ p_n' = (IF PassEmpty THEN 3 ELSE 2)
        /\ p_off' = MSG_PREFIX /\ p_cnt' = 0 /\ dst' = dst
    BY <1>9 DEF Pass, Same
  <2>2. push_commit
    BY <1>1, <1>9 DEF push_commit
  <2>3. PassEmpty <=> 1 + 1 = all
    BY <1>3, <1>6 DEF PassEmpty, MSG_PREFIX
  <2>4. Word(1, 1, PassEmpty) = Words(d)[1 + 1]
    <3>1. 1 \in 0..(all - 1)
      BY <1>5
    <3>2. PassEmpty \in BOOLEAN
      BY Zenon DEF PassEmpty
    <3> QED
      BY <1>7, <2>3, <3>1, <3>2
  <2>5. Sent = 1
    BY <1>1, <1>9 DEF Sent
  <2>6. Sent' = 2
    <3>1. CASE PassEmpty
      BY <1>1, <1>4, <2>1, <2>3, <3>1 DEF Sent
    <3>2. CASE ~PassEmpty
      <4>1. p_n' = 2 /\ p_off' = MSG_PREFIX
        BY <2>1, <3>2
      <4>2. Sent' = 2 + ((MSG_PREFIX - MSG_PREFIX) \div 4)
        BY <1>1, <2>1, <4>1 DEF Sent
      <4> QED
        BY <4>2 DEF MSG_PREFIX
    <3> QED
      BY <3>1, <3>2
  <2>7. Progress'
    <3>1. (MSG_PREFIX - MSG_PREFIX) % 4 = 0
      BY DEF MSG_PREFIX
    <3> QED
      BY <1>1, <1>2, <2>1, <3>1 DEF Progress
  <2>8. PushWord(rdy, Words(d)[Sent + 1])
    BY <2>1, <2>4, <2>5, Zenon
  <2> QED
    BY <1>1, <1>4, <1>5, <2>1, <2>2, <2>5, <2>6, <2>7, <2>8 DEF Advances
<1>10. CASE p_n = 2
  <2> DEFINE w == Word(1, 2 + ((p_off - MSG_PREFIX) \div 4), LastByte)
  <2>1. /\ IF WordDone THEN PushWord(rdy, w) ELSE NoPush(rdy)
        /\ p_n' = (IF LastByte THEN 3 ELSE 2) /\ dst' = dst
        /\ p_off' = p_off + 1 /\ p_cnt' = (IF WordDone THEN 0 ELSE p_cnt + 1)
    BY <1>10 DEF Pass, Same
  <2>2. p_off \in 10..(size - 1) /\ p_cnt = (p_off - 10) % 4
    BY <1>1, <1>10 DEF DecodePart, Decoding, Progress, MSG_PREFIX
  <2>3. push_commit <=> WordDone
    BY <1>1, <1>3, <1>10, <2>2 DEF push_commit
  <2>4. Sent = 2 + ((p_off - 10) \div 4)
    BY <1>1, <1>10 DEF Sent, MSG_PREFIX
  <2>5. Sent \in 0..(all - 1)
    BY <1>3, <1>6, <2>2, <2>4
  <2>6. WordDone => (LastByte <=> Sent + 1 = all)
    BY <1>3, <1>6, <2>2, <2>4, SMTT(30) DEF WordDone, LastByte
  <2>7. WordDone => w = Words(d)[Sent + 1]
    <3>1. LastByte \in BOOLEAN
      BY Zenon DEF LastByte
    <3>2. w = Word(1, Sent, LastByte)
      BY <2>4 DEF MSG_PREFIX
    <3> HIDE DEF w
    <3> QED
      BY <1>7, <2>5, <2>6, <3>1, <3>2
  <2> HIDE DEF w
  <2>8. LastByte => WordDone
    BY DEF WordDone
  <2>9. Sent' = IF WordDone THEN Sent + 1 ELSE Sent
    <3>1. CASE LastByte
      <4>1. p_n' = 3
        BY <2>1, <3>1
      <4>2. Sent' = all
        BY <1>1, <1>4, <2>1, <4>1 DEF Sent
      <4> QED
        BY <2>6, <2>8, <3>1, <4>2
    <3>2. CASE ~LastByte
      <4>1. p_n' = 2
        BY <2>1, <3>2
      <4>2. Sent' = 2 + ((p_off + 1 - 10) \div 4)
        <5>1. Sent' = 2 + ((p_off' - MSG_PREFIX) \div 4)
          BY <1>1, <2>1, <4>1 DEF Sent
        <5> QED
          BY <1>2, <2>1, <5>1 DEF MSG_PREFIX
      <4>3. WordDone <=> (p_off - 10) % 4 = 3
        BY <2>2, <3>2 DEF WordDone, LastByte
      <4> QED
        BY <1>3, <2>2, <2>4, <4>2, <4>3
    <3> QED
      BY <3>1, <3>2
  <2>10. Progress'
    <3>1. p_n' = 2 => p_cnt' = (p_off' - 10) % 4
      BY <1>3, <2>1, <2>2 DEF WordDone, LastByte
    <3> QED
      BY <1>1, <1>2, <2>1, <3>1 DEF Progress, MSG_PREFIX
  <2>11. IF push_commit THEN Sent < Len(Words(d)) /\ PushWord(rdy, Words(d)[Sent + 1])
         ELSE NoPush(rdy)
    <3>1. CASE WordDone
      <4>1. Sent < Len(Words(d))
        BY <1>4, <1>5, <2>5
      <4>2. PushWord(rdy, w)
        BY <2>1, <3>1
      <4>3. PushWord(rdy, Words(d)[Sent + 1])
        BY <2>7, <3>1, <4>2, Zenon
      <4> QED
        BY <2>3, <3>1, <4>1, <4>3
    <3>2. CASE ~WordDone
      BY <2>1, <2>3, <3>2
    <3> QED
      BY <3>1, <3>2
  <2> QED
    BY <1>1, <2>1, <2>3, <2>9, <2>10, <2>11 DEF Advances
<1>11. CASE p_n = 3
  <2>1. NoPush(rdy) /\ dst' = "DONE" /\ UNCHANGED <<p_n, p_off, p_cnt>>
    BY <1>11 DEF Pass, Goes
  <2>2. ~push_commit
    BY <1>1, <1>11 DEF push_commit
  <2>3. Sent = Len(Words(d)) /\ Sent' = Len(Words(d))
    BY <1>1, <1>11, <2>1 DEF Sent
  <2>4. Progress'
    BY <1>1, <1>2, <2>1 DEF Progress
  <2> QED
    BY <2>1, <2>2, <2>3, <2>4 DEF Advances
<1> QED
  BY <1>2, <1>8, <1>9, <1>10, <1>11

\* Every step of the decoder on a message.
LEMMA DecodeAdvances ==
  ASSUME DecodePart, Progress, NEW o, NEW rdy, Decode(o, rdy), dst \notin {"IDLE", "HDR"}
  PROVE  Progress' /\ Advances(rdy)
<1>1. ~Idle(o, rdy) /\ ~Header(o, rdy)
  BY DEF Idle, Header
<1> QED
  BY <1>1, Group1Advances, Entry1Advances, Dim2Advances, Entry2Advances, RestAdvances,
     PushAdvances, PushedAdvances, PassAdvances DEF Decode

\* The choice of a buffer, and the step that reads its message.
LEMMA BeginsAdvance ==
  ASSUME DecodePart, Progress, NEW o, NEW rdy, Idle(o, rdy) \/ Header(o, rdy)
  PROVE  /\ Progress' /\ Sent' = 0 /\ Sent = 0 /\ ~push_commit /\ NoPush(rdy) /\ Keeps(o)
<1>1. CASE Idle(o, rdy)
  <2>1. /\ dst = "IDLE" /\ NoPush(rdy) /\ ~push_commit /\ dst' \in {"IDLE", "HDR"}
        /\ r_idx' = r_idx /\ Keeps(o)
    BY <1>1 DEF Idle, Plain, Goes, push_commit
  <2> QED
    BY <2>1 DEF Progress, Sent
<1>2. CASE Header(o, rdy)
  <2>1. /\ dst = "HDR" /\ NoPush(rdy) /\ ~push_commit /\ Keeps(o)
        /\ d' = mbuf[dec_sel] /\ p_n' = 0 /\ r_idx' = r_idx
        /\ dst' = (IF Subset(mbuf[dec_sel].wire) THEN "ROOT" ELSE "PASS")
    BY <1>2 DEF Header, Plain, Goes, push_commit
  <2> QED
    BY <2>1 DEF Progress, Sent
<1> QED
  BY <1>1, <1>2

(***************************************************************************)
(* The words in the FIFO and the messages they are of                      *)
(***************************************************************************)
\* Messages that have words.
Debts == {m \in Message : Fitting(m) /\ Words(m) # <<>>}

\* Word i of mem is word p[i] of message q[i] of list: the first one is word
\* first of the first message, and each is followed by the next one, of the
\* next message if it was the last.
Laid(list, mem, first, q, p) ==
  LET N == Len(mem) + 1
  IN /\ q \in [1..N -> Nat \ {0}] /\ p \in [1..N -> Nat \ {0}]
     /\ q[1] = 1 /\ p[1] = first
     /\ \A i, j \in 1..N : i <= j => q[i] <= q[j]
     /\ \A i \in 1..Len(mem) :
          /\ q[i] <= Len(list) /\ p[i] <= Len(Words(list[q[i]]))
          /\ mem[i] = Words(list[q[i]])[p[i]]
          /\ IF p[i] < Len(Words(list[q[i]])) THEN q[i + 1] = q[i] /\ p[i + 1] = p[i] + 1
             ELSE q[i + 1] = q[i] + 1 /\ p[i + 1] = 1

\* Behind the words of mem come those of the messages todo, from word b of
\* the first of them.
Ahead(list, a, todo) ==
  /\ Len(list) = a - 1 + Len(todo)
  /\ \A i \in 1..Len(todo) : list[a - 1 + i] = todo[i]

Owes(list, mem, first, todo, b) ==
  \E q, p : /\ Laid(list, mem, first, q, p)
            /\ p[Len(mem) + 1] = b
            /\ Ahead(list, q[Len(mem) + 1], todo)

LEMMA OwesNone == Owes(<<>>, <<>>, 1, <<>>, 1)
<1> DEFINE f == [i \in 1..1 |-> 1]
<1>1. f \in [1..1 -> Nat \ {0}] /\ f[1] = 1
  OBVIOUS
<1>2. Len(<<>>) = 0 /\ 1..0 = {}
  OBVIOUS
<1> HIDE DEF f
<1>3. Laid(<<>>, <<>>, 1, f, f)
  BY <1>1, <1>2 DEF Laid
<1>4. Ahead(<<>>, 1, <<>>)
  BY <1>2 DEF Ahead
<1> QED
  BY <1>1, <1>2, <1>3, <1>4 DEF Owes

\* The first word is one of the first message.
LEMMA OwesHead ==
  ASSUME NEW list \in Seq(Debts), NEW mem \in Seq(FifoWord), NEW first, NEW todo, NEW b,
         Owes(list, mem, first, todo, b), mem # <<>>
  PROVE  /\ list # <<>> /\ first \in 1..Len(Words(list[1]))
         /\ mem[1] = Words(list[1])[first]
<1>1. PICK q, p : Laid(list, mem, first, q, p)
  BY DEF Owes
<1>2. Len(mem) \in Nat /\ Len(mem) # 0 /\ 1 \in 1..Len(mem) /\ 1 \in 1..(Len(mem) + 1)
  OBVIOUS
<1>3. /\ q[1] = 1 /\ p[1] = first /\ p[1] \in Nat \ {0}
      /\ q[1] <= Len(list) /\ p[1] <= Len(Words(list[q[1]]))
      /\ mem[1] = Words(list[q[1]])[p[1]]
  BY <1>1, <1>2 DEF Laid
<1>4. list # <<>>
  BY <1>3
<1>5. list[1] \in Debts
  BY <1>4
<1>6. Len(Words(list[1])) \in Nat
  BY <1>5, WordsAre DEF Debts
<1> QED
  BY <1>3, <1>4, <1>6

\* Without words and messages to come nothing is owed.
LEMMA OwesNothing ==
  ASSUME NEW list \in Seq(Debts), NEW first, NEW b,
         Owes(list, <<>>, first, <<>>, b)
  PROVE  list = <<>>
<1>1. PICK q, p : Laid(list, <<>>, first, q, p) /\ Ahead(list, q[Len(<<>>) + 1], <<>>)
  BY DEF Owes
<1>2. Len(<<>>) = 0 /\ 0 + 1 = 1
  OBVIOUS
<1>3. q[1] = 1
  BY <1>1 DEF Laid
<1>4. Len(list) = 0
  BY <1>1, <1>2, <1>3 DEF Ahead
<1> QED
  BY <1>4

\* More messages come behind.
LEMMA OwesMore ==
  ASSUME NEW list \in Seq(Debts), NEW mem \in Seq(FifoWord), NEW first, NEW b,
         NEW todo \in Seq(Debts), NEW more \in Seq(Debts),
         Owes(list, mem, first, todo, b)
  PROVE  Owes(list \o more, mem, first, todo \o more, b)
<1> DEFINE all == list \o more
           then == todo \o more
           N == Len(mem) + 1
<1>1. PICK q, p : /\ Laid(list, mem, first, q, p) /\ p[N] = b
                  /\ Ahead(list, q[N], todo)
  BY DEF Owes
<1>2. IsJoin(Debts, list, more, all) /\ IsJoin(Debts, todo, more, then)
  BY Joined
<1> HIDE DEF all, then
<1>3. /\ Len(mem) \in Nat /\ Len(list) \in Nat /\ Len(more) \in Nat /\ Len(todo) \in Nat
  OBVIOUS
<1>4. /\ q \in [1..N -> Nat \ {0}] /\ p \in [1..N -> Nat \ {0}]
      /\ q[1] = 1 /\ p[1] = first
      /\ \A i, j \in 1..N : i <= j => q[i] <= q[j]
      /\ \A i \in 1..Len(mem) :
           /\ q[i] <= Len(list) /\ p[i] <= Len(Words(list[q[i]]))
           /\ mem[i] = Words(list[q[i]])[p[i]]
           /\ IF p[i] < Len(Words(list[q[i]])) THEN q[i + 1] = q[i] /\ p[i + 1] = p[i] + 1
              ELSE q[i + 1] = q[i] + 1 /\ p[i + 1] = 1
  BY <1>1 DEF Laid
<1>5. \A i \in 1..Len(mem) : q[i] <= Len(all) /\ all[q[i]] = list[q[i]]
  <2>1. ASSUME NEW i \in 1..Len(mem) PROVE q[i] <= Len(all) /\ all[q[i]] = list[q[i]]
    <3>0. i \in 1..N /\ q[i] <= Len(list)
      <4>1. i \in 1..N
        BY <1>3
      <4>2. q[i] <= Len(list)
        BY <1>4, Zenon
      <4> QED
        BY <4>1, <4>2, Zenon
    <3>1. q[i] \in 1..Len(list)
      <4>1. q[i] \in Nat \ {0}
        <5> HIDE DEF N
        <5> QED
          BY <1>4, <3>0
      <4> QED
        BY <1>3, <3>0, <4>1
    <3>2. Len(all) = Len(list) + Len(more) /\ \A k \in 1..Len(list) : all[k] = list[k]
      BY <1>2 DEF IsJoin
    <3> QED
      BY <1>3, <3>1, <3>2
  <2> QED
    BY <2>1
<1>6. Laid(all, mem, first, q, p)
  BY <1>4, <1>5 DEF Laid
<1>7. Ahead(all, q[N], then)
  <2>0. N \in 1..N
    BY <1>3
  <2>1. q[N] \in Nat \ {0}
    <3> HIDE DEF N
    <3> QED
      BY <1>4, <2>0
  <2>2. Len(list) = q[N] - 1 + Len(todo) /\ \A i \in 1..Len(todo) : list[q[N] - 1 + i] = todo[i]
    BY <1>1 DEF Ahead
  <2>3. /\ Len(all) = Len(list) + Len(more) /\ Len(then) = Len(todo) + Len(more)
        /\ \A k \in 1..Len(list) : all[k] = list[k]
        /\ \A k \in 1..Len(more) : all[Len(list) + k] = more[k]
        /\ \A k \in 1..Len(todo) : then[k] = todo[k]
        /\ \A k \in 1..Len(more) : then[Len(todo) + k] = more[k]
    BY <1>2 DEF IsJoin
  <2>4. Len(all) = q[N] - 1 + Len(then)
    BY <1>3, <2>1, <2>2, <2>3
  <2>5. ASSUME NEW i \in 1..Len(then) PROVE all[q[N] - 1 + i] = then[i]
    <3>1. CASE i <= Len(todo)
      <4>1. i \in 1..Len(todo) /\ q[N] - 1 + i \in 1..Len(list)
        BY <1>3, <2>1, <2>2, <3>1
      <4> QED
        BY <2>2, <2>3, <4>1
    <3>2. CASE ~(i <= Len(todo))
      <4> DEFINE k == i - Len(todo)
      <4>1. k \in 1..Len(more) /\ i = Len(todo) + k
        BY <1>3, <2>3, <3>2
      <4>2. q[N] - 1 + i = Len(list) + k
        BY <1>3, <2>1, <2>2, <4>1, SMTT(30)
      <4> HIDE DEF k
      <4> QED
        BY <2>3, <4>1, <4>2
    <3> QED
      BY <3>1, <3>2
  <2> QED
    BY <2>4, <2>5 DEF Ahead
<1> QED
  BY <1>1, <1>6, <1>7 DEF Owes, all, then

\* The next word comes into the FIFO.
LEMMA OwesPush ==
  ASSUME NEW list \in Seq(Debts), NEW mem \in Seq(FifoWord), NEW first, NEW b,
         NEW todo \in Seq(Debts), todo # <<>>, b <= Len(Words(todo[1])),
         Owes(list, mem, first, todo, b)
  PROVE  LET more == Append(mem, Words(todo[1])[b])
         IN IF b < Len(Words(todo[1])) THEN Owes(list, more, first, todo, b + 1)
            ELSE Owes(list, more, first, Tail(todo), 1)
<1> DEFINE w == Words(todo[1])[b]
           all == Len(Words(todo[1]))
           more == Append(mem, w)
           N == Len(mem) + 1
<1>1. PICK q, p : /\ Laid(list, mem, first, q, p) /\ p[N] = b
                  /\ Ahead(list, q[N], todo)
  BY DEF Owes
<1>2. /\ Len(mem) \in Nat /\ Len(list) \in Nat /\ Len(todo) \in Nat /\ Len(todo) >= 1
      /\ N \in 1..N /\ N \in Nat
  OBVIOUS
<1>3. /\ q \in [1..N -> Nat \ {0}] /\ p \in [1..N -> Nat \ {0}]
      /\ q[1] = 1 /\ p[1] = first
      /\ \A i, j \in 1..N : i <= j => q[i] <= q[j]
      /\ \A i \in 1..Len(mem) :
           /\ q[i] <= Len(list) /\ p[i] <= Len(Words(list[q[i]]))
           /\ mem[i] = Words(list[q[i]])[p[i]]
           /\ IF p[i] < Len(Words(list[q[i]])) THEN q[i + 1] = q[i] /\ p[i + 1] = p[i] + 1
              ELSE q[i + 1] = q[i] + 1 /\ p[i + 1] = 1
  BY <1>1 DEF Laid
<1>4. Len(list) = q[N] - 1 + Len(todo) /\ \A i \in 1..Len(todo) : list[q[N] - 1 + i] = todo[i]
  BY <1>1 DEF Ahead
<1>5. q[N] \in Nat \ {0} /\ b \in Nat \ {0}
  BY <1>1, <1>2, <1>3
<1>6. q[N] <= Len(list) /\ list[q[N]] = todo[1]
  <2>1. 1 \in 1..Len(todo) /\ q[N] - 1 + 1 = q[N]
    BY <1>2, <1>5
  <2>2. q[N] <= Len(list)
    BY <1>2, <1>4, <1>5
  <2> QED
    BY <1>4, <2>1, <2>2
<1>7. all \in Nat
  <2>1. todo[1] \in Debts
    BY <1>2
  <2> QED
    BY <2>1, WordsAre DEF Debts
<1> HIDE DEF all
<1> DEFINE a2 == IF b < all THEN q[N] ELSE q[N] + 1
           b2 == IF b < all THEN b + 1 ELSE 1
           q2 == [i \in 1..(N + 1) |-> IF i <= N THEN q[i] ELSE a2]
           p2 == [i \in 1..(N + 1) |-> IF i <= N THEN p[i] ELSE b2]
<1>8. a2 \in Nat \ {0} /\ b2 \in Nat \ {0} /\ a2 >= q[N]
  BY <1>5
<1>9. a2 = (IF b < all THEN q[N] ELSE q[N] + 1) /\ b2 = (IF b < all THEN b + 1 ELSE 1)
  OBVIOUS
<1> HIDE DEF a2, b2, N
<1>m. /\ \A i \in 1..N : q[i] \in Nat \ {0} /\ p[i] \in Nat \ {0}
  BY <1>3
<1>10. /\ q2 \in [1..(N + 1) -> Nat \ {0}] /\ p2 \in [1..(N + 1) -> Nat \ {0}]
       /\ \A i \in 1..N : q2[i] = q[i] /\ p2[i] = p[i]
       /\ q2[N + 1] = a2 /\ p2[N + 1] = b2
  <2>1. \A i \in 1..(N + 1) : /\ (IF i <= N THEN q[i] ELSE a2) \in Nat \ {0}
                              /\ (IF i <= N THEN p[i] ELSE b2) \in Nat \ {0}
    BY <1>2, <1>8, <1>m
  <2>2. q2 \in [1..(N + 1) -> Nat \ {0}] /\ p2 \in [1..(N + 1) -> Nat \ {0}]
    BY <2>1, Zenon
  <2>3. \A i \in 1..N : i \in 1..(N + 1) /\ i <= N
    BY <1>2
  <2>4. N + 1 \in 1..(N + 1) /\ ~(N + 1 <= N)
    BY <1>2
  <2> QED
    BY <2>2, <2>3, <2>4
<1> HIDE DEF q2, p2
<1>w. w \in FifoWord
  <2>1. b \in 1..all /\ todo[1] \in Debts
    BY <1>2, <1>5, <1>7 DEF all
  <2>2. Words(todo[1]) \in Seq(FifoWord)
    BY <2>1, WordsAre DEF Debts
  <2> QED
    BY <2>1, <2>2 DEF all
<1> HIDE DEF w
<1>11. /\ more \in Seq(FifoWord) /\ Len(more) = N
       /\ \A i \in 1..Len(mem) : more[i] = mem[i]
       /\ more[N] = w
  BY <1>w DEF N
<1> HIDE DEF more
<1>12. Laid(list, more, first, q2, p2)
  <2>1. q2[1] = 1 /\ p2[1] = first
    <3>1. 1 \in 1..N
      BY <1>2
    <3> QED
      BY <1>3, <1>10, <3>1
  <2>2. ASSUME NEW i \in 1..(N + 1), NEW j \in 1..(N + 1), i <= j
        PROVE  q2[i] <= q2[j]
    <3>1. CASE j <= N
      <4>1. i \in 1..N /\ j \in 1..N
        BY <1>2, <2>2, <3>1
      <4> QED
        BY <1>3, <1>10, <2>2, <4>1
    <3>2. CASE ~(j <= N) /\ i <= N
      <4>1. i \in 1..N /\ j = N + 1
        BY <1>2, <2>2, <3>2
      <4>2. q[i] <= q[N]
        BY <1>2, <1>3, <4>1
      <4>3. q2[i] = q[i] /\ q2[j] = a2
        BY <1>10, <4>1
      <4> QED
        BY <1>5, <1>8, <1>m, <4>1, <4>2, <4>3
    <3>3. CASE ~(i <= N)
      <4>1. i = N + 1 /\ j = N + 1
        BY <1>2, <2>2, <3>3
      <4> QED
        BY <1>8, <1>10, <4>1
    <3> QED
      BY <3>1, <3>2, <3>3
  <2>3. ASSUME NEW i \in 1..N
        PROVE  /\ q2[i] <= Len(list) /\ p2[i] <= Len(Words(list[q2[i]]))
               /\ more[i] = Words(list[q2[i]])[p2[i]]
               /\ IF p2[i] < Len(Words(list[q2[i]])) THEN q2[i + 1] = q2[i] /\ p2[i + 1] = p2[i] + 1
                  ELSE q2[i + 1] = q2[i] + 1 /\ p2[i + 1] = 1
    <3>1. CASE i # N
      <4>1. i \in 1..Len(mem) /\ i + 1 \in 1..N
        BY <1>2, <3>1 DEF N
      <4>2. /\ q2[i] = q[i] /\ p2[i] = p[i] /\ q2[i + 1] = q[i + 1] /\ p2[i + 1] = p[i + 1]
            /\ more[i] = mem[i]
        BY <1>10, <1>11, <4>1
      <4> QED
        BY <1>3, <4>1, <4>2
    <3>2. CASE i = N
      <4>1. q2[i] = q[N] /\ p2[i] = b /\ q2[i + 1] = a2 /\ p2[i + 1] = b2
        BY <1>1, <1>10, <3>2
      <4>2. Words(list[q2[i]]) = Words(todo[1]) /\ Len(Words(list[q2[i]])) = all
        BY <1>6, <4>1 DEF all
      <4>3. more[i] = Words(list[q2[i]])[p2[i]]
        BY <1>11, <3>2, <4>1, <4>2 DEF w
      <4>4. b <= all
        BY DEF all
      <4> QED
        BY <1>6, <1>9, <4>1, <4>2, <4>3, <4>4
    <3> QED
      BY <3>1, <3>2
  <2> QED
    BY <1>10, <1>11, <2>1, <2>2, <2>3 DEF Laid
<1>13. p2[Len(more) + 1] = b2 /\ q2[Len(more) + 1] = a2
  BY <1>10, <1>11
<1>14. CASE b < all
  <2>1. a2 = q[N] /\ b2 = b + 1
    BY <1>9, <1>14
  <2>2. Owes(list, more, first, todo, b + 1)
    BY <1>1, <1>12, <1>13, <2>1 DEF Owes
  <2> QED
    BY <1>14, <2>2 DEF all, more, w
<1>15. CASE ~(b < all)
  <2>1. a2 = q[N] + 1 /\ b2 = 1
    BY <1>9, <1>15
  <2>2. Tail(todo) \in Seq(Debts) /\ Len(Tail(todo)) = Len(todo) - 1
        /\ \A i \in 1..(Len(todo) - 1) : Tail(todo)[i] = todo[i + 1]
    BY <1>2
  <2>3. Ahead(list, a2, Tail(todo))
    <3>1. Len(list) = a2 - 1 + Len(Tail(todo))
      <4>1. \A x, y \in Nat : x - 1 + y = (x + 1) - 1 + (y - 1)
        OBVIOUS
      <4>2. q[N] \in Nat /\ Len(todo) \in Nat
        BY <1>2, <1>5
      <4>3. Len(list) = (q[N] + 1) - 1 + (Len(todo) - 1)
        BY <1>4, <4>1, <4>2, Zenon
      <4> QED
        BY <2>1, <2>2, <4>3, Zenon
    <3>2. ASSUME NEW i \in 1..Len(Tail(todo)) PROVE list[a2 - 1 + i] = Tail(todo)[i]
      <4>1. i + 1 \in 1..Len(todo) /\ a2 - 1 + i = q[N] - 1 + (i + 1) /\ i \in 1..(Len(todo) - 1)
        <5>1. i \in 1..(Len(todo) - 1)
          BY <2>2
        <5>2. \A x, y \in Nat : \A z \in 1..(y - 1) :
                z + 1 \in 1..y /\ (x + 1) - 1 + z = x - 1 + (z + 1)
          OBVIOUS
        <5>3. Len(todo) \in Nat /\ q[N] \in Nat
          BY <1>2, <1>5
        <5>4. i + 1 \in 1..Len(todo) /\ (q[N] + 1) - 1 + i = q[N] - 1 + (i + 1)
          BY <5>1, <5>2, <5>3
        <5> QED
          BY <2>1, <5>1, <5>4, Zenon
      <4> QED
        BY <1>4, <2>2, <4>1
    <3> QED
      BY <3>1, <3>2 DEF Ahead
  <2>4. Owes(list, more, first, Tail(todo), 1)
    BY <1>12, <1>13, <2>1, <2>3 DEF Owes
  <2> QED
    BY <1>15, <2>4 DEF all, more, w
<1> QED
  BY <1>14, <1>15

\* The first word leaves the FIFO, and its message with its last word.
LEMMA OwesPop ==
  ASSUME NEW list \in Seq(Debts), NEW mem \in Seq(FifoWord), NEW first, NEW b,
         NEW todo \in Seq(Debts), mem # <<>>, Owes(list, mem, first, todo, b)
  PROVE  IF first = Len(Words(list[1])) THEN Owes(Tail(list), Tail(mem), 1, todo, b)
         ELSE Owes(list, Tail(mem), first + 1, todo, b)
<1> DEFINE all == Len(Words(list[1]))
           out1 == IF first = all THEN 1 ELSE 0
           rest == IF first = all THEN Tail(list) ELSE list
           less == Tail(mem)
           M == Len(mem)
           next == IF first = all THEN 1 ELSE first + 1
<1>1. PICK q, p : /\ Laid(list, mem, first, q, p) /\ p[M + 1] = b
                  /\ Ahead(list, q[M + 1], todo)
  BY DEF Owes
<1>2. /\ M \in Nat \ {0} /\ Len(list) \in Nat /\ Len(todo) \in Nat
      /\ less \in Seq(FifoWord) /\ Len(less) = M - 1
      /\ \A i \in 1..(M - 1) : less[i] = mem[i + 1]
  BY DEF less
<1>3. list # <<>> /\ first \in 1..all
  BY OwesHead
<1>4. all \in Nat
  <2>1. list[1] \in Debts
    BY <1>3
  <2> QED
    BY <2>1, WordsAre DEF Debts
<1>5. /\ rest \in Seq(Debts) /\ Len(rest) = Len(list) - out1
      /\ \A i \in 1..Len(rest) : rest[i] = list[i + out1]
  <2>1. CASE first = all
    <3>1. rest = Tail(list) /\ out1 = 1
      BY <2>1
    <3> HIDE DEF rest, out1
    <3> QED
      BY <1>3, <3>1
  <2>2. CASE first # all
    <3>1. rest = list /\ out1 = 0
      BY <2>2
    <3> HIDE DEF rest, out1
    <3> QED
      BY <1>2, <3>1
  <2> QED
    BY <2>1, <2>2
<1>6. out1 \in 0..1 /\ (out1 = 1 <=> first = all)
  OBVIOUS
<1>n. next = IF first = all THEN 1 ELSE first + 1
  OBVIOUS
<1>t. Words(list[1]) = Words(list[1]) /\ Len(Words(list[1])) = all
  OBVIOUS
<1> HIDE DEF out1, rest, less, M, next, all
<1>7. /\ q \in [1..(M + 1) -> Nat \ {0}] /\ p \in [1..(M + 1) -> Nat \ {0}]
      /\ q[1] = 1 /\ p[1] = first
      /\ \A i, j \in 1..(M + 1) : i <= j => q[i] <= q[j]
      /\ \A i \in 1..M :
           /\ q[i] <= Len(list) /\ p[i] <= Len(Words(list[q[i]]))
           /\ mem[i] = Words(list[q[i]])[p[i]]
           /\ IF p[i] < Len(Words(list[q[i]])) THEN q[i + 1] = q[i] /\ p[i + 1] = p[i] + 1
              ELSE q[i + 1] = q[i] + 1 /\ p[i + 1] = 1
  BY <1>1 DEF Laid, M
<1>8. \A i \in 1..(M + 1) : q[i] \in Nat \ {0} /\ p[i] \in Nat \ {0}
  BY <1>7
<1>9. q[2] = 1 + out1 /\ p[2] = next
  <2>1. 1 \in 1..M /\ 1 + 1 = 2
    BY <1>2
  <2>2. IF first < all THEN q[2] = q[1] /\ p[2] = first + 1 ELSE q[2] = q[1] + 1 /\ p[2] = 1
    BY <1>7, <1>t, <2>1
  <2> QED
    BY <1>3, <1>4, <1>6, <1>7, <1>n, <2>2
<1>10. \A i \in 1..M : i + 1 \in 1..(M + 1) /\ q[i + 1] \in Nat /\ q[i + 1] >= 1 + out1
  <2>1. ASSUME NEW i \in 1..M
        PROVE  i + 1 \in 1..(M + 1) /\ q[i + 1] \in Nat /\ q[i + 1] >= 1 + out1
    <3>1. i + 1 \in 1..(M + 1) /\ 2 \in 1..(M + 1) /\ 2 <= i + 1
      BY <1>2
    <3>2. q[2] <= q[i + 1]
      BY <1>7, <3>1
    <3>3. q[i + 1] \in Nat
      BY <1>8, <3>1
    <3> QED
      BY <1>6, <1>9, <3>1, <3>2, <3>3
  <2> QED
    BY <2>1
<1> DEFINE q2 == [i \in 1..M |-> q[i + 1] - out1]
           p2 == [i \in 1..M |-> p[i + 1]]
<1>11. /\ q2 \in [1..M -> Nat \ {0}] /\ p2 \in [1..M -> Nat \ {0}]
       /\ \A i \in 1..M : q2[i] = q[i + 1] - out1 /\ p2[i] = p[i + 1]
  <2>1. \A i \in 1..M : q[i + 1] - out1 \in Nat \ {0} /\ p[i + 1] \in Nat \ {0}
    BY <1>6, <1>8, <1>10
  <2> QED
    BY <2>1
<1> HIDE DEF q2, p2
<1>12. Laid(rest, less, next, q2, p2)
  <2>0. Len(less) + 1 = M
    BY <1>2
  <2>1. q2[1] = 1 /\ p2[1] = next
    <3>1. 1 \in 1..M /\ 1 + 1 = 2
      BY <1>2
    <3> QED
      BY <1>6, <1>9, <1>11, <3>1
  <2>2. ASSUME NEW i \in 1..M, NEW j \in 1..M, i <= j PROVE q2[i] <= q2[j]
    <3>1. i + 1 <= j + 1 /\ i + 1 \in 1..(M + 1) /\ j + 1 \in 1..(M + 1)
      BY <1>2, <2>2
    <3>2. q[i + 1] <= q[j + 1]
      BY <1>7, <3>1
    <3> QED
      BY <1>6, <1>10, <1>11, <3>2, SMTT(30)
  <2>3. ASSUME NEW i \in 1..(M - 1)
        PROVE  /\ q2[i] <= Len(rest) /\ p2[i] <= Len(Words(rest[q2[i]]))
               /\ less[i] = Words(rest[q2[i]])[p2[i]]
               /\ IF p2[i] < Len(Words(rest[q2[i]])) THEN q2[i + 1] = q2[i] /\ p2[i + 1] = p2[i] + 1
                  ELSE q2[i + 1] = q2[i] + 1 /\ p2[i + 1] = 1
    <3> DEFINE k == i + 1
    <3>1. k \in 1..M /\ i \in 1..M /\ k = i + 1
      BY <1>2
    <3> HIDE DEF k
    <3>2. /\ q2[i] = q[k] - out1 /\ p2[i] = p[k] /\ q2[k] = q[k + 1] - out1 /\ p2[k] = p[k + 1]
          /\ less[i] = mem[k]
      BY <1>2, <1>11, <3>1
    <3>3. q[k] \in Nat /\ q[k] >= 1 + out1 /\ q[k + 1] \in Nat
      BY <1>10, <3>1
    <3>4. q[k] <= Len(list)
      BY <1>7, <3>1
    <3>5. q2[i] \in 1..Len(rest) /\ q2[i] + out1 = q[k]
      <4>1. \A x, y \in Nat, o \in 0..1 :
              x >= 1 + o /\ x <= y => x - o \in 1..(y - o) /\ (x - o) + o = x
        OBVIOUS
      <4>2. q[k] - out1 \in 1..(Len(list) - out1) /\ (q[k] - out1) + out1 = q[k]
        BY <1>2, <1>6, <3>3, <3>4, <4>1
      <4> QED
        BY <1>5, <3>2, <4>2, Zenon
    <3>6. rest[q2[i]] = list[q[k]]
      BY <1>5, <3>5
    <3>7. /\ p[k] <= Len(Words(list[q[k]]))
          /\ mem[k] = Words(list[q[k]])[p[k]]
          /\ IF p[k] < Len(Words(list[q[k]])) THEN q[k + 1] = q[k] /\ p[k + 1] = p[k] + 1
             ELSE q[k + 1] = q[k] + 1 /\ p[k + 1] = 1
      BY <1>7, <3>1
    <3>8. IF p2[i] < Len(Words(rest[q2[i]])) THEN q2[k] = q2[i] /\ p2[k] = p2[i] + 1
          ELSE q2[k] = q2[i] + 1 /\ p2[k] = 1
      BY <1>6, <3>2, <3>3, <3>6, <3>7
    <3> QED
      BY <3>1, <3>2, <3>5, <3>6, <3>7, <3>8
  <2> QED
    BY <1>2, <1>11, <2>0, <2>1, <2>2, <2>3 DEF Laid
<1>13. M \in 1..M /\ p2[Len(less) + 1] = b /\ q2[Len(less) + 1] = q[M + 1] - out1
  <2>1. M \in 1..M /\ Len(less) + 1 = M
    BY <1>2
  <2> QED
    BY <1>1, <1>11, <2>1 DEF M
<1>14. Ahead(rest, q[M + 1] - out1, todo)
  <2>1. q[M + 1] \in Nat /\ q[M + 1] >= 1 + out1
    BY <1>10, <1>13
  <2>2. /\ Len(list) = q[M + 1] - 1 + Len(todo)
        /\ \A i \in 1..Len(todo) : list[q[M + 1] - 1 + i] = todo[i]
    BY <1>1 DEF Ahead
  <2>3. Len(rest) = q[M + 1] - out1 - 1 + Len(todo)
    BY <1>2, <1>5, <1>6, <2>1, <2>2, SMTT(30)
  <2>4. ASSUME NEW i \in 1..Len(todo) PROVE rest[q[M + 1] - out1 - 1 + i] = todo[i]
    <3> DEFINE k == q[M + 1] - out1 - 1 + i
    <3>1. k \in 1..Len(rest) /\ k + out1 = q[M + 1] - 1 + i
      <4>1. \A x, y \in Nat, o \in 0..1 : \A z \in 1..y :
              x >= 1 + o => /\ x - o - 1 + z \in 1..(x - o - 1 + y)
                            /\ (x - o - 1 + z) + o = x - 1 + z
        OBVIOUS
      <4>2. /\ k \in 1..(q[M + 1] - out1 - 1 + Len(todo))
            /\ k + out1 = q[M + 1] - 1 + i
        <5>1. \A z \in 1..Len(todo) :
                /\ q[M + 1] - out1 - 1 + z \in 1..(q[M + 1] - out1 - 1 + Len(todo))
                /\ (q[M + 1] - out1 - 1 + z) + out1 = q[M + 1] - 1 + z
          <6>1. /\ q[M + 1] \in Nat /\ Len(todo) \in Nat /\ out1 \in 0..1
                /\ q[M + 1] >= 1 + out1
            BY <1>2, <1>6, <2>1
          <6> QED
            BY <6>1, <4>1, Zenon
        <5> QED
          BY <5>1, Zenon
      <4> QED
        BY <2>3, <4>2, Zenon
    <3> HIDE DEF k
    <3>2. rest[k] = list[k + out1]
      BY <1>5, <3>1
    <3> QED
      BY <2>2, <3>1, <3>2 DEF k
  <2> QED
    BY <2>3, <2>4 DEF Ahead
<1>15. Owes(rest, less, next, todo, b)
  BY <1>12, <1>13, <1>14 DEF Owes
<1>16. CASE first = all
  BY <1>15, <1>16 DEF rest, less, next, all
<1>17. CASE first # all
  BY <1>15, <1>17 DEF rest, less, next, all
<1> QED
  BY <1>16, <1>17 DEF all

(***************************************************************************)
(* The words still to be pushed for the messages captured                  *)
(***************************************************************************)
\* A message of which n words are out, if that is not all.
Rest(m, n) == IF n < Len(Words(m)) THEN <<m>> ELSE <<>>

\* What a buffer holds, what the decoder works on, and what comes behind that.
Held(s) == IF occ[s] THEN Rest(mbuf[s], 0) ELSE <<>>
Under == IF dst = "IDLE" THEN <<>> ELSE Rest(mbuf[dec_sel], Sent)
Behind == Held(IF dst = "IDLE" THEN Chosen ELSE 1 - dec_sel)
Todo == Under \o Behind
NextWord == IF Under = <<>> THEN 1 ELSE Sent + 1

\* An idle decoder has one message to choose at most.
Alone == dst = "IDLE" => ~(occ[0] /\ occ[1])

\* The word on the output is the first one of the FIFO.
Shows == out.valid => f_mem # <<>> /\ out.word = f_mem[1]

Working == Progress /\ Sent \in Nat /\ Alone
Ledger == owed \in Seq(Debts) /\ Owes(owed, f_mem, paid + 1, Todo, NextWord)

\* The message captured in this cycle.
News(o) == IF Words(cap) = <<>> THEN <<>> ELSE Captured(o)

LEMMA RestType ==
  ASSUME NEW m \in Message, Fitting(m), NEW n \in Nat
  PROVE  /\ Len(Words(m)) \in Nat
         /\ Rest(m, n) \in Seq(Debts)
         /\ n < Len(Words(m)) => Rest(m, n) = <<m>> /\ m \in Debts
         /\ ~(n < Len(Words(m))) => Rest(m, n) = <<>>
<1>1. Words(m) \in Seq(FifoWord)
  BY WordsAre
<1>2. Len(Words(m)) \in Nat
  BY <1>1
<1>3. ASSUME n < Len(Words(m)) PROVE m \in Debts
  <2>1. Words(m) # <<>>
    <3>1. Len(<<>>) = 0
      OBVIOUS
    <3>2. Len(Words(m)) # 0
      BY <1>2, <1>3
    <3> QED
      BY <3>1, <3>2
  <2> QED
    BY <2>1 DEF Debts
<1>4. ASSUME n < Len(Words(m)) PROVE Rest(m, n) = <<m>> /\ <<m>> \in Seq(Debts)
  BY <1>3, <1>4 DEF Rest
<1>5. ASSUME ~(n < Len(Words(m))) PROVE Rest(m, n) = <<>> /\ <<>> \in Seq(Debts)
  BY <1>5 DEF Rest
<1> QED
  BY <1>2, <1>3, <1>4, <1>5, Zenon

\* What is captured goes into a buffer that was free.
LEMMA NewsAre ==
  ASSUME CapturePart, Owners, NEW o, Stores(o)
  PROVE  \/ Filled(o) = {} /\ News(o) = <<>>
         \/ /\ Filled(o) = {cap_sel} /\ cap_sel \in 0..1 /\ ~occ[cap_sel]
            /\ mbuf'[cap_sel] = cap /\ Fitting(cap) /\ cap \in Message
            /\ News(o) = Rest(cap, 0)
<1>1. cap_sel \in 0..1 /\ cap \in Message
  BY DEF CapturePart, CaptureType
<1>2. CASE Filled(o) = {}
  BY <1>2 DEF News, Captured
<1>3. CASE Filled(o) = {cap_sel} /\ In("BODY", o)
  <2>1. ~occ[cap_sel]
    BY <1>3 DEF Owners, In
  <2>2. mbuf'[cap_sel] = cap /\ Fitting(cap)
    BY <1>1, <1>3 DEF Stores
  <2>3. /\ Len(Words(cap)) \in Nat
        /\ 0 < Len(Words(cap)) => Rest(cap, 0) = <<cap>>
        /\ ~(0 < Len(Words(cap))) => Rest(cap, 0) = <<>>
    BY <1>1, <2>2, RestType
  <2>4. Words(cap) = <<>> <=> ~(0 < Len(Words(cap)))
    <3>1. Words(cap) \in Seq(FifoWord)
      BY <1>1, <2>2, WordsAre
    <3> QED
      BY <3>1
  <2>5. Captured(o) = <<cap>>
    BY <1>3 DEF Captured
  <2>6. News(o) = Rest(cap, 0)
    BY <2>3, <2>4, <2>5, Zenon DEF News
  <2> QED
    BY <1>1, <1>3, <2>1, <2>2, <2>6
<1> QED
  BY <1>2, <1>3, FilledIs

LEMMA HeldType ==
  ASSUME CapturePart, Slots, NEW s \in 0..1
  PROVE  Held(s) \in Seq(Debts)
<1>1. mbuf[s] \in Message
  BY DEF CapturePart, CaptureType
<1>2. CASE occ[s]
  BY <1>1, <1>2, RestType DEF Held, Slots
<1>3. CASE ~occ[s]
  BY <1>3 DEF Held
<1> QED
  BY <1>2, <1>3

LEMMA NewsType ==
  ASSUME CapturePart, Owners, NEW o, Stores(o)
  PROVE  News(o) \in Seq(Debts)
<1>1. <<>> \in Seq(Debts)
  OBVIOUS
<1> QED
  BY <1>1, NewsAre, RestType, Zenon

\* A buffer that is not freed holds what it held, and what comes into it.
LEMMA HeldNext ==
  ASSUME CapturePart, Slots, Owners, NEW o, Stores(o),
         NEW s \in 0..1, occ'[s] <=> occ[s] \/ s \in Filled(o),
         Filled(o) \subseteq {s}
  PROVE  Held(s)' = Held(s) \o News(o)
<1>1. Held(s) \in Seq(Debts) /\ News(o) \in Seq(Debts)
  BY HeldType, NewsType
<1>2. CASE Filled(o) = {} /\ News(o) = <<>>
  <2>1. mbuf'[s] = mbuf[s] /\ (occ'[s] <=> occ[s])
    BY <1>2 DEF Stores
  <2>2. Held(s)' = Held(s)
    BY <2>1 DEF Held, Rest
  <2>3. Held(s) \o <<>> = Held(s)
    BY <1>1
  <2> QED
    BY <1>2, <2>2, <2>3
<1>3. CASE /\ Filled(o) = {cap_sel} /\ ~occ[cap_sel]
           /\ mbuf'[cap_sel] = cap /\ News(o) = Rest(cap, 0)
  <2>1. s = cap_sel
    BY <1>3
  <2>2. Held(s) = <<>>
    BY <1>3, <2>1 DEF Held
  <2>3. Held(s)' = Rest(cap, 0)
    BY <1>3, <2>1 DEF Held, Rest
  <2>4. <<>> \o News(o) = News(o)
    BY <1>1
  <2> QED
    BY <1>3, <2>2, <2>3, <2>4
<1> QED
  BY <1>2, <1>3, NewsAre

\* A message that the decoder has is not written.
LEMMA FullStays ==
  ASSUME CapturePart, Owners, NEW o, Stores(o), NEW s \in 0..1, occ[s]
  PROVE  s \notin Filled(o) /\ mbuf'[s] = mbuf[s] /\ Filled(o) \subseteq {1 - s}
<1>1. s \notin Filled(o)
  BY NewsAre
<1>2. Filled(o) \subseteq {1 - s}
  BY <1>1, NewsAre
<1> QED
  BY <1>1, <1>2 DEF Stores

\* Only a step that is through with its message frees the buffer.
LEMMA FreesWhenDone ==
  ASSUME Slots, dec_sel \in 0..1, NEW o, NEW rdy, Decode(o, rdy), dst \notin {"IDLE", "HDR"}
  PROVE  /\ dec_sel' = dec_sel /\ d' = d
         /\ dst' = "IDLE" => ~occ'[dec_sel]
         /\ \A s \in 0..1 : s # dec_sel => (occ'[s] <=> occ[s] \/ s \in Filled(o))
<1>1. \/ Keeps(o) /\ dst' # "IDLE"
      \/ Frees(o) /\ dst' = "IDLE"
  BY DEF Decode, Idle, Header, Root, Group1, AfterGroup1, Entry1, Dim2, Entry2, Push, Pushed,
         Pass, Full, Done, Plain, Goes, decodeVars, Same
<1>2. dec_sel' = dec_sel /\ d' = d
  BY DEF Decode, Idle, Header, Root, Group1, Entry1, Dim2, Entry2, Push, Pushed,
         Pass, Full, Done, decodeVars
<1>3. /\ Holds(o) \in [0..1 -> BOOLEAN]
      /\ \A s \in 0..1 : Holds(o)[s] <=> occ[s] \/ s \in Filled(o)
  BY HoldsType
<1>4. CASE Keeps(o) /\ dst' # "IDLE"
  BY <1>2, <1>3, <1>4 DEF Keeps
<1>5. CASE Frees(o) /\ dst' = "IDLE"
  <2> DEFINE h == Holds(o)
  <2>1. occ' = [h EXCEPT ![dec_sel] = FALSE]
    BY <1>5 DEF Frees
  <2>2. h \in [0..1 -> BOOLEAN] /\ \A s \in 0..1 : h[s] <=> occ[s] \/ s \in Filled(o)
    BY <1>3
  <2> HIDE DEF h
  <2>3. ~occ'[dec_sel]
    BY <2>1, <2>2
  <2>4. \A s \in 0..1 : s # dec_sel => occ'[s] = h[s]
    BY <2>1, <2>2
  <2> QED
    BY <1>2, <2>2, <2>3, <2>4
<1> QED
  BY <1>1, <1>4, <1>5

\* DS_IDLE: the message chosen is the first to come, and what is captured in
\* this cycle comes behind it.
LEMMA IdleTodo ==
  ASSUME CapturePart, Slots, Owners, Working, NEW o, NEW rdy, Stores(o), Idle(o, rdy),
         Sent' = 0
  PROVE  /\ Todo \in Seq(Debts) /\ Todo' = Todo \o News(o)
         /\ NextWord = 1 /\ NextWord' = 1 /\ Alone'
<1>1. dst = "IDLE" /\ Keeps(o) /\ (occ \in [0..1 -> BOOLEAN])
  BY DEF Idle, Plain, Slots
<1>2. \A s \in 0..1 : occ'[s] <=> occ[s] \/ s \in Filled(o)
  BY <1>1, HoldsType DEF Keeps
<1>3. /\ \A s \in 0..1 : Held(s) \in Seq(Debts)
      /\ News(o) \in Seq(Debts)
  BY HeldType, NewsType
<1>4. \A x \in Seq(Debts) : <<>> \o x = x
  OBVIOUS
<1>5. Chosen \in 0..1
  BY DEF Chosen
<1>6. Under = <<>> /\ Todo = Held(Chosen) /\ NextWord = 1
  <2>1. Under = <<>> /\ Behind = Held(Chosen)
    BY <1>1 DEF Under, Behind
  <2>2. Held(Chosen) \in Seq(Debts)
    BY <1>3, <1>5
  <2>3. Todo = <<>> \o Held(Chosen)
    BY <2>1 DEF Todo
  <2> QED
    BY <1>4, <2>1, <2>2, <2>3 DEF NextWord
<1>7. NextWord' = 1
  BY DEF NextWord
<1>8. CASE ~(occ[0] \/ occ[1])
  <2>1. dst' = "IDLE"
    BY <1>8 DEF Idle
  <2>2. PICK s \in 0..1 : Filled(o) \subseteq {s} /\ Chosen' = s
    <3>1. Filled(o) = {} \/ Filled(o) = {0} \/ Filled(o) = {1}
      BY NewsAre
    <3> QED
      BY <1>2, <1>8, <3>1 DEF Chosen
  <2>3. Held(s)' = Held(s) \o News(o)
    BY <1>2, <2>2, HeldNext
  <2>4. Held(s) = <<>> /\ Held(Chosen) = <<>>
    BY <1>5, <1>8, <2>2 DEF Held
  <2>5. Under' = <<>> /\ Behind' = Held(s)'
    BY <2>1, <2>2 DEF Under, Behind, Held
  <2>6. Todo' = Todo \o News(o)
    <3>1. Todo' = <<>> \o (<<>> \o News(o))
      BY <2>3, <2>4, <2>5 DEF Todo
    <3>2. Todo' = News(o) /\ Todo \o News(o) = News(o)
      BY <1>3, <1>4, <1>6, <2>4, <3>1
    <3> QED
      BY <3>2
  <2>7. Alone'
    <3>1. Filled(o) = {} \/ Filled(o) = {0} \/ Filled(o) = {1}
      BY NewsAre
    <3> QED
      BY <1>2, <1>8, <3>1 DEF Alone
  <2> QED
    BY <1>3, <1>5, <1>6, <1>7, <2>6, <2>7
<1>9. CASE occ[0] \/ occ[1]
  <2>0. PICK c \in 0..1 : c = Chosen
    BY <1>5
  <2>1. 1 - c \in 0..1 /\ occ[c] /\ ~occ[1 - c] /\ dst' = "HDR" /\ dec_sel' = c
    BY <1>1, <1>9, <2>0 DEF Chosen, Working, Alone, Idle, Goes
  <2>2. mbuf'[c] = mbuf[c] /\ Filled(o) \subseteq {1 - c}
    BY <2>1, FullStays
  <2>3. Held(1 - c)' = Held(1 - c) \o News(o)
    BY <1>2, <2>1, <2>2, HeldNext
  <2>4. Held(1 - c) = <<>> /\ Held(c) = Rest(mbuf[c], 0)
    BY <2>1 DEF Held
  <2>5. Under' = Held(c) /\ Behind' = Held(1 - c)'
    BY <2>1, <2>2, <2>4 DEF Under, Behind, Held, Rest
  <2>6. Todo' = Todo \o News(o)
    BY <1>3, <1>4, <1>6, <2>0, <2>3, <2>4, <2>5 DEF Todo
  <2>7. Alone'
    BY <2>1 DEF Alone
  <2> QED
    BY <1>3, <1>5, <1>6, <1>7, <2>6, <2>7
<1> QED
  BY <1>8, <1>9

\* DS_HDR takes over the message.
LEMMA HeaderTodo ==
  ASSUME CapturePart, Slots, Owners, Working, NEW o, NEW rdy, Stores(o), Header(o, rdy),
         dec_sel \in 0..1, Sent = 0, Sent' = 0
  PROVE  /\ Todo \in Seq(Debts) /\ Todo' = Todo \o News(o)
         /\ NextWord = 1 /\ NextWord' = 1 /\ Alone'
<1>1. dst = "HDR" /\ dst' # "IDLE" /\ dec_sel' = dec_sel /\ Keeps(o) /\ occ[dec_sel]
  BY DEF Header, Plain, Goes, Owners
<1>c. PICK c \in 0..1 : c = dec_sel
  OBVIOUS
<1>2. 1 - c \in 0..1
  OBVIOUS
<1>3. occ'[1 - c] <=> occ[1 - c] \/ 1 - c \in Filled(o)
  BY <1>1, <1>2, HoldsType DEF Keeps
<1>4. mbuf'[c] = mbuf[c] /\ Filled(o) \subseteq {1 - c}
  BY <1>1, <1>c, FullStays
<1>5. Held(1 - c)' = Held(1 - c) \o News(o)
  BY <1>2, <1>3, <1>4, HeldNext
<1>6. Behind = Held(1 - c) /\ Behind' = Held(1 - c)'
  BY <1>1, <1>c DEF Behind, Held
<1>7. Under = Held(c) /\ Under' = Held(c)
  BY <1>1, <1>c, <1>4 DEF Under, Held, Rest
<1>8. Held(c) \in Seq(Debts) /\ Held(1 - c) \in Seq(Debts) /\ News(o) \in Seq(Debts)
  BY <1>2, HeldType, NewsType
<1>9. \A x, y, z \in Seq(Debts) : x \o y \in Seq(Debts) /\ x \o (y \o z) = (x \o y) \o z
  OBVIOUS
<1>10. Todo = Held(c) \o Held(1 - c) /\ Todo' = Held(c) \o (Held(1 - c) \o News(o))
  BY <1>5, <1>6, <1>7 DEF Todo
<1>11. Todo \in Seq(Debts) /\ Todo' = Todo \o News(o)
  BY <1>8, <1>9, <1>10, ZenonT(30)
<1>12. NextWord = 1 /\ NextWord' = 1
  BY DEF NextWord
<1> QED
  BY <1>1, <1>11, <1>12 DEF Alone

\* The decoder at work: of its message what is not out yet is to come.
LEMMA WorkTodo ==
  ASSUME CapturePart, Slots, DecodePart, Owners, Working, NEW o, NEW rdy, Stores(o),
         Decode(o, rdy), dst \notin {"IDLE", "HDR"}, NEW upto \in Nat,
         IF dst' = "IDLE" THEN upto = Len(Words(d)) ELSE Sent' = upto
  PROVE  /\ Rest(d, Sent) \in Seq(Debts) /\ Rest(d, upto) \in Seq(Debts)
         /\ Behind \in Seq(Debts)
         /\ Todo = Rest(d, Sent) \o Behind
         /\ Todo' = (Rest(d, upto) \o Behind) \o News(o)
         /\ NextWord' = (IF upto < Len(Words(d)) THEN upto + 1 ELSE 1)
         /\ Alone'
<1>c. PICK c \in 0..1 : c = dec_sel
  BY DEF DecodePart, DecodeType
<1>1. /\ 1 - c \in 0..1 /\ occ[c] /\ d = mbuf[c] /\ dst # "IDLE"
      /\ d \in Message /\ Fitting(d) /\ Sent \in Nat
  BY <1>c DEF Owners, DecodePart, DecodeType, Decoding, Working
<1>2. /\ dec_sel' = c /\ (dst' = "IDLE" => ~occ'[c])
      /\ occ'[1 - c] <=> occ[1 - c] \/ 1 - c \in Filled(o)
  BY <1>1, <1>c, FreesWhenDone
<1>3. mbuf'[c] = mbuf[c] /\ Filled(o) \subseteq {1 - c}
  BY <1>1, FullStays
<1>4. Under = Rest(d, Sent) /\ Behind = Held(1 - c)
  BY <1>1, <1>c DEF Under, Behind
<1>5. Held(1 - c)' = Held(1 - c) \o News(o)
  BY <1>1, <1>2, <1>3, HeldNext
<1>6. /\ Rest(d, Sent) \in Seq(Debts) /\ Rest(d, upto) \in Seq(Debts)
      /\ Held(1 - c) \in Seq(Debts) /\ News(o) \in Seq(Debts)
      /\ upto < Len(Words(d)) => Rest(d, upto) = <<d>>
      /\ ~(upto < Len(Words(d))) => Rest(d, upto) = <<>>
      /\ Len(Words(d)) \in Nat
  BY <1>1, HeldType, NewsType, RestType
<1>7. \A x, y, z \in Seq(Debts) : x \o y \in Seq(Debts) /\ x \o (y \o z) = (x \o y) \o z
  OBVIOUS
<1>8. Under' = Rest(d, upto) /\ Behind' = Held(1 - c)'
  <2>1. CASE dst' # "IDLE"
    BY <1>1, <1>2, <1>3, <2>1 DEF Under, Behind, Held, Rest
  <2>2. CASE dst' = "IDLE"
    <3>1. ~(upto < Len(Words(d)))
      BY <1>6, <2>2
    <3>2. Under' = <<>>
      BY <2>2 DEF Under
    <3>3. Behind' = Held(1 - c)'
      <4>1. Chosen' = 1 - c \/ (Chosen' = c /\ ~occ'[1 - c])
        BY <1>1, <1>2, <2>2 DEF Chosen
      <4> QED
        BY <1>1, <1>2, <2>2, <4>1 DEF Behind, Held
    <3> QED
      BY <1>6, <3>1, <3>2, <3>3
  <2> QED
    BY <2>1, <2>2
<1>9. Todo = Rest(d, Sent) \o Held(1 - c) /\ Todo' = Rest(d, upto) \o (Held(1 - c) \o News(o))
  BY <1>4, <1>5, <1>8 DEF Todo
<1>10. Todo' = (Rest(d, upto) \o Held(1 - c)) \o News(o)
  <2>1. Rest(d, upto) \o (Held(1 - c) \o News(o)) = (Rest(d, upto) \o Held(1 - c)) \o News(o)
    <3>1. /\ Rest(d, upto) \in Seq(Debts) /\ Held(1 - c) \in Seq(Debts)
          /\ News(o) \in Seq(Debts)
      BY <1>6
    <3> QED
      BY <3>1, <1>7, ZenonT(30)
  <2> QED
    BY <1>9, <2>1, Zenon
<1>11. NextWord' = (IF upto < Len(Words(d)) THEN upto + 1 ELSE 1)
  <2>1. CASE upto < Len(Words(d))
    <3>1. dst' # "IDLE"
      BY <1>6, <2>1
    <3>2. Sent' = upto /\ Under' = <<d>>
      BY <1>6, <1>8, <2>1, <3>1
    <3>3. Under' # <<>>
      BY <3>2
    <3> QED
      BY <2>1, <3>2, <3>3 DEF NextWord
  <2>2. CASE ~(upto < Len(Words(d)))
    <3>1. Under' = <<>>
      BY <1>6, <1>8, <2>2
    <3> QED
      BY <2>2, <3>1 DEF NextWord
  <2> QED
    BY <2>1, <2>2
<1>12. Alone'
  BY <1>1, <1>2 DEF Alone
<1> QED
  BY <1>4, <1>6, <1>9, <1>10, <1>11, <1>12

\* The emitter shows the first word until it is taken, and then the second.
LEMMA ShowsNext ==
  ASSUME Fifo, Shows, NEW rdy \in BOOLEAN, Pushes(rdy), Emit(rdy)
  PROVE  Shows'
<1> DEFINE mid == Popped(rdy)
<1>1. f_mem \in Seq(FifoWord) /\ f_cnt = Len(f_mem) /\ Len(f_mem) \in Nat
  BY DEF Fifo, CountExact
<1>2. Pop(rdy) => f_mem # <<>>
  BY DEF Fifo, Pop
<1>3. mid \in Seq(FifoWord)
  BY <1>1, <1>2 DEF Popped
<1>4. mid # <<>> => f_mem' # <<>> /\ f_mem'[1] = mid[1]
  <2> HIDE DEF mid
  <2>1. CASE push_commit
    <3>1. PICK w \in FifoWord : f_mem' = Append(mid, w)
      BY <2>1 DEF Pushes, PushWord, mid
    <3> QED
      BY <1>3, <3>1
  <2>2. CASE ~push_commit
    BY <2>2 DEF Pushes, NoPush, mid
  <2> QED
    BY <2>1, <2>2
<1>5. CASE out.valid /\ ~rdy
  <2>1. out' = out /\ mid = f_mem
    BY <1>5 DEF Emit, Popped, Pop
  <2> QED
    BY <1>4, <1>5, <2>1 DEF Shows
<1>6. CASE ~out.valid
  <2>1. mid = f_mem
    BY <1>6 DEF Popped, Pop
  <2>2. ASSUME out'.valid PROVE f_mem # <<>> /\ out'.word = f_mem[1]
    <3>1. f_cnt >= 1 /\ out'.word = f_mem[1]
      BY <1>1, <1>6, <2>2 DEF Emit
    <3> QED
      BY <1>1, <3>1
  <2> QED
    BY <1>4, <2>1, <2>2 DEF Shows
<1>7. CASE out.valid /\ rdy
  <2>1. mid = Tail(f_mem) /\ f_mem # <<>>
    BY <1>2, <1>7 DEF Popped, Pop
  <2>2. ASSUME out'.valid PROVE mid # <<>> /\ out'.word = mid[1]
    <3>1. f_cnt > 1 /\ out'.word = f_mem[2]
      BY <1>1, <1>7, <2>2 DEF Emit
    <3>2. Len(mid) = Len(f_mem) - 1 /\ (Len(f_mem) > 1 => mid[1] = f_mem[2])
      BY <1>1, <2>1
    <3> HIDE DEF mid
    <3> QED
      BY <1>1, <1>3, <3>1, <3>2
  <2> QED
    BY <1>4, <2>2 DEF Shows
<1> QED
  BY <1>5, <1>6, <1>7

\* What is owed behind the word that the consumer takes.
LEMMA RecordPops ==
  ASSUME Fifo, Ledger, Todo \in Seq(Debts), NEW o, NEW rdy, Record(o, rdy)
  PROVE  \E list \in Seq(Debts) :
           /\ owed' = list \o News(o)
           /\ Owes(list, Popped(rdy), paid' + 1, Todo, NextWord)
<1> DEFINE whole == Pop(rdy) /\ paid + 1 = Len(Words(Head(owed)))
           list == IF whole THEN Tail(owed) ELSE owed
<1>1. /\ owed \in Seq(Debts) /\ f_mem \in Seq(FifoWord)
      /\ Owes(owed, f_mem, paid + 1, Todo, NextWord)
  BY DEF Ledger, Fifo
<1>2. /\ owed' = list \o News(o)
      /\ paid' = IF whole THEN 0 ELSE IF Pop(rdy) THEN paid + 1 ELSE paid
  BY DEF Record, News
<1>3. CASE ~Pop(rdy)
  <2>1. list = owed /\ paid' = paid /\ Popped(rdy) = f_mem
    BY <1>2, <1>3 DEF Popped
  <2> HIDE DEF list, whole
  <2> QED
    BY <1>1, <1>2, <2>1, Zenon
<1>4. CASE Pop(rdy)
  <2>1. f_mem # <<>> /\ Popped(rdy) = Tail(f_mem)
    BY <1>4 DEF Popped, Fifo, Pop
  <2>2. owed # <<>>
    BY <1>1, <2>1, OwesHead
  <2>3. Head(owed) = owed[1] /\ Tail(owed) \in Seq(Debts)
    BY <1>1, <2>2
  <2>4. IF paid + 1 = Len(Words(owed[1])) THEN Owes(Tail(owed), Tail(f_mem), 1, Todo, NextWord)
        ELSE Owes(owed, Tail(f_mem), paid + 1 + 1, Todo, NextWord)
    BY <1>1, <2>1, OwesPop
  <2>5. CASE paid + 1 = Len(Words(owed[1]))
    <3>1. list = Tail(owed) /\ paid' = 0
      BY <1>2, <1>4, <2>3, <2>5
    <3>2. 0 + 1 = 1
      OBVIOUS
    <3>3. Owes(list, Popped(rdy), paid' + 1, Todo, NextWord)
      BY <2>1, <2>4, <2>5, <3>1, <3>2
    <3> HIDE DEF list, whole
    <3> QED
      BY <1>2, <2>3, <3>1, <3>3, Zenon
  <2>6. CASE paid + 1 # Len(Words(owed[1]))
    <3>1. list = owed /\ paid' = paid + 1
      BY <1>2, <1>4, <2>3, <2>6
    <3>2. Owes(list, Popped(rdy), paid' + 1, Todo, NextWord)
      BY <2>1, <2>4, <2>6, <3>1
    <3> HIDE DEF list, whole
    <3> QED
      BY <1>1, <1>2, <3>1, <3>2, Zenon
  <2> QED
    BY <2>5, <2>6
<1> QED
  BY <1>3, <1>4

\* The choice of a buffer and the step that reads it.
LEMMA BeginLedger ==
  ASSUME CapturePart, Slots, DecodePart, Fifo, Owners, Working, Ledger,
         NEW o, NEW rdy, Stores(o), Idle(o, rdy) \/ Header(o, rdy), Record(o, rdy)
  PROVE  Working' /\ Ledger'
<1>1. /\ Progress' /\ Sent' = 0 /\ Sent = 0 /\ NoPush(rdy)
      /\ dec_sel \in 0..1
  BY BeginsAdvance DEF Working, DecodePart, DecodeType
<1>2. /\ Todo \in Seq(Debts) /\ Todo' = Todo \o News(o)
      /\ NextWord = 1 /\ NextWord' = 1 /\ Alone'
  BY <1>1, IdleTodo, HeaderTodo
<1>3. PICK list \in Seq(Debts) :
        /\ owed' = list \o News(o)
        /\ Owes(list, Popped(rdy), paid' + 1, Todo, NextWord)
  BY <1>2, RecordPops
<1>4. News(o) \in Seq(Debts) /\ f_mem' = Popped(rdy) /\ Popped(rdy) \in Seq(FifoWord)
  <2>1. Pop(rdy) => f_mem # <<>>
    BY DEF Fifo, Pop
  <2> QED
    BY <1>1, <2>1, NewsType DEF NoPush, Popped, Fifo
<1>5. Owes(list \o News(o), Popped(rdy), paid' + 1, Todo \o News(o), NextWord)
  BY <1>2, <1>3, <1>4, OwesMore
<1>6. Owes(owed', f_mem', paid' + 1, Todo', NextWord')
  BY <1>2, <1>3, <1>4, <1>5, Zenon
<1>7. owed' \in Seq(Debts)
  BY <1>3, <1>4
<1>8. Sent' \in Nat
  BY <1>1
<1> QED
  BY <1>1, <1>2, <1>6, <1>7, <1>8 DEF Working, Ledger

\* The decoder at work.
LEMMA WorkLedger ==
  ASSUME CapturePart, Slots, DecodePart, Fifo, Owners, Working, Ledger,
         NEW o, NEW rdy, Stores(o), Decode(o, rdy), dst \notin {"IDLE", "HDR"},
         Record(o, rdy)
  PROVE  Working' /\ Ledger'
<1> DEFINE all == Len(Words(d))
<1>1. /\ Progress' /\ Advances(rdy) /\ Sent \in Nat
      /\ d \in Message /\ Fitting(d)
  BY DecodeAdvances DEF Working, DecodePart, DecodeType, Decoding
<1>2. PICK upto \in Nat : upto = IF push_commit THEN Sent + 1 ELSE Sent
  BY <1>1
<1>3. /\ IF push_commit THEN Sent < all /\ PushWord(rdy, Words(d)[Sent + 1])
         ELSE NoPush(rdy)
      /\ IF dst' = "IDLE" THEN upto = all ELSE Sent' = upto
  BY <1>1, <1>2 DEF Advances
<1>4. /\ Rest(d, Sent) \in Seq(Debts) /\ Rest(d, upto) \in Seq(Debts)
      /\ Behind \in Seq(Debts)
      /\ Todo = Rest(d, Sent) \o Behind
      /\ Todo' = (Rest(d, upto) \o Behind) \o News(o)
      /\ NextWord' = (IF upto < all THEN upto + 1 ELSE 1)
      /\ Alone'
  BY <1>3, WorkTodo
<1>5. NextWord = IF Sent < all THEN Sent + 1 ELSE 1
  <2>1. Under = Rest(d, Sent)
    BY DEF Under, Owners
  <2>2. /\ Sent < all => Rest(d, Sent) = <<d>>
        /\ ~(Sent < all) => Rest(d, Sent) = <<>>
    BY <1>1, RestType
  <2>3. <<d>> # <<>>
    OBVIOUS
  <2> QED
    BY <2>1, <2>2, <2>3 DEF NextWord
<1>6. Todo \in Seq(Debts) /\ Rest(d, upto) \o Behind \in Seq(Debts)
  <2>1. \A x, y \in Seq(Debts) : x \o y \in Seq(Debts)
    OBVIOUS
  <2> QED
    BY <1>4, <2>1, Zenon
<1>7. PICK list \in Seq(Debts) :
        /\ owed' = list \o News(o)
        /\ Owes(list, Popped(rdy), paid' + 1, Todo, NextWord)
  BY <1>6, RecordPops
<1>8. News(o) \in Seq(Debts) /\ Popped(rdy) \in Seq(FifoWord)
  <2>1. Pop(rdy) => f_mem # <<>>
    BY DEF Fifo, Pop
  <2> QED
    BY <2>1, NewsType DEF Popped, Fifo
<1>9. /\ f_mem' \in Seq(FifoWord)
      /\ Owes(list, f_mem', paid' + 1, Rest(d, upto) \o Behind, NextWord')
  <2>1. CASE ~push_commit
    <3>1. upto = Sent /\ f_mem' = Popped(rdy)
      BY <1>2, <1>3, <2>1 DEF NoPush
    <3>2. NextWord' = NextWord /\ Rest(d, upto) \o Behind = Todo
      BY <1>4, <1>5, <3>1
    <3> QED
      BY <1>7, <1>8, <3>1, <3>2
  <2>2. CASE push_commit
    <3>1. /\ upto = Sent + 1 /\ Sent < all
          /\ f_mem' = Append(Popped(rdy), Words(d)[Sent + 1])
      BY <1>2, <1>3, <2>2 DEF PushWord
    <3>2. /\ Rest(d, Sent) = <<d>> /\ d \in Debts /\ NextWord = Sent + 1
          /\ upto < all => Rest(d, upto) = <<d>>
          /\ ~(upto < all) => Rest(d, upto) = <<>>
          /\ all \in Nat /\ Words(d) \in Seq(FifoWord)
      BY <1>1, <1>5, <3>1, RestType, WordsAre
    <3>3. Todo = <<d>> \o Behind
      BY <1>4, <3>2
    <3>4. Todo # <<>> /\ Todo[1] = d /\ Tail(Todo) = Behind
      <4>1. \A x \in Seq(Debts), m \in Debts :
              /\ <<m>> \o x # <<>> /\ (<<m>> \o x)[1] = m
        OBVIOUS
      <4>2. \A x \in Seq(Debts), m \in Debts : Tail(<<m>> \o x) = x
        OBVIOUS
      <4> QED
        BY <1>4, <3>2, <3>3, <4>1, <4>2, Zenon
    <3>5. Sent + 1 <= all
      BY <1>1, <3>1, <3>2
    <3>6. f_mem' \in Seq(FifoWord)
      <4>1. Sent + 1 \in 1..all
        BY <1>1, <3>2, <3>5
      <4>2. Words(d)[Sent + 1] \in FifoWord
        BY <3>2, <4>1
      <4> QED
        BY <1>8, <3>1, <4>2
    <3>7. IF Sent + 1 < all THEN Owes(list, f_mem', paid' + 1, Todo, Sent + 1 + 1)
          ELSE Owes(list, f_mem', paid' + 1, Tail(Todo), 1)
      <4>1. Owes(list, Popped(rdy), paid' + 1, Todo, Sent + 1)
        BY <1>7, <3>2
      <4>2. Sent + 1 <= Len(Words(Todo[1]))
        BY <3>4, <3>5
      <4>3. LET more == Append(Popped(rdy), Words(Todo[1])[Sent + 1])
            IN IF Sent + 1 < Len(Words(Todo[1]))
               THEN Owes(list, more, paid' + 1, Todo, Sent + 1 + 1)
               ELSE Owes(list, more, paid' + 1, Tail(Todo), 1)
        BY <1>6, <1>8, <3>4, <4>1, <4>2, OwesPush
      <4> QED
        BY <3>1, <3>4, <4>3
    <3>8. CASE upto < all
      <4>1. Rest(d, upto) \o Behind = Todo /\ NextWord' = Sent + 1 + 1
        BY <1>4, <3>1, <3>2, <3>3, <3>8
      <4> QED
        BY <3>1, <3>6, <3>7, <3>8, <4>1
    <3>9. CASE ~(upto < all)
      <4>1. \A x \in Seq(Debts) : <<>> \o x = x
        OBVIOUS
      <4>2. Rest(d, upto) \o Behind = Behind
        BY <1>4, <3>2, <3>9, <4>1
      <4>3. NextWord' = 1
        BY <1>4, <3>9
      <4> QED
        BY <3>1, <3>4, <3>6, <3>7, <3>9, <4>2, <4>3
    <3> QED
      BY <3>8, <3>9
  <2> QED
    BY <2>1, <2>2
<1>10. Owes(list \o News(o), f_mem', paid' + 1, (Rest(d, upto) \o Behind) \o News(o), NextWord')
  BY <1>6, <1>8, <1>9, OwesMore
<1>11. Owes(owed', f_mem', paid' + 1, Todo', NextWord')
  BY <1>4, <1>7, <1>10, Zenon
<1>12. owed' \in Seq(Debts)
  BY <1>7, <1>8
<1>13. Sent' \in Nat
  <2>1. CASE dst' = "IDLE"
    BY <2>1 DEF Sent
  <2>2. CASE dst' # "IDLE"
    BY <1>3, <2>2
  <2> QED
    BY <2>1, <2>2
<1> QED
  BY <1>1, <1>4, <1>11, <1>12, <1>13 DEF Working, Ledger

\* The decoder, the output and what is owed go together.
Books == Working /\ Shows /\ Ledger

LEMMA BooksInit ==
  ASSUME HInit
  PROVE  Books
<1>1. /\ dst = "IDLE" /\ occ = [s \in 0..1 |-> FALSE] /\ r_idx = 0
      /\ f_mem = <<>> /\ out.valid = FALSE /\ owed = <<>> /\ paid = 0
  BY DEF HInit, Init
<1>2. Working
  BY <1>1 DEF Working, Progress, Sent, Alone
<1>3. Shows
  BY <1>1 DEF Shows
<1>4. Under = <<>> /\ NextWord = 1
  BY <1>1 DEF Under, NextWord
<1>5. Behind = <<>>
  BY <1>1 DEF Behind, Held, Chosen
<1>6. Todo = <<>>
  BY <1>4, <1>5 DEF Todo
<1>7. paid + 1 = 1
  BY <1>1
<1>8. Owes(owed, f_mem, paid + 1, Todo, NextWord)
  BY <1>1, <1>4, <1>6, <1>7, OwesNone
<1>9. owed \in Seq(Debts)
  BY <1>1
<1> QED
  BY <1>2, <1>3, <1>8, <1>9 DEF Books, Ledger

LEMMA BooksNext ==
  ASSUME ParserInv, Owners, Books, [HNext]_hvars
  PROVE  Books'
<1>1. /\ SenderType /\ CapturePart /\ Slots /\ DecodePart /\ Fifo
      /\ Working /\ Shows /\ Ledger
  BY DEF ParserInv, Books
<1>2. CASE HNext
  <2>1. PICK o \in Offers, rdy \in BOOLEAN : Cycle(o, rdy) /\ Record(o, rdy)
    BY <1>2 DEF HNext, HCycle
  <2>2. Capture(o) /\ Decode(o, rdy) /\ Count(rdy) /\ Emit(rdy)
    BY <2>1 DEF Cycle
  <2>3. Stores(o) /\ Pushes(rdy)
    BY <1>1, <2>2, CaptureStores, DecodeTypes
  <2>4. Shows'
    BY <1>1, <2>2, <2>3, ShowsNext
  <2>5. CASE dst \in {"IDLE", "HDR"}
    <3>1. Idle(o, rdy) \/ Header(o, rdy)
      BY <2>2, <2>5 DEF Decode, Root, Group1, Entry1, Dim2, Entry2, Push, Pushed, Pass,
                        Full, Done
    <3>2. Working' /\ Ledger'
      BY <1>1, <2>1, <2>3, <3>1, BeginLedger
    <3> QED
      BY <2>4, <3>2 DEF Books
  <2>6. CASE dst \notin {"IDLE", "HDR"}
    <3>1. Working' /\ Ledger'
      BY <1>1, <2>1, <2>2, <2>3, <2>6, WorkLedger
    <3> QED
      BY <2>4, <3>1 DEF Books
  <2> QED
    BY <2>5, <2>6
<1>3. CASE UNCHANGED hvars
  <2>1. UNCHANGED <<decodeVars, fifoVars, occ, mbuf, owed, paid>>
    BY <1>3 DEF hvars, vars, history, captureVars
  <2>2. Sent' = Sent /\ Progress'
    BY <1>1, <2>1
    DEF decodeVars, Sent, Working, Progress, Grouped, RecNo, Rlen
  <2>3. Todo' = Todo /\ NextWord' = NextWord
    BY <2>1, <2>2 DEF decodeVars, Todo, NextWord, Under, Behind, Held, Chosen
  <2>4. Working' /\ Shows' /\ Ledger'
    BY <1>1, <2>1, <2>2, <2>3
    DEF Working, Shows, Ledger, Alone, decodeVars, fifoVars
  <2> QED
    BY <2>4 DEF Books
<1> QED
  BY <1>2, <1>3

LEMMA BooksRight ==
  ASSUME ParserInv, Books
  PROVE  RecordsInOrder
<1>1. /\ owed \in Seq(Debts) /\ Owes(owed, f_mem, paid + 1, Todo, NextWord)
      /\ f_mem \in Seq(FifoWord)
  BY DEF Books, Ledger, ParserInv, Fifo
<1>2. NextRecord
  <2> SUFFICES ASSUME out.valid PROVE owed # <<>> /\ out.word = Words(owed[1])[paid + 1]
    BY DEF NextRecord
  <2>1. f_mem # <<>> /\ out.word = f_mem[1]
    BY DEF Books, Shows
  <2> QED
    BY <1>1, <2>1, OwesHead
<1>3. NothingForgotten
  <2> SUFFICES ASSUME f_mem = <<>>, dst = "IDLE", ~occ[0], ~occ[1] PROVE owed = <<>>
    BY DEF NothingForgotten
  <2>1. Under = <<>> /\ Behind = <<>>
    BY DEF Under, Behind, Held, Chosen
  <2>2. Todo = <<>>
    BY <2>1 DEF Todo
  <2>3. Owes(owed, <<>>, paid + 1, <<>>, NextWord)
    BY <1>1, <2>2
  <2> QED
    BY <1>1, <2>3, OwesNothing
<1> QED
  BY <1>2, <1>3 DEF RecordsInOrder

LEMMA BooksInvariant == HSpec /\ []KeepsInWait => []Books
<1>1. HInit => Books
  BY BooksInit
<1>2. ParserInv /\ Owners /\ Books /\ [HNext]_hvars => Books'
  BY BooksNext
<1> QED
  BY <1>1, <1>2, ParserInvariant, OwnersInvariant, PTL DEF HSpec

\* The consumer is shown the words of the reference for the messages that were
\* captured, one after the other and none twice, and when the parser is empty
\* it has had all of them: for both widths, any FIFO depth and any packets,
\* however the beats and the consumer are timed.
THEOREM RecordsInOrderAlways == HSpec /\ []KeepsInWait => []RecordsInOrder
<1>1. ParserInv /\ Books => RecordsInOrder
  BY BooksRight
<1> QED
  BY <1>1, ParserInvariant, BooksInvariant, PTL

\* The same from what is sent alone.
THEOREM CleanAlways ==
  ASSUME TrafficFits, CleanTraffic
  PROVE  HSpec => [](InSync /\ Judged /\ GapsFound /\ RecordsInOrder)
BY CleanKeeps, InSyncAlways, JudgedAlways, GapsFoundAlways, RecordsInOrderAlways, PTL

(***************************************************************************)
(* The schema file, for any documents, any packets and any number of       *)
(* calls, whatever the servers answer                                      *)
(***************************************************************************)
LEMMA SchemaStep ==
  ASSUME SchemaSafe, Fetch!FNext
  PROVE  SchemaSafe'
<1> USE DEF SchemaSafe, Fetch!SchemaSafe, Fetch!FetchedIsPinned,
            Fetch!NoPartialSchema
<1>1. CASE Fetch!Call
  BY <1>1 DEF Fetch!Call
<1>2. CASE Fetch!Look
  BY <1>2 DEF Fetch!Look, Fetch!Valid
<1>3. CASE Fetch!Broken
  BY <1>3 DEF Fetch!Broken, Fetch!Unlink, Fetch!NextSource
<1>4. CASE Fetch!Downloaded
  BY <1>4 DEF Fetch!Downloaded
<1>5. CASE Fetch!Checked
  BY <1>5 DEF Fetch!Checked, Fetch!Valid, Fetch!Unlink, Fetch!NextSource
<1>6. CASE Fetch!Renamed
  BY <1>6 DEF Fetch!Renamed
<1>7. CASE Fetch!Killed
  BY <1>7 DEF Fetch!Killed
<1> QED
  BY <1>1, <1>2, <1>3, <1>4, <1>5, <1>6, <1>7 DEF Fetch!FNext

\* The corpus is built from the schema and never touches its file.
LEMMA CorpusStep ==
  ASSUME SchemaSafe, [CNext]_corpusVars
  PROVE  SchemaSafe'
<1>1. ASSUME UNCHANGED fetchState PROVE SchemaSafe'
  BY <1>1 DEF fetchState, SchemaSafe, Fetch!SchemaSafe,
              Fetch!FetchedIsPinned, Fetch!NoPartialSchema
<1>2. CASE Obtain
  BY <1>2, SchemaStep DEF Obtain
<1>3. CASE LoadSchema
  BY <1>1, <1>3 DEF LoadSchema
<1>4. ASSUME NEW ms, AddPacket(ms) PROVE SchemaSafe'
  BY <1>1, <1>4 DEF AddPacket
<1>5. CASE Save
  BY <1>1, <1>5 DEF Save
<1>6. CASE LoadCorpus
  BY <1>1, <1>6 DEF LoadCorpus
<1>7. CASE UNCHANGED corpusVars
  BY <1>1, <1>7 DEF corpusVars
<1> QED
  BY <1>2, <1>3, <1>4, <1>5, <1>6, <1>7 DEF CNext

\* fetch_mdp3_schema.py:11-12: whatever the two servers answer and earlier
\* calls left, the file that a call returns is the pinned one, only the pinned
\* one is ever put in its place, and a call that fails leaves no part of one.
THEOREM SchemaSafeAlways == CSpec => []SchemaSafe
<1>1. CInit => SchemaSafe
  BY DEF CInit, SchemaSafe, Fetch!FInit, Fetch!SchemaSafe,
         Fetch!FetchedIsPinned, Fetch!NoPartialSchema
<1>2. SchemaSafe /\ [CNext]_corpusVars => SchemaSafe'
  BY CorpusStep
<1> QED
  BY <1>1, <1>2, PTL DEF CSpec

=============================================================================
