----------------------------- MODULE ItchParser -----------------------------
(***************************************************************************)
(* rtl/parser/itch_parser.sv, clock cycle by clock cycle: MoldUDP64        *)
(* datagrams come in as beats of a bus, are cut into ITCH messages in a    *)
(* byte queue, and leave as register words (Annex A).                      *)
(*                                                                         *)
(* The queue holds the last qn bytes that were transferred, so it is given *)
(* by qn and the position pos of the sender in its datagram; its front is  *)
(* byte pos - qn.  What the parser reads there is the header at byte 0, a  *)
(* message at the byte where one begins, and anything elsewhere.           *)
(***************************************************************************)
EXTENDS Integers, Sequences

CONSTANTS
  DW,            \* bus width in bits
  QB,            \* bytes of the queue
  Datagrams,     \* the datagrams that may be sent
  IdleKeeps,     \* bytes that tkeep may show while tvalid is low
  MaxDatagrams   \* bound: datagrams sent after reset

BYTES == DW \div 8
QBUFW == QB + BYTES - 1
HeaderBytes == 20
CommonHeader == 11

\* explen: the canonical length of a type, 0 if the type is unknown.
ExpLen ==
  [S |-> 12, R |-> 39, H |-> 25, Y |-> 20, L |-> 26, V |-> 35, W |-> 12,
   K |-> 28, J |-> 35, O |-> 21, A |-> 36, F |-> 40, E |-> 31, C |-> 36,
   X |-> 23, D |-> 19, U |-> 35, P |-> 44, Q |-> 40, B |-> 19, I |-> 50,
   N |-> 20, other |-> 0]
Subset == {"S", "R", "A", "F", "E", "C", "X", "D", "U", "P"}

\* A message on the wire, with the length that its prefix declares.
Wire == [type : DOMAIN ExpLen, len : 1..250]
LengthOk(m) == ExpLen[m.type] \in {0, m.len}

\* A datagram: the session (sess) and the messages left out before it (skip),
\* the count of its header, its messages, the bytes that are really sent, and
\* the beat whose tkeep is malformed (0 for none).
Datagram ==
  [sess : Nat, skip : Nat, count : Nat, msgs : Seq(Wire), size : Nat \ {0},
   badBeat : Nat]

ASSUME ParserAssumption ==
  /\ DW \in {32, 64}
  /\ QB \in HeaderBytes..128
  /\ Datagrams \subseteq Datagram
  /\ IdleKeeps \subseteq 0..BYTES
  /\ MaxDatagrams \in Nat

\* The byte at which message j of datagram d begins.
Begin(d, j) ==
  LET begin[i \in Nat] ==
        IF i <= 1 THEN HeaderBytes ELSE begin[i-1] + 2 + d.msgs[i-1].len
  IN begin[j]
Whole(d) == Begin(d, Len(d.msgs) + 1)

VARIABLES
  tx,          \* sender: the datagram under way, its number and position
  nextSeq,     \* sender: sequence number of the next message
  st,
  qn,          \* bytes in the queue
  dropLeft,    \* bytes of an oversize message still to skip
  msgIdx,
  expSeq, thisSeq, session,
  packLeft, packCount,
  msgReg,      \* captured message: msg_reg, msg_len, in_subset, len_ok
  bi,          \* body word to emit
  eopSeen,     \* the datagram's last beat was taken
  dropPacket,  \* the rest of the datagram is discarded
  out,         \* output register
  gap, error

senderVars == <<tx, nextSeq>>
headerVars == <<expSeq, thisSeq, session, packLeft, packCount>>
recordVars == <<msgIdx, msgReg, bi>>
vars == <<senderVars, st, qn, dropLeft, headerVars, recordVars, eopSeen,
          dropPacket, out, gap, error>>

(***************************************************************************)
(* The sender                                                              *)
(***************************************************************************)
\* The beat from byte pos of d: how many bytes, whether they are the last,
\* and whether tkeep is well formed.
Beat(d, seq, n, pos) ==
  LET left == d.size - pos
  IN [valid |-> TRUE, dg |-> d, seq |-> seq, n |-> n, pos |-> pos,
      bytes |-> IF left < BYTES THEN left ELSE BYTES, last |-> left <= BYTES,
      keepOk |-> pos \div BYTES + 1 # d.badBeat]

NoBeat(keep) ==
  [valid |-> FALSE, dg |-> tx.dg, seq |-> tx.seq, n |-> tx.n, pos |-> tx.pos,
   bytes |-> keep, last |-> FALSE, keepOk |-> TRUE]

Offers ==
  {NoBeat(k) : k \in IdleKeeps} \cup
  IF tx.pos < tx.dg.size THEN {Beat(tx.dg, tx.seq, tx.n, tx.pos)}
  ELSE IF tx.n = MaxDatagrams THEN {}
  ELSE {Beat(d, nextSeq + d.skip, tx.n + 1, 0) : d \in Datagrams}

(***************************************************************************)
(* The combinational part                                                  *)
(***************************************************************************)
\* Bytes that this cycle drains from the queue.
DrainNeed ==
  CASE st = "HDR" -> HeaderBytes
    [] st = "CAP" -> 2 + msgReg.len
    [] st = "DRAIN" -> IF dropLeft < qn THEN dropLeft ELSE qn
    [] OTHER -> 0
DrainInt == IF DrainNeed <= qn THEN DrainNeed ELSE 0
BaseN == qn - DrainInt

DrainLive == st = "DRAIN" /\ dropLeft > 0
DrainDrop(o) == DrainLive /\ o.bytes <= dropLeft
DrainStrad(o) == DrainLive /\ o.bytes > dropLeft

\* can_aug and can_da: the beat fits in the queue after the drain; the mutant
\* does not look at the queue.
Room_Always(o) == o.valid /\ ~eopSeen /\ ~DrainLive
Room(o) ==
  o.valid /\ ~eopSeen /\ ~DrainLive /\ BaseN + o.bytes <= QBUFW

TReady(o) ==
  \/ dropPacket
  \/ o.valid /\ ~eopSeen /\ ~o.keepOk
  \/ Room(o)
  \/ DrainDrop(o) \/ DrainStrad(o)

Take(o) == o.valid /\ TReady(o)
QnPost(o) == BaseN + (IF Take(o) /\ o.keepOk THEN o.bytes ELSE 0)
EopEff(o) == eopSeen \/ (Take(o) /\ o.keepOk /\ o.last)

\* The datagram ends here: its last beat is in and nothing is left over; the
\* mutant does not look at what is left over.
Ends_NotEmpty(o) == EopEff(o)
Ends(o) == EopEff(o) /\ QnPost(o) = 0

RecordActive == st \in {"CAP", "W0", "TS", "BODY", "NEXT"}

OutTake(rdy) == out.valid /\ rdy
OutFree(rdy) == ~out.valid \/ rdy

\* The queue after this cycle, if no state clears it.
Queue(o) ==
  IF DrainStrad(o) THEN o.bytes - dropLeft
  ELSE IF DrainDrop(o) THEN 0
  ELSE IF Room(o) THEN QnPost(o) ELSE BaseN

Send(o) ==
  IF Take(o)
  THEN /\ tx' = [dg |-> o.dg, seq |-> o.seq, n |-> o.n, pos |-> o.pos + o.bytes]
       /\ nextSeq' = IF o.pos = 0 THEN o.seq + Len(o.dg.msgs) ELSE nextSeq
  ELSE UNCHANGED senderVars

(***************************************************************************)
(* The clocked part                                                        *)
(***************************************************************************)
NoWord == [n |-> 0, j |-> 0, k |-> 0, idx |-> 0, last |-> FALSE]
Silent == [valid |-> FALSE, word |-> NoWord]
Accepted(rdy) == IF OutTake(rdy) THEN Silent ELSE out

\* The rest of a datagram is discarded; a captured record is finished first.
Dropping(o, rdy) ==
  /\ dropPacket
  /\ dropPacket' = ~(Take(o) /\ o.last)
  /\ IF Take(o) /\ o.last
     THEN IF RecordActive
          THEN eopSeen' = TRUE /\ packLeft' = 1 /\ UNCHANGED st
          ELSE eopSeen' = FALSE /\ st' = "HDR" /\ UNCHANGED packLeft
     ELSE UNCHANGED <<eopSeen, packLeft, st>>
  /\ out' = Accepted(rdy) /\ gap' = FALSE /\ error' = FALSE
  /\ UNCHANGED <<qn, dropLeft, expSeq, thisSeq, session, packCount, recordVars>>

\* A beat with a malformed tkeep.
BadKeep(o, rdy) ==
  /\ ~dropPacket /\ Take(o) /\ ~o.keepOk
  /\ error' = TRUE /\ gap' = FALSE
  /\ qn' = 0
  /\ dropPacket' = ~o.last
  /\ IF RecordActive
     THEN eopSeen' = o.last /\ packLeft' = 1 /\ UNCHANGED st
     ELSE eopSeen' = FALSE /\ st' = "HDR" /\ UNCHANGED packLeft
  /\ out' = Accepted(rdy)
  /\ UNCHANGED <<dropLeft, expSeq, thisSeq, session, packCount, recordVars>>

In(s, o) == st = s /\ ~dropPacket /\ ~(Take(o) /\ ~o.keepOk)

\* eop_seen when no state assigns it.
Latch(o) == eopSeen' = (eopSeen \/ (Take(o) /\ o.last))

\* The state waits or goes on to next; the queue moves as it does.
Advance(o, next) == st' = next /\ qn' = Queue(o) /\ Latch(o) /\ error' = FALSE

\* The datagram ends in an error; drop tells whether the rest is discarded.
Fail(drop) ==
  /\ error' = TRUE
  /\ qn' = 0
  /\ eopSeen' = FALSE
  /\ st' = "HDR"
  /\ dropPacket' = drop

\* What the parser reads at the front of the queue.
Front == tx.pos - qn
HeaderHere == [sess |-> tx.dg.sess, seq |-> tx.seq, count |-> tx.dg.count]
AnyWire == {d.msgs[1] : d \in {x \in Datagrams : x.msgs # <<>>}}
WiresHere ==
  LET starts == {j \in 1..Len(tx.dg.msgs) : Begin(tx.dg, j) = Front}
  IN IF starts = {} THEN {[j |-> 0, m |-> m] : m \in AnyWire}
     ELSE {[j |-> j, m |-> tx.dg.msgs[j]] : j \in starts}

\* ST_HDR with the whole header in the queue.
Hdr(o, rdy) ==
  /\ In("HDR", o) /\ DrainInt = HeaderBytes
  /\ LET h == HeaderHere
     IN /\ thisSeq' = h.seq /\ packLeft' = h.count /\ packCount' = h.count
        /\ session' = h.sess
        /\ gap' = (h.sess = session /\ h.seq # expSeq)
        /\ expSeq' = IF h.sess # session \/ (h.count = 0 /\ Ends(o)) THEN h.seq
                     ELSE expSeq
        /\ IF h.count > 0 THEN Advance(o, "LEN") /\ UNCHANGED dropPacket
           ELSE IF Ends(o)
           THEN /\ st' = "HDR" /\ qn' = Queue(o) /\ eopSeen' = FALSE
                /\ error' = FALSE /\ UNCHANGED dropPacket
           ELSE Fail(~EopEff(o))
  /\ out' = Accepted(rdy)
  /\ UNCHANGED <<dropLeft, recordVars>>

\* ST_HDR without it: wait, or give up at the end of the datagram.
HdrShort(o, rdy) ==
  /\ In("HDR", o) /\ DrainInt # HeaderBytes
  /\ IF eopSeen THEN Fail(dropPacket)
     ELSE Advance(o, "HDR") /\ UNCHANGED dropPacket
  /\ out' = Accepted(rdy) /\ gap' = FALSE
  /\ UNCHANGED <<dropLeft, headerVars, recordVars>>

\* The message declared at the front never fits in the queue; in the mutant
\* the parser waits for it.
Oversize_Never(len) == FALSE
Oversize(len) == 2 + len > QB

\* Bytes to skip: those that are neither in the queue nor arrive now; the
\* mutant forgets the beat of this cycle.
ToSkip_Avail(o, len) == (2 + len - qn) % 512
ToSkip(o, len) == (2 + len - QnPost(o)) % 512

\* ST_LEN: capture the message when all of it is in the queue.
Capture(o, rdy) ==
  /\ In("LEN", o) /\ qn >= 2
  /\ \E w \in WiresHere :
       /\ qn >= 2 + w.m.len
       /\ msgReg' = [n |-> tx.n, j |-> w.j, type |-> w.m.type, len |-> w.m.len]
       /\ error' = (w.m.len < CommonHeader \/ ~LengthOk(w.m))
  /\ bi' = 0
  /\ st' = "CAP" /\ qn' = Queue(o) /\ Latch(o)
  /\ out' = Accepted(rdy) /\ gap' = FALSE
  /\ UNCHANGED <<dropLeft, dropPacket, headerVars, msgIdx>>

\* ST_LEN: the message is too long; its type is there from the third byte on.
Skip(o, rdy) ==
  /\ In("LEN", o) /\ qn >= 2
  /\ \E w \in WiresHere :
       /\ qn < 2 + w.m.len /\ Oversize(w.m.len)
       /\ dropLeft' = ToSkip(o, w.m.len)
       /\ error' = (qn > 2 /\ ~LengthOk(w.m))
  /\ qn' = 0 /\ st' = "DRAIN" /\ Latch(o)
  /\ out' = Accepted(rdy) /\ gap' = FALSE
  /\ UNCHANGED <<dropPacket, headerVars, recordVars>>

\* ST_LEN: wait for more of it, or give up at the end of the datagram.
LenShort(o, rdy) ==
  /\ In("LEN", o)
  /\ \/ qn < 2
     \/ \E w \in WiresHere : qn < 2 + w.m.len /\ ~Oversize(w.m.len)
  /\ IF eopSeen THEN Fail(dropPacket) /\ packLeft' = 0
     ELSE Advance(o, "LEN") /\ UNCHANGED <<dropPacket, packLeft>>
  /\ out' = Accepted(rdy) /\ gap' = FALSE
  /\ UNCHANGED <<dropLeft, expSeq, thisSeq, session, packCount, recordVars>>

(***************************************************************************)
(* Emission from the captured message                                      *)
(***************************************************************************)
Emits(m) == m.type \in Subset /\ m.len >= CommonHeader /\ LengthOk(m)
BodyWords(m) == (m.len - CommonHeader + BYTES - 1) \div BYTES

Word(k, last) ==
  [valid |-> TRUE,
   word |-> [n |-> msgReg.n, j |-> msgReg.j, k |-> k, idx |-> msgIdx,
             last |-> last]]

\* A state of the emission does its work when the output register is free;
\* the mutant does not look.
Free_Always(rdy) == TRUE
Free(rdy) == OutFree(rdy)

Stall(o, rdy) ==
  /\ \E s \in {"CAP", "W0", "TS", "BODY", "NEXT"} : In(s, o)
  /\ ~Free(rdy)
  /\ Advance(o, st)
  /\ out' = Accepted(rdy) /\ gap' = FALSE
  /\ UNCHANGED <<dropLeft, dropPacket, headerVars, recordVars>>

Emission(o, s, next) ==
  /\ In(s, o)
  /\ Advance(o, next)
  /\ gap' = FALSE
  /\ UNCHANGED <<dropLeft, dropPacket, headerVars, msgIdx, msgReg>>

Cap(o, rdy) ==
  /\ Free(rdy)
  /\ Emission(o, "CAP", IF Emits(msgReg) THEN "W0" ELSE "NEXT")
  /\ out' = Silent /\ UNCHANGED bi

W0(o, rdy) ==
  Free(rdy) /\ Emission(o, "W0", "TS") /\ out' = Word(0, FALSE) /\ UNCHANGED bi

TS(o, rdy) ==
  Free(rdy) /\ Emission(o, "TS", "BODY") /\ out' = Word(1, FALSE) /\ UNCHANGED bi

Body(o, rdy) ==
  /\ Free(rdy)
  /\ IF bi < BodyWords(msgReg)
     THEN /\ Emission(o, "BODY", "BODY")
          /\ out' = Word(2 + bi, bi = BodyWords(msgReg) - 1)
          /\ bi' = bi + 1
     ELSE Emission(o, "BODY", "NEXT") /\ out' = Silent /\ UNCHANGED bi

\* The sequence number after the datagram, and the index after a message; in
\* the mutant the sequence stays.
Expected_Same == thisSeq
Expected == thisSeq + packCount
NextIdx == msgIdx + 1

\* The message is over: on to the next one, or the datagram closes, at its
\* last beat and with nothing left in the queue; otherwise it is in error and,
\* if drops, its rest is discarded.
Close(o, drops) ==
  IF packLeft > 1
  THEN /\ packLeft' = packLeft - 1
       /\ Advance(o, "LEN")
       /\ UNCHANGED <<expSeq, dropPacket>>
  ELSE IF Ends(o)
  THEN /\ expSeq' = Expected
       /\ st' = "HDR" /\ qn' = Queue(o) /\ eopSeen' = FALSE /\ error' = FALSE
       /\ UNCHANGED <<packLeft, dropPacket>>
  ELSE /\ Fail(IF drops THEN ~EopEff(o) ELSE dropPacket)
       /\ packLeft' = 0
       /\ UNCHANGED expSeq

NextMsg(o, rdy) ==
  /\ In("NEXT", o) /\ Free(rdy)
  /\ msgIdx' = NextIdx
  /\ Close(o, TRUE)
  /\ out' = Silent /\ gap' = FALSE
  /\ UNCHANGED <<dropLeft, thisSeq, session, packCount, msgReg, bi>>

\* ST_DRAIN at the end of the oversize message.
Drained(o, rdy) ==
  /\ In("DRAIN", o) /\ dropLeft = 0
  /\ Close(o, FALSE)
  /\ out' = Accepted(rdy) /\ gap' = FALSE
  /\ UNCHANGED <<dropLeft, thisSeq, session, packCount, recordVars>>

\* ST_DRAIN inside of it: the bytes that tkeep shows are skipped; drain_drop
\* and drain_strad do not ask for tvalid.
Draining(o, rdy) ==
  /\ In("DRAIN", o) /\ dropLeft > 0
  /\ IF eopSeen
     THEN Fail(dropPacket) /\ packLeft' = 0 /\ UNCHANGED dropLeft
     ELSE /\ Advance(o, "DRAIN")
          /\ dropLeft' = IF DrainDrop(o) THEN dropLeft - o.bytes ELSE 0
          /\ UNCHANGED <<dropPacket, packLeft>>
  /\ out' = Accepted(rdy) /\ gap' = FALSE
  /\ UNCHANGED <<expSeq, thisSeq, session, packCount, recordVars>>

(***************************************************************************)
(* The specification                                                       *)
(***************************************************************************)
NoDatagram ==
  [sess |-> 0, skip |-> 0, count |-> 0, msgs |-> <<>>, size |-> 1, badBeat |-> 0]

Init ==
  /\ tx = [dg |-> NoDatagram, seq |-> 0, n |-> 0, pos |-> 1]
  /\ nextSeq = 1
  /\ st = "HDR" /\ qn = 0 /\ dropLeft = 0
  /\ msgIdx = 0 /\ expSeq = 1 /\ thisSeq = 0 /\ session = 0
  /\ packLeft = 0 /\ packCount = 0
  /\ msgReg = [n |-> 0, j |-> 0, type |-> "other", len |-> 0] /\ bi = 0
  /\ eopSeen = FALSE /\ dropPacket = FALSE
  /\ out = Silent
  /\ gap = FALSE /\ error = FALSE

Cycle(o, rdy) ==
  /\ Send(o)
  /\ \/ Dropping(o, rdy) \/ BadKeep(o, rdy)
     \/ Hdr(o, rdy) \/ HdrShort(o, rdy)
     \/ Capture(o, rdy) \/ Skip(o, rdy) \/ LenShort(o, rdy)
     \/ Stall(o, rdy) \/ Cap(o, rdy) \/ W0(o, rdy) \/ TS(o, rdy)
     \/ Body(o, rdy) \/ NextMsg(o, rdy)
     \/ Drained(o, rdy) \/ Draining(o, rdy)

\* The consumer's tready matters only while a word is on the port.
Readiness == IF out.valid THEN BOOLEAN ELSE {FALSE}

Next == \E o \in Offers, rdy \in Readiness : Cycle(o, rdy)

Spec == Init /\ [][Next]_vars

=============================================================================
