----------------------------- MODULE Mdp3Parser -----------------------------
(***************************************************************************)
(* rtl/parser/mdp3_parser.sv, clock cycle by clock cycle: packets of MDP   *)
(* 3.0 come in as beats of a bus, are cut into messages that are stored in *)
(* two buffers by turns, decoded from there and pushed word by word into   *)
(* the output FIFO (Annex M).                                              *)
(*                                                                         *)
(* The queue holds the last qavail bytes that were appended, so its front  *)
(* is byte pos - qavail of the packet.  What is read there is a message if *)
(* one begins at that byte, and Stray otherwise.  An error pulse is the    *)
(* set of its causes.                                                      *)
(***************************************************************************)
EXTENDS Integers, Sequences

CONSTANTS
  DW,          \* bus width in bits
  FIFO_DEPTH,  \* words of the output FIFO
  Packets,     \* the packets that may be sent
  MaxPackets   \* bound: packets sent after reset

BYTES == DW \div 8
MAX_MSG == 256
PKT_HDR == 12
MSG_PREFIX == 10

\* A message on the wire: its declared size, its template (0 for one that is
\* not of the subset), whether schema and version are the pinned ones, the
\* counts of its groups, and the orders whose reference is out of range.
Wire == [size : Nat, tpl : {0, 46, 47, 52, 53}, signed : BOOLEAN,
         n1 : 0..255, n2 : 0..255, badRefs : SUBSET (1..255)]

\* A packet: its sequence number, its messages, the bytes that are really
\* sent, and the beat whose tkeep is malformed (0 for none).
Packet == [seq : Nat, msgs : Seq(Wire), size : Nat \ {0}, badBeat : Nat]

ASSUME ParserAssumption ==
  /\ DW \in {32, 64}
  /\ FIFO_DEPTH \in 1..256
  /\ Packets \subseteq Packet
  /\ MaxPackets \in Nat

\* The byte at which message j of packet p begins.
Begin(p, j) ==
  LET begin[i \in Nat] ==
        IF i <= 1 THEN PKT_HDR ELSE begin[i - 1] + p.msgs[i - 1].size
  IN begin[j]

Subset(m) == m.tpl \in {46, 47, 52, 53} /\ m.signed

\* Offset of the first entry of the first group, and the sizes of entries, the
\* message's prefix included; a second group comes with template 46 only.
EntriesAt == [t \in {46, 47, 52, 53} |->
                MSG_PREFIX + (CASE t \in {46, 47} -> 14 [] t = 52 -> 62 [] t = 53 -> 31)]
Block1 == [t \in {46, 47, 52, 53} |->
             CASE t = 46 -> 32 [] t = 47 -> 40 [] t = 52 -> 22 [] t = 53 -> 29]
Block2 == 24
Group2At(m) == EntriesAt[46] + m.n1 * Block1[46] + 8

Fits1(m) ==
  EntriesAt[m.tpl] + m.n1 * Block1[m.tpl] + (IF m.tpl = 46 THEN 8 ELSE 0) <= m.size
Fits2(m) == Group2At(m) + m.n2 * Block2 <= m.size

\* Words of a record of the first group; one of the second has 18.
RecordWords(t, g1) == IF g1 /\ t \in {46, 52} THEN 13 ELSE 18

VARIABLES
  tx,         \* sender: the packet under way, its number and position
  tready,     \* s_axis_tready
  qavail,     \* bytes in the queue
  cst, hdr_pos, gap_check, first_pkt, pkt_end, wait_hdr, exp_seq,
  cap_sel, cap_len, skip_left,
  cap,        \* the message being stored: its packet, number and wire
  mbuf, occ,  \* the two buffers, and whether they hold a message to decode
  dst, dec_sel,
  d,          \* the message being decoded
  g_idx, g1_mode, r_idx, p_n, p_off, p_cnt,
  f_mem,      \* the words of the FIFO, from f_head to f_tail
  f_cnt,      \* their number as the core counts it
  out,        \* m_axis
  gap,
  cap_error, dec_error \* causes of the error pulse in either process

busVars == <<tready, qavail, pkt_end>>
captureVars == <<cst, hdr_pos, gap_check, first_pkt, wait_hdr, exp_seq,
                 cap_sel, cap_len, skip_left, cap, mbuf>>
decodeVars == <<dst, dec_sel, d, g_idx, g1_mode, r_idx, p_n, p_off, p_cnt>>
fifoVars == <<f_mem, f_cnt, out>>
vars == <<tx, busVars, captureVars, occ, decodeVars, fifoVars, gap, cap_error, dec_error>>

(***************************************************************************)
(* The sender                                                              *)
(***************************************************************************)
\* The beat from byte pos of p: how many bytes, whether they are the last,
\* and whether tkeep is well formed.
Beat(p, n, pos) ==
  LET left == p.size - pos
  IN [valid |-> TRUE, pk |-> p, n |-> n, pos |-> pos,
      bytes |-> IF left < BYTES THEN left ELSE BYTES, last |-> left <= BYTES,
      keepOk |-> pos \div BYTES + 1 # p.badBeat]

\* No beat, or one without bytes within a packet, which does as much.
NoBeat == [valid |-> FALSE, pk |-> tx.pk, n |-> tx.n, pos |-> tx.pos,
           bytes |-> 0, last |-> FALSE, keepOk |-> TRUE]

Offers ==
  {NoBeat} \cup
  IF tx.pos < tx.pk.size THEN {Beat(tx.pk, tx.n, tx.pos)}
  ELSE IF tx.n = MaxPackets THEN {}
  ELSE {Beat(p, tx.n + 1, 0) : p \in Packets}

\* in_hs
Take(o) == o.valid /\ tready

Send(o) ==
  tx' = IF Take(o) THEN [pk |-> o.pk, n |-> o.n, pos |-> o.pos + o.bytes] ELSE tx

(***************************************************************************)
(* The byte queue                                                          *)
(***************************************************************************)
AvailEff(o) == qavail + (IF Take(o) THEN o.bytes ELSE 0)

\* Mutant of EndEff: the tlast of this cycle is seen in the next.
EndEff_Late(o) == pkt_end
EndEff(o) == pkt_end \/ (Take(o) /\ o.last)
Appended(o) == Take(o) /\ o.keepOk /\ cst # "DISCARD"

\* n bytes are consumed; a queue of MAX_MSG bytes is taken for an empty one.
Consume(o, n) ==
  /\ qavail' = (qavail + (IF Appended(o) THEN o.bytes ELSE 0) - n) % MAX_MSG
  /\ pkt_end' = (pkt_end \/ (Appended(o) /\ o.last))
Flush == qavail' = 0 /\ pkt_end' = FALSE

\* s_axis_tready of the next cycle.
Ready(o) ==
  /\ qavail + o.bytes <= MAX_MSG \/ (o.valid /\ ~o.keepOk) \/ cst = "DISCARD"
  /\ cst # "WAIT"
  /\ ~EndEff(o)

\* What begins at the front of the queue.
Stray == [n |-> 0, j |-> 0,
          wire |-> [size |-> 0, tpl |-> 0, signed |-> FALSE, n1 |-> 0, n2 |-> 0,
                    badRefs |-> {}]]
\* The queue holds bytes of the packet under way, also while the first beat
\* of the next one waits.
Source(o) == IF Take(o) THEN o ELSE tx
AtFront(o) == Source(o).pos - qavail
MessageAt(o) ==
  LET pk == Source(o).pk
      here == {j \in 1..Len(pk.msgs) : Begin(pk, j) = AtFront(o)}
  IN IF here = {} THEN Stray
     ELSE LET j == CHOOSE i \in here : TRUE
          IN [n |-> Source(o).n, j |-> j, wire |-> pk.msgs[j]]

(***************************************************************************)
(* Capture                                                                 *)
(***************************************************************************)
In(s, o) == cst = s /\ ~(Take(o) /\ ~o.keepOk /\ cst # "DISCARD")
Quiet == gap' = FALSE
Same(v) == v' = v

\* The packet is over for the capture, which looks for the next header.
Restart == Flush /\ hdr_pos' = 0 /\ cst' = "HDR"

\* A beat with a malformed tkeep: the rest of the packet is drained.
BadKeep(o) ==
  /\ Take(o) /\ ~o.keepOk /\ cst # "DISCARD"
  /\ cap_error' = {"keep"} /\ Quiet
  /\ gap_check' = FALSE
  /\ IF o.last THEN Restart /\ cap_len' = 0
     ELSE cst' = "DISCARD" /\ UNCHANGED <<qavail, pkt_end, hdr_pos, cap_len>>
  /\ UNCHANGED <<first_pkt, wait_hdr, exp_seq, cap_sel, skip_left, cap, mbuf>>

\* CS_HDR: the bytes of the header as they come; a packet that ends within it.
\* When the last byte of the packet is the last of the header, it goes on.
HdrTake(o) == LET left == PKT_HDR - hdr_pos
              IN IF AvailEff(o) > left THEN left ELSE AvailEff(o)
Hdr(o) ==
  /\ In("HDR", o) /\ Quiet
  /\ IF EndEff(o) /\ AvailEff(o) < PKT_HDR - hdr_pos
     THEN Restart /\ cap_error' = {"cut"} /\ Same(gap_check)
     ELSE /\ cap_error' = {}
          /\ Consume(o, HdrTake(o))
          /\ hdr_pos' = hdr_pos + HdrTake(o)
          /\ IF hdr_pos' = PKT_HDR THEN cst' = "SIZE" /\ gap_check' = TRUE
             ELSE UNCHANGED <<cst, gap_check>>
  /\ UNCHANGED <<first_pkt, wait_hdr, exp_seq, cap_sel, cap_len, skip_left, cap, mbuf>>

\* Mutant of BadSize: a prefix that is not a message is taken for one.
BadSize_Long(size) == size > MAX_MSG
BadSize(size) == size < MSG_PREFIX \/ size > MAX_MSG

\* CS_SIZE: wait for the size; the end of the packet is not looked at.
SizeWait(o) ==
  /\ In("SIZE", o) /\ AvailEff(o) < 2
  /\ cap_error' = {} /\ Quiet /\ Consume(o, 0)
  /\ UNCHANGED captureVars

\* Mutant of Lost: a number that comes again is not a gap.
Lost_Ahead(o) == first_pkt /\ Source(o).pk.seq > exp_seq
Lost(o) == first_pkt /\ Source(o).pk.seq # exp_seq

SkipLeft(size) == (size - 2) % 65536

\* CS_SIZE: the first one tells whether packets were lost.
Size(o) ==
  LET m == MessageAt(o)
      size == m.wire.size
  IN /\ In("SIZE", o) /\ AvailEff(o) >= 2
     /\ gap' = (gap_check /\ Lost(o))
     /\ exp_seq' = IF gap_check THEN Source(o).pk.seq + 1 ELSE exp_seq
     /\ first_pkt' = (first_pkt \/ gap_check) /\ gap_check' = FALSE
     /\ IF EndEff(o) /\ (BadSize(size) \/ AvailEff(o) < size)
        THEN /\ cap_error' = {IF BadSize(size) THEN "size" ELSE "cut"}
             /\ Restart /\ UNCHANGED <<cap_len, skip_left, cap>>
        ELSE /\ Consume(o, 2)
             /\ IF BadSize(size)
                THEN /\ cap_error' = {"size"} /\ cst' = "SKIP"
                     /\ skip_left' = SkipLeft(size)
                     /\ UNCHANGED <<cap_len, cap>>
                ELSE /\ cap_error' = {} /\ cst' = "BODY"
                     /\ cap' = m /\ cap_len' = 2 /\ Same(skip_left)
             /\ Same(hdr_pos)
     /\ UNCHANGED <<wait_hdr, cap_sel, mbuf>>

CapSize == cap.wire.size

\* Mutant of Other: the message goes on in the same buffer.
Other_Same == cap_sel
Other == 1 - cap_sel

\* Where the capture goes on: in the other buffer, when that is free.
Switch(next) ==
  IF ~occ[Other] THEN cap_sel' = Other /\ wait_hdr' = FALSE /\ cst' = next
  ELSE Same(cap_sel) /\ wait_hdr' = (next = "HDR") /\ cst' = "WAIT"

\* CS_BODY with the rest of the message there.  If the packet is over too,
\* what else is in the queue is dropped.
Complete(o) ==
  /\ In("BODY", o) /\ AvailEff(o) >= CapSize - cap_len
  /\ cap_error' = {} /\ Quiet
  /\ mbuf' = [mbuf EXCEPT ![cap_sel] = cap]
  /\ IF EndEff(o) THEN Flush /\ hdr_pos' = 0 /\ Switch("HDR")
     ELSE Consume(o, CapSize - cap_len) /\ Same(hdr_pos) /\ Switch("SIZE")
  /\ UNCHANGED <<gap_check, first_pkt, exp_seq, cap_len, skip_left, cap>>

\* CS_BODY without it; the packet may end here.
Body(o) ==
  /\ In("BODY", o) /\ AvailEff(o) < CapSize - cap_len
  /\ Quiet
  /\ IF EndEff(o) /\ AvailEff(o) # 0
     THEN cap_error' = {"cut"} /\ Restart /\ cap_len' = 0
     ELSE /\ cap_error' = {} /\ Consume(o, AvailEff(o))
          /\ cap_len' = cap_len + AvailEff(o) /\ UNCHANGED <<cst, hdr_pos>>
  /\ UNCHANGED <<gap_check, first_pkt, wait_hdr, exp_seq, cap_sel, skip_left, cap, mbuf>>

\* CS_SKIP: past a message with a size that cannot be, or to the end.
Skip(o) ==
  /\ In("SKIP", o) /\ Quiet
  /\ LET past == AvailEff(o) >= skip_left
         n == IF past THEN skip_left ELSE AvailEff(o)
     IN /\ skip_left' = IF past THEN skip_left ELSE skip_left - n
        /\ IF EndEff(o) THEN cap_error' = {"cut"} /\ Restart
           ELSE /\ cap_error' = {} /\ Consume(o, n) /\ Same(hdr_pos)
                /\ cst' = IF past THEN "SIZE" ELSE "SKIP"
  /\ UNCHANGED <<gap_check, first_pkt, wait_hdr, exp_seq, cap_sel, cap_len, cap, mbuf>>

\* CS_WAIT: both buffers hold a message.
Wait(o) ==
  /\ In("WAIT", o) /\ cap_error' = {} /\ Quiet
  /\ Consume(o, 0)
  /\ IF ~occ[Other]
     THEN /\ cap_sel' = Other /\ wait_hdr' = FALSE
          /\ cst' = IF wait_hdr THEN "HDR" ELSE "SIZE"
     ELSE UNCHANGED <<cap_sel, wait_hdr, cst>>
  /\ UNCHANGED <<hdr_pos, gap_check, first_pkt, exp_seq, cap_len, skip_left, cap, mbuf>>

\* CS_DISCARD
Discard(o) ==
  /\ In("DISCARD", o) /\ cap_error' = {} /\ Quiet
  /\ IF EndEff(o) THEN Restart /\ cap_len' = 0 /\ skip_left' = 0
     ELSE Consume(o, 0) /\ UNCHANGED <<cst, hdr_pos, cap_len, skip_left>>
  /\ UNCHANGED <<gap_check, first_pkt, wait_hdr, exp_seq, cap_sel, cap, mbuf>>

Capture(o) ==
  /\ \/ BadKeep(o) \/ Hdr(o)
     \/ SizeWait(o) \/ Size(o)
     \/ Complete(o) \/ Body(o)
     \/ Skip(o) \/ Wait(o) \/ Discard(o)
  /\ tready' = Ready(o)

\* The buffer that becomes full in this cycle.
Filled(o) ==
  IF In("BODY", o) /\ AvailEff(o) >= CapSize - cap_len THEN {cap_sel} ELSE {}

(***************************************************************************)
(* The output FIFO and the emitter                                         *)
(***************************************************************************)
NoWord == [n |-> 0, j |-> 0, rec |-> 0, idx |-> 0, last |-> FALSE]
Word(rec, idx, last) == [n |-> d.n, j |-> d.j, rec |-> rec, idx |-> idx, last |-> last]

Pop(rdy) == out.valid /\ rdy
Popped(rdy) == IF Pop(rdy) THEN Tail(f_mem) ELSE f_mem
NoPush(rdy) == f_mem' = Popped(rdy)
PushWord(rdy, w) == f_mem' = Append(Popped(rdy), w)

Room == f_cnt < FIFO_DEPTH

\* The word after the one shown is shown next.
Emit(rdy) ==
  out' = IF out.valid /\ ~rdy THEN out
         ELSE IF f_cnt > 1 \/ (f_cnt = 1 /\ ~out.valid)
         THEN [valid |-> TRUE, word |-> f_mem[IF out.valid THEN 2 ELSE 1]]
         ELSE [valid |-> FALSE, word |-> NoWord]

Rlen == RecordWords(d.wire.tpl, g1_mode)
RecNo == IF g1_mode THEN g_idx + 1 ELSE d.wire.n1 + g_idx + 1

\* DS_PASS: a word is whole with every fourth byte of the body and with the
\* last.
LastByte == p_off + 1 = d.wire.size
WordDone == p_cnt = 3 \/ LastByte

\* Mutant of push_commit: every byte of a body counts.
push_commit_Bytes ==
  /\ Room
  /\ (dst = "PUSH" /\ r_idx < Rlen) \/ (dst = "PASS" /\ p_n < 3)

\* The core counts the words that are pushed by this condition, apart from
\* the states that push them.
push_commit ==
  /\ Room
  /\ \/ dst = "PUSH" /\ r_idx < Rlen
     \/ dst = "PASS" /\ (p_n < 2 \/ (p_n = 2 /\ p_off < d.wire.size /\ WordDone))

Count(rdy) ==
  f_cnt' = (f_cnt + (IF push_commit THEN 1 ELSE 0) - (IF Pop(rdy) THEN 1 ELSE 0)) % 512

(***************************************************************************)
(* Decoding                                                                *)
(***************************************************************************)
Goes(state) == dst' = state
NoError == dec_error' = {}

\* A buffer is freed by the decoder after it was filled by the capture.
Holds(o) == [s \in 0..1 |-> occ[s] \/ s \in Filled(o)]
Keeps(o) == occ' = Holds(o)
Frees(o) == occ' = [Holds(o) EXCEPT ![dec_sel] = FALSE]

\* A state that neither pushes a word nor frees a buffer.
Plain(o, rdy) == NoPush(rdy) /\ Keeps(o)

Chosen == IF occ[0] THEN 0 ELSE 1

Idle(o, rdy) ==
  /\ dst = "IDLE" /\ Plain(o, rdy) /\ NoError
  /\ IF occ[0] \/ occ[1] THEN dec_sel' = Chosen /\ Goes("HDR")
     ELSE UNCHANGED <<dec_sel, dst>>
  /\ UNCHANGED <<d, g_idx, g1_mode, r_idx, p_n, p_off, p_cnt>>

Header(o, rdy) ==
  /\ dst = "HDR" /\ Plain(o, rdy) /\ NoError
  /\ d' = mbuf[dec_sel] /\ p_n' = 0
  /\ Goes(IF Subset(mbuf[dec_sel].wire) THEN "ROOT" ELSE "PASS")
  /\ UNCHANGED <<dec_sel, g_idx, g1_mode, r_idx, p_off, p_cnt>>

Root(o, rdy) ==
  /\ dst = "ROOT" /\ Goes("G1") /\ Plain(o, rdy) /\ NoError
  /\ UNCHANGED <<dec_sel, d, g_idx, g1_mode, r_idx, p_n, p_off, p_cnt>>

AfterGroup1 == IF d.wire.tpl = 46 THEN "G2_DIM" ELSE "DONE"

Group1(o, rdy) ==
  /\ dst = "G1" /\ g_idx' = 0 /\ Plain(o, rdy)
  /\ dec_error' = IF Fits1(d.wire) THEN {} ELSE {"group"}
  /\ Goes(IF ~Fits1(d.wire) THEN "DONE"
          ELSE IF d.wire.n1 = 0 THEN AfterGroup1 ELSE "G1_ENT")
  /\ UNCHANGED <<dec_sel, d, g1_mode, r_idx, p_n, p_off, p_cnt>>

Entry1(o, rdy) ==
  /\ dst = "G1_ENT" /\ Plain(o, rdy) /\ NoError
  /\ IF g_idx < d.wire.n1 THEN g1_mode' = TRUE /\ Goes("PUSH")
     ELSE Same(g1_mode) /\ Goes(AfterGroup1)
  /\ UNCHANGED <<dec_sel, d, g_idx, r_idx, p_n, p_off, p_cnt>>

Dim2(o, rdy) ==
  /\ dst = "G2_DIM" /\ Goes("G2_ENT") /\ Plain(o, rdy) /\ NoError
  /\ g1_mode' = FALSE /\ g_idx' = 0
  /\ UNCHANGED <<dec_sel, d, r_idx, p_n, p_off, p_cnt>>

\* A reference that is out of range is an error and a record with zeros.
Entry2(o, rdy) ==
  /\ dst = "G2_ENT" /\ Plain(o, rdy)
  /\ dec_error' = (IF Fits2(d.wire) THEN {} ELSE {"group"})
                  \cup (IF g_idx < d.wire.n2 /\ g_idx + 1 \in d.wire.badRefs
                        THEN {"ref"} ELSE {})
  /\ Goes(IF Fits2(d.wire) /\ g_idx < d.wire.n2 THEN "PUSH" ELSE "DONE")
  /\ UNCHANGED <<dec_sel, d, g_idx, g1_mode, r_idx, p_n, p_off, p_cnt>>

\* Mutant of LastRecord: the last price of a message that has orders too.
LastRecord_Group == g_idx + 1 >= (IF g1_mode THEN d.wire.n1 ELSE d.wire.n2)
LastRecord == IF g1_mode THEN d.wire.tpl # 46 /\ g_idx + 1 >= d.wire.n1
              ELSE g_idx + 1 >= d.wire.n2

\* DS_PUSH: a word per cycle while there is room; the last one of a message
\* frees its buffer.
Push(o, rdy) ==
  /\ dst = "PUSH" /\ Room /\ r_idx < Rlen /\ NoError
  /\ PushWord(rdy, Word(RecNo, r_idx, r_idx = Rlen - 1))
  /\ IF r_idx = Rlen - 1 /\ LastRecord
     THEN r_idx' = 0 /\ g_idx' = g_idx + 1 /\ Frees(o) /\ Goes("IDLE")
     ELSE r_idx' = r_idx + 1 /\ Keeps(o) /\ UNCHANGED <<g_idx, dst>>
  /\ UNCHANGED <<dec_sel, d, g1_mode, p_n, p_off, p_cnt>>

Pushed(o, rdy) ==
  /\ dst = "PUSH" /\ Room /\ r_idx = Rlen /\ Plain(o, rdy) /\ NoError
  /\ r_idx' = 0 /\ g_idx' = g_idx + 1
  /\ Goes(IF g1_mode THEN "G1_ENT" ELSE "G2_ENT")
  /\ UNCHANGED <<dec_sel, d, g1_mode, p_n, p_off, p_cnt>>

\* DS_PASS: two words of header, and the body byte by byte.
PassEmpty == d.wire.size = MSG_PREFIX
Pass(o, rdy) ==
  /\ dst = "PASS" /\ Room /\ Keeps(o) /\ NoError
  /\ \/ /\ p_n = 0 /\ p_n' = 1
        /\ PushWord(rdy, Word(1, 0, FALSE))
        /\ UNCHANGED <<dst, p_off, p_cnt>>
     \/ /\ p_n = 1 /\ p_n' = (IF PassEmpty THEN 3 ELSE 2)
        /\ PushWord(rdy, Word(1, 1, PassEmpty))
        /\ p_off' = MSG_PREFIX /\ p_cnt' = 0
        /\ Same(dst)
     \/ /\ p_n = 2 /\ p_n' = (IF LastByte THEN 3 ELSE 2)
        /\ IF WordDone
           THEN PushWord(rdy, Word(1, 2 + (p_off - MSG_PREFIX) \div 4, LastByte))
           ELSE NoPush(rdy)
        /\ p_off' = p_off + 1 /\ p_cnt' = (IF WordDone THEN 0 ELSE p_cnt + 1)
        /\ Same(dst)
     \/ /\ p_n = 3 /\ NoPush(rdy) /\ Goes("DONE")
        /\ UNCHANGED <<p_n, p_off, p_cnt>>
  /\ UNCHANGED <<dec_sel, d, g_idx, g1_mode, r_idx>>

Full(o, rdy) ==
  /\ dst \in {"PUSH", "PASS"} /\ ~Room /\ Plain(o, rdy) /\ NoError
  /\ UNCHANGED decodeVars

Done(o, rdy) ==
  /\ dst = "DONE" /\ Frees(o) /\ Goes("IDLE") /\ NoPush(rdy) /\ NoError
  /\ UNCHANGED <<dec_sel, d, g_idx, g1_mode, r_idx, p_n, p_off, p_cnt>>

Decode(o, rdy) ==
  \/ Idle(o, rdy) \/ Header(o, rdy) \/ Root(o, rdy)
  \/ Group1(o, rdy) \/ Entry1(o, rdy) \/ Dim2(o, rdy) \/ Entry2(o, rdy)
  \/ Push(o, rdy) \/ Pushed(o, rdy) \/ Pass(o, rdy) \/ Full(o, rdy) \/ Done(o, rdy)

(***************************************************************************)
(* The specification                                                       *)
(***************************************************************************)
NoPacket == [seq |-> 0, msgs |-> <<>>, size |-> 1, badBeat |-> 0]

Init ==
  /\ tx = [pk |-> NoPacket, n |-> 0, pos |-> 1]
  /\ tready = FALSE /\ qavail = 0 /\ pkt_end = FALSE
  /\ cst = "HDR" /\ hdr_pos = 0 /\ gap_check = FALSE /\ first_pkt = FALSE
  /\ wait_hdr = FALSE /\ exp_seq = 0
  /\ cap_sel = 0 /\ cap_len = 0 /\ skip_left = 0 /\ cap = Stray
  /\ mbuf = [s \in 0..1 |-> Stray] /\ occ = [s \in 0..1 |-> FALSE]
  /\ dst = "IDLE" /\ dec_sel = 0 /\ d = Stray
  /\ g_idx = 0 /\ g1_mode = FALSE /\ r_idx = 0
  /\ p_n = 0 /\ p_off = 0 /\ p_cnt = 0
  /\ f_mem = <<>> /\ f_cnt = 0 /\ out = [valid |-> FALSE, word |-> NoWord]
  /\ gap = FALSE /\ cap_error = {} /\ dec_error = {}

\* One clock cycle with what the sender offers and the consumer's tready.
Cycle(o, rdy) ==
  Send(o) /\ Capture(o) /\ Decode(o, rdy) /\ Count(rdy) /\ Emit(rdy)

Next == \E o \in Offers, rdy \in BOOLEAN : Cycle(o, rdy)

Spec == Init /\ [][Next]_vars

=============================================================================
