----------------------------- MODULE Mdp3Stream -----------------------------
(***************************************************************************)
(* What the consumer of rtl/parser/mdp3_parser.sv is owed for the packets  *)
(* that were sent: Mdp3Parser with the messages captured, the words of     *)
(* Annex M that are still to come for them, and the errors of a packet.    *)
(***************************************************************************)
EXTENDS Mdp3Parser, FiniteSets

VARIABLES
  owed,   \* messages captured that have words to come, in order
  paid,   \* words of the first of them that the consumer took
  taken,  \* numbers of the messages captured of the packet, in order
  blame,  \* causes of the capture errors of the packet
  before, \* the packet before: its number, and whether it was well-formed
  gapped  \* gap_detected went up for the packet

history == <<owed, paid, taken, blame, before, gapped>>
hvars == <<vars, history>>

(***************************************************************************)
(* The reference: golden_model/mdp3/codec.py                               *)
(***************************************************************************)
\* Lengths of the records of a message: none of a group that does not fit.
Records(m) ==
  IF ~Subset(m) THEN <<2 + (m.size - MSG_PREFIX + 3) \div 4>>
  ELSE IF ~Fits1(m) THEN <<>>
  ELSE [i \in 1..(m.n1 + (IF m.tpl = 46 /\ Fits2(m) THEN m.n2 ELSE 0)) |->
          RecordWords(m.tpl, i <= m.n1)]

\* Word i of record r of a message, those of the record, and those of all.
WordOf(c, r, i) == [n |-> c.n, j |-> c.j, rec |-> r, idx |-> i - 1,
                    last |-> i = Records(c.wire)[r]]
RecordAt(c, r) == [i \in 1..Records(c.wire)[r] |-> WordOf(c, r, i)]

Words(c) ==
  LET upto[r \in 0..Len(Records(c.wire))] ==
        IF r = 0 THEN <<>> ELSE upto[r - 1] \o RecordAt(c, r)
  IN upto[Len(Records(c.wire))]

\* A message that is wholly in the packet and can be one.
Sound(p, j) == /\ ~BadSize(p.msgs[j].size)
               /\ Begin(p, j) + p.msgs[j].size <= p.size

\* Messages from the first that follow one another without a defect.
Leading(p) == {j \in 1..Len(p.msgs) : \A i \in 1..j : Sound(p, i)}
WellFormed(p) == /\ p.badBeat = 0 /\ Leading(p) = 1..Len(p.msgs)
                 /\ p.size = Begin(p, Len(p.msgs) + 1)

(***************************************************************************)
(* History                                                                 *)
(***************************************************************************)
Captured(o) == IF Filled(o) = {} THEN <<>> ELSE <<cap>>
FirstBeat(o) == Take(o) /\ o.pos = 0

Record(o, rdy) ==
  LET news == IF Words(cap) = <<>> THEN <<>> ELSE Captured(o)
      whole == Pop(rdy) /\ paid + 1 = Len(Words(Head(owed)))
  IN /\ owed' = (IF whole THEN Tail(owed) ELSE owed) \o news
     /\ paid' = IF whole THEN 0 ELSE IF Pop(rdy) THEN paid + 1 ELSE paid
     /\ taken' = (IF FirstBeat(o) THEN <<>> ELSE taken)
                 \o [i \in 1..Len(Captured(o)) |-> cap.j]
     /\ blame' = (IF FirstBeat(o) THEN {} ELSE blame) \cup cap_error'
     /\ before' = IF FirstBeat(o)
                  THEN [seq |-> tx.pk.seq, ok |-> tx.n > 0 /\ WellFormed(tx.pk)]
                  ELSE before
     /\ gapped' = (gap' \/ (gapped /\ ~FirstBeat(o)))

HInit ==
  /\ Init /\ owed = <<>> /\ paid = 0 /\ taken = <<>> /\ blame = {}
  /\ before = [seq |-> 0, ok |-> FALSE] /\ gapped = FALSE
HCycle(o, rdy) == Cycle(o, rdy) /\ Record(o, rdy)
HNext == \E o \in Offers, rdy \in BOOLEAN : HCycle(o, rdy)

\* The clock runs, the consumer takes the words it is offered, and the sender
\* ends a packet that it began.
Fairness ==
  /\ WF_hvars(\E o \in Offers : HCycle(o, TRUE))
  /\ WF_hvars(\E o \in Offers, rdy \in BOOLEAN :
                o.valid /\ o.pos > 0 /\ HCycle(o, rdy))

HSpec == HInit /\ [][HNext]_hvars /\ Fairness

(***************************************************************************)
(* The traffic                                                             *)
(***************************************************************************)
\* What can be sent: a datagram is no longer than its length field can say, a
\* size field no less than the SBE header that follows it, and a malformed
\* tkeep is in a beat there is.
Sendable(p) ==
  /\ p.size <= 65535
  /\ \A j \in 1..Len(p.msgs) : p.msgs[j].size >= 8 /\ p.msgs[j].size <= 65535
  /\ p.badBeat # 0 => 4 * (p.badBeat - 1) < p.size

\* The bus of 32 bits with such packets.
TrafficFits == DW = 32 /\ \A p \in Packets : Sendable(p)
CleanTraffic == \A p \in Packets : p.badBeat = 0

\* No beat with a malformed tkeep is taken while the capture waits for a
\* buffer: it would go on in one that is full.
KeepsInWait == cst = "WAIT" /\ tready => \A o \in Offers : o.keepOk

(***************************************************************************)
(* Properties                                                              *)
(***************************************************************************)
\* The words counted are the words in the FIFO: push_commit agrees with every
\* state that pushes.
CountExact == f_cnt = Len(f_mem)

TypeOK ==
  /\ CountExact
  /\ tx.n \in 0..MaxPackets /\ tx.pos \in 0..tx.pk.size
  /\ {tready, pkt_end, gap_check, first_pkt, wait_hdr, g1_mode, gap} \subseteq BOOLEAN
  /\ qavail \in 0..(MAX_MSG - 1) /\ hdr_pos \in 0..PKT_HDR
  /\ cst \in {"HDR", "SIZE", "BODY", "SKIP", "WAIT", "DISCARD"}
  /\ {cap_sel, dec_sel} \subseteq 0..1 /\ cap_len \in 0..MAX_MSG
  /\ dst \in {"IDLE", "HDR", "ROOT", "G1", "G1_ENT", "G2_DIM", "G2_ENT", "PUSH",
              "PASS", "DONE"}
  /\ r_idx \in 0..18 /\ p_n \in 0..3 /\ p_off \in 0..MAX_MSG /\ p_cnt \in 0..3
  /\ Len(f_mem) <= FIFO_DEPTH /\ f_cnt \in 0..FIFO_DEPTH

\* A size is looked for only where a message begins or the last one ends, the
\* bytes that a cycle takes go through the 3 * BYTES lanes of the copy, and
\* the decoder works on a message that is still in its buffer.
InStep ==
  /\ cst = "SIZE" =>
       \E j \in 1..(Len(tx.pk.msgs) + 1) : Begin(tx.pk, j) = tx.pos - qavail
  /\ cst = "BODY" => cap_len < CapSize /\ qavail <= 2 * BYTES
  /\ dst \notin {"IDLE", "HDR"} => d = mbuf[dec_sel] /\ occ[dec_sel]

\* The capture never writes a buffer whose message is still to be decoded:
\* what stands between the two processes is occ alone.
SlotFree == cst \in {"HDR", "SIZE", "BODY", "SKIP"} => ~occ[cap_sel]

\* Capture, decoder and the bytes of the packet go together.
InSync == InStep /\ SlotFree

\* The word on the output is the next one of the records that the reference
\* makes of the messages captured, with tlast on the last word of each.
NextRecord ==
  out.valid => owed # <<>> /\ out.word = Words(owed[1])[paid + 1]

\* Nothing is owed for a message that the decoder is through with.
NothingForgotten ==
  (f_mem = <<>> /\ dst = "IDLE" /\ ~occ[0] /\ ~occ[1]) => owed = <<>>

\* The output is the records of the reference, whole, in order and complete.
RecordsInOrder == NextRecord /\ NothingForgotten

\* A packet is over for the capture: its header is looked for, or will be.
Over == /\ tx.n > 0 /\ tx.pos = tx.pk.size /\ ~pkt_end
        /\ cst = "HDR" \/ (cst = "WAIT" /\ wait_hdr)

\* All messages of a well-formed packet are captured without an error.  Of
\* another one those before the first defect are, none twice, and none that
\* is not one.
Judged ==
  Over =>
    /\ \A i \in 1..(Len(taken) - 1) : taken[i] < taken[i + 1]
    /\ \A i \in 1..Len(taken) : Sound(tx.pk, taken[i])
    /\ tx.pk.badBeat = 0 => Leading(tx.pk) \subseteq {taken[i] : i \in 1..Len(taken)}
    /\ WellFormed(tx.pk) => blame = {}
    /\ tx.pk.badBeat # 0 => "keep" \in blame

\* Of two well-formed packets in a row the second one has a gap exactly when
\* its number is not the next.
GapsFound ==
  Over /\ before.ok /\ WellFormed(tx.pk) => (gapped <=> tx.pk.seq # before.seq + 1)

\* Once a packet was sent, the capture gets over it and every word owed is
\* delivered: neither process waits for the other for ever.
AllDelivered == (tx.n > 0 /\ tx.pos = tx.pk.size) ~> (Over /\ owed = <<>>)

=============================================================================
