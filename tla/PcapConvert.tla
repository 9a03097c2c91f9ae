---------------------------- MODULE PcapConvert ----------------------------
(***************************************************************************)
(* scripts/binaryfile_to_pcap.py: the messages of a BinaryFILE are packed  *)
(* into MoldUDP64 datagrams; and golden_model/src/message_oracle.py, which *)
(* reads the datagrams back and says which registers the parser in         *)
(* hardware owes.  A message is known by its position in the file.         *)
(***************************************************************************)
EXTENDS ItchFile

None == -1
MoldHeader == 20

VARIABLES
  args,        \* [limit, maxPayload, perPacket, ...]: arguments of convert
  file,        \* the BinaryFILE that is read
  conv,        \* "waiting", "running", "done" or "failed"
  taken,       \* messages that were taken from the file
  group,       \* the messages of the datagram that is being filled
  groupLen,    \* their framed bytes
  seq,
  pcap,        \* the datagrams written: [seq, msgs]
  oracle,      \* "waiting", "running", "done" or "failed"
  packet,      \* the datagram that the oracle reads, counted from 1
  heard,       \* messages of it that it walked
  walked,      \* messages that it walked in all
  globalIdx,
  registers    \* the registers it yielded: [idx, type, loc]

pcapVars == <<args, file, conv, taken, group, groupLen, seq, pcap, oracle,
              packet, heard, walked, globalIdx, registers>>
OracleVars == <<oracle, packet, heard, walked, globalIdx, registers>>

PInit ==
  /\ conv = "waiting" /\ taken = 0 /\ group = <<>> /\ groupLen = 0
  /\ seq = 1 /\ pcap = <<>>
  /\ oracle = "waiting" /\ packet = 1 /\ heard = 0 /\ walked = 0
  /\ globalIdx = 0 /\ registers = <<>>

DeclOf(i) == file.items[i].decl
Framed(i) == DeclOf(i) + 2

(***************************************************************************)
(* convert                                                                 *)
(***************************************************************************)
Begin ==
  /\ conv = "waiting" /\ conv' = "running"
  /\ UNCHANGED <<args, file, taken, group, groupLen, seq, pcap, OracleVars>>

Turn == IF conv = "running" THEN Split(file, taken) ELSE "nothing"

\* max_messages is looked at only once one more message was read.
AtLimit == args.limit # None /\ taken >= args.limit

\* What flush() makes of the capture and the sequence number.
Written ==
  [pcap |-> IF group = <<>> THEN pcap
            ELSE Append(pcap, [seq |-> seq, msgs |-> group]),
   seq |-> seq + Len(group)]

\* The next message does not go into the group.
Over(i) ==
  \/ groupLen + MoldHeader + Framed(i) > args.maxPayload
  \/ args.perPacket # None /\ Len(group) >= args.perPacket

TooLong(i) == Framed(i) > args.maxPayload

Pack ==
  /\ Turn = "message" /\ ~AtLimit /\ ~TooLong(taken + 1)
  /\ taken' = taken + 1
  /\ IF group # <<>> /\ Over(taken + 1)
     THEN /\ pcap' = Written.pcap /\ seq' = Written.seq
          /\ group' = <<taken + 1>> /\ groupLen' = Framed(taken + 1)
     ELSE /\ group' = Append(group, taken + 1)
          /\ groupLen' = groupLen + Framed(taken + 1)
          /\ UNCHANGED <<pcap, seq>>
  /\ UNCHANGED <<args, file, conv, OracleVars>>

\* Mutant of Rest: the last group is not flushed.
Rest_Dropped == UNCHANGED <<pcap, seq>>
Rest == pcap' = Written.pcap /\ seq' = Written.seq

Finish ==
  /\ Turn = "end" \/ (Turn = "message" /\ AtLimit)
  /\ Rest
  /\ group' = <<>> /\ conv' = "done"
  /\ UNCHANGED <<args, file, taken, groupLen, OracleVars>>

\* OversizedMessageError, or the file ends within a message: the group that
\* was being filled is lost.
Raise ==
  /\ Turn = "truncated" \/ (Turn = "message" /\ ~AtLimit /\ TooLong(taken + 1))
  /\ conv' = "failed"
  /\ UNCHANGED <<args, file, taken, group, groupLen, seq, pcap, OracleVars>>

(***************************************************************************)
(* iter_pcap_packets and iter_message_records                              *)
(***************************************************************************)
SubsetTypes == {"S", "R", "C", "F", "D", "E", "X", "U", "A", "P"}

Listen ==
  /\ conv \in {"done", "failed"} /\ oracle = "waiting"
  /\ oracle' = "running"
  /\ UNCHANGED <<args, file, conv, taken, group, groupLen, seq, pcap, packet,
                 heard, walked, globalIdx, registers>>

Heard == file.items[pcap[packet].msgs[heard + 1]]
Sound == /\ Heard.decl > 0
         /\ Heard.msg.type \in DOMAIN Length
         /\ Heard.decl = Length[Heard.msg.type]

\* Mutant of Counts: only the messages of the subset are counted.
Counts_Subset(type) == type \in SubsetTypes
Counts(type) == TRUE

Reading == oracle = "running" /\ packet <= Len(pcap)

Hear ==
  /\ Reading /\ heard < Len(pcap[packet].msgs)
  /\ IF Sound
     THEN /\ heard' = heard + 1 /\ walked' = walked + 1
          /\ globalIdx' = IF Counts(Heard.msg.type) THEN globalIdx + 1 ELSE globalIdx
          /\ registers' = IF Heard.msg.type \in SubsetTypes
                          THEN Append(registers, [idx |-> globalIdx,
                                                  type |-> Heard.msg.type,
                                                  loc |-> Heard.msg.loc])
                          ELSE registers
          /\ UNCHANGED oracle
     ELSE oracle' = "failed" /\ UNCHANGED <<heard, walked, globalIdx, registers>>
  /\ UNCHANGED <<args, file, conv, taken, group, groupLen, seq, pcap, packet>>

NextPacket ==
  /\ Reading /\ heard = Len(pcap[packet].msgs)
  /\ packet' = packet + 1 /\ heard' = 0
  /\ UNCHANGED <<args, file, conv, taken, group, groupLen, seq, pcap, oracle,
                 walked, globalIdx, registers>>

Heed ==
  /\ oracle = "running" /\ packet > Len(pcap)
  /\ oracle' = "done"
  /\ UNCHANGED <<args, file, conv, taken, group, groupLen, seq, pcap, packet,
                 heard, walked, globalIdx, registers>>

PNext == Begin \/ Pack \/ Finish \/ Raise \/ Listen \/ Hear \/ NextPacket
         \/ Heed

(***************************************************************************)
(* Properties                                                              *)
(***************************************************************************)
\* test_pca03: the sequence number of a datagram is one more than the number
\* of messages in the datagrams before it, whatever closed them.
SequenceContiguous ==
  \A i \in 1..Len(pcap) :
    /\ pcap[i].seq = IF i = 1 THEN 1
                     ELSE pcap[i - 1].seq + Len(pcap[i - 1].msgs)
    /\ pcap[i].msgs # <<>>

\* The messages that are in the datagrams.
InCapture == IF pcap = <<>> THEN 0
             ELSE pcap[Len(pcap)].seq - 1 + Len(pcap[Len(pcap)].msgs)

\* binaryfile_to_pcap.py:18-20: the datagrams carry the messages of the file
\* in its order, each once, under their numbers; all of them up to the limit if
\* convert returned, and the messages before an unfinished group if it raised.
CaptureIsPrefix ==
  /\ \A i \in 1..Len(pcap) :
       \A k \in 1..Len(pcap[i].msgs) : pcap[i].msgs[k] = pcap[i].seq - 1 + k
  /\ InCapture + Len(group) = taken
  /\ conv = "done" =>
       taken = IF args.limit # None /\ args.limit < Len(file.items)
               THEN args.limit ELSE Len(file.items)

\* The framed bytes of some messages.
Bytes(msgs) ==
  LET upTo[n \in 0..Len(msgs)] ==
        IF n = 0 THEN 0 ELSE upTo[n - 1] + Framed(msgs[n])
  IN upTo[Len(msgs)]
PayloadOf(d) == MoldHeader + Bytes(d.msgs)

\* test_pca02: a datagram of several messages keeps to max_payload.  The
\* header of a datagram with a single message may exceed it: only the message
\* was compared with the maximum.
PayloadBounded ==
  \A i \in 1..Len(pcap) :
    \/ PayloadOf(pcap[i]) <= args.maxPayload
    \/ /\ Len(pcap[i].msgs) = 1
       /\ PayloadOf(pcap[i]) <= args.maxPayload + MoldHeader

\* The capture is the file: nothing lost, doubled, reordered or misnumbered,
\* in datagrams of the size that was asked for.
CaptureExact == CaptureIsPrefix /\ SequenceContiguous /\ PayloadBounded

=============================================================================
