----------------------------- MODULE ItchStream -----------------------------
(***************************************************************************)
(* What the consumer of rtl/parser/itch_parser sees of the datagrams that  *)
(* were sent: ItchParser with the history of both ports, and what          *)
(* golden_model/src/message_oracle.py makes of the same datagrams.         *)
(***************************************************************************)
EXTENDS ItchParser, FiniteSets

VARIABLES
  taken,       \* words that the consumer took, in order
  sent,        \* datagrams whose first beat was taken, in order
  errors       \* numbers of the datagrams that an error pulse was raised for

hvars == <<vars, taken, sent, errors>>

Record(o, rdy) ==
  /\ taken' = IF OutTake(rdy) THEN Append(taken, out.word) ELSE taken
  /\ sent' = IF Take(o) /\ o.pos = 0
             THEN Append(sent, [dg |-> o.dg, seq |-> o.seq]) ELSE sent
  /\ errors' = IF error' THEN errors \cup {tx'.n} ELSE errors

HInit == Init /\ taken = <<>> /\ sent = <<>> /\ errors = {}
HCycle(o, rdy) == Cycle(o, rdy) /\ Record(o, rdy)
HNext == \E o \in Offers, rdy \in Readiness : HCycle(o, rdy)

\* The clock runs, the sender ends a datagram that it began, the consumer
\* takes the words it is offered.
Fairness ==
  /\ WF_hvars(HNext)
  /\ WF_hvars(\E o \in Offers, rdy \in Readiness :
                o.valid /\ o.pos > 0 /\ HCycle(o, rdy))
  /\ WF_hvars(\E o \in Offers, rdy \in Readiness : rdy /\ HCycle(o, rdy))

HSpec == HInit /\ [][HNext]_hvars /\ Fairness

(***************************************************************************)
(* The oracle                                                              *)
(***************************************************************************)
\* A datagram that is what its header says.
WellFormed(d) ==
  /\ d.count = Len(d.msgs) /\ d.size = Whole(d) /\ d.badBeat = 0
  /\ \A j \in 1..Len(d.msgs) : d.msgs[j].len >= CommonHeader /\ LengthOk(d.msgs[j])

\* The words of the register of message j, if it has one.
LastK(m) == 1 + BodyWords(m)
MessageWords(n, d, j) ==
  IF Emits(d.msgs[j])
  THEN [i \in 1..(LastK(d.msgs[j]) + 1) |-> [n |-> n, j |-> j, k |-> i - 1]]
  ELSE <<>>

\* iter_message_records: the words of the registers of the first messages of a
\* datagram, and those of all.
OracleWords(n, d, upto) ==
  LET of[j \in 0..Len(d.msgs)] ==
        IF j = 0 THEN <<>> ELSE of[j-1] \o MessageWords(n, d, j)
  IN of[upto]
RegisterWords(n, d) == OracleWords(n, d, Len(d.msgs))

(***************************************************************************)
(* The traffic                                                             *)
(***************************************************************************)
\* The datagrams that the parser keeps its place in.  One whose header
\* declares more messages than there are ends with the last of them at the
\* latest.  Of a message to skip that the header counts: no beat that there is
\* room for ends beyond it; the datagram does not end inside of it once its
\* length is there; and if it is the last one, nothing follows.
Frameable(d) ==
  /\ d.count > Len(d.msgs) => d.size <= Whole(d)
  /\ \A j \in 1..Len(d.msgs) : j <= d.count /\ Oversize(d.msgs[j].len) =>
       /\ \A e \in (Begin(d, j + 1) + 1)..(Begin(d, j) + QBUFW) :
            e <= d.size => e % BYTES # 0 /\ e # d.size
       /\ d.size <= Begin(d, j) + 1 \/ d.size >= Begin(d, j + 1)
       /\ j = d.count => d.size <= Begin(d, j + 1)

\* The idle bus shows no bytes.
TrafficFits ==
  /\ IdleKeeps \subseteq {0}
  /\ \A d \in Datagrams : Frameable(d)

\* What the parser does not look at is as it should be: the last message
\* begins inside of the datagram, the beat with the malformed tkeep is one of
\* its beats, and a message to skip has the length of its type, which only the
\* bytes behind its length would tell.
Meant(d) ==
  /\ d.msgs # <<>> => d.size > Begin(d, Len(d.msgs))
  /\ d.badBeat # 0 => (d.badBeat - 1) * BYTES < d.size
  /\ \A j \in 1..Len(d.msgs) : Oversize(d.msgs[j].len) => LengthOk(d.msgs[j])

TrafficMeant == \A d \in Datagrams : Meant(d)

\* Every message that has a register fits in the queue: "the queue worst case
\* (P=44 B => 46 B with prefix) fits with margin" (itch_parser.sv:31-32).
RegistersFit == \A m \in Wire : Emits(m) => ~Oversize(m.len)

\* What is longer than the queue is longer than the queue with its margin: it
\* is never there as a whole, and skipped whenever it comes.
SkippedSurely ==
  \A d \in Datagrams : \A j \in 1..Len(d.msgs) :
    Oversize(d.msgs[j].len) => 2 + d.msgs[j].len > QBUFW

(***************************************************************************)
(* Properties                                                              *)
(***************************************************************************)
TypeOK ==
  /\ tx.pos \in 0..tx.dg.size
  /\ st \in {"HDR", "LEN", "CAP", "W0", "TS", "BODY", "NEXT", "DRAIN"}
  /\ qn \in 0..QBUFW
  /\ dropLeft \in 0..511
  /\ msgIdx \in Nat /\ bi \in Nat /\ packLeft \in Nat
  /\ eopSeen \in BOOLEAN /\ dropPacket \in BOOLEAN
  /\ gap \in BOOLEAN /\ error \in BOOLEAN

\* The byte at which the message after the ones of this datagram that are
\* done begins.
Done == packCount - packLeft
NextBegin == Begin(tx.dg, Done + 1)

\* Of a message that does not fit, what was read is discarded "and only the
\* missing bytes are counted" (itch_parser.sv:417-418): the bytes still to skip
\* are those up to its end.
OnlyMissingBytes ==
  st = "DRAIN" => Front + dropLeft = NextBegin + 2 + tx.dg.msgs[Done + 1].len

\* Framing: the parser looks for a header at the first byte of a datagram and
\* for a message where one begins, whatever was captured, drained or skipped
\* before, and however the beats cut it.
Framed ==
  /\ OnlyMissingBytes
  /\ st = "HDR" /\ qn > 0 => Front = 0
  /\ st = "HDR" /\ qn = 0 /\ ~dropPacket => tx.pos \in {0, tx.dg.size}
  /\ st = "LEN" => Front = NextBegin
  /\ st = "CAP" /\ qn > 0 => Front = NextBegin

\* The words so far, the one on the port included, without their index.
Ids(words) == [i \in DOMAIN words |-> [n |-> words[i].n, j |-> words[i].j, k |-> words[i].k]]
Shown == Ids(taken) \o Ids(IF out.valid THEN <<out.word>> ELSE <<>>)
OfDatagram(words, n) ==
  LET of[i \in 0..Len(words)] ==
        IF i = 0 THEN <<>>
        ELSE IF words[i].n = n THEN Append(of[i-1], words[i])
        ELSE of[i-1]
  IN of[Len(words)]
PrefixOf(s, t) == Len(s) <= Len(t) /\ s = SubSeq(t, 1, Len(s))

\* The words of a datagram are the oracle's, each once and in order, however
\* the consumer stalls; those of a datagram that is not well formed are an
\* initial part that ends with a whole register; and they are all out when
\* the parser is done with the datagram.
WordsMatch ==
  /\ \A n \in 1..Len(sent) :
       LET words == OfDatagram(Shown, n)
           want == RegisterWords(n, sent[n].dg)
           over == n < tx.n \/ (st = "HDR" /\ qn = 0 /\ ~dropPacket)
       IN /\ PrefixOf(words, want)
          /\ over => IF WellFormed(sent[n].dg) THEN words = want
                     ELSE words = <<>> \/ Len(words) = Len(want)
                          \/ want[Len(words) + 1].k = 0
  /\ \A i \in 1..(Len(Shown) - 1) : Shown[i].n <= Shown[i+1].n

\* The index in a register is the number of messages before it that fit in
\* the queue, those without a register included.  (The oracle counts the
\* skipped ones too.)
Fitting(d, upto) == Cardinality({j \in 1..upto : ~Oversize(d.msgs[j].len)})
IndexAfter(dgs, upto) ==
  LET of[n \in 0..Len(dgs)] ==
        IF n = 0 THEN 0 ELSE of[n-1] + Fitting(dgs[n].dg, Len(dgs[n].dg.msgs))
  IN of[upto]
IndexCounts ==
  LET w == out.word
  IN out.valid /\ (\A n \in 1..Len(sent) : WellFormed(sent[n].dg))
       => w.idx = IndexAfter(sent, w.n - 1) + Fitting(sent[w.n].dg, w.j - 1)

\* The registers are the oracle's in their words and, but for the messages
\* that were skipped, in their index.
Registers == WordsMatch /\ IndexCounts

\* The error pulse tells well-formed datagrams from the others.
Judged ==
  \A n \in 1..Len(sent) :
    /\ n \in errors => ~WellFormed(sent[n].dg)
    /\ (n < tx.n \/ (st = "HDR" /\ qn = 0 /\ ~dropPacket)) /\ n \notin errors
         => WellFormed(sent[n].dg)

\* A gap is signalled for the header of a datagram exactly when its sequence
\* number is not the one that the well-formed datagram before it leads to.
GapsFound ==
  [][st = "HDR" /\ st' = "LEN" /\ tx.n > 1 /\ WellFormed(sent[tx.n - 1].dg) =>
       LET before == sent[tx.n - 1]
           now == sent[tx.n]
       IN gap' <=> /\ now.dg.sess = before.dg.sess
                   /\ now.seq # before.seq + Len(before.dg.msgs)]_hvars

\* Every datagram is taken to its last byte and the parser is ready for the
\* next: no message waits for room that the queue does not have.
EveryDatagramEnds ==
  \A n \in 1..MaxDatagrams :
    tx.n = n ~> (tx.n > n \/ (st = "HDR" /\ qn = 0 /\ tx.pos = tx.dg.size))

=============================================================================
