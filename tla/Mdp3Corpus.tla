----------------------------- MODULE Mdp3Corpus -----------------------------
(***************************************************************************)
(* The golden side of MDP 3.0: the schema is fetched and loaded, packets   *)
(* are built with the codec, and the oracle is what the codec makes of     *)
(* them (golden_model/mdp3/generator.py, class Corpus).  A message is      *)
(* given by what its author means by it:                                   *)
(*   [kind |-> "coded", template, version, values]  for encode_message,    *)
(*   [kind |-> "raw", template, schema, block, body]  for a passthrough.   *)
(***************************************************************************)
EXTENDS Mdp3Codec

CONSTANTS
  Documents,    \* what the XML in a file is, by the file's content
  Messages,     \* the messages that packets are built from
  MaxCalls,     \* bound: calls of fetch
  MaxMessages   \* bound: messages in all packets

VARIABLES
  final, part, step, source, calls,
  schema,      \* the loaded Schema, or NoSchema
  packets, expected,   \* self.packets, self.expected
  file,        \* the packets in the JSON file, or NoFile
  again,       \* the Corpus made by load, or NoCorpus
  sent,        \* history: the messages of each packet
  oracles      \* history: self.expected when the file was saved

Fetch == INSTANCE FetchSchema

fetchState == <<final, part, step, source, calls>>
corpus == <<packets, expected, sent>>
vectors == <<file, again, oracles>>
corpusVars == <<fetchState, schema, corpus, vectors>>

NoSchema == [version |-> 0]
NoFile == <<>>
NoCorpus == [packets |-> NoFile, expected |-> <<>>]

CInit ==
  /\ Fetch!FInit
  /\ schema = NoSchema
  /\ packets = <<>> /\ expected = <<>> /\ sent = <<>>
  /\ file = NoFile /\ again = NoCorpus /\ oracles = <<>>

Obtain == schema = NoSchema /\ Fetch!FNext /\ UNCHANGED <<schema, corpus, vectors>>

\* After a call that ended, or without one, whatever is in the directory is
\* loaded; a cut file is not XML.
LoadSchema ==
  /\ schema = NoSchema
  /\ step \in {"idle", "done", "failed"} /\ final \in DOMAIN Documents
  /\ schema' = Load(Documents[final])
  /\ UNCHANGED <<fetchState, corpus, vectors>>

\* passthrough_message writes its prefix itself.
Raw(m) == MessageHeader(MessagePrefix + Len(m.body), m.block, m.template,
                        m.schema, 0) \o m.body

BytesOf(m) == IF m.kind = "raw" THEN Raw(m)
              ELSE EncodeMessage(schema, m.template, m.values, m.version)

\* The records of a packet: the loop of add_packet and of load.
Expect(packet) ==
  LET pms == Walk(packet)
  IN FlattenSeq([i \in DOMAIN pms |->
       IF pms[i].template \in SubsetTemplates
       THEN AnexoMRecords(pms[i], DecodeMessage(schema, pms[i]))
       ELSE <<Passed(pms[i])>>])

AllSent == FlattenSeq(sent)

\* add_packet; the messages and their order are the author's choice.
AddPacket(ms) ==
  /\ schema # NoSchema /\ Len(AllSent) + Len(ms) <= MaxMessages
  /\ LET packet == EncodePacket(Len(packets) + 1, 7,
                                [i \in DOMAIN ms |-> BytesOf(ms[i])])
     IN /\ packets' = Append(packets, packet)
        /\ expected' = expected \o Expect(packet)
  /\ sent' = Append(sent, ms)
  /\ UNCHANGED <<fetchState, schema, vectors>>

Save ==
  /\ schema # NoSchema /\ packets # <<>> /\ file # packets
  /\ file' = packets /\ oracles' = expected
  /\ UNCHANGED <<fetchState, schema, corpus, again>>

\* The oracle is not in the file: it is made anew.
Rebuilt(ps) == FlattenSeq([i \in DOMAIN ps |-> Expect(ps[i])])

LoadCorpus ==
  /\ file # NoFile /\ again.packets # file
  /\ again' = [packets |-> file, expected |-> Rebuilt(file)]
  /\ UNCHANGED <<fetchState, schema, corpus, file, oracles>>

CNext ==
  \/ Obtain
  \/ LoadSchema
  \/ \E m \in Messages : AddPacket(<<m>>)
  \/ \E m, n \in Messages : AddPacket(<<m, n>>)
  \/ Save
  \/ LoadCorpus

CSpec == CInit /\ [][CNext]_corpusVars

(***************************************************************************)
(* Properties                                                              *)
(***************************************************************************)
\* The same of the composed system.
SchemaSafe == Fetch!SchemaSafe

Latest == Len(packets)
Pms == Walk(packets[Latest])

\* The values that a reader of version v may expect of a message.
Visible(m) ==
  LET msg == schema.messages[m.template]
      Names(fields) == {fields[i].name : i \in {j \in DOMAIN fields :
                                                  fields[j].since <= m.version}}
      Of(fields, values) ==
        [n \in Names(fields) |->
           LET f == CHOOSE g \in Range(fields) : g.name = n
               v == IF n \in DOMAIN values THEN values[n] ELSE 0
           IN IF f.type \in DOMAIN schema.composites
              THEN LET comps == schema.composites[f.type]
                   IN [c \in {comps[i].name : i \in DOMAIN comps} |->
                         LET comp == CHOOSE x \in Range(comps) : x.name = c
                         IN IF comp.constant THEN comp.value ELSE v[c]]
              ELSE v]
      groups == SelectSeq(msg.groups, LAMBDA g : g.since <= m.version)
      Entries(g) == IF g.name \in DOMAIN m.values.groups
                    THEN m.values.groups[g.name] ELSE <<>>
  IN [root |-> Of(msg.fields, m.values.root),
      groups |-> [n \in {groups[i].name : i \in DOMAIN groups} |->
        LET g == CHOOSE h \in Range(groups) : h.name = n
        IN [i \in DOMAIN Entries(g) |-> Of(g.fields, Entries(g)[i])]]]

\* codec.py:3-4 and test_mdp3.py:34-48: what is decoded from a packet is what
\* was encoded into it, message by message, as far as the message's version
\* goes, the constant exponents included; and encoding it again gives the same
\* bytes when the message has the schema's own version.
RoundTrip ==
  Latest > 0 =>
    \A i \in DOMAIN sent[Latest] :
      LET m == sent[Latest][i]
          d == DecodeMessage(schema, Pms[i])
      IN m.kind = "coded" =>
           /\ d = Visible(m)
           /\ m.version = schema.version =>
                EncodeMessage(schema, m.template, d, m.version) = BytesOf(m)

\* test_mdp3.py:184-201: a packet is walked into the messages it was built
\* from, with no byte lost between them, and a message's size is that of its
\* prefix, its root and its groups as the XML gives them.
WalkExact ==
  Latest > 0 =>
    /\ Len(Pms) = Len(sent[Latest])
    /\ FoldLeft(LAMBDA n, pm : n + pm.size, PacketHeader, Pms) = Len(packets[Latest])
    /\ \A i \in DOMAIN Pms :
         LET m == sent[Latest][i]
         IN /\ Pms[i].template = m.template
            /\ Pms[i].body = SubSeq(BytesOf(m), MessagePrefix + 1, Len(BytesOf(m)))
            /\ m.kind = "coded" =>
                 LET msg == schema.messages[m.template]
                 IN Pms[i].size = FoldLeft(
                      LAMBDA n, g : n + DimSize(g) + g.block *
                        (IF g.name \in DOMAIN m.values.groups
                         THEN Len(m.values.groups[g.name]) ELSE 0),
                      MessagePrefix + msg.block, msg.groups)

\* Of the values that were encoded, the entries of a group.
Meant(m, name) ==
  IF m.kind = "coded" /\ name \in DOMAIN m.values.groups
     /\ \E g \in Range(schema.messages[m.template].groups) :
          g.name = name /\ g.since <= m.version
  THEN m.values.groups[name] ELSE <<>>

RecordsOf(m) == IF m.kind = "raw" THEN 1
                ELSE Len(Meant(m, "NoMDEntries")) + Len(Meant(m, "NoOrderIDEntries"))

\* The oracle has a record per entry and per message that is passed, in the
\* order sent.  A record carries the quantity and the order of its entry, and
\* security, side and price of the entry, or of the entry of the same message
\* that the order refers to; an order that refers to none has zeros there.
RecordsMeant ==
  LET First(k) == FoldLeft(LAMBDA n, m : n + RecordsOf(m), 0, SubSeq(AllSent, 1, k - 1))
      Px(e) == [mantissa |-> e.MDEntryPx.mantissa, exponent |-> -9]
  IN /\ Len(expected) = First(Len(AllSent) + 1)
     /\ \A k \in DOMAIN AllSent :
          LET m == AllSent[k]
              es == Meant(m, "NoMDEntries")
              os == Meant(m, "NoOrderIDEntries")
          IN /\ \A i \in DOMAIN es :
                  LET r == expected[First(k) + i]
                  IN /\ r.price = Px(es[i]) /\ r.type = es[i].MDEntryType
                     /\ r.qty = (IF r.kind = "MBP" THEN es[i].MDEntrySize
                                 ELSE es[i].MDDisplayQty)
                     /\ r.security = (IF m.template \in {52, 53}
                                      THEN m.values.root.SecurityID
                                      ELSE es[i].SecurityID)
             /\ \A i \in DOMAIN os :
                  LET r == expected[First(k) + Len(es) + i]
                      known == os[i].ReferenceID < Len(es)
                      e == es[os[i].ReferenceID + 1]
                  IN /\ r.order = os[i].OrderID /\ r.qty = os[i].MDDisplayQty
                     /\ r.ref = os[i].ReferenceID
                     /\ known => /\ r.security = e.SecurityID /\ r.rpt = e.RptSeq
                                 /\ r.type = e.MDEntryType /\ r.price = Px(e)
                     /\ ~known => /\ r.security = 0 /\ r.rpt = 0 /\ r.type = 0
                                  /\ r.price = [mantissa |-> 0, exponent |-> 0]

\* A packet that is cut anywhere is walked into messages that it really holds
\* and at most one that says that something is missing; the oracle of the cut
\* packet invents nothing.
CutIsPrefix ==
  Latest > 0 =>
    LET pms == Pms IN
    \A n \in PacketHeader..(Len(packets[Latest]) - 1) :
      LET cut == Walk(SubSeq(packets[Latest], 1, n))
          whole == IF cut # <<>> /\ cut[Len(cut)].block = 0 /\ cut[Len(cut)].body = <<>>
                      /\ cut[Len(cut)].template = 0
                   THEN SubSeq(cut, 1, Len(cut) - 1) ELSE cut
      IN IsPrefix(whole, pms) /\ Len(whole) < Len(pms)

\* generator.py:182-202: a corpus that is read back has the packets that were
\* saved, whatever was added since, and the oracle that they had then.
LoadRebuilds ==
  again # NoCorpus =>
    /\ IsPrefix(again.packets, packets)
    /\ IsPrefix(again.expected, expected)
    /\ again.packets = file => again.expected = oracles

\* A packet is walked into its messages, whole or cut.
PacketsWalk == WalkExact /\ CutIsPrefix

\* The oracle says what was meant, also when it is made anew from the file.
OracleMeant == RecordsMeant /\ LoadRebuilds

=============================================================================
