----------------------------- MODULE Mdp3Codec -----------------------------
(***************************************************************************)
(* golden_model/mdp3/codec.py: messages and packets of MDP 3.0 as bytes,   *)
(* and the records of Annex M.  Bytes are numbers 0..255; an object of one *)
(* byte, which is what a char is read as, is its number.  The words of a   *)
(* record are its fields, reduced to the width they have in the word.      *)
(***************************************************************************)
EXTENDS Mdp3Schema, FiniteSetsExt

PacketHeader == 12
MessagePrefix == 10
SchemaId == 1

(***************************************************************************)
(* Values                                                                  *)
(***************************************************************************)
\* Little-endian digits, two's complement for negative numbers.
Digits(v, size) ==
  LET rest[i \in 1..size] == IF i = 1 THEN v ELSE rest[i - 1] \div 256
  IN [i \in 1..size |-> rest[i] % 256]

Number(bytes, signed) ==
  LET n == Len(bytes)
      top == IF n > 0 /\ signed /\ bytes[n] > 127 THEN -1 ELSE 0
  IN FoldRight(LAMBDA b, m : 256 * m + b, bytes, top)

\* buf[from:from + n] of Python: what lies outside is left out.
Slice(buf, from, n) ==
  SubSeq(buf, from + 1, IF from + n < Len(buf) THEN from + n ELSE Len(buf))

EncodePrimitive(primitive, v) == Digits(v, PrimitiveSize[primitive])
DecodePrimitive(primitive, buf, offset) ==
  Number(Slice(buf, offset, PrimitiveSize[primitive]), primitive \in SignedTypes)

PrimitiveOf(s, type) ==
  IF type \in DOMAIN s.enums THEN s.enums[type]
  ELSE IF type \in DOMAIN s.sets THEN s.sets[type]
  ELSE s.types[type].primitive

\* A composite's value is a record of its components.
EncodeValue(s, type, v) ==
  IF type \in DOMAIN s.composites
  THEN FlattenSeq([i \in DOMAIN Emitted(s.composites[type]) |->
         LET c == Emitted(s.composites[type])[i]
         IN EncodePrimitive(c.primitive, v[c.name])])
  ELSE EncodePrimitive(PrimitiveOf(s, type), v)

DecodeValue(s, type, buf, offset) ==
  IF type \in DOMAIN s.composites
  THEN LET comps == s.composites[type]
           Before(i) == SizeOfAll(Emitted(SubSeq(comps, 1, i - 1)))
       IN [n \in {comps[i].name : i \in DOMAIN comps} |->
             LET i == CHOOSE j \in DOMAIN comps : comps[j].name = n
             IN IF comps[i].constant THEN comps[i].value
                ELSE DecodePrimitive(comps[i].primitive, buf, offset + Before(i))]
  ELSE IF type \in DOMAIN s.types /\ s.types[type].constant
  THEN s.types[type].value
  ELSE DecodePrimitive(PrimitiveOf(s, type), buf, offset)

(***************************************************************************)
(* Encoding                                                                *)
(***************************************************************************)
Zeros(n) == [i \in 1..n |-> 0]

\* target[offset:offset + len(v)] = v, which grows target where it must.
PutAt(target, offset, v) ==
  Slice(target, 0, offset) \o v
  \o Slice(target, offset + Len(v), Len(target))

\* The fields of a block.  Fields newer than the version are not written, nor
\* is a field of the root that has no value.
EncodeBlock(s, fields, size, values, version) ==
  LET written == SelectSeq(fields, LAMBDA f : f.since <= version
                                              /\ f.name \in DOMAIN values)
  IN FoldLeft(LAMBDA block, f : PutAt(block, f.offset,
                                      EncodeValue(s, f.type, values[f.name])),
              Zeros(size), written)

CountAt(g) == IF g.dimension = "groupSize8Byte" THEN 7 ELSE 2

EncodeDim(g, n) ==
  PutAt(PutAt(Zeros(DimSize(g)), 0, Digits(g.block, 2)), CountAt(g), <<n>>)

\* Every group is written, whichever version it is since.
EncodeGroup(s, g, entries, version) ==
  EncodeDim(g, Len(entries))
  \o FlattenSeq([i \in DOMAIN entries |->
       EncodeBlock(s, g.fields, g.block, entries[i], version)])

MessageHeader(size, block, template, schema, version) ==
  Digits(size, 2) \o Digits(block, 2) \o Digits(template, 2)
  \o Digits(schema, 2) \o Digits(version, 2)

\* Mutant of Declared: the prefix is not counted.
Declared_Body(body) == Len(body)
Declared(body) == MessagePrefix + Len(body)

\* encode_message; values is [root, groups].
EncodeMessage(s, template, values, version) ==
  LET msg == s.messages[template]
      Entries(g) == IF g.name \in DOMAIN values.groups
                    THEN values.groups[g.name] ELSE <<>>
      body == EncodeBlock(s, msg.fields, msg.block, values.root, version)
              \o FlattenSeq([i \in DOMAIN msg.groups |->
                   EncodeGroup(s, msg.groups[i], Entries(msg.groups[i]), version)])
  IN MessageHeader(Declared(body), msg.block, template, SchemaId, version)
     \o body

EncodePacket(seq, sendingTime, msgs) ==
  Digits(seq, 4) \o Digits(sendingTime, 8) \o FlattenSeq(msgs)

(***************************************************************************)
(* Decoding                                                                *)
(***************************************************************************)
U16(buf, offset) == Number(Slice(buf, offset, 2), FALSE)

\* The walk cannot go on behind the size at off.
Ends(packet, off) ==
  \/ U16(packet, off) < MessagePrefix
  \/ off + U16(packet, off) > Len(packet)

\* iter_packet_messages: a size that cannot be gives one message of nothing.
Walk(packet) ==
  LET from[off \in Nat] ==
        IF off + 2 > Len(packet) THEN <<>>
        ELSE LET size == U16(packet, off)
             IN IF Ends(packet, off)
                THEN <<[size |-> size, block |-> 0, template |-> 0, schema |-> 0,
                        version |-> 0, body |-> <<>>]>>
                ELSE <<[size |-> size, block |-> U16(packet, off + 2),
                        template |-> U16(packet, off + 4),
                        schema |-> U16(packet, off + 6),
                        version |-> U16(packet, off + 8),
                        body |-> Slice(packet, off + MessagePrefix,
                                       size - MessagePrefix)]>>
                     \o from[off + size]
  IN from[PacketHeader]

DecodeBlock(s, fields, size, buf, base, version) ==
  LET present == {i \in DOMAIN fields :
                    /\ fields[i].since <= version
                    /\ fields[i].offset + FieldSize(s, fields[i]) <= size}
  IN [n \in {fields[i].name : i \in present} |->
        LET f == fields[CHOOSE i \in present : fields[i].name = n]
        IN DecodeValue(s, f.type, buf, base + f.offset)]

\* Mutant of NextBase: the dimension is not stepped over.
NextBase_Entries(base, g, n) == base + n * g.block
NextBase(base, g, n) == base + DimSize(g) + n * g.block

\* One group at acc.base; entries that do not fit the body are left out.
DecodeGroup(s, pm, acc, g) ==
  IF g.since > pm.version THEN acc
  ELSE IF acc.base + DimSize(g) > Len(pm.body)
  THEN [base |-> NextBase(acc.base, g, 0), groups |-> acc.groups @@ (g.name :> <<>>)]
  ELSE LET start == acc.base + DimSize(g)
           fits == (Len(pm.body) - start) \div g.block
           num == pm.body[acc.base + CountAt(g) + 1]
           n == IF num < fits THEN num ELSE fits
           entries == [i \in 1..n |->
             DecodeBlock(s, g.fields, g.block, pm.body, start + (i - 1) * g.block,
                         pm.version)]
       IN [base |-> NextBase(acc.base, g, n),
           groups |-> acc.groups @@ (g.name :> entries)]

Nothing == [root |-> <<>>, groups |-> <<>>]

\* decode_message
DecodeMessage(s, pm) ==
  IF \/ pm.template \notin SubsetTemplates \/ pm.template \notin DOMAIN s.messages
  THEN Nothing
  ELSE IF pm.block > s.messages[pm.template].block THEN Nothing
  ELSE LET msg == s.messages[pm.template]
       IN [root |-> DecodeBlock(s, msg.fields, pm.block, pm.body, 0, pm.version),
           groups |-> FoldLeft(LAMBDA acc, g : DecodeGroup(s, pm, acc, g),
                               [base |-> pm.block, groups |-> <<>>],
                               msg.groups).groups]

(***************************************************************************)
(* Annex M                                                                 *)
(***************************************************************************)
Get(values, name) == IF name \in DOMAIN values THEN values[name] ELSE 0
PriceOf(values) == IF "MDEntryPx" \in DOMAIN values THEN values["MDEntryPx"]
                   ELSE [mantissa |-> 0, exponent |-> 0]
EntriesOf(d, name) == IF name \in DOMAIN d.groups THEN d.groups[name] ELSE <<>>

Base(pm, d) ==
  [template |-> pm.template, size |-> pm.size % 65536, schema |-> pm.schema,
   version |-> pm.version % 65536, transact |-> Get(d.root, "TransactTime"),
   mei |-> Get(d.root, "MatchEventIndicator") % 256]

\* _mbp_record; owner is what names the security and the report sequence.
Mbp(pm, d, e, owner) ==
  [kind |-> "MBP", security |-> Get(owner, "SecurityID"), rpt |-> Get(owner, "RptSeq"),
   action |-> Get(e, "MDUpdateAction") % 256, type |-> Get(e, "MDEntryType") % 256,
   price |-> PriceOf(e), qty |-> Get(e, "MDEntrySize"),
   orders |-> Get(e, "NumberOfOrders") % 65536, level |-> Get(e, "MDPriceLevel") % 65536]
  @@ Base(pm, d)

\* _mbofd_record; priced is what carries price and entry type.
Mbofd(pm, d, o, owner, priced, action, rpt, ref) ==
  [kind |-> "MBOFD", security |-> Get(owner, "SecurityID"), rpt |-> rpt,
   action |-> action % 256, type |-> Get(priced, "MDEntryType") % 256,
   order |-> Get(o, "OrderID"), priority |-> Get(o, "MDOrderPriority"),
   ref |-> ref % 256, price |-> PriceOf(priced), qty |-> Get(o, "MDDisplayQty")]
  @@ Base(pm, d)

\* Mutant of Referred: counted from one.
Referred_FromOne(entries, o) ==
  IF Get(o, "ReferenceID") \in 1..Len(entries)
  THEN entries[Get(o, "ReferenceID")] ELSE <<>>

\* The price entry that an order entry of template 46 refers to, or nothing.
Referred(entries, o) ==
  IF "ReferenceID" \in DOMAIN o /\ o["ReferenceID"] \in 0..(Len(entries) - 1)
  THEN entries[o["ReferenceID"] + 1] ELSE <<>>

\* anexo_m_records
AnexoMRecords(pm, d) ==
  LET entries == EntriesOf(d, "NoMDEntries")
      orders == EntriesOf(d, "NoOrderIDEntries")
  IN CASE pm.template = 46 ->
            [i \in DOMAIN entries |-> Mbp(pm, d, entries[i], entries[i])]
            \o [i \in DOMAIN orders |->
                  LET src == Referred(entries, orders[i])
                  IN Mbofd(pm, d, orders[i], src, src,
                           Get(orders[i], "OrderUpdateAction"), Get(src, "RptSeq"),
                           Get(orders[i], "ReferenceID"))]
       [] pm.template = 47 ->
            [i \in DOMAIN entries |->
               Mbofd(pm, d, entries[i], entries[i], entries[i],
                     Get(entries[i], "MDUpdateAction"), 0, 0)]
       [] pm.template = 52 ->
            [i \in DOMAIN entries |-> Mbp(pm, d, entries[i], d.root)]
       [] pm.template = 53 ->
            [i \in DOMAIN entries |->
               Mbofd(pm, d, entries[i], d.root, entries[i], 0, 0, 0)]
       [] OTHER -> <<>>

\* passthrough_record: the body, padded to whole words.
Passed(pm) ==
  [kind |-> "RAW", template |-> pm.template, size |-> pm.size % 65536,
   schema |-> pm.schema, version |-> pm.version % 65536,
   body |-> pm.body \o Zeros((4 - (Len(pm.body) % 4)) % 4)]

=============================================================================
