---------------------------- MODULE MCMdp3Corpus ----------------------------
(***************************************************************************)
(* Mdp3Corpus on a schema with the messages 46, 47, 52 and 53 as           *)
(* mdp3_parser.sv:11-26 lays them out, and one that is passed through.     *)
(* The XML is not in the repository: which version a field or a group is   *)
(* since is chosen here so that both answers occur.                        *)
(***************************************************************************)
EXTENDS Mdp3Corpus

T(name, primitive) == [tag |-> "type", name |-> name, primitiveType |-> primitive]
Comp(name, primitive) == [name |-> name, primitiveType |-> primitive]
F(name, type, offset) == [name |-> name, type |-> type, offset |-> offset]
Since(e, version) == e @@ [sinceVersion |-> version]

MCTypes ==
  <<[tag |-> "composite", name |-> "messageHeader",
     components |-> <<Comp("blockLength", "uInt16"), Comp("templateId", "uInt16"),
                      Comp("schemaId", "uInt16"), Comp("version", "uInt16")>>],
    T("Int32", "Int32"), T("uInt32", "uInt32"), T("uInt64", "uInt64"),
    T("Int32NULL", "Int32NULL"), T("uInt8", "uInt8"), T("uInt64NULL", "uInt64NULL"),
    [tag |-> "composite", name |-> "PRICE9",
     components |-> <<Comp("mantissa", "Int64"),
                      Comp("exponent", "Int8") @@ [presence |-> "constant", text |-> -9]>>],
    [tag |-> "enum", name |-> "MDUpdateAction", encodingType |-> "uInt8"],
    [tag |-> "enum", name |-> "MDEntryType", encodingType |-> "CHAR"],
    [tag |-> "set", name |-> "MatchEventIndicator", encodingType |-> "uInt8"]>>

Root4647 == <<F("TransactTime", "uInt64", 0), F("MatchEventIndicator", "MatchEventIndicator", 8)>>

M46 ==
  [id |-> 46, blockLength |-> 11, fields |-> Root4647,
   groups |->
     <<[name |-> "NoMDEntries", blockLength |-> 32,
        fields |->
          <<F("MDEntryPx", "PRICE9", 0), F("MDEntrySize", "Int32NULL", 8),
            F("SecurityID", "Int32", 12), F("RptSeq", "uInt32", 16),
            F("NumberOfOrders", "Int32NULL", 20), F("MDPriceLevel", "uInt8", 24),
            F("MDUpdateAction", "MDUpdateAction", 25),
            F("MDEntryType", "MDEntryType", 26),
            Since(F("TradeableSize", "Int32NULL", 27), 10)>>],
       Since([name |-> "NoOrderIDEntries", blockLength |-> 24,
              dimensionType |-> "groupSize8Byte",
              fields |->
                <<F("OrderID", "uInt64", 0), F("MDOrderPriority", "uInt64NULL", 8),
                  F("MDDisplayQty", "Int32NULL", 16), F("ReferenceID", "uInt8", 20),
                  F("OrderUpdateAction", "MDUpdateAction", 21)>>], 7)>>]

M47 ==
  [id |-> 47, blockLength |-> 11, fields |-> Root4647,
   groups |->
     <<[name |-> "NoMDEntries", blockLength |-> 40,
        fields |->
          <<F("OrderID", "uInt64NULL", 0), F("MDOrderPriority", "uInt64NULL", 8),
            F("MDEntryPx", "PRICE9", 16), F("MDDisplayQty", "Int32NULL", 24),
            F("SecurityID", "Int32", 28), F("MDUpdateAction", "MDUpdateAction", 32),
            F("MDEntryType", "MDEntryType", 33)>>]>>]

M52 ==
  [id |-> 52, blockLength |-> 59,
   fields |-> <<F("LastMsgSeqNumProcessed", "uInt32", 0), F("SecurityID", "Int32", 8),
                F("RptSeq", "uInt32", 12), F("TransactTime", "uInt64", 16),
                F("HighLimitPrice", "PRICE9", 35)>>,
   groups |->
     <<[name |-> "NoMDEntries", blockLength |-> 22,
        fields |->
          <<F("MDEntryPx", "PRICE9", 0), F("MDEntrySize", "Int32NULL", 8),
            F("NumberOfOrders", "Int32NULL", 12), F("MDPriceLevel", "uInt8", 16),
            F("MDEntryType", "MDEntryType", 21)>>]>>]

M53 ==
  [id |-> 53, blockLength |-> 28,
   fields |-> <<F("SecurityID", "Int32", 8), F("TransactTime", "uInt64", 20)>>,
   groups |->
     <<[name |-> "NoMDEntries", blockLength |-> 29,
        fields |->
          <<F("OrderID", "uInt64", 0), F("MDOrderPriority", "uInt64", 8),
            F("MDEntryPx", "PRICE9", 16), F("MDDisplayQty", "Int32NULL", 24),
            F("MDEntryType", "MDEntryType", 28)>>]>>]

M4 == [id |-> 4, blockLength |-> 30, fields |-> <<>>, groups |-> <<>>]

Document(version) == [version |-> version, types |-> MCTypes,
                      messages |-> <<M4, M46, M47, M52, M53>>]
MCDocuments == [c \in {"pinned", "other"} |->
                  Document(IF c = "pinned" THEN 12 ELSE 11)]

Px(n) == [mantissa |-> n]
Mbp46(px, sec) ==
  [MDEntryPx |-> Px(px), MDEntrySize |-> 300, SecurityID |-> sec, RptSeq |-> 11,
   NumberOfOrders |-> 2, MDPriceLevel |-> 1, MDUpdateAction |-> 1, MDEntryType |-> 48,
   TradeableSize |-> 5]
Order46(id, ref) ==
  [OrderID |-> id, MDOrderPriority |-> 9, MDDisplayQty |-> 13, ReferenceID |-> ref,
   OrderUpdateAction |-> 2]
Coded(template, version, root, groups) ==
  [kind |-> "coded", template |-> template, version |-> version,
   values |-> [root |-> root, groups |-> groups]]
When == [TransactTime |-> 70000, MatchEventIndicator |-> 129]

Inc46(version, entries, orders) ==
  Coded(46, version, When, [NoMDEntries |-> entries, NoOrderIDEntries |-> orders])
Inc47 ==
  Coded(47, 12, When, [NoMDEntries |->
    <<[OrderID |-> 65, MDOrderPriority |-> 66, MDEntryPx |-> Px(-300),
       MDDisplayQty |-> 21, SecurityID |-> 303, MDUpdateAction |-> 2,
       MDEntryType |-> 49]>>])
Snap52(n) ==
  Coded(52, 12,
    [LastMsgSeqNumProcessed |-> 31, SecurityID |-> 404, RptSeq |-> 33,
     TransactTime |-> 1, HighLimitPrice |-> Px(110)],
    [NoMDEntries |-> [i \in 1..n |->
       [MDEntryPx |-> Px(100 + i), MDEntrySize |-> 41, NumberOfOrders |-> 4,
        MDPriceLevel |-> i, MDEntryType |-> 49]]])
Snap53 ==
  Coded(53, 12, [SecurityID |-> 505, TransactTime |-> 2],
    [NoMDEntries |->
      <<[OrderID |-> 1, MDOrderPriority |-> 2, MDEntryPx |-> Px(102),
         MDDisplayQty |-> 61, MDEntryType |-> 48]>>])

Passthrough == [kind |-> "raw", template |-> 4, schema |-> 0, block |-> 16,
                body |-> <<1, 0, 46, 0, 12>>]
Unknown == [kind |-> "raw", template |-> 777, schema |-> 999, block |-> 8,
            body |-> <<10, 0, 0, 0, 46, 0, 1, 0>>]

MCMessages ==
  {Inc46(12, <<Mbp46(101250, 101), Mbp46(-7, 202)>>, <<Order46(17, 1), Order46(18, 0)>>),
   Inc46(12, <<Mbp46(5, 101)>>, <<Order46(19, 1)>>),
   Inc46(6, <<Mbp46(5, 303)>>, <<Order46(20, 0)>>),
   Inc46(12, <<>>, <<>>),
   Inc47, Snap52(2), Snap52(0), Snap53, Passthrough, Unknown}

=============================================================================
