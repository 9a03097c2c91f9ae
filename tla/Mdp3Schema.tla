---------------------------- MODULE Mdp3Schema ----------------------------
(***************************************************************************)
(* golden_model/mdp3/schema.py: what load_schema makes of the SBE schema   *)
(* of CME MDP 3.0.  An XML element is a record of its attributes; one that *)
(* is not in the record's domain is not in the file.  Names and texts are  *)
(* kept as they are, an attribute that is a number is a number.            *)
(***************************************************************************)
EXTENDS Integers, Sequences, SequencesExt

PrimitiveSize == [int8 |-> 1, uint8 |-> 1, char |-> 1, int16 |-> 2, uint16 |-> 2,
                  int32 |-> 4, uint32 |-> 4, int64 |-> 8, uint64 |-> 8]
SignedTypes == {"int8", "int16", "int32", "int64"}

Aliases ==
  [uInt8 |-> "uint8", uInt16 |-> "uint16", uInt32 |-> "uint32", uInt64 |-> "uint64",
   Int8 |-> "int8", Int16 |-> "int16", Int32 |-> "int32", Int64 |-> "int64",
   CHAR |-> "char", Int8NULL |-> "int8", uInt8NULL |-> "uint8",
   Int16NULL |-> "int16", uInt16NULL |-> "uint16", Int32NULL |-> "int32",
   uInt32NULL |-> "uint32", Int64NULL |-> "int64", uInt64NULL |-> "uint64"]
Canonical(name) == IF name \in DOMAIN Aliases THEN Aliases[name] ELSE name

Attr(e, name, default) == IF name \in DOMAIN e THEN e[name] ELSE default

\* A dictionary filled in document order: of two elements with one key the
\* later one stays.
Dictionary(elements, Key(_), Value(_)) ==
  [k \in {Key(elements[i]) : i \in DOMAIN elements} |->
     LET last == CHOOSE i \in DOMAIN elements :
                   /\ Key(elements[i]) = k
                   /\ \A j \in DOMAIN elements : Key(elements[j]) = k => j <= i
     IN Value(elements[last])]

(***************************************************************************)
(* Types                                                                   *)
(***************************************************************************)
\* A type, or a component of a composite.
TypeDef(e) ==
  LET primitive == Canonical(e.primitiveType)
      constant == Attr(e, "presence", "required") = "constant"
  IN [name |-> e.name, primitive |-> primitive,
      size |-> IF "length" \in DOMAIN e THEN e.length ELSE PrimitiveSize[primitive],
      constant |-> constant,
      value |-> IF constant THEN Attr(e, "text", 0) ELSE 0]

ComponentsOf(e) == [i \in DOMAIN e.components |-> TypeDef(e.components[i])]
EncodingOf(e) == Canonical(e.encodingType)

NameOf(e) == e.name
IdOf(e) == e.id

\* Constant components are not emitted.
Emitted(components) == SelectSeq(components, LAMBDA c : ~c.constant)

SizeOfAll(components) == FoldLeft(LAMBDA n, c : n + c.size, 0, components)

\* type_size
TypeSize(s, name) ==
  IF name \in DOMAIN s.composites THEN SizeOfAll(Emitted(s.composites[name]))
  ELSE IF name \in DOMAIN s.enums THEN PrimitiveSize[s.enums[name]]
  ELSE IF name \in DOMAIN s.sets THEN PrimitiveSize[s.sets[name]]
  ELSE s.types[name].size

FieldSize(s, f) == TypeSize(s, f.type)

\* group_dim_size; an unknown dimension type is a ValueError.
DimSize(g) == IF g.dimension = "groupSize8Byte" THEN 8 ELSE 3

(***************************************************************************)
(* Messages                                                                *)
(***************************************************************************)
FieldDef(e) ==
  [name |-> e.name, type |-> e.type, offset |-> Attr(e, "offset", 0),
   since |-> Attr(e, "sinceVersion", 0)]
FieldsOf(e) == [i \in DOMAIN e.fields |-> FieldDef(e.fields[i])]

GroupDef(e) ==
  [name |-> e.name, block |-> e.blockLength,
   dimension |-> Attr(e, "dimensionType", "groupSize"),
   since |-> Attr(e, "sinceVersion", 0), fields |-> FieldsOf(e)]

MessageDef(e) ==
  [block |-> e.blockLength, fields |-> FieldsOf(e),
   groups |-> [i \in DOMAIN e.groups |-> GroupDef(e.groups[i])]]

\* load_schema: types before messages, wherever they stand in the document.
Load(doc) ==
  LET Tagged(tag) == SelectSeq(doc.types, LAMBDA e : e.tag = tag)
      composites == Dictionary(Tagged("composite"), NameOf, ComponentsOf)
  IN [version |-> doc.version,
      types |-> Dictionary(Tagged("type"), NameOf, TypeDef),
      composites |-> composites,
      enums |-> Dictionary(Tagged("enum"), NameOf, EncodingOf),
      sets |-> Dictionary(Tagged("set"), NameOf, EncodingOf),
      headerSize |-> IF "messageHeader" \in DOMAIN composites
                     THEN SizeOfAll(composites["messageHeader"]) ELSE 0,
      messages |-> Dictionary(doc.messages, IdOf, MessageDef)]

SubsetTemplates == {46, 47, 52, 53}

=============================================================================
