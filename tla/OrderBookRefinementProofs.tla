---------------------- MODULE OrderBookRefinementProofs ----------------------
(***************************************************************************)
(* The engine of rtl/orderbook implements the reference book of            *)
(* golden_model/src/book.py, for every feed, width, table and consumer:    *)
(*                                                                         *)
(*   - a list of levels is a dictionary from prices to quantities, and a   *)
(*     pass of the level pipeline is one change of it (PassIsChange);      *)
(*   - the lists of the symbols are the levels of their locates, also in a *)
(*     cycle that registers another symbol (SpreadMoves), and so are their *)
(*     trading states and last events;                                     *)
(*   - the slots of the table are the orders (Denotes);                    *)
(*   - a step that completes what the mapping already tells is a stutter   *)
(*     (CalmStep), one that sends an event too (EmitStays);                *)
(*   - ST_APPLY does what apply() does with the message (ApplyGolden);     *)
(*   - RefInv is inductive: the invariants of the engine, what its stages  *)
(*     owe (StageInv), what no symbol has before it is registered          *)
(*     (FreshInv), each message counted once (CountInv), the invariant of  *)
(*     the reference book, and the mapping itself.                         *)
(***************************************************************************)
EXTENDS OrderBookRefinement, OrderBookProofs

\* The quantity that a dictionary of levels has for a price.
QtyIn(map, p) == IF p \in DOMAIN map THEN map[p] ELSE 0

\* Dictionaries with the same keys and values are the same.
LEMMA SameDict ==
  ASSUME NEW S, NEW f, NEW g,
         f = [x \in S |-> f[x]], g = [x \in S |-> g[x]], \A x \in S : f[x] = g[x]
  PROVE  f = g
OBVIOUS

\* The dictionary of a list has each listed level and no other.
LEMMA LevelMapIs ==
  ASSUME NEW sd, NEW l, GoodList(sd, l)
  PROVE  /\ LevelMap(l) = [p \in DOMAIN LevelMap(l) |-> LevelMap(l)[p]]
         /\ \A i \in NonEmpty(l) : /\ l[i].px \in DOMAIN LevelMap(l)
                                   /\ LevelMap(l)[l[i].px] = l[i].qty
         /\ \A p \in DOMAIN LevelMap(l) : \E i \in NonEmpty(l) : l[i].px = p
<1>1. l \in [Slots -> Level] /\ Sorted(sd, l)
  BY DEF GoodList, Lists
<1>2. DOMAIN LevelMap(l) = {l[i].px : i \in NonEmpty(l)}
  BY DEF LevelMap
<1>3. ASSUME NEW i \in NonEmpty(l)
      PROVE  LevelMap(l)[l[i].px] = l[i].qty
  <2> DEFINE j == CHOOSE x \in NonEmpty(l) : l[x].px = l[i].px
  <2>1. j \in NonEmpty(l) /\ l[j].px = l[i].px
    OBVIOUS
  <2>2. LevelMap(l)[l[i].px] = l[j].qty
    BY DEF LevelMap
  <2> HIDE DEF j
  <2>3. i \in Slots /\ j \in Slots /\ l[i].qty # 0 /\ l[j].qty # 0
    BY <2>1 DEF NonEmpty
  <2>4. i = j
    BY <1>1, <2>1, <2>3, ListedOnce
  <2> QED
    BY <2>2, <2>4
<1>4. LevelMap(l) = [p \in DOMAIN LevelMap(l) |-> LevelMap(l)[p]]
  BY DEF LevelMap
<1> QED
  BY <1>2, <1>3, <1>4

\* It shows what the list shows.
LEMMA LevelMapShows ==
  ASSUME NEW sd, NEW l, GoodList(sd, l),
         NEW f, f = [p \in Nat |-> QtyIn(LevelMap(l), p)]
  PROVE  /\ f \in [Nat -> Nat] /\ Shows(l, f)
         /\ \A p \in Nat : p \in DOMAIN LevelMap(l) <=> f[p] # 0
<1>1. l \in [Slots -> Level]
  BY DEF GoodList, Lists
<1>2. \A i \in Slots : l[i].px \in Nat /\ l[i].qty \in Nat
  BY <1>1, LevelFields, LevelAssumption
<1>3. \A i \in NonEmpty(l) : /\ l[i].px \in DOMAIN LevelMap(l)
                             /\ LevelMap(l)[l[i].px] = l[i].qty
  BY LevelMapIs
<1>4. \A p \in DOMAIN LevelMap(l) : \E i \in NonEmpty(l) : l[i].px = p
  BY LevelMapIs
<1>5. \A p \in DOMAIN LevelMap(l) : LevelMap(l)[p] \in Nat \ {0}
  BY <1>2, <1>3, <1>4 DEF NonEmpty
<1>6. f \in [Nat -> Nat]
  BY <1>5 DEF QtyIn
<1>7. ASSUME NEW p \in Nat
      PROVE  p \in DOMAIN LevelMap(l) <=> f[p] # 0
  BY <1>5 DEF QtyIn
<1>8. ASSUME NEW i \in Slots, l[i].qty # 0
      PROVE  l[i].qty = f[l[i].px]
  BY <1>2, <1>3, <1>8 DEF QtyIn, NonEmpty
<1>9. ASSUME NEW p \in Nat, f[p] # 0
      PROVE  EqSlots(l, p) # {}
  BY <1>4, <1>7, <1>9 DEF EqSlots, NonEmpty
<1> QED
  BY <1>6, <1>7, <1>8, <1>9 DEF Shows

\* What is shown determines the dictionary.
LEMMA ShownMap ==
  ASSUME NEW sd, NEW l, GoodList(sd, l), NEW f \in [Nat -> Nat], Shows(l, f)
  PROVE  /\ LevelMap(l) = [p \in DOMAIN LevelMap(l) |-> LevelMap(l)[p]]
         /\ DOMAIN LevelMap(l) = {p \in Nat : f[p] # 0}
         /\ \A p \in DOMAIN LevelMap(l) : LevelMap(l)[p] = f[p]
<1>1. l \in [Slots -> Level]
  BY DEF GoodList, Lists
<1>2. \A i \in Slots : l[i].px \in Nat /\ l[i].qty \in Nat
  BY <1>1, LevelFields, LevelAssumption
<1>3. \A i \in NonEmpty(l) : /\ l[i].px \in DOMAIN LevelMap(l)
                             /\ LevelMap(l)[l[i].px] = l[i].qty
  BY LevelMapIs
<1>4. \A p \in DOMAIN LevelMap(l) : \E i \in NonEmpty(l) : l[i].px = p
  BY LevelMapIs
<1>5. ASSUME NEW p \in DOMAIN LevelMap(l)
      PROVE  p \in Nat /\ LevelMap(l)[p] = f[p] /\ f[p] # 0
  BY <1>2, <1>3, <1>4 DEF Shows, NonEmpty
<1>6. ASSUME NEW p \in Nat, f[p] # 0
      PROVE  p \in DOMAIN LevelMap(l)
  <2>1. PICK i \in Slots : l[i].qty # 0 /\ l[i].px = p
    BY <1>6 DEF Shows, EqSlots
  <2> QED
    BY <1>3, <2>1 DEF NonEmpty
<1> QED
  BY <1>5, <1>6, LevelMapIs

\* One pass of the pipeline that discards nothing and pushes nothing out is one
\* change of the dictionary.
LEMMA MapKept ==
  ASSUME NEW l, NEW op \in Operation, GoodList(op.side, l),
         op.delta # 0, op.delta < QLim, QtyIn(LevelMap(l), op.px) + op.delta >= 0,
         Decode(l, op).mode # "NONE",
         Decode(l, op).mode = "INSERT" => ZeroSlots(l) # {}
  PROVE  LevelMap(Materialize(l, Decode(l, op), op.px))
           = Adjusted(LevelMap(l), op.px, op.delta)
<1> DEFINE m == LevelMap(l)
<1> DEFINE k == Materialize(l, Decode(l, op), op.px)
<1> DEFINE f == [p \in Nat |-> QtyIn(m, p)]
<1> DEFINE g == [f EXCEPT ![op.px] = @ + op.delta]
<1> DEFINE a == Adjusted(m, op.px, op.delta)
<1>1. l \in [Slots -> Level] /\ Sorted(op.side, l) /\ op.px \in Nat /\ op.delta \in Int
  BY MessageAssumption DEF GoodList, Lists, Operation
<1>2. f \in [Nat -> Nat] /\ Shows(l, f) /\ (\A p \in Nat : p \in DOMAIN m <=> f[p] # 0)
  BY LevelMapShows
<1>3. f[op.px] + op.delta >= 0
  BY <1>1
<1>4. Shows(k, g)
  BY <1>1, <1>2, <1>3, ShowsKept
<1>5. GoodList(op.side, k)
  BY GoodKept
<1>6. g \in [Nat -> Nat]
  BY <1>1, <1>2, <1>3
<1>7. /\ LevelMap(k) = [p \in DOMAIN LevelMap(k) |-> LevelMap(k)[p]]
      /\ DOMAIN LevelMap(k) = {p \in Nat : g[p] # 0}
      /\ \A p \in DOMAIN LevelMap(k) : LevelMap(k)[p] = g[p]
  <2> HIDE DEF k, g
  <2> QED
    BY <1>4, <1>5, <1>6, ShownMap
<1>8. DOMAIN m \subseteq Nat
  <2>1. \A p \in DOMAIN m : \E i \in NonEmpty(l) : l[i].px = p
    BY LevelMapIs
  <2>2. \A i \in Slots : l[i].px \in Nat
    BY <1>1, LevelFields
  <2> QED
    BY <2>1, <2>2 DEF NonEmpty
<1>9. \A p \in Nat : g[p] = IF p = op.px THEN f[p] + op.delta ELSE f[p]
  BY <1>1, <1>2
<1>10. \A p \in DOMAIN m : m[p] = f[p]
  BY <1>8 DEF QtyIn
<1>11. /\ a = [p \in DOMAIN a |-> a[p]]
       /\ DOMAIN a = {y \in DOMAIN m \cup {op.px} : y # op.px \/ f[op.px] + op.delta # 0}
       /\ \A p \in DOMAIN a : a[p] = IF p = op.px THEN f[op.px] + op.delta ELSE m[p]
  <2>1. f[op.px] = QtyIn(m, op.px)
    BY <1>1
  <2>2. op.delta + QtyIn(m, op.px) = f[op.px] + op.delta
    BY <1>1, <1>2, <2>1
  <2> DEFINE q == f[op.px] + op.delta
  <2>3. a = [x \in {y \in DOMAIN m \cup {op.px} : y # op.px \/ q # 0} |->
               IF x = op.px THEN q ELSE m[x]]
    BY <2>2 DEF Adjusted, QtyIn
  <2> HIDE DEF a, q, m
  <2>4. DOMAIN a = {y \in DOMAIN m \cup {op.px} : y # op.px \/ q # 0}
    BY <2>3
  <2>5. \A p \in DOMAIN a : a[p] = IF p = op.px THEN q ELSE m[p]
    BY <2>3
  <2> QED
    BY <2>3, <2>4, <2>5 DEF q
<1> HIDE DEF m, k, f, g, a
<1>12. DOMAIN a = {p \in Nat : g[p] # 0}
  BY <1>1, <1>2, <1>8, <1>9, <1>11
<1>13. \A p \in DOMAIN a : a[p] = g[p]
  BY <1>1, <1>8, <1>9, <1>10, <1>11
<1>14. LevelMap(k) = a
  BY <1>7, <1>11, <1>12, <1>13, SameDict
<1> QED
  BY <1>14 DEF k, a, m

\* A list without an empty slot has P prices.
LEMMA FullList ==
  ASSUME NEW sd, NEW l, GoodList(sd, l), ZeroSlots(l) = {}
  PROVE  IsFiniteSet(DOMAIN LevelMap(l)) /\ Cardinality(DOMAIN LevelMap(l)) = P
<1> DEFINE D == DOMAIN LevelMap(l)
<1> DEFINE f == [i \in Slots |-> l[i].px]
<1>1. l \in [Slots -> Level] /\ Sorted(sd, l)
  BY DEF GoodList, Lists
<1>2. \A i \in Slots : i \in NonEmpty(l) /\ l[i].qty # 0
  BY DEF ZeroSlots, NonEmpty
<1>3. \A i \in NonEmpty(l) : l[i].px \in D
  BY LevelMapIs
<1>4. \A p \in D : \E i \in NonEmpty(l) : l[i].px = p
  BY LevelMapIs
<1>5. \A i, j \in Slots : l[i].px = l[j].px => i = j
  BY <1>1, <1>2, ListedOnce
<1>6. IsFiniteSet(Slots) /\ Cardinality(Slots) = P
  BY LevelAssumption, FS_Interval DEF Slots
<1> HIDE DEF D
<1>7. f \in [Slots -> D]
  BY <1>2, <1>3
<1>8. f \in Surjection(Slots, D)
  BY <1>4, <1>7 DEF Surjection, NonEmpty
<1>9. f \in Injection(Slots, D)
  BY <1>5, <1>7 DEF Injection, IsInjective
<1> HIDE DEF f
<1>10. IsFiniteSet(D) /\ Cardinality(D) = P
  BY <1>6, <1>8, <1>9, FS_Surjection
<1> QED
  BY <1>10 DEF D

\* A change that leaves at most P prices, and a quantity of QW bits, is neither
\* discarded nor pushes a level out.
LEMMA FitsDecoded ==
  ASSUME NEW l, NEW op \in Operation, GoodList(op.side, l), op.delta # 0,
         NEW n, n = QtyIn(LevelMap(l), op.px) + op.delta, n >= 0, n < QLim,
         Cardinality(DOMAIN Adjusted(LevelMap(l), op.px, op.delta)) <= P
  PROVE  /\ Decode(l, op).mode # "NONE"
         /\ Decode(l, op).mode = "INSERT" => ZeroSlots(l) # {}
<1> DEFINE m == LevelMap(l)
<1> DEFINE eq == EqSlots(l, op.px)
<1> DEFINE zero == ZeroSlots(l)
<1> DEFINE beaten == BeatenSlots(l, op.side, op.px)
<1>1. l \in [Slots -> Level] /\ op.px \in Nat /\ op.delta \in Int /\ QLim \in Nat /\ P \in Nat
  BY MessageAssumption, LevelAssumption DEF GoodList, Lists, Operation
<1>2. CASE eq = {}
  <2>1. op.px \notin DOMAIN m
    <3>1. \A p \in DOMAIN m : \E i \in NonEmpty(l) : l[i].px = p
      BY LevelMapIs
    <3> QED
      BY <1>2, <3>1 DEF EqSlots, NonEmpty
  <2>2. n = op.delta /\ op.delta > 0 /\ op.delta + 0 # 0
    BY <1>1, <2>1 DEF QtyIn
  <2>3. zero # {}
    <3>1. SUFFICES ASSUME zero = {} PROVE FALSE
      OBVIOUS
    <3>2. IsFiniteSet(DOMAIN m) /\ Cardinality(DOMAIN m) = P
      BY <3>1, FullList
    <3>3. DOMAIN Adjusted(m, op.px, op.delta) = DOMAIN m \cup {op.px}
      BY <2>1, <2>2 DEF Adjusted
    <3>4. Cardinality(DOMAIN m \cup {op.px}) = P + 1
      BY <2>1, <3>2, FS_AddElement
    <3> QED
      BY <1>1, <3>3, <3>4
  <2>4. Decode(l, op).mode = "INSERT"
    BY <1>1, <1>2, <2>2, <2>3 DEF Decode
  <2> QED
    BY <2>3, <2>4
<1>3. CASE eq # {}
  <2>1. PICK i : i = FirstOne(eq)
    OBVIOUS
  <2>2. i \in eq
    BY <1>3, <2>1, FirstOneIsLowest DEF EqSlots
  <2>3. i \in NonEmpty(l) /\ l[i].px = op.px
    BY <2>2 DEF EqSlots, NonEmpty
  <2>4. n = l[i].qty + op.delta
    <3>1. \A j \in NonEmpty(l) : /\ l[j].px \in DOMAIN m /\ m[l[j].px] = l[j].qty
      BY LevelMapIs
    <3> QED
      BY <2>3, <3>1 DEF QtyIn
  <2>5. Fits(l[FirstOne(eq)].qty + op.delta)
    <3>1. n \in 0..QLim-1
      <4>1. l[i].qty \in Int
        BY <1>1, <2>3, LevelFields DEF NonEmpty
      <4> QED
        BY <1>1, <2>4, <4>1
    <3> QED
      BY <2>1, <2>4, <3>1 DEF Fits
  <2>6. Decode(l, op).mode \in {"REMOVE", "UPDATE"}
    BY <1>3, <2>5 DEF Decode, Keep
  <2> QED
    BY <2>6
<1> QED
  BY <1>2, <1>3

\* A pass of the pipeline is one change of the dictionary, if that fits.
LEMMA PassIsChange ==
  ASSUME NEW l, NEW op \in Operation, GoodList(op.side, l),
         op.delta # 0, op.delta < QLim,
         NEW n, n = QtyIn(LevelMap(l), op.px) + op.delta, n >= 0, n < QLim,
         Cardinality(DOMAIN Adjusted(LevelMap(l), op.px, op.delta)) <= P
  PROVE  LevelMap(Materialize(l, Decode(l, op), op.px))
           = Adjusted(LevelMap(l), op.px, op.delta)
BY FitsDecoded, MapKept

(***************************************************************************)
(* The best level                                                          *)
(***************************************************************************)
\* The best price is one that all others are worse than.
LEMMA BestOfIs ==
  ASSUME NEW sd \in Sides, NEW S \in SUBSET Nat, NEW b \in S,
         \A q \in S : q = b \/ Better(sd, b, q)
  PROVE  BestOf(sd, S) = b
<1> DEFINE best(x) == x \in S /\ \A q \in S : x = q \/ Better(sd, x, q)
<1>1. best(b)
  OBVIOUS
<1>2. ASSUME NEW c, best(c)
      PROVE  c = b
  <2>1. b \in Nat /\ c \in Nat
    BY <1>2
  <2>2. ~(Better(sd, b, c) /\ Better(sd, c, b))
    BY <2>1 DEF Better
  <2> QED
    BY <1>1, <1>2, <2>2
<1>3. BestOf(sd, S) = CHOOSE p \in S : \A q \in S : p = q \/ Better(sd, p, q)
  BY DEF BestOf
<1>4. best(BestOf(sd, S))
  BY <1>1, <1>3
<1> QED
  BY <1>2, <1>4

\* The best level is the first one of a list.
LEMMA TopIsFirst ==
  ASSUME NEW sd \in Sides, NEW l, GoodList(sd, l)
  PROVE  Top(sd, LevelMap(l)) = PxQty(l[FirstOne(NonEmpty(l))])
<1> DEFINE D == DOMAIN LevelMap(l)
<1>1. l \in [Slots -> Level] /\ NonEmpty(l) \in SUBSET Slots /\ Sorted(sd, l)
  BY DEF GoodList, Lists, NonEmpty
<1>2. \A i \in NonEmpty(l) : l[i].px \in D /\ LevelMap(l)[l[i].px] = l[i].qty
  BY LevelMapIs
<1>3. \A p \in D : \E i \in NonEmpty(l) : l[i].px = p
  BY LevelMapIs
<1>4. CASE NonEmpty(l) = {}
  <2>1. D = {}
    BY <1>3, <1>4
  <2>2. 0 \in Slots /\ l[0] = EmptyLevel
    BY <1>4, LevelAssumption DEF Slots, NonEmpty, GoodList, Tidy
  <2>3. l[FirstOne(NonEmpty(l))] = EmptyLevel
    BY <2>2, BestIsFirst
  <2> QED
    BY <2>1, <2>3 DEF Top, PxQty, EmptyLevel
<1>5. CASE NonEmpty(l) # {}
  <2>1. PICK i : i = FirstOne(NonEmpty(l))
    OBVIOUS
  <2>2. i \in NonEmpty(l) /\ \A j \in NonEmpty(l) : i <= j
    BY <1>1, <1>5, <2>1, FirstOneIsLowest
  <2>3. \A j \in Slots : j \in Int /\ l[j].px \in Nat
    BY <1>1, LevelFields, LevelAssumption DEF Slots
  <2>4. ASSUME NEW q \in D
        PROVE  q = l[i].px \/ Better(sd, l[i].px, q)
    <3>1. PICK j \in NonEmpty(l) : l[j].px = q
      BY <1>3
    <3>2. i = j \/ i < j
      BY <1>1, <2>2, <2>3
    <3> QED
      BY <1>1, <2>2, <3>1, <3>2 DEF Sorted, NonEmpty
  <2>5. D \in SUBSET Nat /\ l[i].px \in D
    BY <1>1, <1>2, <1>3, <2>2, <2>3
  <2>6. BestOf(sd, D) = l[i].px
    BY <2>4, <2>5, BestOfIs
  <2> QED
    BY <1>2, <2>1, <2>2, <2>5, <2>6 DEF Top, PxQty
<1> QED
  BY <1>4, <1>5

\* Shares on their way into the pipeline keep their sign and size.
LEMMA ExactDeltas ==
  ASSUME 2 * MaxShares < QLim, NEW q \in 0..MaxShares
  PROVE  Signed(q) = q /\ Negate(q) = -q
<1>1. q \in Nat /\ QLim \in Nat /\ 2 * q < QLim /\ MaxShares \in Nat
  BY LevelAssumption, MessageAssumption
<1>2. Signed(q) = q
  BY <1>1 DEF Signed
<1>3. CASE q = 0
  <2>1. (QLim - q) % QLim = 0
    BY <1>1, <1>3
  <2> QED
    BY <1>1, <1>2, <1>3, <2>1 DEF Negate
<1>4. CASE q # 0
  <2>1. (QLim - q) % QLim = QLim - q
    BY <1>1, <1>4
  <2>2. ~(2 * (QLim - q) < QLim)
    BY <1>1
  <2>3. Signed(QLim - q) = -q
    BY <1>1, <2>2 DEF Signed
  <2> QED
    BY <1>2, <2>1, <2>3 DEF Negate
<1> QED
  BY <1>3, <1>4

(***************************************************************************)
(* The books of the symbols as those of their locates                      *)
(***************************************************************************)
\* loc_lookup in a map, and what a map with cnt locates is.
IndexIn(map, l) ==
  LET hits == {i \in SymIdx : map[i] = l}
  IN IF hits = {} THEN Unlisted ELSE CHOOSE i \in hits : \A j \in hits : i <= j
GoodMap(map, cnt) ==
  /\ cnt \in 0..NSYM
  /\ \A i, j \in 0..cnt-1 : map[i] = map[j] => i = j

\* What map has for its locates, locates of index cnt and on aside, is kept.
Extends(map, cnt, map2, cnt2) ==
  /\ GoodMap(map, cnt) /\ GoodMap(map2, cnt2) /\ cnt <= cnt2
  /\ \A i \in 0..cnt-1 : map2[i] = map[i]

\* A locate is found at its own index; one that the map does not list is not
\* found, or found among the indices that nothing is at yet.
LEMMA IndexIs ==
  ASSUME NEW map, NEW cnt, GoodMap(map, cnt)
  PROVE  /\ \A i \in 0..cnt-1 : i \in SymIdx /\ IndexIn(map, map[i]) = i
         /\ \A l : (\A i \in 0..cnt-1 : map[i] # l) =>
              \/ IndexIn(map, l) = Unlisted
              \/ IndexIn(map, l) \in SymIdx /\ IndexIn(map, l) \notin 0..cnt-1
         /\ Unlisted \notin SymIdx
<1>1. /\ NSYM \in Nat /\ SymIdx = 0..NSYM-1 /\ Unlisted \notin SymIdx
      /\ SymIdx \subseteq Nat /\ cnt \in Nat /\ cnt <= NSYM
  BY EngineAssumption DEF SymIdx, Unlisted, GoodMap
<1>2. ASSUME NEW l
      PROVE  \/ IndexIn(map, l) = Unlisted /\ \A i \in SymIdx : map[i] # l
             \/ /\ IndexIn(map, l) \in SymIdx /\ map[IndexIn(map, l)] = l
                /\ \A i \in SymIdx : map[i] = l => IndexIn(map, l) <= i
  <2> DEFINE hits == {i \in SymIdx : map[i] = l}
  <2>1. CASE hits = {}
    BY <2>1 DEF IndexIn
  <2>2. CASE hits # {}
    <3>1. \E x \in hits : \A y \in hits : x <= y
      <4>1. hits \in SUBSET Nat
        BY <1>1
      <4> HIDE DEF hits
      <4> QED
        BY <2>2, <4>1, LowestExists
    <3>2. IndexIn(map, l) = CHOOSE i \in hits : \A j \in hits : i <= j
      BY <2>2 DEF IndexIn
    <3>3. IndexIn(map, l) \in hits /\ \A j \in hits : IndexIn(map, l) <= j
      <4> HIDE DEF hits
      <4> QED
        BY <3>1, <3>2
    <3> QED
      BY <3>3
  <2> QED
    BY <2>1, <2>2
<1>3. ASSUME NEW i \in 0..cnt-1
      PROVE  i \in SymIdx /\ IndexIn(map, map[i]) = i
  <2>1. i \in SymIdx /\ i \in Nat /\ i < cnt
    BY <1>1
  <2>2. PICK j : j = IndexIn(map, map[i])
    OBVIOUS
  <2>3. j \in SymIdx /\ map[j] = map[i] /\ j <= i
    BY <1>2, <2>1, <2>2
  <2>4. j \in 0..cnt-1
    BY <1>1, <2>1, <2>3
  <2> QED
    BY <2>1, <2>2, <2>3, <2>4 DEF GoodMap
<1>4. ASSUME NEW l, \A i \in 0..cnt-1 : map[i] # l
      PROVE  \/ IndexIn(map, l) = Unlisted
             \/ IndexIn(map, l) \in SymIdx /\ IndexIn(map, l) \notin 0..cnt-1
  BY <1>2, <1>4
<1> QED
  BY <1>1, <1>3, <1>4

\* The price dictionaries F of the symbols, by locate.
NoLevels == [p \in {} |-> 0]
LevelsAt(map, F, k) ==
  IF IndexIn(map, k[1]) # Unlisted THEN F[<<IndexIn(map, k[1]), k[2]>>] ELSE NoLevels
Spread(map, F) == [k \in Locates \X Sides |-> LevelsAt(map, F, k)]
Fresh(cnt, F) ==
  \A i \in SymIdx, sd \in Sides : i \notin 0..cnt-1 => F[<<i, sd>>] = NoLevels

\* What a locate's dictionaries are, listed or not.
LEMMA LevelsAtIs ==
  ASSUME NEW map, NEW cnt, GoodMap(map, cnt), NEW F, Fresh(cnt, F), NEW sd \in Sides
  PROVE  /\ \A i \in 0..cnt-1 : LevelsAt(map, F, <<map[i], sd>>) = F[<<i, sd>>]
         /\ \A l : (\A i \in 0..cnt-1 : map[i] # l) =>
              LevelsAt(map, F, <<l, sd>>) = NoLevels
<1>1. ASSUME NEW i \in 0..cnt-1
      PROVE  LevelsAt(map, F, <<map[i], sd>>) = F[<<i, sd>>]
  BY IndexIs DEF LevelsAt
<1>2. ASSUME NEW l, \A i \in 0..cnt-1 : map[i] # l
      PROVE  LevelsAt(map, F, <<l, sd>>) = NoLevels
  <2>1. \/ IndexIn(map, l) = Unlisted
        \/ IndexIn(map, l) \in SymIdx /\ IndexIn(map, l) \notin 0..cnt-1
    BY <1>2, IndexIs
  <2> QED
    BY <2>1 DEF LevelsAt, Fresh
<1> QED
  BY <1>1, <1>2

\* One dictionary changes, while the map may grow.
LEMMA SpreadMoves ==
  ASSUME NEW map, NEW cnt, NEW map2, NEW cnt2, Extends(map, cnt, map2, cnt2),
         NEW F, NEW F2, Fresh(cnt, F),
         NEW s \in 0..cnt-1, NEW sd \in Sides, map[s] \in Locates,
         \A k \in SymIdx \X Sides : k # <<s, sd>> => F2[k] = F[k]
  PROVE  Spread(map2, F2) = [Spread(map, F) EXCEPT ![<<map[s], sd>>] = F2[<<s, sd>>]]
<1>1. GoodMap(map, cnt) /\ GoodMap(map2, cnt2) /\ cnt \in Nat /\ cnt2 \in Nat /\ cnt <= cnt2
  BY DEF Extends, GoodMap
<1>2. s \in SymIdx
  BY <1>1, IndexIs
<1>3. Fresh(cnt2, F2)
  <2> SUFFICES ASSUME NEW i \in SymIdx, NEW x \in Sides, i \notin 0..cnt2-1
               PROVE  F2[<<i, x>>] = NoLevels
    BY DEF Fresh
  <2>1. i \notin 0..cnt-1
    BY <1>1
  <2> QED
    BY <2>1 DEF Fresh
<1>4. ASSUME NEW l \in Locates, NEW x \in Sides
      PROVE  LevelsAt(map2, F2, <<l, x>>)
               = IF <<l, x>> = <<map[s], sd>> THEN F2[<<s, sd>>]
                 ELSE LevelsAt(map, F, <<l, x>>)
  <2>1. CASE \E i \in 0..cnt-1 : map[i] = l
    <3>1. PICK i \in 0..cnt-1 : map[i] = l
      BY <2>1
    <3>2. i \in 0..cnt2-1 /\ map2[i] = l /\ i \in SymIdx
      BY <1>1, <3>1, IndexIs DEF Extends
    <3>3. LevelsAt(map, F, <<l, x>>) = F[<<i, x>>]
      BY <1>1, <3>1, LevelsAtIs
    <3>4. LevelsAt(map2, F2, <<l, x>>) = F2[<<i, x>>]
      BY <1>1, <1>3, <3>2, LevelsAtIs
    <3>5. l = map[s] => i = s
      BY <1>1, <3>1 DEF GoodMap
    <3>6. <<i, x>> # <<s, sd>> => F2[<<i, x>>] = F[<<i, x>>]
      BY <3>2
    <3> QED
      BY <3>1, <3>3, <3>4, <3>5, <3>6
  <2>2. CASE \A i \in 0..cnt-1 : map[i] # l
    <3>1. l # map[s]
      BY <2>2
    <3>2. LevelsAt(map, F, <<l, x>>) = NoLevels
      BY <1>1, <2>2, LevelsAtIs
    <3>3. LevelsAt(map2, F2, <<l, x>>) = NoLevels
      <4>1. CASE \E i \in 0..cnt2-1 : map2[i] = l
        <5>1. PICK i \in 0..cnt2-1 : map2[i] = l
          BY <4>1
        <5>2. i \notin 0..cnt-1 /\ i \in SymIdx
          BY <1>1, <2>2, <5>1, IndexIs DEF Extends
        <5>3. F2[<<i, x>>] = F[<<i, x>>]
          BY <5>2
        <5> QED
          BY <1>1, <1>3, <5>1, <5>2, <5>3, LevelsAtIs DEF Fresh
      <4>2. CASE \A i \in 0..cnt2-1 : map2[i] # l
        BY <1>1, <1>3, <4>2, LevelsAtIs
      <4> QED
        BY <4>1, <4>2
    <3> QED
      BY <3>1, <3>2, <3>3
  <2> QED
    BY <2>1, <2>2
<1>5. \A k \in Locates \X Sides :
        Spread(map2, F2)[k] = IF k = <<map[s], sd>> THEN F2[<<s, sd>>] ELSE Spread(map, F)[k]
  <2> SUFFICES ASSUME NEW l \in Locates, NEW x \in Sides
               PROVE  Spread(map2, F2)[<<l, x>>]
                        = IF <<l, x>> = <<map[s], sd>> THEN F2[<<s, sd>>]
                          ELSE Spread(map, F)[<<l, x>>]
    OBVIOUS
  <2>1. Spread(map2, F2)[<<l, x>>] = LevelsAt(map2, F2, <<l, x>>)
    BY DEF Spread
  <2>2. Spread(map, F)[<<l, x>>] = LevelsAt(map, F, <<l, x>>)
    BY DEF Spread
  <2> QED
    BY <1>4, <2>1, <2>2
<1>6. DOMAIN Spread(map, F) = Locates \X Sides
  BY DEF Spread
<1>7. Spread(map2, F2) = [k \in Locates \X Sides |-> Spread(map2, F2)[k]]
  BY DEF Spread
<1> QED
  BY <1>5, <1>6, <1>7

\* None changes, while the map may grow.
LEMMA SpreadStays ==
  ASSUME NEW map, NEW cnt, NEW map2, NEW cnt2, Extends(map, cnt, map2, cnt2),
         NEW F, Fresh(cnt, F)
  PROVE  Spread(map2, F) = Spread(map, F)
<1>1. GoodMap(map, cnt) /\ GoodMap(map2, cnt2) /\ cnt \in Nat /\ cnt2 \in Nat /\ cnt <= cnt2
  BY DEF Extends, GoodMap
<1>2. Fresh(cnt2, F)
  <2> SUFFICES ASSUME NEW i \in SymIdx, NEW x \in Sides, i \notin 0..cnt2-1
               PROVE  F[<<i, x>>] = NoLevels
    BY DEF Fresh
  <2>1. i \notin 0..cnt-1
    BY <1>1
  <2> QED
    BY <2>1 DEF Fresh
<1>3. ASSUME NEW l \in Locates, NEW x \in Sides
      PROVE  LevelsAt(map2, F, <<l, x>>) = LevelsAt(map, F, <<l, x>>)
  <2>1. CASE \E i \in 0..cnt-1 : map[i] = l
    <3>1. PICK i \in 0..cnt-1 : map[i] = l
      BY <2>1
    <3>2. i \in 0..cnt2-1 /\ map2[i] = l
      BY <1>1, <3>1 DEF Extends
    <3>3. LevelsAt(map, F, <<l, x>>) = F[<<i, x>>]
      BY <1>1, <3>1, LevelsAtIs
    <3>4. LevelsAt(map2, F, <<l, x>>) = F[<<i, x>>]
      BY <1>1, <1>2, <3>2, LevelsAtIs
    <3> QED
      BY <3>3, <3>4
  <2>2. CASE \A i \in 0..cnt-1 : map[i] # l
    <3>1. LevelsAt(map, F, <<l, x>>) = NoLevels
      BY <1>1, <2>2, LevelsAtIs
    <3>2. LevelsAt(map2, F, <<l, x>>) = NoLevels
      <4>1. CASE \E i \in 0..cnt2-1 : map2[i] = l
        <5>1. PICK i \in 0..cnt2-1 : map2[i] = l
          BY <4>1
        <5>2. i \notin 0..cnt-1 /\ i \in SymIdx
          BY <1>1, <2>2, <5>1, IndexIs DEF Extends
        <5>3. F[<<i, x>>] = NoLevels
          BY <5>2 DEF Fresh
        <5>4. LevelsAt(map2, F, <<map2[i], x>>) = F[<<i, x>>]
          BY <1>1, <1>2, LevelsAtIs
        <5> QED
          BY <5>1, <5>3, <5>4
      <4>2. CASE \A i \in 0..cnt2-1 : map2[i] # l
        BY <1>1, <1>2, <4>2, LevelsAtIs
      <4> QED
        BY <4>1, <4>2
    <3> QED
      BY <3>1, <3>2
  <2> QED
    BY <2>1, <2>2
<1> QED
  BY <1>3 DEF Spread

(***************************************************************************)
(* The trading states of the symbols as those of their locates             *)
(***************************************************************************)
Trades(map, ts) ==
  [l \in {x \in Locates : IndexIn(map, x) # Unlisted /\ ts[IndexIn(map, x)] # "none"} |->
     ts[IndexIn(map, l)]]
Untraded(cnt, ts) == \A i \in SymIdx : i \notin 0..cnt-1 => ts[i] = "none"

\* What the trading states of the locates are.
LEMMA TradesAre ==
  ASSUME NEW map, NEW cnt, GoodMap(map, cnt), NEW ts, Untraded(cnt, ts)
  PROVE  /\ Trades(map, ts) = [l \in DOMAIN Trades(map, ts) |-> Trades(map, ts)[l]]
         /\ \A i \in 0..cnt-1 : map[i] \in Locates =>
              /\ map[i] \in DOMAIN Trades(map, ts) <=> ts[i] # "none"
              /\ ts[i] # "none" => Trades(map, ts)[map[i]] = ts[i]
         /\ \A l \in DOMAIN Trades(map, ts) : l \in Locates /\ \E i \in 0..cnt-1 : map[i] = l
<1>1. DOMAIN Trades(map, ts)
        = {x \in Locates : IndexIn(map, x) # Unlisted /\ ts[IndexIn(map, x)] # "none"}
  BY DEF Trades
<1>2. \A l \in DOMAIN Trades(map, ts) : Trades(map, ts)[l] = ts[IndexIn(map, l)]
  BY <1>1 DEF Trades
<1>3. ASSUME NEW i \in 0..cnt-1, map[i] \in Locates
      PROVE  /\ map[i] \in DOMAIN Trades(map, ts) <=> ts[i] # "none"
             /\ ts[i] # "none" => Trades(map, ts)[map[i]] = ts[i]
  <2>1. i \in SymIdx /\ IndexIn(map, map[i]) = i /\ i # Unlisted
    BY IndexIs
  <2> QED
    BY <1>1, <1>2, <1>3, <2>1
<1>4. ASSUME NEW l \in DOMAIN Trades(map, ts)
      PROVE  l \in Locates /\ \E i \in 0..cnt-1 : map[i] = l
  <2>1. SUFFICES ASSUME \A i \in 0..cnt-1 : map[i] # l PROVE FALSE
    BY <1>1
  <2>2. IndexIn(map, l) \in SymIdx /\ IndexIn(map, l) \notin 0..cnt-1
    BY <1>1, <2>1, IndexIs
  <2> QED
    BY <1>1, <2>2 DEF Untraded
<1>5. Trades(map, ts) = [l \in DOMAIN Trades(map, ts) |-> Trades(map, ts)[l]]
  BY DEF Trades
<1> QED
  BY <1>3, <1>4, <1>5

\* They stay when a locate is registered.
LEMMA TradesStay ==
  ASSUME NEW map, NEW cnt, NEW map2, NEW cnt2, Extends(map, cnt, map2, cnt2),
         NEW ts, Untraded(cnt, ts)
  PROVE  Trades(map2, ts) = Trades(map, ts)
<1>1. GoodMap(map, cnt) /\ GoodMap(map2, cnt2) /\ cnt \in Nat /\ cnt2 \in Nat /\ cnt <= cnt2
  BY DEF Extends, GoodMap
<1>2. Untraded(cnt2, ts)
  BY <1>1 DEF Untraded
<1> DEFINE old == Trades(map, ts)
<1> DEFINE new == Trades(map2, ts)
<1>3. \A i \in 0..cnt-1 : i \in 0..cnt2-1 /\ map2[i] = map[i]
  BY <1>1 DEF Extends
<1>4. /\ old = [l \in DOMAIN old |-> old[l]]
      /\ \A i \in 0..cnt-1 : map[i] \in Locates =>
           /\ map[i] \in DOMAIN old <=> ts[i] # "none"
           /\ ts[i] # "none" => old[map[i]] = ts[i]
      /\ \A l \in DOMAIN old : l \in Locates /\ \E i \in 0..cnt-1 : map[i] = l
  BY <1>1, TradesAre
<1>5. /\ new = [l \in DOMAIN new |-> new[l]]
      /\ \A i \in 0..cnt2-1 : map2[i] \in Locates =>
           /\ map2[i] \in DOMAIN new <=> ts[i] # "none"
           /\ ts[i] # "none" => new[map2[i]] = ts[i]
      /\ \A l \in DOMAIN new : l \in Locates /\ \E i \in 0..cnt2-1 : map2[i] = l
  BY <1>1, <1>2, TradesAre
<1> HIDE DEF old, new
<1>6. ASSUME NEW l \in DOMAIN old
      PROVE  l \in DOMAIN new /\ new[l] = old[l]
  BY <1>3, <1>4, <1>5
<1>7. ASSUME NEW l \in DOMAIN new
      PROVE  l \in DOMAIN old
  <2>1. PICK i \in 0..cnt2-1 : map2[i] = l /\ l \in Locates
    BY <1>5
  <2>2. ts[i] # "none" /\ i \in SymIdx
    BY <1>1, <1>5, <2>1, IndexIs
  <2>3. i \in 0..cnt-1
    BY <2>2 DEF Untraded
  <2> QED
    BY <1>3, <1>4, <2>1, <2>2, <2>3
<1>8. DOMAIN new = DOMAIN old
  BY <1>6, <1>7
<1>9. new = old
  BY <1>4, <1>5, <1>6, <1>8, SameDict
<1> QED
  BY <1>9 DEF old, new

\* A trading action sets the state of its symbol.
LEMMA TradesMove ==
  ASSUME NEW map, NEW cnt, GoodMap(map, cnt), NEW ts, Untraded(cnt, ts),
         NEW s \in 0..cnt-1, map[s] \in Locates, DOMAIN ts = SymIdx,
         NEW c, c # "none"
  PROVE  /\ Trades(map, [ts EXCEPT ![s] = c])
              = [x \in DOMAIN Trades(map, ts) \cup {map[s]} |->
                   IF x = map[s] THEN c ELSE Trades(map, ts)[x]]
         /\ Untraded(cnt, [ts EXCEPT ![s] = c])
<1> DEFINE ts2 == [ts EXCEPT ![s] = c]
<1> DEFINE old == Trades(map, ts)
<1> DEFINE new == Trades(map, ts2)
<1>1. s \in SymIdx
  BY IndexIs
<1>2. /\ ts2[s] = c /\ \A i \in SymIdx : i # s => ts2[i] = ts[i]
      /\ Untraded(cnt, ts2)
  BY <1>1 DEF Untraded
<1>3. /\ old = [l \in DOMAIN old |-> old[l]]
      /\ \A i \in 0..cnt-1 : map[i] \in Locates =>
           /\ map[i] \in DOMAIN old <=> ts[i] # "none"
           /\ ts[i] # "none" => old[map[i]] = ts[i]
      /\ \A l \in DOMAIN old : l \in Locates /\ \E i \in 0..cnt-1 : map[i] = l
  BY TradesAre
<1> HIDE DEF ts2
<1>4. /\ new = [l \in DOMAIN new |-> new[l]]
      /\ \A i \in 0..cnt-1 : map[i] \in Locates =>
           /\ map[i] \in DOMAIN new <=> ts2[i] # "none"
           /\ ts2[i] # "none" => new[map[i]] = ts2[i]
      /\ \A l \in DOMAIN new : l \in Locates /\ \E i \in 0..cnt-1 : map[i] = l
  BY <1>2, TradesAre
<1>5. \A i \in 0..cnt-1 : i \in SymIdx /\ (map[i] = map[s] => i = s)
  BY IndexIs DEF GoodMap
<1> HIDE DEF old, new
<1>6. ASSUME NEW l
      PROVE  /\ l \in DOMAIN new <=> l \in DOMAIN old \/ l = map[s]
             /\ l = map[s] => new[l] = c
             /\ l \in DOMAIN old /\ l # map[s] => new[l] = old[l]
  <2>1. CASE \E i \in 0..cnt-1 : map[i] = l
    <3>1. PICK i \in 0..cnt-1 : map[i] = l
      BY <2>1
    <3>2. CASE i = s
      BY <1>2, <1>4, <3>1, <3>2
    <3>3. CASE i # s
      <4>1. l # map[s] /\ ts2[i] = ts[i]
        BY <1>2, <1>5, <3>1, <3>3
      <4> QED
        BY <1>3, <1>4, <3>1, <4>1
    <3> QED
      BY <3>2, <3>3
  <2>2. CASE ~\E i \in 0..cnt-1 : map[i] = l
    BY <1>3, <1>4, <2>2
  <2> QED
    BY <2>1, <2>2
<1> DEFINE put == [x \in DOMAIN old \cup {map[s]} |-> IF x = map[s] THEN c ELSE old[x]]
<1>7. DOMAIN new = DOMAIN old \cup {map[s]}
  BY <1>6
<1>8. \A l \in DOMAIN new : new[l] = IF l = map[s] THEN c ELSE old[l]
  BY <1>6
<1>9. new = put
  BY <1>4, <1>7, <1>8
<1> QED
  BY <1>2, <1>9 DEF old, new, ts2

(***************************************************************************)
(* The orders of the table, and the one that a replace is about to enter   *)
(***************************************************************************)
Off(u) == ~u.on
Entering(u, r) == u.on /\ r = u.ref

\* What gOrders says of a table t and the pending add half u.
Denotes(t, u, f) ==
  /\ f = [r \in DOMAIN f |-> f[r]]
  /\ \A r : r \in DOMAIN f <=> Entering(u, r) \/ \E s \in TabSlots : Has(t, s, r)
  /\ \A s \in TabSlots : t[s].valid /\ ~Entering(u, t[s].ref) =>
       f[t[s].ref] = OrderFrom(t[s].ref, t[s])
  /\ u.on => f[u.ref] = OrderFrom(u.ref, u)

\* What is denoted is one function.
LEMMA DenotesOne ==
  ASSUME NEW t, NEW u, NEW f, NEW g, Denotes(t, u, f), Denotes(t, u, g)
  PROVE  f = g
<1>1. DOMAIN f = DOMAIN g
  BY DEF Denotes
<1>2. ASSUME NEW r \in DOMAIN f
      PROVE  f[r] = g[r]
  <2>1. CASE Entering(u, r)
    BY <2>1 DEF Denotes, Entering
  <2>2. CASE ~Entering(u, r)
    <3>1. PICK s \in TabSlots : Has(t, s, r)
      BY <2>2 DEF Denotes
    <3>2. t[s].valid /\ t[s].ref = r
      BY <3>1 DEF Has
    <3> QED
      BY <2>2, <3>2 DEF Denotes
  <2> QED
    BY <2>1, <2>2
<1> QED
  BY <1>1, <1>2, SameDict DEF Denotes

\* The orders of the mapping are those of the table and the pending half.
LEMMA OrdersDenoted ==
  ASSUME st # "INVAL", SoundTable(tab)
  PROVE  Denotes(tab, uadd, gOrders)
<1>1. LiveSlots = {i \in TabSlots : tab[i].valid}
  BY DEF LiveSlots
<1>2. DOMAIN gOrders = TableRefs \cup (IF uadd.on THEN {uadd.ref} ELSE {})
  BY DEF gOrders
<1>3. ASSUME NEW r
      PROVE  r \in DOMAIN gOrders <=> Entering(uadd, r) \/ \E s \in TabSlots : Has(tab, s, r)
  BY <1>1, <1>2 DEF TableRefs, Entering, Has
<1>4. ASSUME NEW s \in TabSlots, tab[s].valid, ~Entering(uadd, tab[s].ref)
      PROVE  gOrders[tab[s].ref] = OrderFrom(tab[s].ref, tab[s])
  <2>1. PICK r : r = tab[s].ref
    OBVIOUS
  <2>2. PICK n : n = SlotOf(r)
    OBVIOUS
  <2>3. s \in LiveSlots /\ tab[s].ref = r
    BY <1>1, <1>4, <2>1
  <2>4. n \in LiveSlots /\ tab[n].ref = r
    BY <2>2, <2>3 DEF SlotOf
  <2>5. n = s
    BY <1>1, <1>4, <2>1, <2>4 DEF SoundTable, Has
  <2>6. r \in DOMAIN gOrders
    BY <1>2, <2>3 DEF TableRefs
  <2>7. gOrders[r] = OrderFrom(r, tab[n])
    BY <1>2, <1>4, <2>1, <2>2, <2>6 DEF gOrders, Entering
  <2> QED
    BY <2>1, <2>5, <2>7
<1>5. ASSUME uadd.on
      PROVE  gOrders[uadd.ref] = OrderFrom(uadd.ref, uadd)
  BY <1>2, <1>5 DEF gOrders
<1>6. gOrders = [r \in DOMAIN gOrders |-> gOrders[r]]
  BY DEF gOrders
<1> QED
  BY <1>3, <1>4, <1>5, <1>6 DEF Denotes

Without(f, r) == [x \in DOMAIN f \ {r} |-> f[x]]
With(f, r, v) == [x \in DOMAIN f \cup {r} |-> IF x = r THEN v ELSE f[x]]

\* An order goes from the table.
LEMMA OrderGoes ==
  ASSUME NEW t, SoundTable(t), DOMAIN t = TabSlots, NEW u, Off(u), NEW f, Denotes(t, u, f),
         NEW s \in TabSlots, NEW r, Has(t, s, r)
  PROVE  Denotes([t EXCEPT ![s] = Hole], u, Without(f, r))
<1> DEFINE t2 == [t EXCEPT ![s] = Hole]
<1> DEFINE g == Without(f, r)
<1>1. ~t2[s].valid /\ \A i \in TabSlots : i # s => t2[i] = t[i]
  BY DEF Hole
<1>2. \A i \in TabSlots : Has(t, i, r) => i = s
  BY DEF SoundTable, Has
<1>3. ASSUME NEW x
      PROVE  (\E i \in TabSlots : Has(t2, i, x)) <=> x # r /\ \E i \in TabSlots : Has(t, i, x)
  <2> HIDE DEF t2
  <2> QED
    BY <1>1, <1>2 DEF Has
<1>4. DOMAIN g = DOMAIN f \ {r} /\ \A x \in DOMAIN g : g[x] = f[x]
  BY DEF Without
<1>5. g = [x \in DOMAIN g |-> g[x]]
  BY DEF Without
<1> HIDE DEF t2, g
<1>6. \A x : x \in DOMAIN g <=> Entering(u, x) \/ \E i \in TabSlots : Has(t2, i, x)
  BY <1>3, <1>4 DEF Denotes, Entering, Off
<1>7. ASSUME NEW i \in TabSlots, t2[i].valid, ~Entering(u, t2[i].ref)
      PROVE  g[t2[i].ref] = OrderFrom(t2[i].ref, t2[i])
  <2>1. t2[i] = t[i] /\ i # s
    BY <1>1, <1>7
  <2>2. Has(t2, i, t2[i].ref)
    BY <1>7 DEF Has
  <2>3. t2[i].ref \in DOMAIN g
    BY <1>6, <2>2
  <2> QED
    BY <1>4, <1>7, <2>1, <2>3 DEF Denotes
<1> QED
  BY <1>5, <1>6, <1>7 DEF Denotes, Off, t2, g

\* An order enters a free slot of the table.
LEMMA OrderComes ==
  ASSUME NEW t, DOMAIN t = TabSlots, NEW u, Off(u), NEW f, Denotes(t, u, f),
         NEW s \in TabSlots, ~t[s].valid, NEW e, e.valid,
         \A i \in TabSlots : ~Has(t, i, e.ref)
  PROVE  Denotes([t EXCEPT ![s] = e], u, With(f, e.ref, OrderFrom(e.ref, e)))
<1> DEFINE t2 == [t EXCEPT ![s] = e]
<1> DEFINE g == With(f, e.ref, OrderFrom(e.ref, e))
<1>1. t2[s] = e /\ \A i \in TabSlots : i # s => t2[i] = t[i]
  OBVIOUS
<1>2. DOMAIN g = DOMAIN f \cup {e.ref}
  BY DEF With
<1>3. \A x \in DOMAIN g : g[x] = IF x = e.ref THEN OrderFrom(e.ref, e) ELSE f[x]
  BY DEF With
<1>4. g = [x \in DOMAIN g |-> g[x]]
  BY DEF With
<1> HIDE DEF t2, g
<1>5. ASSUME NEW x
      PROVE  (\E i \in TabSlots : Has(t2, i, x))
               <=> x = e.ref \/ \E i \in TabSlots : Has(t, i, x)
  BY <1>1 DEF Has
<1>6. \A x : x \in DOMAIN g <=> Entering(u, x) \/ \E i \in TabSlots : Has(t2, i, x)
  BY <1>2, <1>5 DEF Denotes, Entering, Off
<1>7. ASSUME NEW i \in TabSlots, t2[i].valid, ~Entering(u, t2[i].ref)
      PROVE  g[t2[i].ref] = OrderFrom(t2[i].ref, t2[i])
  <2>1. Has(t2, i, t2[i].ref)
    BY <1>7 DEF Has
  <2>2. t2[i].ref \in DOMAIN g
    BY <1>6, <2>1
  <2>3. CASE i = s
    BY <1>1, <1>3, <2>2, <2>3
  <2>4. CASE i # s
    <3>1. t2[i] = t[i] /\ t2[i].ref # e.ref
      BY <1>1, <1>7, <2>4 DEF Has
    <3> QED
      BY <1>3, <1>7, <2>2, <3>1 DEF Denotes
  <2> QED
    BY <2>3, <2>4
<1> QED
  BY <1>4, <1>6, <1>7 DEF Denotes, Off, t2, g

\* An order of the table changes and keeps its reference.
LEMMA OrderChanges ==
  ASSUME NEW t, SoundTable(t), DOMAIN t = TabSlots, NEW u, Off(u), NEW f, Denotes(t, u, f),
         NEW s \in TabSlots, NEW r, Has(t, s, r), NEW e, e.valid, e.ref = r
  PROVE  Denotes([t EXCEPT ![s] = e], u, [f EXCEPT ![r] = OrderFrom(r, e)])
<1> DEFINE t2 == [t EXCEPT ![s] = e]
<1> DEFINE g == [f EXCEPT ![r] = OrderFrom(r, e)]
<1>1. t2[s] = e /\ \A i \in TabSlots : i # s => t2[i] = t[i]
  OBVIOUS
<1>2. \A i \in TabSlots : Has(t, i, r) => i = s
  BY DEF SoundTable, Has
<1>3. DOMAIN g = DOMAIN f
  OBVIOUS
<1>4. r \in DOMAIN f
  BY DEF Denotes
<1>5. \A x \in DOMAIN g : g[x] = IF x = r THEN OrderFrom(r, e) ELSE f[x]
  BY <1>4
<1>6. g = [x \in DOMAIN g |-> g[x]]
  BY DEF Denotes
<1> HIDE DEF t2, g
<1>7. ASSUME NEW x
      PROVE  (\E i \in TabSlots : Has(t2, i, x)) <=> \E i \in TabSlots : Has(t, i, x)
  BY <1>1, <1>2 DEF Has
<1>8. \A x : x \in DOMAIN g <=> Entering(u, x) \/ \E i \in TabSlots : Has(t2, i, x)
  BY <1>3, <1>7 DEF Denotes, Entering, Off
<1>9. ASSUME NEW i \in TabSlots, t2[i].valid, ~Entering(u, t2[i].ref)
      PROVE  g[t2[i].ref] = OrderFrom(t2[i].ref, t2[i])
  <2>1. Has(t2, i, t2[i].ref)
    BY <1>9 DEF Has
  <2>2. t2[i].ref \in DOMAIN g
    BY <1>8, <2>1
  <2>3. CASE i = s
    BY <1>1, <1>5, <2>2, <2>3
  <2>4. CASE i # s
    <3>1. t2[i] = t[i] /\ t2[i].ref # r
      BY <1>1, <1>2, <1>9, <2>4 DEF Has
    <3> QED
      BY <1>5, <1>9, <2>2, <3>1 DEF Denotes
  <2> QED
    BY <2>3, <2>4
<1> QED
  BY <1>6, <1>8, <1>9 DEF Denotes, Off, t2, g

\* An order is about to enter.
LEMMA OrderEnters ==
  ASSUME NEW t, NEW u, Off(u), NEW f, Denotes(t, u, f),
         NEW v, v.on, \A i \in TabSlots : ~Has(t, i, v.ref)
  PROVE  Denotes(t, v, With(f, v.ref, OrderFrom(v.ref, v)))
<1> DEFINE g == With(f, v.ref, OrderFrom(v.ref, v))
<1>1. DOMAIN g = DOMAIN f \cup {v.ref}
  BY DEF With
<1>2. \A x \in DOMAIN g : g[x] = IF x = v.ref THEN OrderFrom(v.ref, v) ELSE f[x]
  BY DEF With
<1>3. g = [x \in DOMAIN g |-> g[x]]
  BY DEF With
<1> HIDE DEF g
<1>4. \A x : x \in DOMAIN g <=> Entering(v, x) \/ \E i \in TabSlots : Has(t, i, x)
  BY <1>1 DEF Denotes, Entering, Off
<1>5. ASSUME NEW i \in TabSlots, t[i].valid, ~Entering(v, t[i].ref)
      PROVE  g[t[i].ref] = OrderFrom(t[i].ref, t[i])
  <2>1. Has(t, i, t[i].ref)
    BY <1>5 DEF Has
  <2>2. t[i].ref \in DOMAIN g /\ t[i].ref # v.ref
    BY <1>4, <2>1
  <2> QED
    BY <1>2, <1>5, <2>2 DEF Denotes, Entering, Off
<1>6. g[v.ref] = OrderFrom(v.ref, v)
  BY <1>1, <1>2
<1> QED
  BY <1>3, <1>4, <1>5, <1>6 DEF Denotes, g

\* It has entered: the table says what the pending half said.
LEMMA OrderEntered ==
  ASSUME NEW t, DOMAIN t = TabSlots, NEW u, u.on, NEW f, Denotes(t, u, f),
         NEW s \in TabSlots, ~t[s].valid, \A i \in TabSlots : ~Has(t, i, u.ref),
         NEW v, Off(v), NEW e, e.valid, e.ref = u.ref,
         OrderFrom(u.ref, e) = OrderFrom(u.ref, u)
  PROVE  Denotes([t EXCEPT ![s] = e], v, f)
<1> DEFINE t2 == [t EXCEPT ![s] = e]
<1>1. t2[s] = e /\ \A i \in TabSlots : i # s => t2[i] = t[i]
  OBVIOUS
<1> HIDE DEF t2
<1>2. ASSUME NEW x
      PROVE  (\E i \in TabSlots : Has(t2, i, x))
               <=> x = u.ref \/ \E i \in TabSlots : Has(t, i, x)
  BY <1>1 DEF Has
<1>3. \A x : x \in DOMAIN f <=> Entering(v, x) \/ \E i \in TabSlots : Has(t2, i, x)
  BY <1>2 DEF Denotes, Entering, Off
<1>4. ASSUME NEW i \in TabSlots, t2[i].valid
      PROVE  f[t2[i].ref] = OrderFrom(t2[i].ref, t2[i])
  <2>1. CASE i = s
    BY <1>1, <2>1 DEF Denotes
  <2>2. CASE i # s
    <3>1. t2[i] = t[i] /\ t[i].ref # u.ref
      BY <1>1, <1>4, <2>2 DEF Has
    <3> QED
      BY <1>4, <3>1 DEF Denotes, Entering
  <2> QED
    BY <2>1, <2>2
<1> QED
  BY <1>3, <1>4 DEF Denotes, Off, t2

(***************************************************************************)
(* The events of the symbols as those of their locates                     *)
(***************************************************************************)
\* The last event of each locate of em: of the one that owes one, the BBO
\* that it owes, of the others what the engine keeps of it, pv.
Events(map, pv, em, owes, loc, bbo) ==
  [l \in em |-> IF owes /\ l = loc THEN bbo ELSE pv[IndexIn(map, l)]]
ListsAll(map, cnt, em) == \A l \in em : \E i \in 0..cnt-1 : map[i] = l

\* A listed locate keeps its index.
LEMMA ListedIndex ==
  ASSUME NEW map, NEW cnt, NEW map2, NEW cnt2, Extends(map, cnt, map2, cnt2),
         NEW i \in 0..cnt-1
  PROVE  IndexIn(map, map[i]) = i /\ IndexIn(map2, map[i]) = i
<1>1. GoodMap(map, cnt) /\ GoodMap(map2, cnt2) /\ cnt \in Nat /\ cnt2 \in Nat /\ cnt <= cnt2
  BY DEF Extends, GoodMap
<1>2. i \in 0..cnt2-1 /\ map2[i] = map[i]
  BY <1>1 DEF Extends
<1>3. IndexIn(map, map[i]) = i
  BY <1>1, IndexIs
<1>4. IndexIn(map2, map2[i]) = i
  BY <1>1, <1>2, IndexIs
<1> QED
  BY <1>2, <1>3, <1>4

\* The last events stay when a locate is registered.
LEMMA EventsStay ==
  ASSUME NEW map, NEW cnt, NEW map2, NEW cnt2, Extends(map, cnt, map2, cnt2),
         NEW pv, NEW em, ListsAll(map, cnt, em), NEW owes,
         NEW loc, NEW bbo, NEW loc2, NEW bbo2, owes => loc2 = loc /\ bbo2 = bbo
  PROVE  Events(map2, pv, em, owes, loc2, bbo2) = Events(map, pv, em, owes, loc, bbo)
<1>1. ASSUME NEW l \in em
      PROVE  IndexIn(map2, l) = IndexIn(map, l)
  BY ListedIndex DEF ListsAll
<1> QED
  BY <1>1 DEF Events

\* The event goes out.
Paid(map, map2, pv, pv2, em, s, bbo) ==
  \A l \in em : pv2[IndexIn(map2, l)]
                = IF l = map[s] THEN bbo ELSE pv[IndexIn(map, l)]

\* What is kept of an event is the one that went out.
LEMMA EventsPay ==
  ASSUME NEW map, NEW cnt, NEW map2, NEW cnt2, Extends(map, cnt, map2, cnt2),
         NEW pv, DOMAIN pv = SymIdx, NEW em, ListsAll(map, cnt, em),
         NEW s \in 0..cnt-1, NEW bbo,
         NEW pv2, pv2 = [pv EXCEPT ![s] = bbo]
  PROVE  Paid(map, map2, pv, pv2, em, s, bbo)
<1>1. GoodMap(map, cnt) /\ s \in SymIdx
  BY IndexIs DEF Extends
<1> SUFFICES ASSUME NEW l \in em
             PROVE  pv2[IndexIn(map2, l)]
                      = IF l = map[s] THEN bbo ELSE pv[IndexIn(map, l)]
  BY DEF Paid
<1>2. PICK i \in 0..cnt-1 : map[i] = l
  BY DEF ListsAll
<1>3. IndexIn(map2, l) = i /\ IndexIn(map, l) = i /\ i \in SymIdx
  BY <1>1, <1>2, ListedIndex, IndexIs
<1>4. l = map[s] <=> i = s
  BY <1>1, <1>2 DEF GoodMap
<1> QED
  BY <1>1, <1>3, <1>4

\* An event becomes due.
LEMMA EventsOwe ==
  ASSUME NEW map, NEW cnt, NEW map2, NEW cnt2, Extends(map, cnt, map2, cnt2),
         NEW pv, NEW em, ListsAll(map, cnt, em),
         NEW loc, NEW bbo, NEW loc1, NEW bbo1
  PROVE  Events(map2, pv, em \cup {loc}, TRUE, loc, bbo)
           = With(Events(map, pv, em, FALSE, loc1, bbo1), loc, bbo)
<1>1. ASSUME NEW l \in em
      PROVE  IndexIn(map2, l) = IndexIn(map, l)
  BY ListedIndex DEF ListsAll
<1>2. DOMAIN Events(map, pv, em, FALSE, loc1, bbo1) = em
  BY DEF Events
<1>3. \A l \in em : Events(map, pv, em, FALSE, loc1, bbo1)[l] = pv[IndexIn(map, l)]
  BY DEF Events
<1>4. \A l \in em \cup {loc} :
        (IF l = loc THEN bbo ELSE pv[IndexIn(map2, l)])
          = IF l = loc THEN bbo ELSE Events(map, pv, em, FALSE, loc1, bbo1)[l]
  BY <1>1, <1>3
<1> QED
  BY <1>2, <1>4 DEF Events, With

(***************************************************************************)
(* The invariant                                                           *)
(***************************************************************************)
\* What the pipeline registers hold of the message that they work on.
StageInv ==
  /\ st \in Stages \cup {"UADD"} => emitOk
  /\ OwesEvent => ~cur.bad /\ cur.msg.loc \in emitted
  /\ InLevels => /\ lv.key = <<cur.sym, lv.op.side>>
                 /\ QtyIn(LevelMap(lvl[lv.key]), lv.op.px) + lv.op.delta >= 0
  /\ InLevels /\ uadd.on => lv.op.delta < 0
  /\ emitOk /\ st \in {"EMIT_B", "EMIT_C"} =>
       /\ cap.B = lvl[<<cur.sym, "B">>] /\ cap.S = lvl[<<cur.sym, "S">>]
  /\ emitOk /\ st = "EMIT_C" => /\ sel.B = FirstOne(NonEmpty(cap.B))
                                /\ sel.S = FirstOne(NonEmpty(cap.S))

\* No symbol has a book or a trading state before it is registered.
FreshInv ==
  /\ \A i \in SymIdx, sd \in Sides : i \notin 0..locCnt-1 => lvl[<<i, sd>>] = EmptySide
  /\ Untraded(locCnt, tstate)

EmittedInv == emitted \subseteq Locates /\ ListsAll(locMap, locCnt, emitted)

BaseInv == EngineInv /\ SymbolInv /\ ListInv /\ StageInv /\ FreshInv /\ EmittedInv

(***************************************************************************)
(* The mapping, from the registers that it reads                           *)
(***************************************************************************)
Finals == [k \in SymIdx \X Sides |-> FinalMap(k)]
BboIn(F, s) == <<Top("B", F[<<s, "B">>]), Top("S", F[<<s, "S">>])>>

\* The map of the engine is such a map.
LEMMA MapIsGood ==
  ASSUME SymbolInv
  PROVE  GoodMap(locMap, locCnt) /\ locCnt \in Nat
BY DEF SymbolInv, MapInv, GoodMap

\* loc_lookup is IndexIn of the map.
LEMMA LookupIsIndex == \A l : LocLookup(l) = IndexIn(locMap, l)
BY DEF LocLookup, IndexIn

\* Whoever owes an event, or will, is listed.
LEMMA OwnSymbol ==
  ASSUME EngineInv, SymbolInv, InTail, ~cur.bad
  PROVE  /\ cur.sym \in 0..locCnt-1 /\ cur.sym \in SymIdx
         /\ locMap[cur.sym] = cur.msg.loc /\ cur.msg.loc \in Locates
         /\ cur.msg \in Msgs
<1>1. cur.msg \in Msgs /\ cur.sym \in SymIdx
  BY InFlightMessage DEF EngineInv
<1>2. cur.msg # Blank /\ cur.msg.loc \in Locates
  BY <1>1, MessageAssumption DEF Message, Blank, Types, LookupTypes, AddTypes, ReduceTypes
<1>3. Belongs(cur)
  BY <1>2 DEF SymbolInv, SymbolRight
<1>4. SymIdx \subseteq Nat /\ locCnt \in Nat
  BY EngineAssumption, MapIsGood DEF SymIdx
<1>5. cur.sym \in 0..locCnt-1
  <2>1. \A n, c \in Nat : n < c => n \in 0..c-1
    OBVIOUS
  <2>2. cur.sym < locCnt
    BY <1>3 DEF Belongs
  <2> QED
    BY <1>1, <1>4, <2>1, <2>2
<1> QED
  BY <1>1, <1>2, <1>3, <1>5 DEF Belongs

\* Who is at work on a level, or has an add half to come, owes an event.
LEMMA Owing ==
  ASSUME EngineInv, StageInv
  PROVE  /\ OwesEvent => InTail /\ ~cur.bad /\ cur.msg.loc \in emitted
         /\ InLevels => OwesEvent
         /\ uadd.on => OwesEvent
         /\ st = "APPLY" => ~OwesEvent /\ ~InLevels /\ ~uadd.on /\ InTail
<1>1. OwesEvent => InTail /\ ~cur.bad /\ cur.msg.loc \in emitted
  BY DEF StageInv, OwesEvent, InLevels, InTail
<1>2. InLevels => OwesEvent
  BY DEF StageInv, OwesEvent, InLevels, Stages
<1>3. uadd.on => st \in {"LV2", "LV2B", "LV3", "UADD"}
  BY DEF EngineInv, BookInv, PendingInv
<1>4. uadd.on => OwesEvent
  BY <1>3 DEF StageInv, OwesEvent, InLevels, Stages
<1>5. st = "APPLY" => ~OwesEvent /\ ~InLevels /\ ~uadd.on /\ InTail
  BY <1>3 DEF OwesEvent, InLevels, InTail
<1> QED
  BY <1>1, <1>2, <1>4, <1>5

\* A list that is reset is the empty dictionary.
LEMMA EmptyMap == LevelMap(EmptySide) = NoLevels
<1>1. NonEmpty(EmptySide) = {}
  BY DEF NonEmpty, EmptySide, EmptyLevel
<1> QED
  BY <1>1 DEF LevelMap, NoLevels

\* No symbol has levels before it is registered.
LEMMA FinalsFresh ==
  ASSUME EngineInv, SymbolInv, StageInv, FreshInv
  PROVE  Fresh(locCnt, Finals)
<1> SUFFICES ASSUME NEW i \in SymIdx, NEW sd \in Sides, i \notin 0..locCnt-1
             PROVE  Finals[<<i, sd>>] = NoLevels
  BY DEF Fresh
<1>1. LevelMap(lvl[<<i, sd>>]) = NoLevels
  BY EmptyMap DEF FreshInv
<1>2. InLevels \/ uadd.on => cur.sym # i
  BY Owing, OwnSymbol
<1>3. InLevels => lv.key # <<i, sd>>
  BY <1>2 DEF StageInv
<1>4. FinalMap(<<i, sd>>) = LevelMap(lvl[<<i, sd>>])
  BY <1>2, <1>3 DEF FinalMap
<1> QED
  BY <1>1, <1>4 DEF Finals

\* Each part of the mapping, from the registers that it reads.
LEMMA LevelsSpread ==
  ASSUME SymbolInv
  PROVE  gLevels = Spread(locMap, Finals)
<1>1. ASSUME NEW k \in Locates \X Sides
      PROVE  (IF Known(k[1]) THEN FinalMap(<<LocLookup(k[1]), k[2]>>) ELSE [p \in {} |-> 0])
               = LevelsAt(locMap, Finals, k)
  <2>1. LocLookup(k[1]) = IndexIn(locMap, k[1])
    BY LookupIsIndex
  <2>2. CASE IndexIn(locMap, k[1]) = Unlisted
    BY <2>1, <2>2 DEF Known, LevelsAt, NoLevels
  <2>3. CASE IndexIn(locMap, k[1]) # Unlisted
    <3>1. IndexIn(locMap, k[1]) \in SymIdx
      <4>1. CASE \E i \in 0..locCnt-1 : locMap[i] = k[1]
        BY <4>1, MapIsGood, IndexIs
      <4>2. CASE \A i \in 0..locCnt-1 : locMap[i] # k[1]
        BY <2>3, <4>2, MapIsGood, IndexIs
      <4> QED
        BY <4>1, <4>2
    <3>2. Finals[<<IndexIn(locMap, k[1]), k[2]>>] = FinalMap(<<IndexIn(locMap, k[1]), k[2]>>)
      BY <3>1 DEF Finals
    <3> QED
      BY <2>1, <2>3, <3>2 DEF Known, LevelsAt
  <2> QED
    BY <2>2, <2>3
<1> QED
  BY <1>1 DEF gLevels, Spread

LEMMA TradingSpread == gTrading = Trades(locMap, tstate)
BY LookupIsIndex DEF gTrading, Trades, Known

LEMMA BboSpread ==
  ASSUME cur.sym \in SymIdx
  PROVE  OwedBbo = BboIn(Finals, cur.sym)
BY DEF OwedBbo, BboIn, Finals, Sides

LEMMA LastBboSpread ==
  gLastBbo = Events(locMap, prev, emitted, OwesEvent, cur.msg.loc, OwedBbo)
BY LookupIsIndex DEF gLastBbo, Events

LEMMA LevelsSpreadNext == SymbolInv' => gLevels' = Spread(locMap', Finals')
<1>1. SymbolInv => gLevels = Spread(locMap, Finals)
  BY LevelsSpread
<1>2. (SymbolInv => gLevels = Spread(locMap, Finals))'
  BY <1>1, PTL
<1> QED
  BY <1>2

Mapped ==
  /\ gLevels = Spread(locMap, Finals)
  /\ gTrading = Trades(locMap, tstate)
  /\ gLastBbo = Events(locMap, prev, emitted, OwesEvent, cur.msg.loc, OwedBbo)
  /\ cur.sym \in SymIdx => OwedBbo = BboIn(Finals, cur.sym)

LEMMA MappedIs == SymbolInv => Mapped
BY LevelsSpread, TradingSpread, LastBboSpread, BboSpread DEF Mapped

LEMMA MappedNext == SymbolInv' => Mapped'
<1>1. SymbolInv => Mapped
  BY MappedIs
<1>2. (SymbolInv => Mapped)'
  BY <1>1, PTL
<1> QED
  BY <1>2

\* A cycle registers a locate or leaves the map alone.
LEMMA StepExtends ==
  ASSUME EngineInv, SymbolInv, NamedLocates, NEW w \in Offers, NEW rdy, Cycle(w, rdy)
  PROVE  SymbolInv' /\ Extends(locMap, locCnt, locMap', locCnt')
<1>1. SymbolInv'
  BY SymbolStep DEF EngineInv
<1>2. GoodMap(locMap, locCnt) /\ locCnt \in Nat
  BY MapIsGood
<1>3. GoodMap(locMap', locCnt')
  BY <1>1 DEF SymbolInv, MapInv, GoodMap
<1>4. UNCHANGED <<locMap, locCnt>> \/ \E new \in BOOLEAN : Register(new, w)
  <2>1. Opens(w) \/ Buffers(w) \/ Goes
    BY SymbolKinds DEF EngineInv, ReceiveInv
  <2>2. CASE Opens(w)
    BY <2>2 DEF Opens
  <2>3. CASE Buffers(w)
    BY <2>3 DEF Buffers, NxRecv, NxStarts, Receives
  <2>4. CASE Goes
    BY <2>4 DEF Goes
  <2> QED
    BY <2>1, <2>2, <2>3, <2>4
<1>5. CASE UNCHANGED <<locMap, locCnt>>
  BY <1>1, <1>2, <1>5 DEF Extends
<1>6. CASE ~UNCHANGED <<locMap, locCnt>>
  <2>1. locMap' = [locMap EXCEPT ![locCnt] = w.msg.loc] /\ locCnt' = locCnt + 1
    BY <1>4, <1>6 DEF Register
  <2>2. locMap \in [SymIdx -> Locates \cup {NoLocate}]
    BY DEF SymbolInv, MapInv, Registry
  <2>3. \A i \in 0..locCnt-1 : locMap'[i] = locMap[i]
    <3> SUFFICES ASSUME NEW i \in 0..locCnt-1 PROVE locMap'[i] = locMap[i]
      OBVIOUS
    <3>1. i \in SymIdx /\ i # locCnt
      BY <1>2, IndexIs
    <3> QED
      BY <2>1, <2>2, <3>1
  <2> QED
    BY <1>1, <1>2, <1>3, <2>1, <2>3 DEF Extends
<1> QED
  BY <1>1, <1>5, <1>6

\* The step of a register that the mapping completes: it changes nothing of
\* the reference state.
Calm ==
  /\ Finals' = Finals /\ gOrders' = gOrders
  /\ UNCHANGED <<prev, tstate, crosses, emitted>>
  /\ OwesEvent' = OwesEvent
  /\ OwesEvent => UNCHANGED <<cur, marketOpen>>

\* What changes nothing of those registers is a stutter of the reference.
LEMMA CalmStep ==
  ASSUME EngineInv, SymbolInv, StageInv, FreshInv, EmittedInv,
         SymbolInv', Extends(locMap, locCnt, locMap', locCnt'), Calm
  PROVE  Abstract' = Abstract
<1>1. Mapped /\ Mapped'
  BY MappedIs, MappedNext
<1>2. gLevels' = gLevels
  <2>1. Fresh(locCnt, Finals)
    BY FinalsFresh
  <2>2. Spread(locMap', Finals) = Spread(locMap, Finals)
    BY <2>1, SpreadStays
  <2> QED
    BY <1>1, <2>2 DEF Mapped, Calm
<1>3. gTrading' = gTrading
  BY <1>1, TradesStay DEF Mapped, Calm, FreshInv
<1>4. OwesEvent => OwedBbo' = OwedBbo /\ cur' = cur /\ OwesCross' = OwesCross
  <2> SUFFICES ASSUME OwesEvent PROVE OwedBbo' = OwedBbo /\ cur' = cur /\ OwesCross' = OwesCross
    OBVIOUS
  <2>1. cur' = cur /\ marketOpen' = marketOpen /\ tstate' = tstate
    BY DEF Calm
  <2>2. cur.sym \in SymIdx
    BY Owing, OwnSymbol
  <2>3. OwedBbo' = OwedBbo
    BY <1>1, <2>1, <2>2 DEF Mapped, Calm, BboIn
  <2> QED
    BY <2>1, <2>3 DEF OwesCross, Calm
<1>5. OwesCross' = OwesCross
  BY <1>4 DEF OwesCross, Calm
<1>6. gLastBbo' = gLastBbo
  <2>1. PICK loc, bbo, loc2, bbo2 : /\ loc = cur.msg.loc /\ bbo = OwedBbo
                                    /\ loc2 = cur'.msg.loc /\ bbo2 = OwedBbo'
    OBVIOUS
  <2>2. OwesEvent => loc2 = loc /\ bbo2 = bbo
    BY <1>4, <2>1
  <2>3. Events(locMap', prev, emitted, OwesEvent, loc2, bbo2)
          = Events(locMap, prev, emitted, OwesEvent, loc, bbo)
    BY <2>2, EventsStay DEF EmittedInv
  <2> QED
    BY <1>1, <2>1, <2>3 DEF Mapped, Calm
<1>7. gCrosses' = gCrosses
  BY <1>5 DEF gCrosses, Calm
<1>8. gOrders' = gOrders
  BY DEF Calm
<1> QED
  BY <1>2, <1>3, <1>6, <1>7, <1>8 DEF Abstract

(***************************************************************************)
(* The steps that complete what the mapping already tells                  *)
(***************************************************************************)
LEMMA TableDenoted ==
  ASSUME EngineInv, st # "INVAL"
  PROVE  Denotes(tab, uadd, gOrders) /\ SoundTable(tab) /\ DOMAIN tab = TabSlots
<1>1. SoundTable(tab) /\ tab \in [TabSlots -> Entry]
  BY DEF EngineInv, BookInv, TableInv
<1> QED
  BY <1>1, OrdersDenoted

\* The same after the cycle.
LEMMA TableDenotedNext == EngineInv' /\ st' # "INVAL" => Denotes(tab', uadd', gOrders')
<1>1. EngineInv /\ st # "INVAL" => Denotes(tab, uadd, gOrders)
  BY TableDenoted
<1>2. (EngineInv /\ st # "INVAL" => Denotes(tab, uadd, gOrders))'
  BY <1>1, PTL
<1> QED
  BY <1>2

\* The table is left alone, and the pending half of a replace too.
LEMMA OrdersStay ==
  ASSUME tab' = tab, st # "INVAL", st' # "INVAL",
         uadd' = uadd \/ (~uadd.on /\ ~uadd'.on)
  PROVE  gOrders' = gOrders
<1>1. LiveSlots' = LiveSlots
  BY DEF LiveSlots
<1>2. TableRefs' = TableRefs
  BY <1>1 DEF TableRefs
<1>3. \A r : SlotOf(r)' = SlotOf(r)
  BY <1>1 DEF SlotOf
<1>4. CASE uadd' = uadd
  BY <1>2, <1>3, <1>4 DEF gOrders, OrderFrom
<1>5. CASE ~uadd.on /\ ~uadd'.on
  BY <1>2, <1>3, <1>5 DEF gOrders, OrderFrom
<1> QED
  BY <1>4, <1>5

\* No operation is under way before and after.
LEMMA FinalsRest ==
  ASSUME lvl' = lvl, ~InLevels, ~InLevels', ~uadd.on, ~uadd'.on
  PROVE  Finals' = Finals
BY DEF Finals, FinalMap

\* The same operation is under way.
LEMMA FinalsStay ==
  ASSUME lvl' = lvl, InLevels' = InLevels, lv' = lv, uadd' = uadd, cur' = cur
  PROVE  Finals' = Finals
<1>1. \A k : FinalMap(k)' = FinalMap(k)
  BY DEF FinalMap
<1> QED
  BY <1>1 DEF Finals

Noted ==
  emitted' = IF st = "APPLY" /\ ~cur.bad /\ emitOk'
             THEN emitted \cup {cur.msg.loc} ELSE emitted

\* Steps with nothing under way before or after.
Resting ==
  /\ UNCHANGED <<tab, lvl, prev, tstate, crosses>>
  /\ st # "INVAL" /\ st' # "INVAL"
  /\ ~OwesEvent /\ ~OwesEvent' /\ ~InLevels' /\ ~uadd'.on
  /\ ~(st = "APPLY" /\ ~cur.bad /\ emitOk')

\* Such a step is calm.
LEMMA RestingCalm ==
  ASSUME EngineInv, StageInv, Noted, Resting
  PROVE  Calm
<1>1. ~InLevels /\ ~uadd.on
  BY Owing DEF Resting
<1>2. Finals' = Finals
  BY <1>1, FinalsRest DEF Resting
<1>3. gOrders' = gOrders
  BY <1>1, OrdersStay DEF Resting
<1>4. emitted' = emitted
  BY DEF Noted, Resting
<1>5. OwesEvent' = OwesEvent
  BY DEF Resting, OwesEvent
<1> QED
  BY <1>2, <1>3, <1>4, <1>5 DEF Calm, Resting

\* Which steps they are.
LEMMA RestingSteps ==
  ASSUME EngineInv, StageInv, NEW w, NEW rdy, Cycle(w, rdy)
  PROVE  /\ W0(w) \/ TS(w) \/ Body(w) \/ WaitProbe(w) => Resting
         /\ ApplyDiscard(w) \/ EmitNothing(w) \/ Swap => Resting
         /\ st = "APPLY" /\ Fruitless(w) => Resting
<1>1. OwesEvent => st \in Stages \cup {"UADD", "EMIT_A", "EMIT_B", "EMIT_C"} /\ emitOk
  BY DEF OwesEvent, InLevels, Stages
<1>2. uadd.on => st \in Stages \cup {"UADD"}
  BY DEF EngineInv, BookInv, PendingInv, Stages
<1>3. (st' \notin Stages \cup {"UADD", "EMIT_A", "EMIT_B", "EMIT_C"} \/ ~emitOk')
        /\ st' \notin Stages => ~OwesEvent' /\ ~InLevels'
  BY DEF OwesEvent, InLevels, Stages
<1>4. ASSUME W0(w) \/ TS(w) \/ Body(w) \/ WaitProbe(w) PROVE Resting
  <2>1. UNCHANGED <<bookVars, stageVars>>
    BY <1>4 DEF W0, TS, Body, WaitProbe
  <2>2. st \in {"W0", "TS", "BODY", "WAIT_PROBE"}
    BY <1>4 DEF W0, TS, Body, WaitProbe
  <2>3. st' \in {"W0", "TS", "BODY", "WAIT_PROBE", "APPLY"}
    BY <1>4 DEF W0, TS, Body, WaitProbe
  <2> QED
    BY <1>1, <1>2, <1>3, <2>1, <2>2, <2>3 DEF Resting, bookVars, stageVars, Stages
<1>5. ASSUME ApplyDiscard(w) \/ EmitNothing(w) \/ Swap PROVE Resting
  <2>1. UNCHANGED <<bookVars, stageVars>>
    BY <1>5 DEF ApplyDiscard, EmitNothing, Swap
  <2>2. /\ st \in {"APPLY", "EMIT_C", "SWAP"}
        /\ (st = "EMIT_C" => ~emitOk) /\ (st = "APPLY" => cur.bad)
    BY <1>5 DEF ApplyDiscard, EmitNothing, Swap
  <2>3. st' \in {"W0", "WAIT_PROBE", "APPLY", "TS", "BODY", "SWAP"}
    BY <1>5, EndStates DEF ApplyDiscard, EmitNothing, Swap, SwapNext
  <2> QED
    BY <1>1, <1>2, <1>3, <2>1, <2>2, <2>3 DEF Resting, bookVars, stageVars, Stages
<1>6. ASSUME st = "APPLY", Fruitless(w) PROVE Resting
  BY <1>1, <1>2, <1>3, <1>6 DEF Fruitless, Resting, Stages, NoUadd
<1> QED
  BY <1>4, <1>5, <1>6

\* Steps in which the message under way waits or moves from stage to stage.
Moving ==
  /\ UNCHANGED <<tab, lvl, prev, tstate, crosses, marketOpen, cur, lv, uadd>>
  /\ st # "INVAL" /\ st' # "INVAL" /\ st # "APPLY"
  /\ InLevels' = InLevels /\ OwesEvent' = OwesEvent

\* Such a step is calm.
LEMMA MovingCalm ==
  ASSUME EngineInv, StageInv, Noted, Moving
  PROVE  Calm
<1>1. Finals' = Finals
  BY FinalsStay DEF Moving
<1>2. gOrders' = gOrders
  BY OrdersStay DEF Moving
<1>3. emitted' = emitted
  BY DEF Noted, Moving
<1> QED
  BY <1>1, <1>2, <1>3 DEF Calm, Moving

\* Which steps they are.
LEMMA MovingSteps ==
  ASSUME NEW w
  PROVE  Lv2(w) \/ Lv2b(w) \/ EmitA(w) \/ EmitB(w) \/ EmitWait(w) => Moving
<1>1. Lv2(w) => Moving
  BY DEF Lv2, Background, Moving, bookVars, stageVars, InLevels, OwesEvent
<1>2. Lv2b(w) => Moving
  BY DEF Lv2b, Background, Moving, bookVars, InLevels, OwesEvent
<1>3. EmitA(w) => Moving
  BY DEF EmitA, Background, Moving, bookVars, InLevels, OwesEvent
<1>4. EmitB(w) => Moving
  BY DEF EmitB, Background, Moving, bookVars, InLevels, OwesEvent
<1>5. EmitWait(w) => Moving
  BY DEF EmitWait, Background, Moving, bookVars, stageVars, InLevels, OwesEvent
<1> QED
  BY <1>1, <1>2, <1>3, <1>4, <1>5

\* The table is cleared, and nothing else has happened yet.
LEMMA InvalCalm ==
  ASSUME EngineInv, EngineInv', StageInv, Noted, Inval
  PROVE  Calm
<1>1. st = "INVAL" /\ st' \in {"INVAL", "W0"} /\ UNCHANGED <<lvl, prev, tstate, crosses, uadd>>
  BY DEF Inval, stageVars
<1>2. ~uadd.on /\ ~uadd'.on
  BY <1>1 DEF EngineInv, BookInv, PendingInv
<1>3. ~InLevels /\ ~InLevels' /\ ~OwesEvent /\ ~OwesEvent'
  BY <1>1 DEF InLevels, OwesEvent
<1>4. Finals' = Finals
  BY <1>1, <1>2, <1>3, FinalsRest
<1>5. emitted' = emitted
  BY <1>1 DEF Noted
<1>6. gOrders' = gOrders
  <2>1. LiveSlots = {} /\ LiveSlots' = {}
    <3>1. LiveSlots = {}
      BY <1>1 DEF LiveSlots
    <3>2. CASE st' = "INVAL"
      BY <3>1, <3>2 DEF LiveSlots
    <3>3. CASE st' = "W0"
      <4>1. inval = NSLOT - 1 /\ tab' = [tab EXCEPT ![inval] = Hole]
        BY <3>3 DEF Inval, LastSlot
      <4>2. /\ tab \in [TabSlots -> Entry] /\ inval \in TabSlots
            /\ \A i \in TabSlots : i < inval => tab[i] = Hole
        BY <1>1 DEF EngineInv, BookInv, TableInv
      <4>3. \A i \in TabSlots : i < inval \/ i = inval
        BY <4>1, EngineAssumption DEF TabSlots
      <4>4. \A i \in TabSlots : tab'[i] = Hole
        BY <4>1, <4>2, <4>3
      <4> QED
        BY <3>1, <3>3, <4>4 DEF LiveSlots, Hole
    <3> QED
      BY <1>1, <3>1, <3>2, <3>3
  <2>2. TableRefs = {} /\ TableRefs' = {}
    BY <2>1 DEF TableRefs
  <2> QED
    BY <1>2, <2>2 DEF gOrders
<1>7. OwesEvent' = OwesEvent
  BY <1>1 DEF OwesEvent, InLevels
<1> QED
  BY <1>1, <1>3, <1>4, <1>5, <1>6, <1>7 DEF Calm

\* Levels that stay are seen to stay.
LEMMA LevelsCalm ==
  ASSUME EngineInv, SymbolInv, StageInv, FreshInv,
         SymbolInv', Extends(locMap, locCnt, locMap', locCnt'), Finals' = Finals
  PROVE  gLevels' = gLevels
<1>1. Mapped /\ Mapped'
  BY MappedIs, MappedNext
<1>2. Fresh(locCnt, Finals)
  BY FinalsFresh
<1>3. Spread(locMap', Finals) = Spread(locMap, Finals)
  BY <1>2, SpreadStays
<1> QED
  BY <1>1, <1>3 DEF Mapped

\* So are trading states.
LEMMA TradingCalm ==
  ASSUME SymbolInv, FreshInv, SymbolInv', Extends(locMap, locCnt, locMap', locCnt'),
         tstate' = tstate
  PROVE  gTrading' = gTrading
<1>1. Mapped /\ Mapped'
  BY MappedIs, MappedNext
<1> QED
  BY <1>1, TradesStay DEF Mapped, FreshInv

\* A side never lists more than P prices, nor a quantity of more than QW bits.
LEMMA MapSize ==
  ASSUME NEW sd, NEW l, GoodList(sd, l)
  PROVE  /\ IsFiniteSet(DOMAIN LevelMap(l)) /\ Cardinality(DOMAIN LevelMap(l)) <= P
         /\ \A p : QtyIn(LevelMap(l), p) \in 0..QLim-1
         /\ \A p : QtyIn(LevelMap(l), p) # 0 => p \in DOMAIN LevelMap(l)
<1> DEFINE D == DOMAIN LevelMap(l)
<1> DEFINE N == NonEmpty(l)
<1> DEFINE f == [i \in N |-> l[i].px]
<1>1. l \in [Slots -> Level]
  BY DEF GoodList, Lists
<1>2. \A i \in N : l[i].px \in D /\ LevelMap(l)[l[i].px] = l[i].qty
  BY LevelMapIs
<1>3. \A p \in D : \E i \in N : l[i].px = p
  BY LevelMapIs
<1>4. IsFiniteSet(Slots) /\ Cardinality(Slots) = P
  BY LevelAssumption, FS_Interval DEF Slots
<1>5. N \in SUBSET Slots
  BY DEF NonEmpty
<1>6. QLim \in Nat \ {0} /\ P \in Nat
  BY LevelAssumption
<1>7. \A i \in N : l[i].qty \in 0..QLim-1
  BY <1>1, <1>5 DEF Level
<1> HIDE DEF D, N
<1>8. f \in Surjection(N, D)
  BY <1>2, <1>3 DEF Surjection
<1> HIDE DEF f
<1>9. IsFiniteSet(N) /\ Cardinality(N) <= P
  BY <1>4, <1>5, FS_Subset
<1>10. IsFiniteSet(D) /\ Cardinality(D) <= Cardinality(N)
  BY <1>8, <1>9, FS_Surjection
<1>11. Cardinality(D) <= P
  BY <1>6, <1>9, <1>10, FS_CardinalityType
<1>12. ASSUME NEW p
       PROVE  /\ QtyIn(LevelMap(l), p) \in 0..QLim-1
              /\ QtyIn(LevelMap(l), p) # 0 => p \in D
  BY <1>2, <1>3, <1>6, <1>7 DEF QtyIn, D
<1> QED
  BY <1>10, <1>11, <1>12 DEF D

\* The add half of a replace enters its slot and the pipeline: the mapping told
\* it before.
LEMMA UaddCalm ==
  ASSUME EngineInv, EngineInv', StageInv, 2 * MaxShares < QLim, Noted, NEW w, Uadd(w)
  PROVE  Calm
<1>1. /\ st = "UADD" /\ st' = "LV2" /\ cur' = cur /\ emitOk' = emitOk
      /\ UNCHANGED <<lvl, prev, tstate, crosses, marketOpen>>
      /\ Launch(uadd.side, uadd.px, Signed(uadd.qty))
      /\ tab' = [tab EXCEPT ![uadd.slot] =
                   NewEntry(uadd.ref, uadd.side, uadd.px, uadd.qty)]
      /\ uadd' = NoUadd
  BY DEF Uadd, Background
<1>2. /\ uadd.on /\ GoodEntry(uadd) /\ uadd.slot \in TabSlots
      /\ ~tab[uadd.slot].valid /\ \A j \in TabSlots : ~Has(tab, j, uadd.ref)
  BY <1>1 DEF EngineInv, BookInv, PendingInv
<1>3. Signed(uadd.qty) = uadd.qty
  BY <1>2, ExactDeltas, MessageAssumption DEF GoodEntry
<1>4. ~InLevels /\ InLevels' /\ OwesEvent' = OwesEvent
  BY <1>1 DEF InLevels, OwesEvent
<1>5. emitted' = emitted
  BY <1>1 DEF Noted
<1>6. ~uadd'.on
  BY <1>1 DEF NoUadd
<1>7. Finals' = Finals
  <2>1. PICK key : key = <<cur.sym, uadd.side>>
    OBVIOUS
  <2>2. lv'.key = key /\ lv'.op.px = uadd.px /\ lv'.op.delta = uadd.qty
    BY <1>1, <1>3, <2>1 DEF Launch
  <2>3. ASSUME NEW k
        PROVE  FinalMap(k)' = FinalMap(k)
    <3>1. FinalMap(k)' = IF k = key THEN Adjusted(LevelMap(lvl[k]), uadd.px, uadd.qty)
                         ELSE LevelMap(lvl[k])
      BY <1>1, <1>4, <1>6, <2>2 DEF FinalMap
    <3>2. FinalMap(k) = IF k = key THEN Adjusted(LevelMap(lvl[k]), uadd.px, uadd.qty)
                        ELSE LevelMap(lvl[k])
      BY <1>2, <1>4, <2>1 DEF FinalMap
    <3> QED
      BY <3>1, <3>2
  <2> QED
    BY <2>3 DEF Finals
<1>8. gOrders' = gOrders
  <2>1. PICK e : e = NewEntry(uadd.ref, uadd.side, uadd.px, uadd.qty)
    OBVIOUS
  <2>2. e.valid /\ e.ref = uadd.ref /\ OrderFrom(uadd.ref, e) = OrderFrom(uadd.ref, uadd)
    BY <2>1 DEF NewEntry, OrderFrom
  <2>3. Denotes(tab, uadd, gOrders) /\ DOMAIN tab = TabSlots
    BY <1>1, TableDenoted
  <2>4. Off(uadd')
    BY <1>6 DEF Off
  <2>5. Denotes([tab EXCEPT ![uadd.slot] = e], uadd', gOrders)
    BY <1>2, <2>2, <2>3, <2>4, OrderEntered
  <2>6. Denotes(tab', uadd', gOrders')
    BY <1>1, TableDenotedNext
  <2> QED
    BY <1>1, <2>1, <2>5, <2>6, DenotesOne
<1> QED
  BY <1>1, <1>4, <1>5, <1>7, <1>8 DEF Calm

\* What the operation in the level pipeline makes of its side fits it.
LEMMA OperationFits ==
  ASSUME EngineInv, SymbolInv, ListInv, StageInv, FreshInv, golden = Abstract,
         LevelsFit, InLevels,
         NEW m, m = LevelMap(lvl[lv.key]), NEW n, n = QtyIn(m, lv.op.px) + lv.op.delta
  PROVE  /\ n >= 0 /\ n < QLim
         /\ Cardinality(DOMAIN Adjusted(m, lv.op.px, lv.op.delta)) <= P
<1> DEFINE a == Adjusted(m, lv.op.px, lv.op.delta)
<1>1. st \in Stages
  BY DEF InLevels, Stages
<1>2. /\ lv.key \in SymIdx \X Sides /\ lv.op \in Operation
      /\ lv.op.side = lv.key[2] /\ lv.op.delta # 0 /\ lv.op.delta < QLim
  BY <1>1 DEF EngineInv, BookInv, LevelInv, ListInv, Stages
<1>3. PICK p, d : p = lv.op.px /\ d = lv.op.delta
  OBVIOUS
<1>4. p \in Nat /\ d \in Int /\ d # 0 /\ QLim \in Nat \ {0} /\ P \in Nat
  BY <1>2, <1>3, LevelAssumption, MessageAssumption DEF Operation
<1>5. GoodList(lv.key[2], lvl[lv.key])
  BY <1>2 DEF ListInv
<1>6. /\ IsFiniteSet(DOMAIN m) /\ Cardinality(DOMAIN m) <= P
      /\ QtyIn(m, p) \in 0..QLim-1 /\ (QtyIn(m, p) # 0 => p \in DOMAIN m)
  BY <1>5, MapSize
<1>7. n >= 0 /\ n = QtyIn(m, p) + d
  BY <1>3 DEF StageInv
<1>8. DOMAIN a = {y \in DOMAIN m \cup {p} : y # p \/ n # 0}
  <2>1. d + QtyIn(m, p) = n
    BY <1>4, <1>6, <1>7
  <2> QED
    BY <1>3, <2>1 DEF Adjusted, QtyIn
<1>9. CASE d < 0
  <2>1. n < QLim /\ QtyIn(m, p) # 0
    BY <1>4, <1>6, <1>7, <1>9
  <2>2. DOMAIN a \in SUBSET DOMAIN m
    BY <1>6, <1>8, <2>1
  <2>3. IsFiniteSet(DOMAIN a) /\ Cardinality(DOMAIN a) <= Cardinality(DOMAIN m)
    <3> HIDE DEF a
    <3> QED
      BY <1>6, <2>2, FS_Subset
  <2>4. Cardinality(DOMAIN a) <= P
    <3> HIDE DEF a
    <3> QED
      BY <1>4, <1>6, <2>3, FS_CardinalityType
  <2> QED
    BY <1>7, <2>1, <2>4
<1>10. CASE d > 0
  <2>1. ~uadd.on
    BY <1>3, <1>4, <1>10 DEF StageInv
  <2>2. lv.key = <<cur.sym, lv.op.side>> /\ lv.op.side \in Sides
    BY <1>2 DEF StageInv
  <2>3. /\ cur.sym \in 0..locCnt-1 /\ cur.sym \in SymIdx /\ locMap[cur.sym] = cur.msg.loc
        /\ cur.msg.loc \in Locates
    BY Owing, OwnSymbol
  <2>4. Finals[lv.key] = a
    BY <1>2, <2>1 DEF Finals, FinalMap
  <2>5. golden.levels[<<cur.msg.loc, lv.op.side>>] = a
    <3>1. golden.levels = Spread(locMap, Finals)
      BY LevelsSpread DEF Abstract
    <3>2. LevelsAt(locMap, Finals, <<locMap[cur.sym], lv.op.side>>) = Finals[<<cur.sym, lv.op.side>>]
      BY <2>2, <2>3, FinalsFresh, LevelsAtIs, MapIsGood
    <3> QED
      BY <2>2, <2>3, <2>4, <3>1, <3>2 DEF Spread
  <2>6. Cardinality(DOMAIN a) <= P /\ \A x \in DOMAIN a : a[x] < QLim
    BY <2>2, <2>3, <2>5 DEF LevelsFit
  <2>7. n # 0 /\ p \in DOMAIN a
    BY <1>4, <1>6, <1>7, <1>8, <1>10
  <2>8. a[p] = n
    <3>1. d + QtyIn(m, p) = n
      BY <1>4, <1>6, <1>7
    <3> QED
      BY <1>3, <2>7, <3>1 DEF Adjusted, QtyIn
  <2> QED
    BY <1>7, <2>6, <2>7, <2>8
<1> QED
  BY <1>4, <1>9, <1>10

\* The list is written: the mapping told it before.
LEMMA Lv3Calm ==
  ASSUME EngineInv, SymbolInv, ListInv, StageInv, FreshInv, golden = Abstract,
         LevelsFit, Noted, NEW w, Lv3(w)
  PROVE  Calm
<1>1. /\ st = "LV3" /\ st' = (IF uadd.on THEN "UADD" ELSE "EMIT_A")
      /\ cur' = cur /\ emitOk' = emitOk /\ uadd' = uadd
      /\ lvl' = [lvl EXCEPT ![lv.key] = Materialize(lv.list, lv2, lv.op.px)]
      /\ UNCHANGED <<tab, prev, tstate, crosses, marketOpen>>
  BY DEF Lv3, Background
<1>2. InLevels /\ ~InLevels' /\ OwesEvent' = OwesEvent
  BY <1>1 DEF InLevels, OwesEvent
<1>3. emitted' = emitted
  BY <1>1 DEF Noted
<1>4. gOrders' = gOrders
  BY <1>1, OrdersStay
<1>5. /\ lv.key \in SymIdx \X Sides /\ lv.list = lvl[lv.key] /\ lv.op \in Operation
      /\ lv.op.delta < QLim /\ lv2 = Decode(lv.list, lv.op)
      /\ lvl \in [SymIdx \X Sides -> Lists]
  BY <1>1 DEF EngineInv, BookInv, LevelInv
<1>6. lv.op.side = lv.key[2] /\ lv.op.delta # 0 /\ GoodList(lv.op.side, lvl[lv.key])
  BY <1>1, <1>5 DEF ListInv
<1>7. PICK l, op, n : /\ l = lvl[lv.key] /\ op = lv.op
                      /\ n = QtyIn(LevelMap(l), op.px) + op.delta
  OBVIOUS
<1>8. /\ n >= 0 /\ n < QLim
      /\ Cardinality(DOMAIN Adjusted(LevelMap(l), op.px, op.delta)) <= P
  BY <1>2, <1>7, OperationFits
<1>9. LevelMap(Materialize(l, Decode(l, op), op.px)) = Adjusted(LevelMap(l), op.px, op.delta)
  BY <1>5, <1>6, <1>7, <1>8, PassIsChange
<1>10. LevelMap(lvl'[lv.key]) = Adjusted(LevelMap(lvl[lv.key]), lv.op.px, lv.op.delta)
  BY <1>1, <1>5, <1>7, <1>9
<1>11. ASSUME NEW k \in SymIdx \X Sides
       PROVE  FinalMap(k)' = FinalMap(k)
  <2>1. k # lv.key => lvl'[k] = lvl[k]
    BY <1>1, <1>5
  <2>2. LevelMap(lvl'[k]) = IF k = lv.key THEN Adjusted(LevelMap(lvl[k]), lv.op.px, lv.op.delta)
                            ELSE LevelMap(lvl[k])
    BY <1>10, <2>1
  <2>3. FinalMap(k)' = IF uadd.on /\ k = <<cur.sym, uadd.side>>
                       THEN Adjusted(LevelMap(lvl'[k]), uadd.px, uadd.qty)
                       ELSE LevelMap(lvl'[k])
    BY <1>1, <1>2 DEF FinalMap, LevelMap, NonEmpty
  <2> QED
    BY <1>2, <2>2, <2>3 DEF FinalMap
<1>12. Finals' = Finals
  BY <1>11 DEF Finals
<1> QED
  BY <1>1, <1>2, <1>3, <1>4, <1>12 DEF Calm

\* The event goes out: it is the one that was owed.
LEMMA EmitStays ==
  ASSUME EngineInv, SymbolInv, ListInv, StageInv, FreshInv, EmittedInv,
         SymbolInv', Extends(locMap, locCnt, locMap', locCnt'),
         Noted, NEW w, NEW rdy, Emit(w, rdy)
  PROVE  Abstract' = Abstract
<1>1. /\ st = "EMIT_C" /\ emitOk /\ EndTail(w)
      /\ prev' = [prev EXCEPT ![cur.sym] = SelectedBbo]
      /\ crosses' = IF marketOpen /\ tstate[cur.sym] = "T" /\ Crossed(SelectedBbo)
                    THEN crosses + 1 ELSE crosses
      /\ UNCHANGED <<tab, lvl, marketOpen, tstate, uadd>>
  BY DEF Emit
<1>2. st' \in {"W0", "WAIT_PROBE", "APPLY", "TS", "BODY", "SWAP"}
  BY <1>1, EndStates
<1>3. OwesEvent /\ ~OwesEvent' /\ ~InLevels /\ ~InLevels' /\ ~uadd.on /\ ~uadd'.on
  <2>1. ~uadd.on
    BY <1>1 DEF EngineInv, BookInv, PendingInv
  <2> QED
    BY <1>1, <1>2, <2>1 DEF OwesEvent, InLevels
<1>4. emitted' = emitted
  BY <1>1 DEF Noted
<1>5. Finals' = Finals
  BY <1>1, <1>3, FinalsRest
<1>6. gLevels' = gLevels /\ gTrading' = gTrading
  BY <1>1, <1>5, LevelsCalm, TradingCalm
<1>7. gOrders' = gOrders
  BY <1>1, <1>2, OrdersStay
<1>8. /\ cur.sym \in 0..locCnt-1 /\ cur.sym \in SymIdx /\ locMap[cur.sym] = cur.msg.loc
  BY <1>3, Owing, OwnSymbol
<1>9. SelectedBbo = OwedBbo
  <2>1. \A sd \in Sides : FinalMap(<<cur.sym, sd>>) = LevelMap(lvl[<<cur.sym, sd>>])
    BY <1>3 DEF FinalMap
  <2>2. \A sd \in Sides : Top(sd, LevelMap(lvl[<<cur.sym, sd>>]))
          = PxQty(lvl[<<cur.sym, sd>>][FirstOne(NonEmpty(lvl[<<cur.sym, sd>>]))])
    <3> SUFFICES ASSUME NEW sd \in Sides
                 PROVE  Top(sd, LevelMap(lvl[<<cur.sym, sd>>]))
                          = PxQty(lvl[<<cur.sym, sd>>][FirstOne(NonEmpty(lvl[<<cur.sym, sd>>]))])
      OBVIOUS
    <3>1. GoodList(sd, lvl[<<cur.sym, sd>>])
      BY <1>8 DEF ListInv
    <3> QED
      BY <3>1, TopIsFirst
  <2>3. /\ cap.B = lvl[<<cur.sym, "B">>] /\ cap.S = lvl[<<cur.sym, "S">>]
        /\ sel.B = FirstOne(NonEmpty(cap.B)) /\ sel.S = FirstOne(NonEmpty(cap.S))
    BY <1>1 DEF StageInv
  <2> QED
    BY <2>1, <2>2, <2>3 DEF SelectedBbo, OwedBbo, Sides
<1>10. Mapped /\ Mapped'
  BY MappedIs, MappedNext
<1>11. gLastBbo' = gLastBbo
  <2>1. PICK bbo : bbo = OwedBbo
    OBVIOUS
  <2>2. prev' = [prev EXCEPT ![cur.sym] = bbo]
    BY <1>1, <1>9, <2>1
  <2>3. DOMAIN prev = SymIdx
    BY DEF EngineInv, BookInv, EmissionType
  <2>4. \A l \in emitted : prev'[IndexIn(locMap', l)]
          = IF l = locMap[cur.sym] THEN bbo ELSE prev[IndexIn(locMap, l)]
    <3>1. ListsAll(locMap, locCnt, emitted)
      BY DEF EmittedInv
    <3>2. Paid(locMap, locMap', prev, prev', emitted, cur.sym, bbo)
      BY <1>8, <2>2, <2>3, <3>1, EventsPay
    <3> QED
      BY <3>2 DEF Paid
  <2>5. gLastBbo' = [l \in emitted |-> prev'[IndexIn(locMap', l)]]
    BY <1>3, <1>4, <1>10 DEF Mapped, Events
  <2>6. gLastBbo = [l \in emitted |-> IF l = cur.msg.loc THEN bbo
                                      ELSE prev[IndexIn(locMap, l)]]
    BY <1>3, <1>10, <2>1 DEF Mapped, Events
  <2> QED
    BY <1>8, <2>4, <2>5, <2>6
<1>12. gCrosses' = gCrosses
  BY <1>1, <1>3, <1>9 DEF gCrosses, OwesCross
<1> QED
  BY <1>6, <1>7, <1>11, <1>12 DEF Abstract

(***************************************************************************)
(* The reference book at the state that the mapping gives it               *)
(***************************************************************************)
G == INSTANCE GoldenBookProofs WITH
  orders <- golden.orders, levels <- golden.levels, best <- gBest,
  lastBbo <- golden.lastBbo, trading <- golden.trading,
  marketHours <- marketOpen, anomalies <- anomalies,
  crosses <- golden.crosses, liveCount <- gLiveCount, aborted <- "no",
  StrictCross <- FALSE, MaxEvents <- 2 * MaxMsgs + 1

\* The assumptions of the reference book hold of the mapping.
LEMMA GAssumptions ==
  ASSUME IsFiniteSet(Refs)
  PROVE  G!BookAssumption /\ G!MessageAssumption
<1>1. G!IsFiniteSet(Refs)
  BY DEF G!IsFiniteSet, IsFiniteSet
<1>2. 2 * MaxMsgs + 1 \in Nat
  BY EngineAssumption
<1>3. G!BookAssumption
  BY <1>1, <1>2 DEF G!BookAssumption
<1>4. G!MessageAssumption
  BY MessageAssumption DEF G!MessageAssumption, G!Message, Message, G!Types, Types,
     G!LookupTypes, LookupTypes, G!AddTypes, AddTypes, G!ReduceTypes, ReduceTypes,
     G!Codes, Codes, G!Sides, Sides
<1> QED
  BY <1>3, <1>4

\* Its invariant is inductive there too.
LEMMA GStep ==
  ASSUME IsFiniteSet(Refs), G!BookInv, [G!Next]_(G!vars)
  PROVE  G!BookInv'
BY GAssumptions, G!StepInv

LEMMA GBetter == \A s, p, q : G!Better(s, p, q) = Better(s, p, q)
BY DEF G!Better, Better

\* A cached best price is the best one.
LEMMA CachedIsBest ==
  ASSUME NEW s \in Sides, NEW level, NEW c, DOMAIN level \subseteq Prices,
         G!GoodBest(s, level, c)
  PROVE  c = BestOf(s, DOMAIN level)
<1>1. G!NoPrice = -1
  BY DEF G!NoPrice
<1>2. DOMAIN level \in SUBSET Nat
  BY MessageAssumption
<1>3. CASE c = -1
  BY <1>1, <1>3 DEF G!GoodBest, BestOf
<1>4. CASE c # -1
  <2>1. c \in DOMAIN level /\ \A p \in DOMAIN level : p = c \/ Better(s, c, p)
    BY <1>1, <1>4, GBetter DEF G!GoodBest
  <2> QED
    BY <1>2, <2>1, BestOfIs
<1> QED
  BY <1>3, <1>4

\* The cache that the mapping derives is that of the reference book.
LEMMA BestDerived ==
  ASSUME NEW b, G!GoodBook(b), NEW best,
         best = [k \in Locates \X Sides |-> BestOf(k[2], DOMAIN b.levels[k])]
  PROVE  best = b.best
<1>1. G!Keys = Locates \X Sides
  BY DEF G!Keys, G!Sides, Sides
<1>2. b.best \in [Locates \X Sides -> Prices \cup {G!NoPrice}]
  BY <1>1 DEF G!GoodBook
<1>3. ASSUME NEW k \in Locates \X Sides
      PROVE  b.best[k] = BestOf(k[2], DOMAIN b.levels[k])
  <2>1. G!GoodLevel(b.levels[k]) /\ G!GoodBest(k[2], b.levels[k], b.best[k])
    BY <1>1 DEF G!GoodBook
  <2>2. DOMAIN b.levels[k] \subseteq Prices /\ k[2] \in Sides
    BY <2>1 DEF G!GoodLevel
  <2> QED
    BY <2>1, <2>2, CachedIsBest
<1> QED
  BY <1>2, <1>3

\* The mapping's counters are those that the orders have.
LEMMA CountDerived ==
  ASSUME NEW ords, \A r \in DOMAIN ords : ords[r].loc = RefLoc[r],
         NEW live \in [Locates -> Int], G!Counts(ords, live), NEW count,
         count = [l \in Locates |-> Cardinality({r \in DOMAIN ords : RefLoc[r] = l})]
  PROVE  count = live
<1>1. ASSUME NEW l \in Locates
      PROVE  live[l] = Cardinality({r \in DOMAIN ords : RefLoc[r] = l})
  <2>1. G!OfLocate(ords, l) = {r \in DOMAIN ords : RefLoc[r] = l}
    BY DEF G!OfLocate
  <2>2. \A S : G!Cardinality(S) = Cardinality(S)
    BY DEF G!Cardinality, Cardinality, G!IsFiniteSet, IsFiniteSet
  <2> QED
    BY <2>1, <2>2 DEF G!Counts
<1> QED
  BY <1>1

\* What a delta does to a level, as _level_add says it.
LEMMA AdjustedIs ==
  ASSUME NEW map, NEW p, NEW d \in Int, NEW n, n = G!QtyAt(map, p) + d,
         p \in DOMAIN map => map[p] \in Int
  PROVE  Adjusted(map, p, d) = IF n = 0 THEN G!Drop(map, p) ELSE G!Put(map, p, n)
<1>1. d + (IF p \in DOMAIN map THEN map[p] ELSE 0) = n
  BY DEF G!QtyAt
<1>2. CASE n = 0
  BY <1>1, <1>2 DEF Adjusted, G!Drop
<1>3. CASE n # 0
  BY <1>1, <1>3 DEF Adjusted, G!Put
<1> QED
  BY <1>2, <1>3

\* The same, of the dictionary of all levels.
AdjustedAt(lv0, k, p, d) == [lv0 EXCEPT ![k] = Adjusted(lv0[k], p, d)]

\* _level_add is one change of a dictionary.
LEMMA LevelAddIs ==
  ASSUME NEW b, NEW k, NEW p, NEW d \in Int,
         p \in DOMAIN b.levels[k] => b.levels[k][p] \in Int
  PROVE  G!LevelAdd(b, k, p, d).levels = AdjustedAt(b.levels, k, p, d)
<1> DEFINE n == G!QtyAt(b.levels[k], p) + d
<1>1. Adjusted(b.levels[k], p, d)
        = IF n = 0 THEN G!Drop(b.levels[k], p) ELSE G!Put(b.levels[k], p, n)
  BY AdjustedIs
<1>2. G!LevelAdd(b, k, p, d).levels
        = [b.levels EXCEPT ![k] = IF n = 0 THEN G!Drop(b.levels[k], p)
                                  ELSE G!Put(b.levels[k], p, n)]
  BY DEF G!LevelAdd
<1> QED
  BY <1>1, <1>2 DEF AdjustedAt

\* The BBO of a book.
LEMMA TopDerived ==
  ASSUME NEW b, G!GoodBook(b), NEW l \in Locates, NEW s \in Sides
  PROVE  G!Top(b, <<l, s>>) = Top(s, b.levels[<<l, s>>])
<1>1. G!Keys = Locates \X Sides /\ <<l, s>> \in Locates \X Sides /\ G!NoPrice = -1
  BY DEF G!Keys, G!Sides, Sides, G!NoPrice
<1>2. PICK c, level : c = b.best[<<l, s>>] /\ level = b.levels[<<l, s>>]
  OBVIOUS
<1>3. G!GoodLevel(level) /\ G!GoodBest(s, level, c)
  BY <1>1, <1>2 DEF G!GoodBook
<1>4. DOMAIN level \subseteq Prices
  BY <1>3 DEF G!GoodLevel
<1>5. c = BestOf(s, DOMAIN level)
  BY <1>3, <1>4, CachedIsBest
<1>6. c = -1 <=> DOMAIN level = {}
  BY <1>1, <1>3, <1>4, MessageAssumption DEF G!GoodBest
<1>7. G!Top(b, <<l, s>>) = IF c = -1 THEN <<0, 0>> ELSE <<c, level[c]>>
  BY <1>1, <1>2 DEF G!Top
<1>8. Top(s, level) = IF c = -1 THEN <<0, 0>> ELSE <<c, level[c]>>
  BY <1>5, <1>6 DEF Top
<1> QED
  BY <1>2, <1>7, <1>8

BboOf(lv0, l) == <<Top("B", lv0[<<l, "B">>]), Top("S", lv0[<<l, "S">>])>>

\* Its BBO is the best level of each dictionary.
LEMMA BboDerived ==
  ASSUME NEW b, G!GoodBook(b), NEW l \in Locates
  PROVE  G!Bbo(b, l) = BboOf(b.levels, l)
BY TopDerived DEF G!Bbo, BboOf, Sides

(***************************************************************************)
(* A message that changes the table                                        *)
(***************************************************************************)
\* What ST_APPLY leaves of a message that goes on to the level pipeline: the
\* operation of d shares at price px of side sd.
Launches(w, sd, px, d) ==
  /\ st = "APPLY" /\ ~cur.bad /\ ToLevels(w) /\ Launch(sd, px, d)
  /\ uadd'.on => uadd'.side = sd

\* The dictionary of that side once its operations are done.
Changed(map, px, d, u) ==
  IF u.on THEN Adjusted(Adjusted(map, px, d), u.px, u.qty) ELSE Adjusted(map, px, d)

ChangedAt(lv0, l, s, px, d, u) ==
  [lv0 EXCEPT ![<<l, s>>] = Changed(lv0[<<l, s>>], px, d, u)]

\* What a launched operation is.
LEMMA LaunchFields ==
  ASSUME NEW w, NEW sd, NEW px, NEW d, Launches(w, sd, px, d)
  PROVE  /\ st' = "LV2" /\ emitOk' = TRUE /\ cur' = cur
         /\ lv'.key = <<cur.sym, sd>> /\ lv'.op.side = sd /\ lv'.op.px = px /\ lv'.op.delta = d
         /\ anomalies' = anomalies /\ lvl' = lvl /\ prev' = prev
         /\ marketOpen' = marketOpen /\ tstate' = tstate /\ crosses' = crosses
         /\ InLevels' /\ OwesEvent'
BY DEF Launches, ToLevels, Background, Launch, InLevels, OwesEvent

\* The dictionaries before and after.
LEMMA LaunchFinals ==
  ASSUME EngineInv, StageInv, NEW w, NEW sd \in Sides, NEW px, NEW d, Launches(w, sd, px, d),
         cur.sym \in SymIdx
  PROVE  /\ \A k \in SymIdx \X Sides : Finals[k] = LevelMap(lvl[k])
         /\ \A k \in SymIdx \X Sides : k # <<cur.sym, sd>> => Finals'[k] = Finals[k]
         /\ Finals'[<<cur.sym, sd>>] = Changed(LevelMap(lvl[<<cur.sym, sd>>]), px, d, uadd')
<1>1. /\ st' = "LV2" /\ emitOk' = TRUE /\ cur' = cur /\ lvl' = lvl
      /\ lv'.key = <<cur.sym, sd>> /\ lv'.op.side = sd /\ lv'.op.px = px /\ lv'.op.delta = d
      /\ InLevels'
  BY LaunchFields
<1>2. ~InLevels /\ ~uadd.on
  BY Owing DEF Launches
<1>3. ASSUME NEW k \in SymIdx \X Sides
      PROVE  FinalMap(k) = LevelMap(lvl[k])
  BY <1>2 DEF FinalMap
<1>4. ASSUME NEW k \in SymIdx \X Sides
      PROVE  FinalMap(k)' = IF k = <<cur.sym, sd>> THEN Changed(LevelMap(lvl[k]), px, d, uadd')
                            ELSE LevelMap(lvl[k])
  <2>1. LevelMap(lvl'[k]) = LevelMap(lvl[k])
    BY <1>1
  <2>2. uadd'.on => uadd'.side = sd
    BY DEF Launches
  <2>3. lv'.op.px = px /\ lv'.op.delta = d
    BY <1>1
  <2>4. FinalMap(k)' = LET written == LevelMap(lvl'[k])
                           first == IF k = <<cur.sym, sd>> THEN Adjusted(written, px, d)
                                    ELSE written
                       IN IF uadd'.on /\ k = <<cur.sym, sd>>
                          THEN Adjusted(first, uadd'.px, uadd'.qty) ELSE first
    BY <1>1, <2>2, <2>3 DEF FinalMap, LevelMap, NonEmpty
  <2> QED
    BY <2>1, <2>4 DEF Changed
<1> QED
  BY <1>3, <1>4 DEF Finals

\* The levels of the reference state change at that side only.
LEMMA LaunchLevels ==
  ASSUME EngineInv, SymbolInv, StageInv, FreshInv,
         SymbolInv', Extends(locMap, locCnt, locMap', locCnt'),
         NEW w, NEW sd \in Sides, NEW px, NEW d, Launches(w, sd, px, d),
         NEW loc, loc = cur.msg.loc, NEW u, u = uadd',
         NEW g, g = ChangedAt(gLevels, loc, sd, px, d, u)
  PROVE  /\ gLevels' = g
         /\ gLevels[<<loc, sd>>] = LevelMap(lvl[<<cur.sym, sd>>])
         /\ OwedBbo' = BboOf(gLevels', loc)
<1>1. /\ cur.sym \in 0..locCnt-1 /\ cur.sym \in SymIdx /\ locMap[cur.sym] = loc
      /\ loc \in Locates
  BY Owing, OwnSymbol DEF Launches
<1>2. Mapped /\ Mapped' /\ cur' = cur
  BY MappedIs, MappedNext, LaunchFields
<1>3. PICK s, F, F2 : s = cur.sym /\ F = Finals /\ F2 = Finals'
  OBVIOUS
<1>4. Fresh(locCnt, F)
  BY <1>3, FinalsFresh
<1>5. /\ \A k \in SymIdx \X Sides : F[k] = LevelMap(lvl[k])
      /\ \A k \in SymIdx \X Sides : k # <<s, sd>> => F2[k] = F[k]
      /\ F2[<<s, sd>>] = Changed(LevelMap(lvl[<<s, sd>>]), px, d, uadd')
  BY <1>1, <1>3, LaunchFinals
<1>6. Spread(locMap', F2) = [Spread(locMap, F) EXCEPT ![<<loc, sd>>] = F2[<<s, sd>>]]
  <2>1. s \in 0..locCnt-1 /\ locMap[s] = loc /\ locMap[s] \in Locates
    BY <1>1, <1>3
  <2> QED
    BY <1>4, <1>5, <2>1, SpreadMoves
<1>7. gLevels = Spread(locMap, F) /\ gLevels' = Spread(locMap', F2)
  BY <1>2, <1>3 DEF Mapped
<1>8. gLevels[<<loc, sd>>] = LevelMap(lvl[<<s, sd>>])
  <2>1. LevelsAt(locMap, F, <<locMap[s], sd>>) = F[<<s, sd>>]
    BY <1>1, <1>3, <1>4, LevelsAtIs, MapIsGood
  <2>2. <<loc, sd>> \in Locates \X Sides /\ <<s, sd>> \in SymIdx \X Sides
    BY <1>1, <1>3
  <2> QED
    BY <1>1, <1>3, <1>5, <1>7, <2>1, <2>2 DEF Spread
<1>9. gLevels' = g
  BY <1>5, <1>6, <1>7, <1>8 DEF ChangedAt
<1>10. OwedBbo' = BboOf(gLevels', loc)
  <2>1. OwedBbo' = BboIn(F2, s)
    <3>1. cur'.sym \in SymIdx
      BY <1>1, <1>2
    <3> QED
      BY <1>2, <1>3, <3>1 DEF Mapped
  <2>2. ASSUME NEW z \in Sides PROVE gLevels'[<<loc, z>>] = F2[<<s, z>>]
    <3>1. IndexIn(locMap', locMap[s]) = s
      BY <1>1, <1>3, ListedIndex
    <3>2. s # Unlisted
      BY <1>1, <1>3, IndexIs, MapIsGood
    <3>3. LevelsAt(locMap', F2, <<loc, z>>) = F2[<<s, z>>]
      BY <1>1, <1>3, <3>1, <3>2 DEF LevelsAt
    <3>4. <<loc, z>> \in Locates \X Sides
      BY <1>1
    <3> QED
      BY <1>7, <3>3, <3>4 DEF Spread
  <2> QED
    BY <2>1, <2>2 DEF BboIn, BboOf, Sides
<1> QED
  BY <1>3, <1>8, <1>9, <1>10

\* Once it is launched the mapping counts it.
LEMMA LaunchedLevels ==
  ASSUME EngineInv, SymbolInv, StageInv, FreshInv,
         SymbolInv', Extends(locMap, locCnt, locMap', locCnt'),
         NEW w, NEW sd \in Sides, NEW px, NEW d, Launches(w, sd, px, d),
         NEW loc, loc = cur.msg.loc, NEW u, u = uadd',
         NEW g, g = ChangedAt(gLevels, loc, sd, px, d, u)
  PROVE  gLevels' = g
BY LaunchLevels

\* The event that it owes.
LEMMA LaunchEvent ==
  ASSUME EngineInv, SymbolInv, StageInv, FreshInv, EmittedInv,
         SymbolInv', Extends(locMap, locCnt, locMap', locCnt'), Noted,
         NEW w, NEW sd \in Sides, NEW px, NEW d, Launches(w, sd, px, d),
         NEW loc, loc = cur.msg.loc
  PROVE  /\ emitted' = emitted \cup {loc} /\ loc \in Locates
         /\ gTrading' = gTrading /\ marketOpen' = marketOpen /\ anomalies' = anomalies
         /\ gLastBbo' = With(gLastBbo, loc, BboOf(gLevels', loc))
         /\ gCrosses' = IF /\ marketOpen /\ loc \in DOMAIN gTrading /\ gTrading[loc] = "T"
                           /\ Crossed(BboOf(gLevels', loc))
                        THEN gCrosses + 1 ELSE gCrosses
<1>1. /\ cur.sym \in 0..locCnt-1 /\ cur.sym \in SymIdx /\ locMap[cur.sym] = loc
      /\ loc \in Locates
  BY Owing, OwnSymbol DEF Launches
<1>2. /\ st' = "LV2" /\ emitOk' = TRUE /\ cur' = cur
      /\ anomalies' = anomalies /\ lvl' = lvl /\ prev' = prev
      /\ marketOpen' = marketOpen /\ tstate' = tstate /\ crosses' = crosses
      /\ OwesEvent'
  BY LaunchFields
<1>3. ~OwesEvent /\ st = "APPLY" /\ ~cur.bad
  BY Owing DEF Launches
<1>4. emitted' = emitted \cup {loc}
  BY <1>2, <1>3 DEF Noted
<1>5. gTrading' = gTrading
  BY <1>2, TradingCalm
<1>6. PICK bbo : bbo = OwedBbo' /\ bbo = BboOf(gLevels', loc)
  <2>1. PICK u, g : u = uadd' /\ g = ChangedAt(gLevels, loc, sd, px, d, u)
    OBVIOUS
  <2> QED
    BY <2>1, LaunchLevels
<1>7. Mapped /\ Mapped'
  BY MappedIs, MappedNext
<1>8. gLastBbo' = With(gLastBbo, loc, bbo)
  <2>1. gLastBbo' = [l \in emitted \cup {loc} |-> IF l = loc THEN bbo ELSE prev[IndexIn(locMap', l)]]
    BY <1>2, <1>4, <1>6, <1>7 DEF Mapped, Events
  <2>2. gLastBbo = [l \in emitted |-> prev[IndexIn(locMap, l)]]
    BY <1>3, <1>7 DEF Mapped, Events
  <2>3. \A l \in emitted : IndexIn(locMap', l) = IndexIn(locMap, l)
    <3> SUFFICES ASSUME NEW l \in emitted
                 PROVE  IndexIn(locMap', l) = IndexIn(locMap, l)
      OBVIOUS
    <3>1. PICK i \in 0..locCnt-1 : locMap[i] = l
      BY DEF EmittedInv, ListsAll
    <3> QED
      BY <3>1, ListedIndex
  <2> QED
    BY <2>1, <2>2, <2>3 DEF With
<1>9. loc \in DOMAIN gTrading /\ gTrading[loc] = "T" <=> tstate[cur.sym] = "T"
  <2>1. gTrading = Trades(locMap, tstate) /\ GoodMap(locMap, locCnt) /\ Untraded(locCnt, tstate)
    BY <1>7, MapIsGood DEF Mapped, FreshInv
  <2>2. /\ locMap[cur.sym] \in DOMAIN gTrading <=> tstate[cur.sym] # "none"
        /\ tstate[cur.sym] # "none" => gTrading[locMap[cur.sym]] = tstate[cur.sym]
    BY <1>1, <2>1, TradesAre
  <2> QED
    BY <1>1, <2>2
<1>10. gCrosses = crosses
  BY <1>3 DEF gCrosses, OwesCross
<1>11. gCrosses' = IF marketOpen /\ tstate[cur.sym] = "T" /\ Crossed(bbo)
                   THEN crosses + 1 ELSE crosses
  BY <1>2, <1>6 DEF gCrosses, OwesCross
<1> QED
  BY <1>1, <1>2, <1>4, <1>5, <1>6, <1>8, <1>9, <1>10, <1>11

(***************************************************************************)
(* What the probe has found, of the reference orders                       *)
(***************************************************************************)
LEMMA GoldenIs ==
  /\ golden = Abstract =>
       /\ golden.orders = gOrders /\ golden.levels = gLevels /\ golden.lastBbo = gLastBbo
       /\ golden.trading = gTrading /\ golden.crosses = gCrosses
  /\ golden' = Abstract' =>
       /\ golden'.orders = gOrders' /\ golden'.levels = gLevels'
       /\ golden'.lastBbo = gLastBbo'
       /\ golden'.trading = gTrading' /\ golden'.crosses = gCrosses'
BY DEF Abstract

\* An order has the locate of its reference.
LEMMA OrdersNamed ==
  golden = Abstract => \A r \in DOMAIN golden.orders : golden.orders[r].loc = RefLoc[r]
<1> SUFFICES ASSUME golden = Abstract, NEW r \in DOMAIN golden.orders
             PROVE  golden.orders[r].loc = RefLoc[r]
  OBVIOUS
<1>1. golden.orders = gOrders
  BY GoldenIs
<1> QED
  BY <1>1 DEF gOrders, OrderFrom

\* What the probe found is the order of the reference book.
LEMMA FoundLive ==
  ASSUME EngineInv, StageInv, golden = Abstract, st = "APPLY", ~cur.bad,
         NEW m, m = cur.msg, m.type \in LookupTypes
  PROVE  /\ prb.found <=> m.ref \in DOMAIN golden.orders
         /\ m.type = "U" => (prb.newFound <=> m.new \in DOMAIN golden.orders)
         /\ prb.found => /\ golden.orders[m.ref] = OrderFrom(m.ref, prb.entry)
                         /\ Has(tab, prb.slot, m.ref) /\ prb.slot \in TabSlots
                         /\ prb.entry = tab[prb.slot]
                         /\ prb.entry.side \in Sides /\ prb.entry.px \in Prices
                         /\ prb.entry.qty \in 1..MaxShares
<1>1. ProbeFresh /\ Applies(NoWord, LookupTypes)
  BY ProbeFreshNow DEF Applies
<1>2. Denotes(tab, uadd, golden.orders) /\ ~uadd.on
  BY TableDenoted, GoldenIs, Owing
<1>3. \A r : r \in DOMAIN golden.orders <=> \E i \in TabSlots : Has(tab, i, r)
  BY <1>2 DEF Denotes, Entering
<1>4. \A r : \A i \in TabSlots : Holds(i, r) <=> Has(tab, i, r)
  BY WindowFacts
<1>5. /\ prb.found <=> \E i \in TabSlots : Holds(i, m.ref)
      /\ m.type = "U" => (prb.newFound <=> \E i \in TabSlots : Holds(i, m.new))
  BY <1>1 DEF ProbeFresh
<1>6. /\ prb.found <=> m.ref \in DOMAIN golden.orders
      /\ m.type = "U" => (prb.newFound <=> m.new \in DOMAIN golden.orders)
  BY <1>3, <1>4, <1>5, Zenon
<1>7. ASSUME prb.found
      PROVE  /\ golden.orders[m.ref] = OrderFrom(m.ref, prb.entry)
             /\ Has(tab, prb.slot, m.ref) /\ prb.slot \in TabSlots
             /\ prb.entry = tab[prb.slot]
             /\ prb.entry.side \in Sides /\ prb.entry.px \in Prices
             /\ prb.entry.qty \in 1..MaxShares
  <2>1. BookInv /\ ReceiveInv /\ ProbeInv /\ LooksUp
    BY DEF EngineInv, LooksUp
  <2>2. /\ prb.slot \in TabSlots /\ prb.entry = tab[prb.slot]
        /\ prb.entry.valid /\ prb.entry.ref = m.ref
        /\ prb.entry.side \in Sides /\ prb.entry.px \in Prices
        /\ prb.entry.qty \in 1..MaxShares
    BY <1>7, <2>1, FoundOrder
  <2>3. tab[prb.slot].valid /\ tab[prb.slot].ref = m.ref
    BY <2>2
  <2>4. golden.orders[tab[prb.slot].ref] = OrderFrom(tab[prb.slot].ref, tab[prb.slot])
    BY <1>2, <2>2, <2>3 DEF Denotes, Entering
  <2> QED
    BY <2>2, <2>3, <2>4 DEF Has
<1> QED
  BY <1>6, <1>7

\* When ST_APPLY refuses a message.
Refuses(m) ==
  \/ m.type \in AddTypes /\ RefusesAdd
  \/ m.type \in ReduceTypes /\ prb.found /\ m.qty > prb.entry.qty
  \/ m.type = "U" /\ prb.found /\ (m.qty = 0 \/ prb.newFound \/ prb.newFull)

\* The engine refuses where apply() aborts, or the table has no room.
LEMMA RefusalIs ==
  ASSUME EngineInv, StageInv, golden = Abstract, st = "APPLY", ~cur.bad,
         NEW m, m = cur.msg
  PROVE  Refuses(m) <=> Rejected(m) \/ OutOfRoom(m)
<1>1. CASE m.type \notin LookupTypes
  BY <1>1 DEF Refuses, Rejected, OutOfRoom, LookupTypes, AddTypes, ReduceTypes
<1>2. CASE m.type \in LookupTypes
  <2>1. /\ prb.found <=> m.ref \in DOMAIN golden.orders
        /\ m.type = "U" => (prb.newFound <=> m.new \in DOMAIN golden.orders)
        /\ prb.found => golden.orders[m.ref] = OrderFrom(m.ref, prb.entry)
    BY <1>2, FoundLive
  <2>2. prb.found => golden.orders[m.ref].qty = prb.entry.qty
    BY <2>1 DEF OrderFrom
  <2>3. ProbeFresh /\ Applies(NoWord, LookupTypes)
    BY <1>2, ProbeFreshNow DEF Applies
  <2>4. /\ m.type \in AddTypes /\ ~prb.found => (prb.full <=> NoRoom(m.ref))
        /\ m.type = "U" /\ ~prb.newFound => (prb.newFull <=> NoRoom(m.new))
    BY <2>3 DEF ProbeFresh
  <2>5. CASE m.type \in AddTypes
    BY <2>1, <2>4, <2>5 DEF Refuses, Rejected, OutOfRoom, RefusesAdd, AddTypes, ReduceTypes
  <2>6. CASE m.type \in ReduceTypes
    BY <2>1, <2>2, <2>6 DEF Refuses, Rejected, OutOfRoom, AddTypes, ReduceTypes
  <2>7. CASE m.type = "D"
    BY <2>7 DEF Refuses, Rejected, OutOfRoom, AddTypes, ReduceTypes
  <2>8. CASE m.type = "U"
    BY <2>1, <2>4, <2>8 DEF Refuses, Rejected, OutOfRoom, AddTypes, ReduceTypes
  <2> QED
    BY <1>2, <2>5, <2>6, <2>7, <2>8 DEF LookupTypes
<1> QED
  BY <1>1, <1>2

(***************************************************************************)
(* The message as the reference book applies it                            *)
(***************************************************************************)
\* Its level operations and its event are those of a reference book b.
LEMMA LaunchGolden ==
  ASSUME EngineInv, SymbolInv, StageInv, FreshInv, EmittedInv,
         SymbolInv', Extends(locMap, locCnt, locMap', locCnt'), Noted,
         golden = Abstract, golden' = Abstract',
         NEW w, NEW sd \in Sides, NEW px, NEW d, Launches(w, sd, px, d),
         NEW loc, loc = cur.msg.loc,
         NEW u, u = uadd',
         NEW b, G!GoodBook(b), b.levels = ChangedAt(golden.levels, loc, sd, px, d, u)
  PROVE  G!SetBook(b) /\ G!Emit(b, loc) /\ UNCHANGED G!Session
<1>1. /\ golden.levels = gLevels /\ golden.lastBbo = gLastBbo
      /\ golden.trading = gTrading /\ golden.crosses = gCrosses
  BY GoldenIs
<1>2. /\ golden'.levels = gLevels' /\ golden'.lastBbo = gLastBbo'
      /\ golden'.trading = gTrading' /\ golden'.crosses = gCrosses'
  BY GoldenIs
<1>3. gLevels' = b.levels
  <2>1. PICK g : g = b.levels
    OBVIOUS
  <2>2. g = ChangedAt(gLevels, loc, sd, px, d, u)
    BY <1>1, <2>1
  <2>3. gLevels' = g
    BY <2>2, LaunchedLevels
  <2> QED
    BY <2>1, <2>3
<1>4. b.levels = golden'.levels
  BY <1>2, <1>3
<1>5. gBest' = [k \in Locates \X Sides |-> BestOf(k[2], DOMAIN b.levels[k])]
  BY <1>4 DEF gBest
<1>6. gBest' = b.best
  BY <1>5, BestDerived
<1>7. G!SetBook(b)
  BY <1>4, <1>6 DEF G!SetBook
<1>8. /\ loc \in Locates
      /\ gTrading' = gTrading /\ marketOpen' = marketOpen /\ anomalies' = anomalies
      /\ gLastBbo' = With(gLastBbo, loc, BboOf(gLevels', loc))
      /\ gCrosses' = IF /\ marketOpen /\ loc \in DOMAIN gTrading /\ gTrading[loc] = "T"
                        /\ Crossed(BboOf(gLevels', loc))
                     THEN gCrosses + 1 ELSE gCrosses
  BY LaunchEvent
<1>9. PICK bbo : bbo = BboOf(gLevels', loc) /\ bbo = G!Bbo(b, loc)
  <2>1. G!Bbo(b, loc) = BboOf(b.levels, loc)
    BY <1>8, BboDerived
  <2> QED
    BY <1>2, <1>4, <2>1
<1>10. golden'.lastBbo = G!Put(golden.lastBbo, loc, bbo)
  BY <1>1, <1>2, <1>8, <1>9 DEF With, G!Put
<1>11. G!Crossed(bbo) <=> Crossed(bbo)
  BY DEF G!Crossed, Crossed
<1>12. G!Continuous(loc) <=> marketOpen /\ loc \in DOMAIN golden.trading /\ golden.trading[loc] = "T"
  BY DEF G!Continuous
<1>13. golden'.crosses = IF G!Continuous(loc) /\ G!Crossed(bbo) THEN golden.crosses + 1
                         ELSE golden.crosses
  BY <1>1, <1>2, <1>8, <1>9, <1>11, <1>12
<1>14. G!Emit(b, loc)
  BY <1>9, <1>10, <1>13 DEF G!Emit
<1>15. UNCHANGED G!Session
  BY <1>1, <1>2, <1>8 DEF G!Session
<1> QED
  BY <1>7, <1>14, <1>15

\* The same after the cycle.
LEMMA OrdersNamedNext ==
  golden' = Abstract' => \A r \in DOMAIN golden'.orders : golden'.orders[r].loc = RefLoc[r]
<1>1. golden = Abstract => \A r \in DOMAIN golden.orders : golden.orders[r].loc = RefLoc[r]
  BY OrdersNamed
<1>2. (golden = Abstract => \A r \in DOMAIN golden.orders : golden.orders[r].loc = RefLoc[r])'
  BY <1>1, PTL
<1> QED
  BY <1>2

\* Counters that count the orders are those of the mapping.
LEMMA CountNext ==
  ASSUME golden' = Abstract', NEW ords, ords = golden'.orders,
         NEW live \in [Locates -> Int], G!Counts(ords, live)
  PROVE  gLiveCount' = live
<1>1. \A r \in DOMAIN ords : ords[r].loc = RefLoc[r]
  BY OrdersNamedNext
<1>2. gLiveCount' = [l \in Locates |-> Cardinality({r \in DOMAIN ords : RefLoc[r] = l})]
  BY DEF gLiveCount
<1> QED
  BY <1>1, <1>2, CountDerived

\* A pending half that is off may be any other that is off.
LEMMA OffDenotes ==
  ASSUME NEW t, NEW u, NEW v, NEW f, Off(u), Off(v), Denotes(t, u, f)
  PROVE  Denotes(t, v, f)
BY DEF Denotes, Entering, Off

\* What the table denotes next is what the reference orders are next.
LEMMA OrdersNext ==
  ASSUME EngineInv', st' # "INVAL", golden' = Abstract',
         NEW t, NEW u, t = tab', u = uadd', NEW f, Denotes(t, u, f)
  PROVE  golden'.orders = f
<1>1. Denotes(t, u, gOrders')
  BY TableDenotedNext
<1>2. PICK g : g = gOrders'
  OBVIOUS
<1>3. Denotes(t, u, g)
  BY <1>1, <1>2
<1>4. f = g
  BY <1>3, DenotesOne
<1> QED
  BY <1>2, <1>4, GoldenIs

\* The reference book that the invariant speaks of.
LEMMA BookNow ==
  ASSUME G!BookInv
  PROVE  /\ G!Agree(golden.orders, G!Book) /\ G!Book.levels = golden.levels
         /\ G!GoodOrders(golden.orders) /\ G!GoodBook(G!Book)
         /\ gLiveCount \in [Locates -> Int] /\ G!Counts(golden.orders, gLiveCount)
BY DEF G!BookInv, G!Agree, G!Book

\* A level has a whole number of shares.
LEMMA LevelNumbers ==
  ASSUME NEW b, G!GoodBook(b), NEW k \in Locates \X Sides, NEW p
  PROVE  p \in DOMAIN b.levels[k] => b.levels[k][p] \in Int
<1>1. k \in G!Keys
  BY DEF G!Keys, G!Sides, Sides
<1>2. G!GoodLevel(b.levels[k])
  BY <1>1 DEF G!GoodBook
<1> QED
  BY <1>2 DEF G!GoodLevel

\* An add that is not refused is _add of the reference book.
LEMMA AddGolden ==
  ASSUME FeedNumbers, IsFiniteSet(Refs), 2 * MaxShares < QLim,
         EngineInv, SymbolInv, StageInv, FreshInv, EmittedInv,
         EngineInv', SymbolInv', Extends(locMap, locCnt, locMap', locCnt'), Noted,
         golden = Abstract, golden' = Abstract', G!BookInv,
         NEW w, ApplyAdd(w), ~RefusesAdd, NEW m, m = cur.msg
  PROVE  /\ G!Add(m)
         /\ Launches(w, m.side, m.px, m.qty)
         /\ ~uadd'.on /\ m.qty # 0
<1>1. st = "APPLY" /\ ~cur.bad /\ m.type \in AddTypes /\ m.type \in LookupTypes /\ InTail
  BY DEF ApplyAdd, Applies, LookupTypes, InTail
<1>2. /\ cur.msg.loc \in Locates /\ cur.msg \in Msgs
  BY <1>1, OwnSymbol
<1>3. /\ m \in Msgs /\ m.ref \in Refs /\ m.side \in Sides /\ m.px \in Prices
      /\ m.qty \in 0..MaxShares /\ m.loc \in Locates
  BY <1>1, <1>2, InFlightMessage DEF EngineInv
<1>4. ~prb.found /\ m.qty # 0 /\ ~prb.full
  BY DEF RefusesAdd
<1>5. m.ref \notin DOMAIN golden.orders /\ m.loc = RefLoc[m.ref]
  BY <1>1, <1>3, <1>4, FoundLive DEF FeedNumbers
<1>6. Signed(m.qty) = m.qty
  BY <1>3, ExactDeltas
<1>7. PICK e : e = NewEntry(m.ref, m.side, m.px, m.qty)
  OBVIOUS
<1>8. /\ tab' = [tab EXCEPT ![prb.empty] = e] /\ uadd' = NoUadd
      /\ ToLevels(w) /\ Launch(m.side, m.px, Signed(m.qty))
  BY <1>7 DEF ApplyAdd
<1>9. Launches(w, m.side, m.px, m.qty) /\ ~uadd'.on
  BY <1>1, <1>6, <1>8 DEF Launches, NoUadd
<1>10. st' # "INVAL"
  BY <1>8 DEF ToLevels
<1>11. PICK o : o = G!OrderOf(m)
  OBVIOUS
<1>12. golden'.orders = G!Put(golden.orders, m.ref, o)
  <2>1. ProbeFresh /\ Applies(NoWord, LookupTypes)
    BY <1>1, ProbeFreshNow DEF Applies
  <2>2. prb.empty \in TabSlots /\ ~tab[prb.empty].valid
    BY <1>1, <1>4, <2>1 DEF ProbeFresh, FirstHole, Window
  <2>3. Denotes(tab, uadd, golden.orders) /\ DOMAIN tab = TabSlots /\ Off(uadd) /\ Off(uadd')
    BY <1>1, <1>9, TableDenoted, GoldenIs, Owing DEF Off
  <2>4. e.valid /\ e.ref = m.ref
    BY <1>7 DEF NewEntry
  <2>5. \A i \in TabSlots : ~Has(tab, i, e.ref)
    BY <1>5, <2>3, <2>4 DEF Denotes
  <2>6. PICK t, u, f, v, t2 : /\ t = tab /\ u = uadd /\ f = golden.orders /\ v = uadd'
                              /\ t2 = [t EXCEPT ![prb.empty] = e]
    OBVIOUS
  <2>7. Denotes(t2, u, With(f, e.ref, OrderFrom(e.ref, e)))
    BY <2>2, <2>3, <2>4, <2>5, <2>6, OrderComes
  <2>8. Denotes(t2, v, With(f, e.ref, OrderFrom(e.ref, e)))
    BY <2>3, <2>6, <2>7, OffDenotes
  <2>9. golden'.orders = With(f, e.ref, OrderFrom(e.ref, e))
    BY <1>8, <1>10, <2>6, <2>8, OrdersNext
  <2>10. OrderFrom(e.ref, e) = o
    BY <1>5, <1>7, <1>11 DEF OrderFrom, NewEntry, G!OrderOf
  <2> QED
    BY <2>4, <2>6, <2>9, <2>10 DEF With, G!Put
<1>13. o \in G!Order /\ G!KeyOf(o) = <<m.loc, m.side>> /\ o.px = m.px /\ o.qty = m.qty /\ o.loc = m.loc
  BY <1>3, <1>4, <1>11, GAssumptions, G!MessageFields DEF G!OrderOf, G!KeyOf
<1>14. PICK c, b : b = G!Book /\ c = G!LevelAdd(b, <<m.loc, m.side>>, m.px, m.qty)
  OBVIOUS
<1>15. G!Agree(golden.orders, b) /\ G!GoodBook(b) /\ b.levels = golden.levels
  BY <1>14, BookNow
<1>16. PICK more : more = G!Put(golden.orders, m.ref, o)
  OBVIOUS
<1>17. G!Agree(more, c)
  BY <1>3, <1>5, <1>13, <1>14, <1>15, <1>16, GAssumptions, G!BookGains
<1>18. G!GoodBook(c)
  BY <1>17 DEF G!Agree
<1>19. c.levels = AdjustedAt(b.levels, <<m.loc, m.side>>, m.px, m.qty)
  <2>1. m.px \in DOMAIN b.levels[<<m.loc, m.side>>] => b.levels[<<m.loc, m.side>>][m.px] \in Int
    BY <1>3, <1>15, LevelNumbers
  <2>2. m.qty \in Int
    BY <1>3, MessageAssumption
  <2> QED
    BY <1>14, <2>1, <2>2, LevelAddIs
<1>20. PICK u2 : u2 = uadd'
  OBVIOUS
<1>21. c.levels = ChangedAt(golden.levels, m.loc, m.side, m.px, m.qty, u2)
  BY <1>9, <1>15, <1>19, <1>20 DEF Changed, ChangedAt, AdjustedAt
<1>22. G!SetBook(c) /\ G!Emit(c, m.loc) /\ UNCHANGED G!Session
  BY <1>3, <1>9, <1>18, <1>20, <1>21, LaunchGolden
<1>23. gLiveCount' = G!Counted(m.loc, 1)
  <2>1. PICK live : live = gLiveCount
    OBVIOUS
  <2>2. live \in [Locates -> Int] /\ G!Counts(golden.orders, live) /\ G!GoodOrders(golden.orders)
    BY <2>1, BookNow
  <2>3. /\ [live EXCEPT ![o.loc] = @ + 1] \in [Locates -> Int]
        /\ G!Counts(G!Put(golden.orders, m.ref, o), [live EXCEPT ![o.loc] = @ + 1])
    BY <1>3, <1>5, <1>13, <2>2, GAssumptions, G!CountArrives
  <2>4. gLiveCount' = [live EXCEPT ![o.loc] = @ + 1]
    BY <1>12, <2>3, CountNext
  <2> QED
    BY <1>13, <2>1, <2>4 DEF G!Counted
<1>24. G!AddTypes = AddTypes
  BY DEF G!AddTypes, AddTypes
<1>25. G!Add(m)
  BY <1>1, <1>4, <1>5, <1>11, <1>12, <1>14, <1>22, <1>23, <1>24 DEF G!Add
<1> QED
  BY <1>4, <1>9, <1>25

\* The table once the order in slot s has lost q shares.
TableLess(t, s, e, q) ==
  [t EXCEPT ![s] = IF q = e.qty THEN Hole ELSE [e EXCEPT !.qty = @ - q]]

\* The reference orders lose what the table loses.
LEMMA OrdersLose ==
  ASSUME EngineInv, StageInv, EngineInv', golden = Abstract, golden' = Abstract',
         st = "APPLY", ~cur.bad, st' # "INVAL", ~uadd'.on,
         NEW m, m = cur.msg, m.type \in LookupTypes, prb.found,
         NEW e, e = prb.entry, NEW q \in 1..MaxShares, q <= e.qty,
         tab' = TableLess(tab, prb.slot, e, q)
  PROVE  golden'.orders = G!Less(golden.orders, m.ref, q)
<1>1. /\ golden.orders[m.ref] = OrderFrom(m.ref, e) /\ m.ref \in DOMAIN golden.orders
      /\ Has(tab, prb.slot, m.ref) /\ prb.slot \in TabSlots
      /\ e = tab[prb.slot] /\ e.qty \in 1..MaxShares
  BY FoundLive
<1>2. /\ Denotes(tab, uadd, golden.orders) /\ SoundTable(tab) /\ DOMAIN tab = TabSlots
      /\ Off(uadd) /\ Off(uadd')
  BY TableDenoted, GoldenIs, Owing DEF Off
<1>3. PICK t, u, f, v, s, t2, r : /\ t = tab /\ u = uadd /\ f = golden.orders /\ v = uadd'
                                  /\ s = prb.slot /\ t2 = TableLess(t, s, e, q) /\ r = m.ref
  OBVIOUS
<1>4. /\ Denotes(t, u, f) /\ SoundTable(t) /\ DOMAIN t = TabSlots /\ Off(u) /\ Off(v)
      /\ s \in TabSlots /\ Has(t, s, r)
  BY <1>1, <1>2, <1>3
<1>5. golden.orders[m.ref].qty = e.qty
  BY <1>1 DEF OrderFrom
<1>6. e \in Entry
  BY <1>1 DEF EngineInv, BookInv, TableInv
<1>7. CASE q = e.qty
  <2>1. t2 = [t EXCEPT ![s] = Hole]
    BY <1>3, <1>7 DEF TableLess
  <2>2. Denotes(t2, u, Without(f, r))
    BY <1>4, <2>1, OrderGoes
  <2>3. Denotes(t2, v, Without(f, r))
    BY <1>4, <2>2, OffDenotes
  <2>4. golden'.orders = Without(f, r)
    BY <1>3, <2>3, OrdersNext
  <2> QED
    BY <1>3, <1>5, <1>7, <2>4 DEF Without, G!Less, G!Drop
<1>8. CASE q # e.qty
  <2>1. PICK e2 : e2 = [e EXCEPT !.qty = @ - q]
    OBVIOUS
  <2>2. t2 = [t EXCEPT ![s] = e2]
    BY <1>3, <1>8, <2>1 DEF TableLess
  <2>3. e.valid /\ e.ref = m.ref
    BY <1>1 DEF Has
  <2>4. /\ e2.valid /\ e2.ref = m.ref /\ e2.side = e.side /\ e2.px = e.px
        /\ e2.qty = e.qty - q
    BY <1>6, <2>1, <2>3 DEF Entry
  <2>5. PICK o2 : o2 = OrderFrom(m.ref, e2)
    OBVIOUS
  <2>6. e2.valid /\ e2.ref = r
    BY <1>3, <2>4
  <2>7. Denotes(t2, u, [f EXCEPT ![r] = OrderFrom(r, e2)])
    BY <1>4, <2>2, <2>6, OrderChanges
  <2>8. PICK g : g = [f EXCEPT ![m.ref] = o2]
    OBVIOUS
  <2>9. Denotes(t2, u, g)
    BY <1>3, <2>5, <2>8, <2>7
  <2>10. Denotes(t2, v, g)
    BY <1>4, <2>9, OffDenotes
  <2>11. golden'.orders = g
    BY <1>3, <2>10, OrdersNext
  <2>12. o2 = [OrderFrom(m.ref, e) EXCEPT !.qty = @ - q]
    BY <2>4, <2>5 DEF OrderFrom
  <2>13. g = [f EXCEPT ![m.ref].qty = @ - q]
    BY <1>1, <1>3, <2>8, <2>12
  <2> QED
    BY <1>3, <1>5, <1>8, <2>11, <2>13 DEF G!Less
<1> QED
  BY <1>7, <1>8

\* Execute, cancel and delete: the order that the probe found loses q shares.
LEMMA LossGolden ==
  ASSUME FeedNumbers, IsFiniteSet(Refs),
         EngineInv, SymbolInv, StageInv, FreshInv, EmittedInv,
         EngineInv', SymbolInv', Extends(locMap, locCnt, locMap', locCnt'), Noted,
         golden = Abstract, golden' = Abstract', G!BookInv,
         NEW m, m = cur.msg, m.type \in LookupTypes, prb.found,
         NEW e, e = prb.entry, NEW q \in 1..MaxShares, q <= e.qty,
         NEW w, Launches(w, e.side, e.px, -q), ~uadd'.on,
         tab' = TableLess(tab, prb.slot, e, q)
  PROVE  /\ m.ref \in DOMAIN golden.orders
         /\ golden.orders[m.ref].qty = e.qty /\ golden.orders[m.ref].loc = m.loc
         /\ q = e.qty => G!Remove(m.ref, m.loc)
         /\ q # e.qty => G!Shrink(m.ref, q)
         /\ ~(G!QtyAt(golden.levels[<<m.loc, e.side>>], e.px) + -q < 0)
<1>1. st = "APPLY" /\ ~cur.bad /\ ToLevels(w) /\ InTail
  BY DEF Launches, InTail
<1>2. st' # "INVAL"
  BY <1>1 DEF ToLevels
<1>3. m \in Msgs /\ m.loc \in Locates /\ q \in Nat
  BY <1>1, OwnSymbol, MessageAssumption
<1>4. PICK ords, o, b, after : /\ ords = golden.orders /\ o = ords[m.ref] /\ b = G!Book
                               /\ after = G!Less(ords, m.ref, q)
  OBVIOUS
<1>5. /\ o = OrderFrom(m.ref, e) /\ m.ref \in DOMAIN ords
      /\ e.side \in Sides /\ e.px \in Prices /\ e.qty \in 1..MaxShares
  BY <1>1, <1>4, FoundLive
<1>6. o.loc = m.loc /\ o.side = e.side /\ o.px = e.px /\ o.qty = e.qty
  BY <1>3, <1>5 DEF OrderFrom, FeedNumbers
<1>7. G!KeyOf(o) = <<m.loc, e.side>>
  BY <1>6 DEF G!KeyOf
<1>8. golden'.orders = after
  BY <1>1, <1>2, <1>4, OrdersLose
<1>9. G!Agree(ords, b) /\ G!GoodBook(b) /\ b.levels = golden.levels
  BY <1>4, BookNow
<1>10. PICK c : c = G!LevelAdd(b, G!KeyOf(o), o.px, -q)
  OBVIOUS
<1>11. /\ ~(G!QtyAt(b.levels[G!KeyOf(o)], o.px) + -q < 0)
       /\ G!Agree(after, c)
  BY <1>3, <1>4, <1>5, <1>6, <1>9, <1>10, GAssumptions, G!BookLoses
<1>12. G!GoodBook(c)
  BY <1>11 DEF G!Agree
<1>13. PICK u : u = uadd'
  OBVIOUS
<1>14. c.levels = ChangedAt(golden.levels, m.loc, e.side, e.px, -q, u)
  <2>1. <<m.loc, e.side>> \in Locates \X Sides
    BY <1>3, <1>5
  <2>2. e.px \in DOMAIN b.levels[<<m.loc, e.side>>] => b.levels[<<m.loc, e.side>>][e.px] \in Int
    BY <1>9, <2>1, LevelNumbers
  <2>3. -q \in Int
    BY <1>3
  <2>4. c = G!LevelAdd(b, <<m.loc, e.side>>, e.px, -q)
    BY <1>6, <1>7, <1>10
  <2>5. c.levels = AdjustedAt(b.levels, <<m.loc, e.side>>, e.px, -q)
    BY <2>2, <2>3, <2>4, LevelAddIs
  <2> QED
    BY <1>9, <1>13, <2>5 DEF Changed, ChangedAt, AdjustedAt
<1>15. G!SetBook(c) /\ G!Emit(c, m.loc) /\ UNCHANGED G!Session
  BY <1>5, <1>12, <1>13, <1>14, LaunchGolden
<1>16. ~G!Negative(G!KeyOf(o), o.px, -q)
  BY <1>9, <1>11 DEF G!Negative
<1>17. ASSUME q = e.qty PROVE G!Remove(m.ref, m.loc)
  <2>1. after = G!Drop(ords, m.ref)
    BY <1>4, <1>6, <1>17 DEF G!Less
  <2>2. PICK live : live = gLiveCount
    OBVIOUS
  <2>3. live \in [Locates -> Int] /\ G!Counts(ords, live) /\ G!GoodOrders(ords)
    BY <1>4, <2>2, BookNow
  <2>4. PICK next : next = [live EXCEPT ![o.loc] = @ + -1]
    OBVIOUS
  <2>5. PICK r : r = m.ref
    OBVIOUS
  <2>6. r \in DOMAIN ords /\ o = ords[r]
    BY <1>4, <1>5, <2>5
  <2>7. /\ [live EXCEPT ![o.loc] = @ + -1] \in [Locates -> Int]
         /\ G!Counts(G!Drop(ords, r), [live EXCEPT ![o.loc] = @ + -1])
    BY <2>3, <2>6, GAssumptions, G!CountDeparts
  <2>8. next \in [Locates -> Int] /\ G!Counts(after, next)
    BY <2>1, <2>4, <2>5, <2>7
  <2>9. gLiveCount' = next
    BY <1>8, <2>8, CountNext
  <2>10. gLiveCount' = G!Counted(o.loc, -1)
    BY <2>2, <2>4, <2>9 DEF G!Counted
  <2>11. c = G!LevelAdd(G!Book, G!KeyOf(o), o.px, -o.qty) /\ ~G!Negative(G!KeyOf(o), o.px, -o.qty)
    BY <1>4, <1>6, <1>10, <1>16, <1>17
  <2> QED
    BY <1>4, <1>8, <1>15, <2>1, <2>10, <2>11 DEF G!Remove
<1>18. ASSUME q # e.qty PROVE G!Shrink(m.ref, q)
  <2>1. after = [ords EXCEPT ![m.ref].qty = @ - q]
    BY <1>4, <1>6, <1>18 DEF G!Less
  <2>2. DOMAIN golden'.orders = DOMAIN golden.orders
    BY <1>4, <1>8, <2>1
  <2>3. gLiveCount' = gLiveCount
    BY <2>2 DEF gLiveCount
  <2>4. c = G!LevelAdd(G!Book, G!KeyOf(o), o.px, -q)
    BY <1>4, <1>10
  <2>5. G!Emit(c, o.loc)
    BY <1>6, <1>15
  <2> QED
    BY <1>4, <1>8, <1>15, <1>16, <2>1, <2>3, <2>4, <2>5 DEF G!Shrink
<1> QED
  BY <1>4, <1>5, <1>6, <1>7, <1>9, <1>11, <1>17, <1>18

\* An execution or a cancel of a part, or of the rest, is _reduce.
LEMMA ReduceGolden ==
  ASSUME FeedNumbers, IsFiniteSet(Refs), 2 * MaxShares < QLim, RealReductions,
         EngineInv, SymbolInv, StageInv, FreshInv, EmittedInv,
         EngineInv', SymbolInv', Extends(locMap, locCnt, locMap', locCnt'), Noted,
         golden = Abstract, golden' = Abstract', G!BookInv,
         NEW w, ApplyReduce(w), prb.found, NEW m, m = cur.msg, ~(m.qty > prb.entry.qty)
  PROVE  /\ G!Reduce(m)
         /\ Launches(w, prb.entry.side, prb.entry.px, -m.qty) /\ prb.entry.side \in Sides
         /\ ~uadd'.on /\ m.qty \in 1..MaxShares
         /\ ~(G!QtyAt(golden.levels[<<m.loc, prb.entry.side>>], prb.entry.px) + -m.qty < 0)
<1>1. /\ st = "APPLY" /\ ~cur.bad /\ m.type \in ReduceTypes /\ m.type \in LookupTypes /\ InTail
  BY DEF ApplyReduce, Applies, LookupTypes, InTail
<1>2. m \in Msgs /\ m.qty \in 0..MaxShares
  BY <1>1, OwnSymbol, InFlightMessage DEF EngineInv
<1>3. m.qty \in 1..MaxShares
  BY <1>1, <1>2, MessageAssumption DEF RealReductions
<1>4. PICK e : e = prb.entry
  OBVIOUS
<1>5. e.side \in Sides /\ e.qty \in 1..MaxShares /\ m.qty <= e.qty
  BY <1>1, <1>3, <1>4, FoundLive
<1>6. Negate(m.qty) = -m.qty
  BY <1>2, ExactDeltas
<1>7. /\ tab' = TableLess(tab, prb.slot, e, m.qty)
      /\ Launch(e.side, e.px, Negate(m.qty)) /\ uadd' = NoUadd /\ ToLevels(w)
  BY <1>4 DEF ApplyReduce, TableLess
<1>8. Launches(w, e.side, e.px, -m.qty) /\ ~uadd'.on
  BY <1>1, <1>6, <1>7 DEF Launches, NoUadd
<1>9. /\ m.ref \in DOMAIN golden.orders
      /\ golden.orders[m.ref].qty = e.qty /\ golden.orders[m.ref].loc = m.loc
      /\ m.qty = e.qty => G!Remove(m.ref, m.loc)
      /\ m.qty # e.qty => G!Shrink(m.ref, m.qty)
      /\ ~(G!QtyAt(golden.levels[<<m.loc, e.side>>], e.px) + -m.qty < 0)
  BY <1>1, <1>3, <1>4, <1>5, <1>7, <1>8, LossGolden
<1>10. G!Reduce(m)
  <2>1. m.type \in G!ReduceTypes
    BY <1>1 DEF G!ReduceTypes, ReduceTypes
  <2> QED
    BY <1>4, <1>9, <2>1 DEF G!Reduce
<1> QED
  BY <1>3, <1>4, <1>5, <1>8, <1>9, <1>10

\* A delete is _remove.
LEMMA DeleteGolden ==
  ASSUME FeedNumbers, IsFiniteSet(Refs), 2 * MaxShares < QLim,
         EngineInv, SymbolInv, StageInv, FreshInv, EmittedInv,
         EngineInv', SymbolInv', Extends(locMap, locCnt, locMap', locCnt'), Noted,
         golden = Abstract, golden' = Abstract', G!BookInv,
         NEW w, ApplyDelete(w), prb.found, NEW m, m = cur.msg
  PROVE  /\ G!Delete(m)
         /\ Launches(w, prb.entry.side, prb.entry.px, -prb.entry.qty) /\ prb.entry.side \in Sides
         /\ ~uadd'.on /\ prb.entry.qty \in 1..MaxShares
         /\ ~(G!QtyAt(golden.levels[<<m.loc, prb.entry.side>>], prb.entry.px) + -prb.entry.qty < 0)
<1>1. /\ st = "APPLY" /\ ~cur.bad /\ m.type = "D" /\ m.type \in LookupTypes /\ InTail
  BY DEF ApplyDelete, Applies, LookupTypes, InTail
<1>2. PICK e : e = prb.entry
  OBVIOUS
<1>3. e.side \in Sides /\ e.qty \in 1..MaxShares
  BY <1>1, <1>2, FoundLive
<1>4. Negate(e.qty) = -e.qty /\ e.qty <= e.qty
  BY <1>3, ExactDeltas
<1>5. /\ tab' = TableLess(tab, prb.slot, e, e.qty)
      /\ Launch(e.side, e.px, Negate(e.qty)) /\ uadd' = NoUadd /\ ToLevels(w)
  BY <1>2 DEF ApplyDelete, TableLess
<1>6. Launches(w, e.side, e.px, -e.qty) /\ ~uadd'.on
  BY <1>1, <1>4, <1>5 DEF Launches, NoUadd
<1>7. /\ m.ref \in DOMAIN golden.orders /\ G!Remove(m.ref, m.loc)
      /\ ~(G!QtyAt(golden.levels[<<m.loc, e.side>>], e.px) + -e.qty < 0)
  BY <1>1, <1>2, <1>3, <1>4, <1>5, <1>6, LossGolden
<1>8. G!Delete(m)
  BY <1>1, <1>7 DEF G!Delete
<1> QED
  BY <1>2, <1>3, <1>6, <1>7, <1>8

\* The pending add half of a replace with entry e and message m.
Pending(u, e, m) ==
  /\ u.on /\ u.ref = m.new /\ u.side = e.side /\ u.px = m.px /\ u.qty = m.qty

\* A replaced order keeps its locate and its side.
LEMMA Repriced ==
  ASSUME NEW l \in Locates, NEW s \in Sides, NEW p0 \in Prices, NEW q0 \in 1..MaxShares,
         NEW o, o = [loc |-> l, side |-> s, px |-> p0, qty |-> q0],
         NEW p \in Prices, NEW q \in 0..MaxShares,
         NEW o2, o2 = [o EXCEPT !.px = p, !.qty = q]
  PROVE  o2 = [loc |-> l, side |-> s, px |-> p, qty |-> q]
OBVIOUS

\* One order goes and another is about to enter.
LEMMA OrdersSwap ==
  ASSUME FeedNumbers, EngineInv, StageInv, EngineInv', golden = Abstract, golden' = Abstract',
         st = "APPLY", ~cur.bad, st' # "INVAL",
         NEW m, m = cur.msg, m \in Msgs, m.type = "U", prb.found, ~prb.newFound,
         NEW e, e = prb.entry, NEW v, v = uadd', Pending(v, e, m),
         tab' = [tab EXCEPT ![prb.slot] = Hole]
  PROVE  golden'.orders = G!Replaced(m)
<1>1. /\ golden.orders[m.ref] = OrderFrom(m.ref, e) /\ m.ref \in DOMAIN golden.orders
      /\ Has(tab, prb.slot, m.ref) /\ prb.slot \in TabSlots
      /\ e = tab[prb.slot] /\ m.new \notin DOMAIN golden.orders
      /\ e.side \in Sides /\ e.px \in Prices /\ e.qty \in 1..MaxShares
  BY FoundLive DEF LookupTypes
<1>2. /\ Denotes(tab, uadd, golden.orders) /\ SoundTable(tab) /\ DOMAIN tab = TabSlots
      /\ Off(uadd)
  BY TableDenoted, GoldenIs, Owing DEF Off
<1>3. PICK t, u, f, s, t2, r : /\ t = tab /\ u = uadd /\ f = golden.orders
                               /\ s = prb.slot /\ t2 = [t EXCEPT ![s] = Hole] /\ r = m.ref
  OBVIOUS
<1>4. /\ Denotes(t, u, f) /\ SoundTable(t) /\ DOMAIN t = TabSlots /\ Off(u)
      /\ s \in TabSlots /\ Has(t, s, r)
  BY <1>1, <1>2, <1>3
<1>5. Denotes(t2, u, Without(f, r))
  BY <1>3, <1>4, OrderGoes
<1>6. v.on /\ v.ref = m.new /\ v.side = e.side /\ v.px = m.px /\ v.qty = m.qty
  BY DEF Pending
<1>7. \A i \in TabSlots : ~Has(t2, i, v.ref)
  <2>1. m.new \notin DOMAIN Without(f, r)
    BY <1>1, <1>3 DEF Without
  <2> QED
    BY <1>5, <1>6, <2>1 DEF Denotes
<1>8. PICK f1 : f1 = Without(f, r)
  OBVIOUS
<1>9. Denotes(t2, v, With(f1, v.ref, OrderFrom(v.ref, v)))
  BY <1>4, <1>5, <1>6, <1>7, <1>8, OrderEnters
<1>10. golden'.orders = With(f1, v.ref, OrderFrom(v.ref, v))
  BY <1>3, <1>9, OrdersNext
<1>11. PICK o, o2 : /\ o = golden.orders[m.ref] /\ o2 = [o EXCEPT !.px = m.px, !.qty = m.qty]
  OBVIOUS
<1>12. OrderFrom(v.ref, v) = o2
  <2>1. RefLoc[v.ref] = RefLoc[m.ref]
    BY <1>6 DEF FeedNumbers, LookupTypes
  <2>2. o = OrderFrom(m.ref, e)
    BY <1>1, <1>11
  <2>3. o2 = [loc |-> RefLoc[m.ref], side |-> e.side, px |-> m.px, qty |-> m.qty]
    <3>1. PICK l, d, p0, q0, p, q : /\ l = RefLoc[m.ref] /\ d = e.side /\ p0 = e.px
                                    /\ q0 = e.qty /\ p = m.px /\ q = m.qty
      OBVIOUS
    <3>2. /\ l \in Locates /\ d \in Sides /\ p0 \in Prices /\ q0 \in 1..MaxShares
          /\ p \in Prices /\ q \in 0..MaxShares
      BY <1>1, <3>1, InFlightMessage DEF EngineInv, InTail, FeedNumbers
    <3>3. o = [loc |-> l, side |-> d, px |-> p0, qty |-> q0]
      BY <2>2, <3>1 DEF OrderFrom
    <3>4. o2 = [o EXCEPT !.px = p, !.qty = q]
      BY <1>11, <3>1
    <3>5. o2 = [loc |-> l, side |-> d, px |-> p, qty |-> q]
      BY <3>2, <3>3, <3>4, Repriced
    <3> QED
      BY <3>1, <3>5
  <2>4. OrderFrom(v.ref, v) = [loc |-> RefLoc[v.ref], side |-> v.side, px |-> v.px, qty |-> v.qty]
    BY DEF OrderFrom
  <2> QED
    BY <1>6, <2>1, <2>3, <2>4
<1> QED
  BY <1>3, <1>6, <1>8, <1>10, <1>11, <1>12 DEF With, Without, G!Put, G!Drop, G!Replaced

\* A quantity comes to a level after another has gone from the same side.
LEMMA TwoChanges ==
  ASSUME NEW lv0, NEW lv1, NEW lv2a, NEW l, NEW s, <<l, s>> \in DOMAIN lv0,
         NEW p, NEW d, NEW u, u.on,
         lv1 = AdjustedAt(lv0, <<l, s>>, p, d),
         lv2a = AdjustedAt(lv1, <<l, s>>, u.px, u.qty)
  PROVE  lv2a = ChangedAt(lv0, l, s, p, d, u)
BY DEF AdjustedAt, ChangedAt, Changed

\* A replace is _remove and _add, with one event.
LEMMA ReplaceGolden ==
  ASSUME FeedNumbers, IsFiniteSet(Refs), 2 * MaxShares < QLim,
         EngineInv, SymbolInv, StageInv, FreshInv, EmittedInv,
         EngineInv', SymbolInv', Extends(locMap, locCnt, locMap', locCnt'), Noted,
         golden = Abstract, golden' = Abstract', G!BookInv,
         NEW w, ApplyReplace(w), prb.found, NEW m, m = cur.msg,
         m.qty # 0, ~prb.newFound, ~prb.newFull
  PROVE  /\ G!Replace(m)
         /\ Launches(w, prb.entry.side, prb.entry.px, -prb.entry.qty) /\ prb.entry.side \in Sides
         /\ prb.entry.qty \in 1..MaxShares
         /\ ~(G!QtyAt(golden.levels[<<m.loc, prb.entry.side>>], prb.entry.px) + -prb.entry.qty < 0)
<1>1. /\ st = "APPLY" /\ ~cur.bad /\ m.type = "U" /\ m.type \in LookupTypes /\ InTail
  BY DEF ApplyReplace, Applies, LookupTypes, InTail
<1>2. m \in Msgs /\ m.loc \in Locates
  BY <1>1, OwnSymbol
<1>3. m.qty \in 1..MaxShares /\ m.new \in Refs /\ m.px \in Prices /\ m.ref \in Refs
  <2>1. m.qty \in 0..MaxShares /\ m.new \in Refs /\ m.px \in Prices /\ m.ref \in Refs
    BY <1>1, InFlightMessage DEF EngineInv
  <2> QED
    BY <2>1, MessageAssumption
<1>4. PICK ords, o, e, u, b : /\ ords = golden.orders /\ o = ords[m.ref] /\ e = prb.entry
                              /\ u = uadd' /\ b = G!Book
  OBVIOUS
<1>5. /\ o = OrderFrom(m.ref, e) /\ m.ref \in DOMAIN ords /\ m.new \notin DOMAIN ords
      /\ e.side \in Sides /\ e.px \in Prices /\ e.qty \in 1..MaxShares
  BY <1>1, <1>4, FoundLive
<1>6. Negate(e.qty) = -e.qty
  BY <1>5, ExactDeltas
<1>7. /\ tab' = [tab EXCEPT ![prb.slot] = Hole]
      /\ Launch(e.side, e.px, Negate(e.qty)) /\ ToLevels(w)
      /\ uadd' = [on |-> TRUE, ref |-> m.new, side |-> e.side,
                  px |-> m.px, qty |-> m.qty, slot |-> prb.newEmpty]
  BY <1>4 DEF ApplyReplace
<1>8. Pending(u, e, m)
  BY <1>4, <1>7 DEF Pending
<1>9. Launches(w, e.side, e.px, -e.qty)
  BY <1>1, <1>6, <1>7 DEF Launches
<1>10. st' # "INVAL"
  BY <1>7 DEF ToLevels
<1>11. golden'.orders = G!Replaced(m)
  BY <1>1, <1>2, <1>4, <1>7, <1>8, <1>10, OrdersSwap
<1>12. /\ o.loc = m.loc /\ o.side = e.side /\ o.px = e.px /\ o.qty = e.qty
       /\ G!KeyOf(o) = <<m.loc, e.side>>
  BY <1>1, <1>2, <1>5 DEF OrderFrom, FeedNumbers, G!KeyOf
<1>13. G!Agree(ords, b) /\ G!GoodBook(b) /\ b.levels = golden.levels /\ G!GoodOrders(ords)
  BY <1>4, BookNow
<1>14. PICK less, o2, more, c1, c2 :
         /\ less = G!Drop(ords, m.ref)
         /\ o2 = [o EXCEPT !.px = m.px, !.qty = m.qty]
         /\ more = G!Put(less, m.new, o2)
         /\ c1 = G!LevelAdd(b, G!KeyOf(o), o.px, -o.qty)
         /\ c2 = G!LevelAdd(c1, G!KeyOf(o), m.px, m.qty)
  OBVIOUS
<1>15. /\ o2.loc = m.loc /\ o2.side = e.side /\ o2.px = m.px /\ o2.qty = m.qty
       /\ G!KeyOf(o2) = G!KeyOf(o) /\ o2 \in G!Order
  <2>1. o2 = [loc |-> m.loc, side |-> e.side, px |-> m.px, qty |-> m.qty]
    BY <1>5, <1>12, <1>14 DEF OrderFrom
  <2>2. o2.loc = m.loc /\ o2.side = e.side /\ o2.px = m.px /\ o2.qty = m.qty
    BY <2>1
  <2>3. o2 \in G!Order
    BY <1>2, <1>3, <1>5, <2>1 DEF G!Order, G!Sides, Sides
  <2>4. G!KeyOf(o2) = G!KeyOf(o)
    BY <1>12, <2>2 DEF G!KeyOf
  <2> QED
    BY <2>2, <2>3, <2>4
<1>16. /\ ~(G!QtyAt(b.levels[G!KeyOf(o)], o.px) + -o.qty < 0)
       /\ G!Agree(less, c1)
  <2>1. less = G!Less(ords, m.ref, o.qty)
    BY <1>4, <1>14 DEF G!Less
  <2>2. o.qty \in Nat /\ o.qty <= o.qty
    BY <1>5, <1>12
  <2>3. PICK r : r = m.ref
    OBVIOUS
  <2>4. r \in DOMAIN ords /\ o = ords[r] /\ less = G!Less(ords, r, o.qty)
    BY <1>4, <1>5, <2>1, <2>3
  <2> QED
    BY <1>13, <1>14, <2>2, <2>4, GAssumptions, G!BookLoses
<1>17. G!GoodBook(c1) /\ m.new \notin DOMAIN less
  BY <1>5, <1>14, <1>16 DEF G!Agree, G!Drop
<1>18. G!Agree(more, c2)
  <2>1. PICK r : r = m.new
    OBVIOUS
  <2>2. r \in Refs /\ r \notin DOMAIN less /\ more = G!Put(less, r, o2)
    BY <1>3, <1>14, <1>17, <2>1
  <2>3. c2 = G!LevelAdd(c1, G!KeyOf(o2), o2.px, o2.qty)
    BY <1>14, <1>15
  <2> QED
    BY <1>15, <1>16, <2>2, <2>3, GAssumptions, G!BookGains
<1>19. G!GoodBook(c2)
  BY <1>18 DEF G!Agree
<1>20. <<m.loc, e.side>> \in Locates \X Sides /\ G!Keys = Locates \X Sides
  BY <1>2, <1>5 DEF G!Keys, G!Sides, Sides
<1>21. c1.levels = AdjustedAt(b.levels, <<m.loc, e.side>>, e.px, -e.qty)
  <2>1. e.px \in DOMAIN b.levels[<<m.loc, e.side>>] => b.levels[<<m.loc, e.side>>][e.px] \in Int
    BY <1>13, <1>20, LevelNumbers
  <2>2. -e.qty \in Int
    BY <1>5
  <2>3. c1 = G!LevelAdd(b, <<m.loc, e.side>>, e.px, -e.qty)
    BY <1>12, <1>14
  <2> QED
    BY <2>1, <2>2, <2>3, LevelAddIs
<1>22. c2.levels = AdjustedAt(c1.levels, <<m.loc, e.side>>, m.px, m.qty)
  <2>1. m.px \in DOMAIN c1.levels[<<m.loc, e.side>>] => c1.levels[<<m.loc, e.side>>][m.px] \in Int
    BY <1>17, <1>20, LevelNumbers
  <2>2. m.qty \in Int
    BY <1>3
  <2>3. c2 = G!LevelAdd(c1, <<m.loc, e.side>>, m.px, m.qty)
    BY <1>12, <1>14
  <2> QED
    BY <2>1, <2>2, <2>3, LevelAddIs
<1>23. c2.levels = ChangedAt(golden.levels, m.loc, e.side, e.px, -e.qty, u)
  <2>1. <<m.loc, e.side>> \in DOMAIN b.levels
    BY <1>13, <1>20 DEF G!GoodBook
  <2>2. PICK lv0, lv1, lv2a : lv0 = b.levels /\ lv1 = c1.levels /\ lv2a = c2.levels
    OBVIOUS
  <2>3. u.on /\ u.px = m.px /\ u.qty = m.qty
    BY <1>8 DEF Pending
  <2>4. PICK d, p : d = -e.qty /\ p = e.px
    OBVIOUS
  <2>5. lv2a = ChangedAt(lv0, m.loc, e.side, p, d, u)
    BY <1>21, <1>22, <2>1, <2>2, <2>3, <2>4, TwoChanges
  <2> QED
    BY <1>13, <2>2, <2>4, <2>5
<1>24. G!SetBook(c2) /\ G!Emit(c2, m.loc) /\ UNCHANGED G!Session
  BY <1>4, <1>5, <1>9, <1>19, <1>23, LaunchGolden
<1>25. ~G!Negative(G!KeyOf(o), o.px, -o.qty)
  BY <1>13, <1>16 DEF G!Negative
<1>26. gLiveCount' = gLiveCount
  <2>1. PICK live, r : live = gLiveCount /\ r = m.ref
    OBVIOUS
  <2>2. live \in [Locates -> Int] /\ G!Counts(ords, live)
    BY <1>4, <2>1, BookNow
  <2>3. PICK live1 : live1 = [live EXCEPT ![o.loc] = @ + -1]
    OBVIOUS
  <2>4. r \in DOMAIN ords /\ o = ords[r] /\ less = G!Drop(ords, r)
    BY <1>4, <1>5, <1>14, <2>1
  <2>5. /\ [live EXCEPT ![o.loc] = @ + -1] \in [Locates -> Int]
        /\ G!Counts(G!Drop(ords, r), [live EXCEPT ![o.loc] = @ + -1])
    BY <1>13, <2>2, <2>4, GAssumptions, G!CountDeparts
  <2>6. live1 \in [Locates -> Int] /\ G!Counts(less, live1) /\ G!GoodOrders(less)
    BY <1>16, <2>3, <2>4, <2>5 DEF G!Agree
  <2>7. PICK n : n = m.new
    OBVIOUS
  <2>8. n \in Refs /\ n \notin DOMAIN less /\ more = G!Put(less, n, o2)
    BY <1>3, <1>14, <1>17, <2>7
  <2>9. /\ [live1 EXCEPT ![o2.loc] = @ + 1] \in [Locates -> Int]
        /\ G!Counts(G!Put(less, n, o2), [live1 EXCEPT ![o2.loc] = @ + 1])
    BY <1>15, <2>6, <2>8, GAssumptions, G!CountArrives
  <2>10. [live1 EXCEPT ![o2.loc] = @ + 1] = live
    <3>1. o.loc = m.loc /\ o2.loc = m.loc /\ m.loc \in Locates
      BY <1>2, <1>12, <1>15
    <3>2. live[m.loc] \in Int
      BY <2>2, <3>1
    <3>3. live[m.loc] + -1 + 1 = live[m.loc]
      BY <3>2
    <3> QED
      BY <2>2, <2>3, <3>1, <3>3
  <2>11. golden'.orders = more
    BY <1>4, <1>11, <1>14 DEF G!Replaced
  <2>12. G!Counts(more, live)
    BY <2>8, <2>9, <2>10
  <2>13. gLiveCount' = live
    BY <2>2, <2>11, <2>12, CountNext
  <2> QED
    BY <2>1, <2>13
<1>27. c2 = G!LevelAdd(G!LevelAdd(G!Book, G!KeyOf(o), o.px, -o.qty), G!KeyOf(o), m.px, m.qty)
  BY <1>4, <1>14
<1>28. G!Emit(c2, o.loc)
  BY <1>12, <1>24
<1>29. G!Replace(m)
  BY <1>1, <1>4, <1>5, <1>11, <1>24, <1>25, <1>26, <1>27, <1>28 DEF G!Replace
<1> QED
  BY <1>4, <1>5, <1>9, <1>12, <1>13, <1>16, <1>29

(***************************************************************************)
(* The messages that leave the book alone                                  *)
(***************************************************************************)
LEMMA GoldenStays ==
  ASSUME golden' = golden, marketOpen' = marketOpen, anomalies' = anomalies
  PROVE  UNCHANGED G!vars
BY DEF G!vars, gBest, gLiveCount

\* A message that is refused, or names an order that is not there.
LEMMA FruitlessStays ==
  ASSUME EngineInv, SymbolInv, StageInv, FreshInv, EmittedInv,
         SymbolInv', Extends(locMap, locCnt, locMap', locCnt'), Noted,
         golden = Abstract, golden' = Abstract',
         NEW w, NEW rdy, Cycle(w, rdy), st = "APPLY", Fruitless(w)
  PROVE  golden' = golden
<1>1. Resting
  BY RestingSteps
<1>2. Calm
  BY <1>1, RestingCalm
<1> QED
  BY <1>2, CalmStep

\* An order that is not there is an anomaly in both.
LEMMA UnknownGolden ==
  ASSUME EngineInv, SymbolInv, StageInv, FreshInv, EmittedInv,
         SymbolInv', Extends(locMap, locCnt, locMap', locCnt'), Noted,
         golden = Abstract, golden' = Abstract',
         NEW w, NEW rdy, Cycle(w, rdy), st = "APPLY", Unknown(w)
  PROVE  G!Anomaly
<1>1. golden' = golden
  BY FruitlessStays DEF Unknown
<1>2. anomalies' = anomalies + 1 /\ marketOpen' = marketOpen
  BY DEF Unknown, Fruitless
<1> QED
  BY <1>1, <1>2 DEF G!Anomaly, gBest, gLiveCount

\* A refused message changes nothing of the reference book.
LEMMA RefuseStays ==
  ASSUME EngineInv, SymbolInv, StageInv, FreshInv, EmittedInv,
         SymbolInv', Extends(locMap, locCnt, locMap', locCnt'), Noted,
         golden = Abstract, golden' = Abstract',
         NEW w, NEW rdy, Cycle(w, rdy), st = "APPLY", Refuse(w)
  PROVE  error' /\ UNCHANGED G!vars
<1>1. golden' = golden
  BY FruitlessStays DEF Refuse
<1>2. anomalies' = anomalies /\ marketOpen' = marketOpen
  BY DEF Refuse, Fruitless
<1>3. error'
  BY DEF Refuse
<1> QED
  BY <1>1, <1>2, <1>3, GoldenStays

\* A session message owes nothing and is owed nothing.
LEMMA SessionFields ==
  ASSUME EngineInv, StageInv, Noted, NEW w, ApplySession(w)
  PROVE  /\ st = "APPLY" /\ ~cur.bad /\ st' \notin {"INVAL", "LV2", "LV2B", "LV3", "UADD"}
         /\ ~OwesEvent /\ ~OwesEvent' /\ ~InLevels /\ ~InLevels' /\ ~uadd.on /\ ~uadd'.on
         /\ UNCHANGED <<tab, lvl, prev, crosses, anomalies, emitted>>
<1>1. st = "APPLY" /\ ~cur.bad /\ emitOk' = FALSE /\ uadd' = NoUadd
  BY DEF ApplySession, Applies
<1>2. st' \in {"W0", "WAIT_PROBE", "APPLY", "TS", "BODY", "SWAP"}
  BY EndStates DEF ApplySession
<1>3. ~OwesEvent /\ ~InLevels /\ ~uadd.on
  BY <1>1, Owing
<1>4. ~OwesEvent' /\ ~InLevels' /\ ~uadd'.on
  BY <1>1, <1>2 DEF OwesEvent, InLevels, NoUadd
<1>5. UNCHANGED <<tab, lvl, prev, crosses, anomalies>>
  BY DEF ApplySession
<1>6. emitted' = emitted
  BY <1>1 DEF Noted
<1> QED
  BY <1>1, <1>2, <1>3, <1>4, <1>5, <1>6

\* It leaves orders, levels and events as they are.
LEMMA SessionStays ==
  ASSUME EngineInv, SymbolInv, StageInv, FreshInv, EmittedInv,
         SymbolInv', Extends(locMap, locCnt, locMap', locCnt'), Noted,
         golden = Abstract, golden' = Abstract', NEW w, ApplySession(w)
  PROVE  /\ golden'.orders = golden.orders /\ golden'.levels = golden.levels
         /\ golden'.lastBbo = golden.lastBbo /\ golden'.crosses = golden.crosses
<1>1. /\ st = "APPLY" /\ ~cur.bad /\ st' \notin {"INVAL", "LV2", "LV2B", "LV3", "UADD"}
      /\ ~OwesEvent /\ ~OwesEvent' /\ ~InLevels /\ ~InLevels' /\ ~uadd.on /\ ~uadd'.on
      /\ UNCHANGED <<tab, lvl, prev, crosses, anomalies, emitted>>
  BY SessionFields
<1>2. gOrders' = gOrders
  BY <1>1, OrdersStay
<1>3. gLevels' = gLevels
  <2>1. Finals' = Finals
    BY <1>1, FinalsRest
  <2> QED
    BY <2>1, LevelsCalm
<1>4. gLastBbo' = gLastBbo
  <2>1. Mapped /\ Mapped'
    BY MappedIs, MappedNext
  <2>2. PICK loc, bbo, loc2, bbo2 : /\ loc = cur.msg.loc /\ bbo = OwedBbo
                                    /\ loc2 = cur'.msg.loc /\ bbo2 = OwedBbo'
    OBVIOUS
  <2>3. Events(locMap', prev, emitted, OwesEvent, loc2, bbo2)
          = Events(locMap, prev, emitted, OwesEvent, loc, bbo)
    BY <1>1, EventsStay DEF EmittedInv
  <2>4. OwesEvent' = OwesEvent
    BY <1>1 DEF OwesEvent
  <2> QED
    BY <1>1, <2>1, <2>2, <2>3, <2>4 DEF Mapped
<1>5. gCrosses' = gCrosses
  BY <1>1 DEF gCrosses, OwesCross
<1> QED
  BY <1>2, <1>3, <1>4, <1>5, GoldenIs

\* A trading action is the symbol's.
LEMMA TradingGoes ==
  ASSUME EngineInv, SymbolInv, StageInv, FreshInv,
         SymbolInv', Extends(locMap, locCnt, locMap', locCnt'),
         golden = Abstract, golden' = Abstract', NEW w, ApplySession(w),
         NEW m, m = cur.msg
  PROVE  golden'.trading = IF m.type = "H" THEN G!Put(golden.trading, m.loc, m.code)
                           ELSE golden.trading
<1>1. st = "APPLY" /\ ~cur.bad /\ InTail
  BY DEF ApplySession, Applies, InTail
<1>2. CASE m.type # "H"
  <2>1. tstate' = tstate
    BY <1>2 DEF ApplySession
  <2>2. gTrading' = gTrading
    BY <2>1, TradingCalm
  <2> QED
    BY <1>2, <2>2, GoldenIs
<1>3. CASE m.type = "H"
  <2>1. /\ cur.sym \in 0..locCnt-1 /\ locMap[cur.sym] = m.loc /\ m.loc \in Locates
    BY <1>1, OwnSymbol
  <2>2. PICK s, c, ts : s = cur.sym /\ c = m.code /\ ts = tstate
    OBVIOUS
  <2>3. tstate' = [ts EXCEPT ![s] = c]
    BY <1>3, <2>2 DEF ApplySession
  <2>4. c # "none"
    <3>1. c \in Codes
      BY <1>1, <2>2, InFlightMessage DEF EngineInv
    <3> QED
      BY <3>1 DEF Codes
  <2>5. DOMAIN ts = SymIdx
    BY <2>2 DEF EngineInv, BookInv, SessionType
  <2>6. GoodMap(locMap, locCnt) /\ Untraded(locCnt, ts)
    BY <2>2, MapIsGood DEF FreshInv
  <2>7. PICK map, map2, cnt, cnt2 : map = locMap /\ map2 = locMap' /\ cnt = locCnt /\ cnt2 = locCnt'
    OBVIOUS
  <2>8. PICK ts2 : ts2 = [ts EXCEPT ![s] = c]
    OBVIOUS
  <2>9. /\ GoodMap(map, cnt) /\ Untraded(cnt, ts) /\ s \in 0..cnt-1 /\ map[s] \in Locates
    BY <2>1, <2>2, <2>6, <2>7
  <2>10. /\ Trades(map, [ts EXCEPT ![s] = c])
              = [x \in DOMAIN Trades(map, ts) \cup {map[s]} |->
                   IF x = map[s] THEN c ELSE Trades(map, ts)[x]]
         /\ Untraded(cnt, [ts EXCEPT ![s] = c])
    BY <2>4, <2>5, <2>9, TradesMove
  <2>11. Trades(map2, ts2) = Trades(map, ts2)
    BY <2>7, <2>8, <2>10, TradesStay
  <2>12. Mapped /\ Mapped'
    BY MappedIs, MappedNext
  <2>13. gTrading = Trades(map, ts) /\ gTrading' = Trades(map2, ts2)
    BY <2>2, <2>3, <2>7, <2>8, <2>12 DEF Mapped
  <2>14. map[s] = m.loc
    BY <2>1, <2>2, <2>7
  <2>15. gTrading' = G!Put(gTrading, m.loc, c)
    BY <2>8, <2>11, <2>13, <2>14, <2>10 DEF G!Put
  <2> QED
    BY <1>3, <2>2, <2>15, GoldenIs
<1> QED
  BY <1>2, <1>3

\* A session message is that of the reference book.
LEMMA SessionGolden ==
  ASSUME EngineInv, SymbolInv, StageInv, FreshInv, EmittedInv,
         SymbolInv', Extends(locMap, locCnt, locMap', locCnt'), Noted,
         golden = Abstract, golden' = Abstract', NEW w, ApplySession(w),
         NEW m, m = cur.msg
  PROVE  G!SystemEvent(m) \/ G!TradingAction(m) \/ G!Other(m)
<1>1. /\ golden'.orders = golden.orders /\ golden'.levels = golden.levels
      /\ golden'.lastBbo = golden.lastBbo /\ golden'.crosses = golden.crosses
  BY SessionStays
<1>2. gBest' = gBest /\ gLiveCount' = gLiveCount /\ anomalies' = anomalies
  BY <1>1 DEF gBest, gLiveCount, ApplySession
<1>3. golden'.trading = IF m.type = "H" THEN G!Put(golden.trading, m.loc, m.code)
                        ELSE golden.trading
  BY TradingGoes
<1>4. /\ m.type \in {"S", "H", "R"}
      /\ marketOpen' = IF m.type = "S" /\ m.code \in {"Q", "M"}
                       THEN m.code = "Q" ELSE marketOpen
  BY DEF ApplySession, Applies
<1>5. CASE m.type = "S"
  <2>1. golden'.trading = golden.trading
    BY <1>3, <1>5
  <2>2. marketOpen' = IF m.code = "Q" THEN TRUE
                      ELSE IF m.code = "M" THEN FALSE ELSE marketOpen
    BY <1>4, <1>5
  <2> QED
    BY <1>1, <1>2, <1>5, <2>1, <2>2 DEF G!SystemEvent
<1>6. CASE m.type = "H"
  <2>1. marketOpen' = marketOpen
    BY <1>4, <1>6
  <2> QED
    BY <1>1, <1>2, <1>3, <1>6, <2>1 DEF G!TradingAction
<1>7. CASE m.type = "R"
  <2>1. marketOpen' = marketOpen /\ golden'.trading = golden.trading
    BY <1>3, <1>4, <1>7
  <2> QED
    BY <1>1, <1>2, <1>7, <2>1 DEF G!Other, G!vars
<1> QED
  BY <1>4, <1>5, <1>6, <1>7

(***************************************************************************)
(* ST_APPLY                                                                *)
(***************************************************************************)
\* A message launches an operation that leaves no level below zero.
Launched(w, m) ==
  \E sd \in Sides, px \in Prices, d \in Int :
    /\ Launches(w, sd, px, d)
    /\ ~(G!QtyAt(golden.levels[<<m.loc, sd>>], px) + d < 0)
    /\ uadd'.on => d < 0

\* Each message has its action in ST_APPLY.
LEMMA ApplyKinds ==
  ASSUME NEW w, NEW rdy, Cycle(w, rdy), st = "APPLY", ~cur.bad
  PROVE  \/ ApplyAdd(w) \/ ApplyReduce(w) \/ ApplyDelete(w)
         \/ ApplyReplace(w) \/ ApplySession(w)
<1>1. ~Emit(w, rdy) /\ ~ApplyDiscard(w)
  BY DEF Emit, ApplyDiscard
<1>2. ~Inval /\ ~W0(w) /\ ~TS(w) /\ ~Body(w) /\ ~WaitProbe(w)
  BY DEF Inval, W0, TS, Body, WaitProbe
<1>3. ~Lv2(w) /\ ~Lv2b(w) /\ ~Lv3(w) /\ ~Uadd(w)
  BY DEF Lv2, Lv2b, Lv3, Uadd
<1>4. ~EmitA(w) /\ ~EmitB(w) /\ ~EmitWait(w) /\ ~EmitNothing(w) /\ ~Swap
  BY DEF EmitA, EmitB, EmitWait, EmitNothing, Swap
<1> QED
  BY <1>1, <1>2, <1>3, <1>4 DEF Cycle, Quiet

\* What a message may do, and which of its kinds apply() does.
Effects(w, m) ==
  /\ \/ G!SystemEvent(m) \/ G!TradingAction(m) \/ G!Add(m) \/ G!Reduce(m)
     \/ G!Delete(m) \/ G!Replace(m) \/ G!Other(m)
  /\ \/ Fruitless(w) /\ anomalies' = anomalies + 1
     \/ Launched(w, m)
     \/ ApplySession(w)

Refusal(w) == Fruitless(w) /\ anomalies' = anomalies /\ error' /\ UNCHANGED G!vars

\* Message by message, from the action that takes it.
LEMMA RefuseIs ==
  ASSUME EngineInv, SymbolInv, StageInv, FreshInv, EmittedInv,
         SymbolInv', Extends(locMap, locCnt, locMap', locCnt'), Noted,
         golden = Abstract, golden' = Abstract',
         NEW w, NEW rdy, Cycle(w, rdy), st = "APPLY", Refuse(w)
  PROVE  Refusal(w)
<1>1. error' /\ UNCHANGED G!vars
  BY RefuseStays
<1> QED
  BY <1>1 DEF Refusal, Refuse

LEMMA UnknownIs ==
  ASSUME EngineInv, SymbolInv, StageInv, FreshInv, EmittedInv,
         SymbolInv', Extends(locMap, locCnt, locMap', locCnt'), Noted,
         golden = Abstract, golden' = Abstract',
         NEW w, NEW rdy, Cycle(w, rdy), st = "APPLY", ~cur.bad, Unknown(w), ~prb.found,
         NEW m, m = cur.msg, m.type \in ReduceTypes \cup {"D", "U"}
  PROVE  Effects(w, m)
<1>1. G!Anomaly
  BY UnknownGolden
<1>2. m.ref \notin DOMAIN golden.orders
  BY FoundLive DEF LookupTypes
<1>3. Fruitless(w) /\ anomalies' = anomalies + 1
  BY DEF Unknown
<1>4. CASE m.type \in ReduceTypes
  BY <1>1, <1>2, <1>3, <1>4 DEF Effects, G!Reduce, G!ReduceTypes, ReduceTypes
<1>5. CASE m.type = "D"
  BY <1>1, <1>2, <1>3, <1>5 DEF Effects, G!Delete
<1>6. CASE m.type = "U"
  BY <1>1, <1>2, <1>3, <1>6 DEF Effects, G!Replace
<1> QED
  BY <1>4, <1>5, <1>6

LEMMA AddApplies ==
  ASSUME FeedNumbers, IsFiniteSet(Refs), 2 * MaxShares < QLim,
         EngineInv, SymbolInv, StageInv, FreshInv, EmittedInv,
         EngineInv', SymbolInv', Extends(locMap, locCnt, locMap', locCnt'), Noted,
         golden = Abstract, golden' = Abstract', G!BookInv,
         NEW w, NEW rdy, Cycle(w, rdy), ApplyAdd(w), NEW m, m = cur.msg
  PROVE  IF Refuses(m) THEN Refusal(w) ELSE Effects(w, m)
<1>1. st = "APPLY" /\ ~cur.bad /\ m.type \in AddTypes /\ InTail
  BY DEF ApplyAdd, Applies, InTail
<1>2. Refuses(m) <=> RefusesAdd
  BY <1>1 DEF Refuses, AddTypes, ReduceTypes
<1>3. CASE RefusesAdd
  <2>1. Refuse(w)
    BY <1>3 DEF ApplyAdd
  <2> QED
    BY <1>1, <1>2, <1>3, <2>1, RefuseIs
<1>4. CASE ~RefusesAdd
  <2>1. G!Add(m) /\ Launches(w, m.side, m.px, m.qty) /\ ~uadd'.on
    BY <1>4, AddGolden
  <2>2. m.side \in Sides /\ m.px \in Prices /\ m.qty \in Nat /\ m.loc \in Locates
    <3>1. m.side \in Sides /\ m.px \in Prices /\ m.qty \in 0..MaxShares
      BY <1>1, InFlightMessage DEF EngineInv
    <3>2. m.loc \in Locates
      BY <1>1, OwnSymbol
    <3> QED
      BY <3>1, <3>2, MessageAssumption
  <2>3. PICK q : q = G!QtyAt(golden.levels[<<m.loc, m.side>>], m.px)
    OBVIOUS
  <2>4. q \in Nat
    <3>1. G!GoodBook(G!Book) /\ G!Book.levels = golden.levels
      BY BookNow
    <3>2. <<m.loc, m.side>> \in G!Keys
      BY <2>2 DEF G!Keys, G!Sides, Sides
    <3>3. G!GoodLevel(golden.levels[<<m.loc, m.side>>])
      BY <3>1, <3>2 DEF G!GoodBook
    <3> QED
      BY <2>3, <3>3 DEF G!GoodLevel, G!QtyAt
  <2>5. ~(q + m.qty < 0)
    BY <2>2, <2>4
  <2>6. Launched(w, m)
    BY <2>1, <2>2, <2>3, <2>5 DEF Launched
  <2> QED
    BY <1>2, <1>4, <2>1, <2>6 DEF Effects
<1> QED
  BY <1>3, <1>4

LEMMA ReduceApplies ==
  ASSUME FeedNumbers, IsFiniteSet(Refs), 2 * MaxShares < QLim, RealReductions,
         EngineInv, SymbolInv, StageInv, FreshInv, EmittedInv,
         EngineInv', SymbolInv', Extends(locMap, locCnt, locMap', locCnt'), Noted,
         golden = Abstract, golden' = Abstract', G!BookInv,
         NEW w, NEW rdy, Cycle(w, rdy), ApplyReduce(w), NEW m, m = cur.msg
  PROVE  IF Refuses(m) THEN Refusal(w) ELSE Effects(w, m)
<1>1. st = "APPLY" /\ ~cur.bad /\ m.type \in ReduceTypes /\ m.type \in LookupTypes
  BY DEF ApplyReduce, Applies, LookupTypes
<1>2. Refuses(m) <=> prb.found /\ m.qty > prb.entry.qty
  BY <1>1 DEF Refuses, AddTypes, ReduceTypes
<1>3. CASE Refuses(m)
  <2>1. Refuse(w)
    BY <1>2, <1>3 DEF ApplyReduce
  <2> QED
    BY <1>1, <1>3, <2>1, RefuseIs
<1>4. CASE ~prb.found
  <2>1. Unknown(w)
    BY <1>4 DEF ApplyReduce
  <2> QED
    BY <1>1, <1>2, <1>4, <2>1, UnknownIs
<1>5. CASE prb.found /\ ~(m.qty > prb.entry.qty)
  <2>1. PICK sd, px, q : sd = prb.entry.side /\ px = prb.entry.px /\ q = m.qty
    OBVIOUS
  <2>2. G!Reduce(m) /\ ~uadd'.on
    BY <1>5, ReduceGolden
  <2>3. /\ Launches(w, sd, px, -q) /\ sd \in Sides /\ q \in 1..MaxShares
        /\ ~(G!QtyAt(golden.levels[<<m.loc, sd>>], px) + -q < 0)
    BY <1>5, <2>1, ReduceGolden
  <2>4. px \in Prices /\ -q \in Int
    BY <1>1, <1>5, <2>1, <2>3, FoundLive
  <2>5. Launched(w, m)
    BY <2>2, <2>3, <2>4 DEF Launched
  <2> QED
    BY <1>2, <1>5, <2>2, <2>5 DEF Effects
<1> QED
  BY <1>2, <1>3, <1>4, <1>5

LEMMA DeleteApplies ==
  ASSUME FeedNumbers, IsFiniteSet(Refs), 2 * MaxShares < QLim,
         EngineInv, SymbolInv, StageInv, FreshInv, EmittedInv,
         EngineInv', SymbolInv', Extends(locMap, locCnt, locMap', locCnt'), Noted,
         golden = Abstract, golden' = Abstract', G!BookInv,
         NEW w, NEW rdy, Cycle(w, rdy), ApplyDelete(w), NEW m, m = cur.msg
  PROVE  IF Refuses(m) THEN Refusal(w) ELSE Effects(w, m)
<1>1. st = "APPLY" /\ ~cur.bad /\ m.type = "D" /\ m.type \in LookupTypes
  BY DEF ApplyDelete, Applies, LookupTypes
<1>2. ~Refuses(m)
  BY <1>1 DEF Refuses, AddTypes, ReduceTypes
<1>3. CASE ~prb.found
  <2>1. Unknown(w)
    BY <1>3 DEF ApplyDelete
  <2> QED
    BY <1>1, <1>2, <1>3, <2>1, UnknownIs
<1>4. CASE prb.found
  <2>1. PICK sd, px, q : sd = prb.entry.side /\ px = prb.entry.px /\ q = prb.entry.qty
    OBVIOUS
  <2>2. G!Delete(m) /\ ~uadd'.on
    BY <1>4, DeleteGolden
  <2>3. /\ Launches(w, sd, px, -q) /\ sd \in Sides /\ q \in 1..MaxShares
        /\ ~(G!QtyAt(golden.levels[<<m.loc, sd>>], px) + -q < 0)
    BY <1>4, <2>1, DeleteGolden
  <2>4. px \in Prices /\ -q \in Int
    BY <1>1, <1>4, <2>1, <2>3, FoundLive
  <2>5. Launched(w, m)
    BY <2>2, <2>3, <2>4 DEF Launched
  <2> QED
    BY <1>2, <2>2, <2>5 DEF Effects
<1> QED
  BY <1>3, <1>4

LEMMA ReplaceApplies ==
  ASSUME FeedNumbers, IsFiniteSet(Refs), 2 * MaxShares < QLim,
         EngineInv, SymbolInv, StageInv, FreshInv, EmittedInv,
         EngineInv', SymbolInv', Extends(locMap, locCnt, locMap', locCnt'), Noted,
         golden = Abstract, golden' = Abstract', G!BookInv,
         NEW w, NEW rdy, Cycle(w, rdy), ApplyReplace(w), NEW m, m = cur.msg
  PROVE  IF Refuses(m) THEN Refusal(w) ELSE Effects(w, m)
<1>1. st = "APPLY" /\ ~cur.bad /\ m.type = "U" /\ m.type \in LookupTypes
  BY DEF ApplyReplace, Applies, LookupTypes
<1>2. Refuses(m) <=> prb.found /\ (m.qty = 0 \/ prb.newFound \/ prb.newFull)
  BY <1>1 DEF Refuses, AddTypes, ReduceTypes
<1>3. CASE Refuses(m)
  <2>1. Refuse(w)
    BY <1>2, <1>3 DEF ApplyReplace
  <2> QED
    BY <1>1, <1>3, <2>1, RefuseIs
<1>4. CASE ~prb.found
  <2>1. Unknown(w)
    BY <1>4 DEF ApplyReplace
  <2> QED
    BY <1>1, <1>2, <1>4, <2>1, UnknownIs
<1>5. CASE prb.found /\ ~(m.qty = 0 \/ prb.newFound \/ prb.newFull)
  <2>1. PICK sd, px, q : sd = prb.entry.side /\ px = prb.entry.px /\ q = prb.entry.qty
    OBVIOUS
  <2>2. G!Replace(m)
    BY <1>5, ReplaceGolden
  <2>3. /\ Launches(w, sd, px, -q) /\ sd \in Sides /\ q \in 1..MaxShares
        /\ ~(G!QtyAt(golden.levels[<<m.loc, sd>>], px) + -q < 0)
    BY <1>5, <2>1, ReplaceGolden
  <2>4. px \in Prices /\ -q \in Int /\ -q < 0
    BY <1>1, <1>5, <2>1, <2>3, FoundLive
  <2>5. Launched(w, m)
    BY <2>3, <2>4 DEF Launched
  <2> QED
    BY <1>2, <1>5, <2>2, <2>5 DEF Effects
<1> QED
  BY <1>2, <1>3, <1>4, <1>5

LEMMA SessionApplies ==
  ASSUME EngineInv, SymbolInv, StageInv, FreshInv, EmittedInv,
         SymbolInv', Extends(locMap, locCnt, locMap', locCnt'), Noted,
         golden = Abstract, golden' = Abstract', NEW w, ApplySession(w),
         NEW m, m = cur.msg
  PROVE  IF Refuses(m) THEN Refusal(w) ELSE Effects(w, m)
<1>1. m.type \in {"S", "H", "R"}
  BY DEF ApplySession, Applies
<1>2. ~Refuses(m)
  BY <1>1 DEF Refuses, AddTypes, ReduceTypes
<1>3. G!SystemEvent(m) \/ G!TradingAction(m) \/ G!Other(m)
  BY SessionGolden
<1> QED
  BY <1>2, <1>3 DEF Effects

\* Whatever the message is.
LEMMA ApplyGolden ==
  ASSUME FeedNumbers, IsFiniteSet(Refs), 2 * MaxShares < QLim, RealReductions,
         EngineInv, SymbolInv, StageInv, FreshInv, EmittedInv,
         EngineInv', SymbolInv', Extends(locMap, locCnt, locMap', locCnt'), Noted,
         golden = Abstract, golden' = Abstract', G!BookInv,
         NEW w, NEW rdy, Cycle(w, rdy), st = "APPLY", ~cur.bad, NEW m, m = cur.msg
  PROVE  IF Refuses(m) THEN Refusal(w) ELSE Effects(w, m)
<1>1. CASE ApplyAdd(w)
  BY <1>1, AddApplies
<1>2. CASE ApplyReduce(w)
  BY <1>2, ReduceApplies
<1>3. CASE ApplyDelete(w)
  BY <1>3, DeleteApplies
<1>4. CASE ApplyReplace(w)
  BY <1>4, ReplaceApplies
<1>5. CASE ApplySession(w)
  BY <1>5, SessionApplies
<1> QED
  BY <1>1, <1>2, <1>3, <1>4, <1>5, ApplyKinds

(***************************************************************************)
(* Every other cycle                                                       *)
(***************************************************************************)
LEMMA OtherStays ==
  ASSUME EngineInv, SymbolInv, ListInv, StageInv, FreshInv, EmittedInv,
         EngineInv', SymbolInv', Extends(locMap, locCnt, locMap', locCnt'), Noted,
         golden = Abstract, golden' = Abstract', LevelsFit, 2 * MaxShares < QLim,
         NEW w, NEW rdy, Cycle(w, rdy), ~(st = "APPLY" /\ ~cur.bad)
  PROVE  golden' = golden /\ marketOpen' = marketOpen /\ anomalies' = anomalies
<1>1. Calm => golden' = golden
  BY CalmStep
<1>2. CASE Inval
  <2>1. Calm
    BY <1>2, InvalCalm
  <2> QED
    BY <1>1, <1>2, <2>1 DEF Inval
<1>3. CASE W0(w) \/ TS(w) \/ Body(w) \/ WaitProbe(w)
  <2>1. Calm
    BY <1>3, RestingSteps, RestingCalm
  <2>2. marketOpen' = marketOpen /\ anomalies' = anomalies
    BY <1>3 DEF W0, TS, Body, WaitProbe, bookVars
  <2> QED
    BY <1>1, <2>1, <2>2
<1>4. CASE ApplyDiscard(w) \/ EmitNothing(w) \/ Swap
  <2>1. Calm
    BY <1>4, RestingSteps, RestingCalm
  <2>2. marketOpen' = marketOpen /\ anomalies' = anomalies
    BY <1>4 DEF ApplyDiscard, EmitNothing, Swap, bookVars
  <2> QED
    BY <1>1, <2>1, <2>2
<1>5. CASE Lv2(w) \/ Lv2b(w) \/ EmitA(w) \/ EmitB(w) \/ EmitWait(w)
  <2>1. Calm
    BY <1>5, MovingSteps, MovingCalm
  <2>2. marketOpen' = marketOpen /\ anomalies' = anomalies
    BY <1>5 DEF Lv2, Lv2b, EmitA, EmitB, EmitWait, bookVars
  <2> QED
    BY <1>1, <2>1, <2>2
<1>6. CASE Lv3(w)
  <2>1. Calm
    BY <1>6, Lv3Calm
  <2> QED
    BY <1>1, <1>6, <2>1 DEF Lv3
<1>7. CASE Uadd(w)
  <2>1. Calm
    BY <1>7, UaddCalm
  <2> QED
    BY <1>1, <1>7, <2>1 DEF Uadd
<1>8. CASE Emit(w, rdy)
  <2>1. golden' = golden
    BY <1>8, EmitStays
  <2> QED
    BY <1>8, <2>1 DEF Emit
<1>9. ~ApplyAdd(w) /\ ~ApplyReduce(w) /\ ~ApplyDelete(w) /\ ~ApplyReplace(w) /\ ~ApplySession(w)
  BY DEF ApplyAdd, ApplyReduce, ApplyDelete, ApplyReplace, ApplySession, Applies
<1> QED
  BY <1>2, <1>3, <1>4, <1>5, <1>6, <1>7, <1>8, <1>9 DEF Cycle, Quiet

(***************************************************************************)
(* Messages are counted once                                               *)
(***************************************************************************)
\* The messages that have not taken effect yet.
One(b) == IF b THEN 1 ELSE 0
Awaited == st \in {"TS", "BODY", "WAIT_PROBE", "APPLY"}
InHand == One(Awaited) + One(nx.active)

CountInv == anomalies + golden.crosses + InHand <= started

\* Messages are counted at their first word.
LEMMA StartedNext ==
  ASSUME NEW w, Send(w), started \in Nat
  PROVE  /\ started' \in Nat /\ started <= started'
         /\ w # NoWord /\ TReady /\ w.k = 0 => started' = started + 1
BY DEF Send, inputVars

\* A first word is counted when the registers or the buffer open for it.
LEMMA FirstWord ==
  ASSUME ReceiveInv, started \in Nat, NEW w \in Offers, w # NoWord, Send(w),
         st = "W0" \/ (st \in Tails \ {"SWAP"} /\ ~nx.active)
  PROVE  started' = started + 1
<1>1. bus = Idle /\ ~nx.done /\ TReady
  <2>1. CASE st = "W0"
    <3>1. bus = Idle /\ nx = NxEmpty
      BY <2>1 DEF ReceiveInv, InTail, CurInv
    <3> QED
      BY <2>1, <3>1, ReadyOutsideTail DEF NxEmpty
  <2>2. CASE st \in Tails \ {"SWAP"} /\ ~nx.active
    <3>1. NxInv
      BY <2>2 DEF ReceiveInv, InTail, Tails
    <3>2. bus = Idle /\ nx = NxEmpty
      BY <2>2, <3>1 DEF NxInv
    <3> QED
      BY <2>2, <3>2 DEF TReady, NxEmpty, Tails
  <2> QED
    BY <2>1, <2>2
<1>2. w.k = 0
  BY <1>1, OfferCases DEF Idle
<1> QED
  BY <1>1, <1>2, StartedNext

\* A message in hand was counted, and ST_APPLY lets go of one.
LEMMA HandStep ==
  ASSUME EngineInv, NEW w \in Offers, NEW rdy, Cycle(w, rdy)
  PROVE  /\ InHand' + started <= InHand + started'
         /\ st = "APPLY" => InHand' + 1 + started <= InHand + started'
<1>1. Send(w) /\ ReceiveInv /\ started \in Nat
  BY DEF Cycle, EngineInv, PortType
<1>2. started' \in Nat /\ started <= started'
  BY <1>1, StartedNext
<1>3. /\ One(Awaited) \in 0..1 /\ One(nx.active) \in 0..1
      /\ One(Awaited)' \in 0..1 /\ One(nx.active)' \in 0..1
  BY DEF One
<1>4. /\ Awaited => One(Awaited) = 1
      /\ ~Awaited => One(Awaited) = 0
      /\ nx.active => One(nx.active) = 1
      /\ ~nx.active => One(nx.active) = 0
      /\ Awaited' => One(Awaited)' = 1
      /\ ~Awaited' => One(Awaited)' = 0
      /\ nx'.active => One(nx.active)' = 1
      /\ ~nx'.active => One(nx.active)' = 0
  BY DEF One
<1>5. PICK a, n, a2, n2 : /\ a = One(Awaited) /\ n = One(nx.active)
                          /\ a2 = One(Awaited)' /\ n2 = One(nx.active)'
  OBVIOUS
<1>6. InHand = a + n /\ InHand' = a2 + n2 /\ {a, n, a2, n2} \subseteq 0..1
  BY <1>3, <1>5 DEF InHand
<1>7. NxEmpty.active = FALSE
  BY DEF NxEmpty
<1>8. ~InTail => nx = NxEmpty
  BY <1>1 DEF ReceiveInv
<1>9. CASE Clearing
  <2>1. a2 = 0 /\ n2 = n /\ st # "APPLY"
    BY <1>4, <1>5, <1>9 DEF Clearing, Awaited
  <2> QED
    BY <1>1, <1>2, <1>6, <2>1
<1>10. CASE Opening(w)
  <2>1. st = "W0" /\ nx' = nx /\ a = 0 /\ n2 = n
    BY <1>4, <1>5, <1>10 DEF Opening, Awaited
  <2>2. CASE w = NoWord
    <3>1. a2 = 0
      BY <1>4, <1>5, <1>10, <2>2 DEF Opening, Awaited
    <3> QED
      BY <1>1, <1>2, <1>6, <2>1, <3>1
  <2>3. CASE w # NoWord
    <3>1. started' = started + 1
      BY <1>1, <2>1, <2>3, FirstWord
    <3> QED
      BY <1>1, <1>2, <1>6, <2>1, <3>1
  <2> QED
    BY <2>2, <2>3
<1>11. CASE Stamping(w)
  <2>1. n2 = n /\ a = 1 /\ st # "APPLY"
    BY <1>4, <1>5, <1>11 DEF Stamping, Awaited
  <2> QED
    BY <1>1, <1>2, <1>6, <2>1
<1>12. CASE Filling(w)
  <2>1. n2 = n /\ a = 1 /\ st # "APPLY"
    BY <1>4, <1>5, <1>12 DEF Filling, Awaited
  <2> QED
    BY <1>1, <1>2, <1>6, <2>1
<1>13. CASE Receiving(w)
  <2>1. /\ a2 <= a
        /\ st = "APPLY" => a = 1 /\ a2 = 0
    BY <1>4, <1>5, <1>6, <1>13 DEF Receiving, Awaited, Tails, States
  <2>2. n2 + started <= n + started'
    <3>1. CASE NxStarts(w)
      <4>1. w # NoWord /\ ~nx.active
        BY <3>1 DEF NxStarts, Receives
      <4>2. started' = started + 1
        BY <1>1, <1>13, <4>1, FirstWord DEF Receiving
      <4>3. n = 0
        BY <1>4, <1>5, <4>1
      <4> QED
        BY <1>1, <1>6, <4>2, <4>3
    <3>2. CASE ~NxStarts(w)
      <4>1. nx' = nx \/ (nx' = NxAfter(w) /\ nx.active)
        BY <1>13, <3>2 DEF Receiving, NxRecv, NxStarts
      <4>2. CASE nx.active
        <5>1. n = 1
          BY <1>4, <1>5, <4>2
        <5> QED
          BY <1>1, <1>2, <1>6, <5>1
      <4>3. CASE ~nx.active
        BY <1>1, <1>2, <1>4, <1>5, <1>6, <4>1, <4>3
      <4> QED
        BY <4>2, <4>3
    <3> QED
      BY <3>1, <3>2
  <2> QED
    BY <1>1, <1>2, <1>6, <2>1, <2>2
<1>14. CASE Swaps /\ st \in Tails
  <2>1. CASE nx.active
    <3>1. n = 1 /\ n2 = 0 /\ (st = "APPLY" => a = 1)
      BY <1>4, <1>5, <1>7, <1>14, <2>1 DEF Swaps, Awaited
    <3> QED
      <4>1. ~(st = "APPLY") \/ a = 1
        BY <3>1
      <4> QED
        BY <1>1, <1>2, <1>6, <3>1, <4>1
  <2>2. CASE ~nx.active
    <3>1. n = 0 /\ n2 = 0 /\ a2 = 0 /\ (st = "APPLY" => a = 1)
      BY <1>4, <1>5, <1>14, <2>2 DEF Swaps, Awaited
    <3> QED
      BY <1>1, <1>2, <1>6, <3>1
  <2> QED
    BY <2>1, <2>2
<1> QED
  BY <1>9, <1>10, <1>11, <1>12, <1>13, <1>14, CycleKinds DEF Ending, Tails, States

(***************************************************************************)
(* StageInv is inductive                                                   *)
(***************************************************************************)
\* Nothing is under way.
LEMMA IdleStage ==
  ASSUME EngineInv', ~OwesEvent', ~InLevels', ~uadd'.on
  PROVE  StageInv'
<1>1. st' # "UADD"
  BY DEF EngineInv, BookInv, PendingInv
<1>2. st' \notin Stages
  BY DEF InLevels, Stages
<1>3. emitOk' => st' \notin {"EMIT_A", "EMIT_B", "EMIT_C"}
  BY DEF OwesEvent
<1> QED
  BY <1>1, <1>2, <1>3 DEF StageInv

\* The message under way moves on and keeps its operation.
LEMMA MovingStage ==
  ASSUME EngineInv, StageInv, Noted, NEW w,
         Lv2(w) \/ Lv2b(w) \/ EmitA(w) \/ EmitB(w) \/ EmitWait(w)
  PROVE  StageInv'
<1>1. /\ UNCHANGED <<lvl, cur, lv, uadd>> /\ InLevels' = InLevels /\ OwesEvent' = OwesEvent
      /\ st # "APPLY"
  BY MovingSteps DEF Moving
<1>2. emitted' = emitted
  BY <1>1 DEF Noted
<1>3. emitOk' = emitOk
  BY DEF Lv2, Lv2b, EmitA, EmitB, EmitWait, stageVars
<1>4. OwesEvent' => ~cur'.bad /\ cur'.msg.loc \in emitted'
  BY <1>1, <1>2 DEF StageInv
<1>5. /\ InLevels' => /\ lv'.key = <<cur'.sym, lv'.op.side>>
                      /\ QtyIn(LevelMap(lvl'[lv'.key]), lv'.op.px) + lv'.op.delta >= 0
      /\ InLevels' /\ uadd'.on => lv'.op.delta < 0
  BY <1>1 DEF StageInv
<1>6. CASE Lv2(w) \/ Lv2b(w)
  <2>1. st \in Stages /\ st' \in Stages
    BY <1>6 DEF Lv2, Lv2b, Stages
  <2>2. emitOk' /\ st' \notin {"EMIT_B", "EMIT_C"}
    BY <1>3, <2>1 DEF StageInv, Stages
  <2> QED
    BY <1>4, <1>5, <2>2 DEF StageInv
<1>7. CASE EmitA(w)
  <2>1. /\ st' = "EMIT_B" /\ lvl' = lvl
        /\ emitOk => cap' = [B |-> lvl[<<cur.sym, "B">>], S |-> lvl[<<cur.sym, "S">>]]
    BY <1>1, <1>7 DEF EmitA
  <2>2. emitOk' /\ st' \in {"EMIT_B", "EMIT_C"} =>
          cap'.B = lvl'[<<cur'.sym, "B">>] /\ cap'.S = lvl'[<<cur'.sym, "S">>]
    BY <1>1, <1>3, <2>1
  <2> QED
    BY <1>4, <1>5, <2>1, <2>2 DEF StageInv, Stages
<1>8. CASE EmitB(w)
  <2>1. /\ st' = "EMIT_C" /\ st = "EMIT_B" /\ lvl' = lvl /\ cap' = cap
        /\ emitOk => sel' = [B |-> FirstOne(NonEmpty(cap.B)),
                             S |-> FirstOne(NonEmpty(cap.S)),
                             depth |-> [B |-> TopN(cap.B), S |-> TopN(cap.S)]]
    BY <1>1, <1>8 DEF EmitB
  <2>2. emitOk' => cap'.B = lvl'[<<cur'.sym, "B">>] /\ cap'.S = lvl'[<<cur'.sym, "S">>]
    BY <1>1, <1>3, <2>1 DEF StageInv
  <2>3. emitOk' => sel'.B = FirstOne(NonEmpty(cap'.B)) /\ sel'.S = FirstOne(NonEmpty(cap'.S))
    BY <1>3, <2>1
  <2> QED
    BY <1>4, <1>5, <2>1, <2>2, <2>3 DEF StageInv, Stages
<1>9. CASE EmitWait(w)
  <2>1. st' = st /\ st = "EMIT_C" /\ cap' = cap /\ sel' = sel
    BY <1>9 DEF EmitWait, stageVars
  <2>2. emitOk' => cap'.B = lvl'[<<cur'.sym, "B">>] /\ cap'.S = lvl'[<<cur'.sym, "S">>]
    BY <1>1, <1>3, <2>1 DEF StageInv
  <2>3. emitOk' => sel'.B = FirstOne(NonEmpty(cap'.B)) /\ sel'.S = FirstOne(NonEmpty(cap'.S))
    BY <1>3, <2>1 DEF StageInv
  <2> QED
    BY <1>4, <1>5, <2>1, <2>2, <2>3 DEF StageInv, Stages
<1> QED
  BY <1>6, <1>7, <1>8, <1>9

\* The list is written: nothing is left in the level pipeline.
LEMMA Lv3Stage ==
  ASSUME EngineInv, StageInv, Noted, NEW w, Lv3(w)
  PROVE  StageInv'
<1>1. /\ st = "LV3" /\ st' \in {"UADD", "EMIT_A"} /\ emitOk' = emitOk /\ cur' = cur
  BY DEF Lv3, Background
<1>2. emitOk /\ ~InLevels'
  BY <1>1 DEF StageInv, Stages, InLevels
<1>3. emitted' = emitted
  BY <1>1 DEF Noted
<1>4. OwesEvent
  BY <1>1, <1>2 DEF OwesEvent, InLevels
<1>5. ~cur'.bad /\ cur'.msg.loc \in emitted'
  BY <1>1, <1>3, <1>4 DEF StageInv
<1>6. emitOk' /\ st' \notin {"EMIT_B", "EMIT_C"}
  BY <1>1, <1>2
<1> QED
  BY <1>2, <1>5, <1>6 DEF StageInv

\* An operation enters the level pipeline.
LEMMA EnterStage ==
  ASSUME st' = "LV2", emitOk', ~cur'.bad, cur'.msg.loc \in emitted',
         lv'.key = <<cur'.sym, lv'.op.side>>,
         QtyIn(LevelMap(lvl'[lv'.key]), lv'.op.px) + lv'.op.delta >= 0,
         uadd'.on => lv'.op.delta < 0
  PROVE  StageInv'
BY DEF StageInv

\* The add half of a replace enters it.
LEMMA UaddStage ==
  ASSUME EngineInv, ListInv, StageInv, Noted, 2 * MaxShares < QLim, NEW w, Uadd(w)
  PROVE  StageInv'
<1>1. /\ st = "UADD" /\ st' = "LV2" /\ emitOk' = emitOk /\ cur' = cur /\ lvl' = lvl
      /\ Launch(uadd.side, uadd.px, Signed(uadd.qty)) /\ uadd' = NoUadd
  BY DEF Uadd, Background
<1>2. uadd.on /\ GoodEntry(uadd)
  BY <1>1 DEF EngineInv, BookInv, PendingInv
<1>3. PICK sd, px, q : sd = uadd.side /\ px = uadd.px /\ q = uadd.qty
  OBVIOUS
<1>4. Signed(q) = q /\ q \in Nat /\ sd \in Sides
  <2>1. q \in 0..MaxShares /\ sd \in Sides /\ MaxShares \in Nat
    BY <1>2, <1>3, MessageAssumption DEF GoodEntry
  <2> QED
    BY <2>1, ExactDeltas
<1>5. lv'.key = <<cur.sym, sd>> /\ lv'.op.side = sd /\ lv'.op.px = px /\ lv'.op.delta = q
  BY <1>1, <1>3, <1>4 DEF Launch
<1>6. emitOk /\ OwesEvent
  BY <1>1 DEF StageInv, OwesEvent
<1>7. emitted' = emitted
  BY <1>1 DEF Noted
<1>8. ~cur'.bad /\ cur'.msg.loc \in emitted'
  BY <1>1, <1>6, <1>7 DEF StageInv
<1>9. QtyIn(LevelMap(lvl[<<cur.sym, sd>>]), px) + q >= 0
  <2>1. cur.sym \in SymIdx
    BY <1>1, InFlightMessage DEF EngineInv, InTail
  <2>2. PICK k : k = <<cur.sym, sd>>
    OBVIOUS
  <2>3. GoodList(k[2], lvl[k])
    BY <1>4, <2>1, <2>2 DEF ListInv
  <2>4. PICK l, n : l = lvl[k] /\ n = QtyIn(LevelMap(l), px)
    OBVIOUS
  <2>5. n \in 0..QLim-1
    BY <2>3, <2>4, MapSize
  <2>6. n + q >= 0
    BY <1>4, <2>5, LevelAssumption
  <2> QED
    BY <2>2, <2>4, <2>6
<1>10. ~uadd'.on
  BY <1>1 DEF NoUadd
<1>11. QtyIn(LevelMap(lvl'[lv'.key]), lv'.op.px) + lv'.op.delta >= 0
  BY <1>1, <1>5, <1>9
<1> QED
  BY <1>1, <1>5, <1>6, <1>8, <1>10, <1>11, EnterStage

\* The operation of a message enters it.
LEMMA LaunchStage ==
  ASSUME EngineInv, SymbolInv, StageInv, FreshInv, EmittedInv,
         SymbolInv', Extends(locMap, locCnt, locMap', locCnt'), Noted,
         golden = Abstract, G!BookInv, NEW w, NEW m, m = cur.msg, Launched(w, m)
  PROVE  StageInv'
<1>1. PICK sd \in Sides, px \in Prices, d \in Int :
        /\ Launches(w, sd, px, d)
        /\ ~(G!QtyAt(golden.levels[<<m.loc, sd>>], px) + d < 0)
        /\ uadd'.on => d < 0
  BY DEF Launched
<1>2. /\ st = "APPLY" /\ ~cur.bad
      /\ st' = "LV2" /\ emitOk' /\ cur' = cur /\ lvl' = lvl
      /\ lv'.key = <<cur.sym, sd>> /\ lv'.op.side = sd /\ lv'.op.px = px /\ lv'.op.delta = d
  <2>1. st = "APPLY" /\ ~cur.bad
    BY <1>1 DEF Launches
  <2>2. /\ st' = "LV2" /\ emitOk' = TRUE /\ cur' = cur /\ lvl' = lvl
        /\ lv'.key = <<cur.sym, sd>> /\ lv'.op.side = sd /\ lv'.op.px = px /\ lv'.op.delta = d
    BY <1>1, LaunchFields
  <2> QED
    BY <2>1, <2>2
<1>3. emitted' = emitted \cup {m.loc} /\ m.loc \in Locates
  BY <1>1, LaunchEvent
<1>4. golden.levels[<<m.loc, sd>>] = LevelMap(lvl[<<cur.sym, sd>>])
  <2>1. PICK u, g, loc : u = uadd' /\ loc = m.loc /\ g = ChangedAt(gLevels, loc, sd, px, d, u)
    OBVIOUS
  <2>2. gLevels[<<loc, sd>>] = LevelMap(lvl[<<cur.sym, sd>>])
    BY <1>1, <2>1, LaunchLevels
  <2> QED
    BY <2>1, <2>2, GoldenIs
<1>5. PICK map, n : map = LevelMap(lvl[<<cur.sym, sd>>]) /\ n = G!QtyAt(map, px)
  OBVIOUS
<1>6. n = QtyIn(map, px) /\ ~(n + d < 0)
  BY <1>1, <1>4, <1>5 DEF QtyIn, G!QtyAt
<1>7. n \in Int
  <2>1. G!GoodBook(G!Book) /\ G!Book.levels = golden.levels
    BY BookNow
  <2>2. <<m.loc, sd>> \in Locates \X Sides
    BY <1>3
  <2>3. px \in DOMAIN golden.levels[<<m.loc, sd>>] => golden.levels[<<m.loc, sd>>][px] \in Int
    BY <2>1, <2>2, LevelNumbers
  <2> QED
    BY <1>4, <1>5, <2>3 DEF G!QtyAt
<1>8. QtyIn(map, px) + d >= 0
  BY <1>6, <1>7
<1>9. QtyIn(LevelMap(lvl'[lv'.key]), lv'.op.px) + lv'.op.delta >= 0
  BY <1>2, <1>5, <1>8
<1>10. cur'.msg.loc \in emitted' /\ ~cur'.bad
  BY <1>2, <1>3
<1>11. lv'.key = <<cur'.sym, lv'.op.side>> /\ (uadd'.on => lv'.op.delta < 0)
  BY <1>1, <1>2
<1> QED
  BY <1>2, <1>9, <1>10, <1>11, EnterStage

\* Whatever is not ST_APPLY keeps StageInv.
LEMMA OtherStage ==
  ASSUME EngineInv, ListInv, StageInv, EngineInv', Noted, 2 * MaxShares < QLim,
         NEW w, NEW rdy, Cycle(w, rdy), ~(st = "APPLY" /\ ~cur.bad)
  PROVE  StageInv'
<1>1. Resting => StageInv'
  BY IdleStage DEF Resting
<1>2. CASE Inval
  <2>1. st' \in {"INVAL", "W0"}
    BY <1>2 DEF Inval
  <2>2. ~uadd'.on
    BY <2>1 DEF EngineInv, BookInv, PendingInv
  <2>3. ~OwesEvent' /\ ~InLevels'
    BY <2>1 DEF OwesEvent, InLevels
  <2> QED
    BY <2>2, <2>3, IdleStage
<1>3. CASE W0(w) \/ TS(w) \/ Body(w) \/ WaitProbe(w)
  BY <1>1, <1>3, RestingSteps
<1>4. CASE ApplyDiscard(w) \/ EmitNothing(w) \/ Swap
  BY <1>1, <1>4, RestingSteps
<1>5. CASE Lv2(w) \/ Lv2b(w) \/ EmitA(w) \/ EmitB(w) \/ EmitWait(w)
  BY <1>5, MovingStage
<1>6. CASE Lv3(w)
  BY <1>6, Lv3Stage
<1>7. CASE Uadd(w)
  BY <1>7, UaddStage
<1>8. CASE Emit(w, rdy)
  <2>1. st' \in {"W0", "WAIT_PROBE", "APPLY", "TS", "BODY", "SWAP"}
    BY <1>8, EndStates DEF Emit
  <2>2. ~OwesEvent' /\ ~InLevels'
    BY <2>1 DEF OwesEvent, InLevels
  <2>3. ~uadd'.on
    BY <2>1 DEF EngineInv, BookInv, PendingInv
  <2> QED
    BY <2>2, <2>3, IdleStage
<1>9. ~ApplyAdd(w) /\ ~ApplyReduce(w) /\ ~ApplyDelete(w) /\ ~ApplyReplace(w) /\ ~ApplySession(w)
  BY DEF ApplyAdd, ApplyReduce, ApplyDelete, ApplyReplace, ApplySession, Applies
<1> QED
  BY <1>2, <1>3, <1>4, <1>5, <1>6, <1>7, <1>8, <1>9 DEF Cycle, Quiet

\* So does ST_APPLY.
LEMMA ApplyStage ==
  ASSUME EngineInv, SymbolInv, StageInv, FreshInv, EmittedInv, EngineInv',
         SymbolInv', Extends(locMap, locCnt, locMap', locCnt'), Noted,
         golden = Abstract, G!BookInv, NEW w, NEW rdy, Cycle(w, rdy), st = "APPLY",
         NEW m, m = cur.msg, Refusal(w) \/ Effects(w, m)
  PROVE  StageInv'
<1>1. CASE Fruitless(w)
  <2>1. Resting
    BY <1>1, RestingSteps
  <2> QED
    BY <2>1, IdleStage DEF Resting
<1>2. CASE Launched(w, m)
  BY <1>2, LaunchStage
<1>3. CASE ApplySession(w)
  <2>1. ~OwesEvent' /\ ~InLevels' /\ ~uadd'.on
    BY <1>3, SessionFields
  <2> QED
    BY <2>1, IdleStage
<1> QED
  BY <1>1, <1>2, <1>3 DEF Refusal, Effects

(***************************************************************************)
(* The rest of the invariant is inductive                                  *)
(***************************************************************************)
\* A larger count names more symbols.
LEMMA MoreSymbols ==
  ASSUME NEW c \in Nat, NEW d \in Nat, c <= d
  PROVE  /\ \A i \in 0..c-1 : i \in 0..d-1
         /\ \A i : i \notin 0..d-1 => i \notin 0..c-1
OBVIOUS

\* Lists change in ST_LV3 and trading states by trading actions only.
LEMMA BooksKept ==
  ASSUME NEW w, NEW rdy, Cycle(w, rdy)
  PROVE  (lvl' = lvl \/ Lv3(w)) /\ (tstate' = tstate \/ ApplySession(w))
<1>1. Inval => UNCHANGED <<lvl, tstate>>
  BY DEF Inval
<1>2. W0(w) \/ TS(w) \/ Body(w) \/ WaitProbe(w) => UNCHANGED <<lvl, tstate>>
  BY DEF W0, TS, Body, WaitProbe, bookVars
<1>3. ToLevels(w) \/ Fruitless(w) => UNCHANGED <<lvl, tstate>>
  BY DEF ToLevels, Fruitless
<1>4. ApplyAdd(w) \/ ApplyReduce(w) \/ ApplyDelete(w) \/ ApplyReplace(w) => UNCHANGED <<lvl, tstate>>
  BY <1>3 DEF ApplyAdd, ApplyReduce, ApplyDelete, ApplyReplace, Refuse, Unknown
<1>5. ApplyDiscard(w) \/ EmitNothing(w) \/ Swap => UNCHANGED <<lvl, tstate>>
  BY DEF ApplyDiscard, EmitNothing, Swap, bookVars
<1>6. Lv2(w) \/ Lv2b(w) \/ EmitA(w) \/ EmitB(w) \/ EmitWait(w) => UNCHANGED <<lvl, tstate>>
  BY DEF Lv2, Lv2b, EmitA, EmitB, EmitWait, bookVars
<1>7. Uadd(w) \/ Emit(w, rdy) => UNCHANGED <<lvl, tstate>>
  BY DEF Uadd, Emit
<1>8. ApplySession(w) => lvl' = lvl
  BY DEF ApplySession
<1>9. Lv3(w) => tstate' = tstate
  BY DEF Lv3
<1> QED
  BY <1>1, <1>2, <1>4, <1>5, <1>6, <1>7, <1>8, <1>9 DEF Cycle, Quiet

\* A symbol gets books and a trading state only once it is registered.
LEMMA FreshStep ==
  ASSUME EngineInv, SymbolInv, StageInv, FreshInv, Extends(locMap, locCnt, locMap', locCnt'),
         NEW w, NEW rdy, Cycle(w, rdy)
  PROVE  FreshInv'
<1>1. locCnt \in Nat /\ locCnt' \in Nat /\ locCnt <= locCnt'
  BY EngineAssumption DEF Extends, GoodMap
<1>2. PICK c, d : c = locCnt /\ d = locCnt'
  OBVIOUS
<1>3. \A i : i \notin 0..d-1 => i \notin 0..c-1
  BY <1>1, <1>2, MoreSymbols
<1>4. \A i \in SymIdx, sd \in Sides : i \notin 0..locCnt-1 => lvl'[<<i, sd>>] = lvl[<<i, sd>>]
  <2>1. CASE lvl' = lvl
    BY <2>1
  <2>2. CASE Lv3(w)
    <3>1. PICK l : lvl' = [lvl EXCEPT ![lv.key] = l] /\ st = "LV3"
      BY <2>2 DEF Lv3
    <3>2. lv.key = <<cur.sym, lv.op.side>> /\ cur.sym \in 0..locCnt-1
      <4>1. InLevels
        BY <3>1 DEF InLevels
      <4> QED
        BY <4>1, Owing, OwnSymbol DEF StageInv
    <3> QED
      BY <3>1, <3>2
  <2> QED
    BY <2>1, <2>2, BooksKept
<1>5. \A i \in SymIdx : i \notin 0..locCnt-1 => tstate'[i] = tstate[i]
  <2>1. CASE tstate' = tstate
    BY <2>1
  <2>2. CASE ApplySession(w)
    <3>1. st = "APPLY" /\ ~cur.bad /\ InTail
      BY <2>2 DEF ApplySession, Applies, InTail
    <3>2. cur.sym \in 0..locCnt-1
      BY <3>1, OwnSymbol
    <3>3. PICK s, b : s = cur.sym /\ (tstate' = tstate \/ tstate' = [tstate EXCEPT ![s] = b])
      BY <2>2 DEF ApplySession
    <3>4. PICK ts, ts2 : ts = tstate /\ ts2 = tstate'
      OBVIOUS
    <3>5. ts \in [SymIdx -> Codes \cup {"none"}]
      BY <3>4 DEF EngineInv, BookInv, SessionType
    <3>6. ts2 = ts \/ ts2 = [ts EXCEPT ![s] = b]
      BY <3>3, <3>4
    <3>7. ASSUME NEW i \in SymIdx, i # s PROVE ts2[i] = ts[i]
      BY <3>5, <3>6, <3>7
    <3>8. \A i \in SymIdx : i # s => tstate'[i] = tstate[i]
      BY <3>4, <3>7
    <3> QED
      BY <3>2, <3>3, <3>8
  <2> QED
    BY <2>1, <2>2, BooksKept
<1>6. \A i \in SymIdx, sd \in Sides : i \notin 0..locCnt'-1 => lvl'[<<i, sd>>] = EmptySide
  BY <1>2, <1>3, <1>4 DEF FreshInv
<1>7. Untraded(locCnt', tstate')
  BY <1>2, <1>3, <1>5 DEF FreshInv, Untraded
<1> QED
  BY <1>6, <1>7 DEF FreshInv

\* Who has had an event is listed.
LEMMA EmittedStep ==
  ASSUME EngineInv, SymbolInv, EmittedInv, Extends(locMap, locCnt, locMap', locCnt'), Noted
  PROVE  EmittedInv'
<1>1. locCnt \in Nat /\ locCnt' \in Nat /\ locCnt <= locCnt'
  BY EngineAssumption DEF Extends, GoodMap
<1>2. \A i \in 0..locCnt-1 : i \in 0..locCnt'-1 /\ locMap'[i] = locMap[i]
  <2>1. PICK c, d : c = locCnt /\ d = locCnt'
    OBVIOUS
  <2>2. \A i \in 0..c-1 : i \in 0..d-1
    BY <1>1, <2>1, MoreSymbols
  <2>3. \A i \in 0..c-1 : locMap'[i] = locMap[i]
    BY <2>1 DEF Extends
  <2> QED
    BY <2>1, <2>2, <2>3
<1>3. ASSUME NEW l \in emitted' PROVE l \in Locates /\ \E i \in 0..locCnt'-1 : locMap'[i] = l
  <2>1. CASE l \in emitted
    <3>1. PICK i \in 0..locCnt-1 : locMap[i] = l
      BY <2>1 DEF EmittedInv, ListsAll
    <3> QED
      BY <1>2, <2>1, <3>1 DEF EmittedInv
  <2>2. CASE l \notin emitted
    <3>1. st = "APPLY" /\ ~cur.bad /\ l = cur.msg.loc
      BY <1>3, <2>2 DEF Noted
    <3>2. cur.sym \in 0..locCnt-1 /\ locMap[cur.sym] = l /\ l \in Locates
      BY <3>1, OwnSymbol DEF InTail
    <3> QED
      BY <1>2, <3>2
  <2> QED
    BY <2>1, <2>2
<1> QED
  BY <1>3 DEF EmittedInv, ListsAll

\* An effect is an anomaly or at most one cross.
LEMMA EffectCounts ==
  ASSUME EngineInv, SymbolInv, StageInv, FreshInv, EmittedInv,
         SymbolInv', Extends(locMap, locCnt, locMap', locCnt'), Noted,
         golden = Abstract, golden' = Abstract', G!BookInv,
         NEW w, NEW rdy, Cycle(w, rdy), st = "APPLY", ~cur.bad, NEW m, m = cur.msg,
         Refusal(w) \/ Effects(w, m)
  PROVE  anomalies' + golden'.crosses <= anomalies + golden.crosses + 1
<1>1. anomalies \in Nat /\ golden.crosses \in Nat
  BY DEF G!BookInv, G!Bounds
<1>2. CASE Refusal(w)
  <2>1. anomalies' = anomalies /\ golden'.crosses = golden.crosses
    BY <1>2 DEF Refusal, G!vars
  <2> QED
    BY <1>1, <2>1
<1>3. CASE Fruitless(w) /\ anomalies' = anomalies + 1
  <2>1. golden' = golden
    BY <1>3, FruitlessStays
  <2> QED
    BY <1>1, <1>3, <2>1
<1>4. CASE Launched(w, m)
  <2>1. PICK sd \in Sides, px \in Prices, d \in Int : Launches(w, sd, px, d)
    BY <1>4 DEF Launched
  <2>2. anomalies' = anomalies
    BY <2>1, LaunchEvent
  <2>3. gCrosses' = IF /\ marketOpen /\ m.loc \in DOMAIN gTrading /\ gTrading[m.loc] = "T"
                       /\ Crossed(BboOf(gLevels', m.loc))
                    THEN gCrosses + 1 ELSE gCrosses
    BY <2>1, LaunchEvent
  <2>4. golden'.crosses \in {golden.crosses, golden.crosses + 1}
    BY <2>3, GoldenIs
  <2> QED
    BY <1>1, <2>2, <2>4
<1>5. CASE ApplySession(w)
  <2>1. anomalies' = anomalies /\ golden'.crosses = golden.crosses
    BY <1>5, SessionFields, SessionStays
  <2> QED
    BY <1>1, <2>1
<1> QED
  BY <1>2, <1>3, <1>4, <1>5 DEF Effects

\* No message counts twice.
LEMMA CountStep ==
  ASSUME EngineInv, CountInv, G!BookInv, G!BookInv', NEW w \in Offers, NEW rdy, Cycle(w, rdy),
         \/ anomalies' + golden'.crosses <= anomalies + golden.crosses
         \/ st = "APPLY" /\ anomalies' + golden'.crosses <= anomalies + golden.crosses + 1
  PROVE  CountInv'
<1>1. /\ InHand' + started <= InHand + started'
      /\ st = "APPLY" => InHand' + 1 + started <= InHand + started'
  BY HandStep
<1>2. PICK a, c, h, s, a2, c2, h2, s2 :
        /\ a = anomalies /\ c = golden.crosses /\ h = InHand /\ s = started
        /\ a2 = anomalies' /\ c2 = golden'.crosses /\ h2 = InHand' /\ s2 = started'
  OBVIOUS
<1>3. a \in Nat /\ c \in Nat /\ a2 \in Nat /\ c2 \in Nat
  BY <1>2 DEF G!BookInv, G!Bounds
<1>4. s \in Nat /\ s2 \in Nat
  <2>1. started \in Nat /\ Send(w)
    BY DEF EngineInv, PortType, Cycle
  <2> QED
    BY <1>2, <2>1, StartedNext
<1>5. h \in Nat /\ h2 \in Nat
  <2>1. \A b : One(b) \in Nat
    BY DEF One
  <2>2. One(Awaited) \in Nat /\ One(nx.active) \in Nat
    BY <2>1
  <2>3. One(Awaited)' \in Nat /\ One(nx.active)' \in Nat
    BY DEF One
  <2> QED
    BY <1>2, <2>2, <2>3 DEF InHand
<1>6. a + c + h <= s
  BY <1>2 DEF CountInv
<1>7. h2 + s <= h + s2 /\ (st = "APPLY" => h2 + 1 + s <= h + s2)
  BY <1>1, <1>2
<1>8. a2 + c2 <= a + c \/ (st = "APPLY" /\ a2 + c2 <= a + c + 1)
  BY <1>2
<1>9. a2 + c2 + h2 <= s2
  <2>1. CASE a2 + c2 <= a + c
    BY <1>3, <1>4, <1>5, <1>6, <1>7, <2>1
  <2>2. CASE h2 + 1 + s <= h + s2 /\ a2 + c2 <= a + c + 1
    BY <1>3, <1>4, <1>5, <1>6, <2>2
  <2> QED
    BY <1>7, <1>8, <2>1, <2>2
<1> QED
  BY <1>2, <1>9 DEF CountInv

\* There is room for one more in the bound of the reference book.
LEMMA RoomForOne ==
  ASSUME EngineInv, CountInv, G!BookInv, st = "APPLY"
  PROVE  anomalies + golden.crosses < 2 * MaxMsgs + 1
<1>1. anomalies \in Nat /\ golden.crosses \in Nat
  BY DEF G!BookInv, G!Bounds
<1>2. started \in 0..MaxMsgs /\ MaxMsgs \in Nat
  BY EngineAssumption DEF EngineInv, PortType
<1>3. InHand \in Nat
  BY DEF InHand, One
<1>4. anomalies + golden.crosses + InHand <= started
  BY DEF CountInv
<1> QED
  BY <1>1, <1>2, <1>3, <1>4

(***************************************************************************)
(* The whole invariant                                                     *)
(***************************************************************************)
RefInv ==
  /\ EngineInv /\ SymbolInv /\ ListInv /\ StageInv /\ FreshInv /\ EmittedInv
  /\ CountInv /\ G!BookInv /\ golden = Abstract

\* What a cycle is to the reference book.
MessageApplied ==
  IF st = "APPLY" /\ ~cur.bad /\ ~Refuses(cur.msg) THEN G!Apply(cur.msg)
  ELSE UNCHANGED G!vars

\* At reset nothing is owed and no order is live.
LEMMA NothingOwed ==
  ASSUME Init
  PROVE  /\ ~OwesEvent /\ ~InLevels /\ ~uadd.on /\ LiveSlots = {} /\ uadd = NoUadd
BY DEF Init, OwesEvent, InLevels, NoUadd, LiveSlots

LEMMA StageInit ==
  ASSUME Init
  PROVE  StageInv
BY NothingOwed DEF Init, StageInv, Stages

LEMMA FreshInit ==
  ASSUME Init, emitted = {}
  PROVE  FreshInv /\ EmittedInv
<1>1. \A i \in SymIdx, sd \in Sides : lvl[<<i, sd>>] = EmptySide
  BY DEF Init
<1>2. \A i \in SymIdx : tstate[i] = "none"
  BY DEF Init
<1> QED
  BY <1>1, <1>2 DEF FreshInv, EmittedInv, Untraded, ListsAll

LEMMA OrdersInit ==
  ASSUME Init
  PROVE  gOrders = [r \in {} |-> {}]
<1>1. TableRefs \cup (IF uadd.on THEN {uadd.ref} ELSE {}) = {}
  BY NothingOwed DEF TableRefs
<1> QED
  BY <1>1 DEF gOrders

LEMMA LevelsInit ==
  ASSUME Init, emitted = {}
  PROVE  gLevels = [k \in Locates \X Sides |-> NoLevels]
<1>1. EngineInv /\ SymbolInv /\ StageInv /\ FreshInv
  BY EngineInvInit, SymbolInit, StageInit, FreshInit
<1>2. Fresh(locCnt, Finals) /\ GoodMap(locMap, locCnt) /\ gLevels = Spread(locMap, Finals)
  BY <1>1, FinalsFresh, MapIsGood, LevelsSpread
<1>3. locCnt = 0
  BY DEF Init
<1>4. \A i \in 0..locCnt-1 : FALSE
  BY <1>3
<1>5. ASSUME NEW k \in Locates \X Sides PROVE LevelsAt(locMap, Finals, k) = NoLevels
  <2>1. PICK l \in Locates, sd \in Sides : k = <<l, sd>>
    OBVIOUS
  <2>2. LevelsAt(locMap, Finals, <<l, sd>>) = NoLevels
    BY <1>2, <1>4, LevelsAtIs
  <2> QED
    BY <2>1, <2>2
<1>6. Spread(locMap, Finals) = [k \in Locates \X Sides |-> NoLevels]
  BY <1>5 DEF Spread
<1> QED
  BY <1>2, <1>6

LEMMA TradingInit ==
  ASSUME Init
  PROVE  gTrading = [l \in {} |-> "-"]
<1>1. \A i \in SymIdx : tstate[i] = "none"
  BY DEF Init
<1>2. Untraded(locCnt, tstate) /\ GoodMap(locMap, locCnt) /\ locCnt = 0
  BY <1>1, SymbolInit, MapIsGood DEF Untraded, Init
<1>3. PICK t : t = Trades(locMap, tstate)
  OBVIOUS
<1>4. /\ t = [l \in DOMAIN t |-> t[l]]
      /\ \A l \in DOMAIN t : \E i \in 0..locCnt-1 : locMap[i] = l
  BY <1>2, <1>3, TradesAre
<1>5. DOMAIN t = {}
  BY <1>2, <1>4
<1>6. t = [l \in {} |-> "-"]
  BY <1>4, <1>5
<1> QED
  BY <1>3, <1>6, TradingSpread

\* Reset stands for the empty reference book.
LEMMA GoldenInit ==
  ASSUME Init, emitted = {}, golden = Abstract
  PROVE  G!Init
<1>1. /\ golden.orders = gOrders /\ golden.levels = gLevels /\ golden.lastBbo = gLastBbo
      /\ golden.trading = gTrading /\ golden.crosses = gCrosses
  BY GoldenIs
<1>2. golden.orders = [r \in {} |-> {}]
  BY <1>1, OrdersInit
<1>3. golden.levels = [k \in G!Keys |-> [p \in {} |-> 0]]
  BY <1>1, LevelsInit DEF G!Keys, NoLevels, G!Sides, Sides
<1>4. gBest = [k \in G!Keys |-> G!NoPrice]
  <2>1. ASSUME NEW k \in Locates \X Sides PROVE BestOf(k[2], DOMAIN golden.levels[k]) = -1
    <3>1. DOMAIN golden.levels[k] = {}
      BY <1>1, LevelsInit DEF NoLevels
    <3> QED
      BY <3>1 DEF BestOf
  <2>2. G!Keys = Locates \X Sides /\ G!NoPrice = -1
    BY DEF G!Keys, G!NoPrice, G!Sides, Sides
  <2> QED
    BY <2>1, <2>2 DEF gBest
<1>5. golden.lastBbo = [l \in {} |-> {}]
  BY <1>1 DEF gLastBbo
<1>6. golden.trading = [l \in {} |-> "-"]
  BY <1>1, TradingInit
<1>7. golden.crosses = 0
  BY <1>1, NothingOwed DEF gCrosses, OwesCross, Init
<1>8. gLiveCount = [l \in Locates |-> 0]
  <2>1. ASSUME NEW l PROVE Cardinality({r \in DOMAIN golden.orders : RefLoc[r] = l}) = 0
    <3>1. {r \in DOMAIN golden.orders : RefLoc[r] = l} = {}
      BY <1>2
    <3> QED
      BY <3>1, FS_EmptySet
  <2> QED
    BY <2>1 DEF gLiveCount
<1>9. marketOpen = FALSE /\ anomalies = 0
  BY DEF Init
<1> QED
  BY <1>2, <1>3, <1>4, <1>5, <1>6, <1>7, <1>8, <1>9 DEF G!Init

\* The invariant holds at reset.
LEMMA RefInit ==
  ASSUME IsFiniteSet(Refs), RInit
  PROVE  RefInv /\ G!Init
<1>1. Init /\ emitted = {} /\ golden = Abstract
  BY DEF RInit
<1>2. EngineInv /\ SymbolInv /\ ListInv /\ StageInv /\ FreshInv /\ EmittedInv
  BY <1>1, EngineInvInit, SymbolInit, ListInit, StageInit, FreshInit
<1>3. G!Init
  BY <1>1, GoldenInit
<1>4. G!BookInv
  BY <1>3, GAssumptions, G!InitInv
<1>5. CountInv
  <2>1. anomalies = 0 /\ golden.crosses = 0 /\ started = 0
    BY <1>1, <1>3 DEF Init, G!Init
  <2>2. InHand = 0
    BY <1>1 DEF Init, InHand, One, Awaited, NxEmpty
  <2> QED
    BY <2>1, <2>2 DEF CountInv
<1> QED
  BY <1>1, <1>2, <1>3, <1>4, <1>5 DEF RefInv

(***************************************************************************)
(* A cycle                                                                 *)
(***************************************************************************)
LEMMA FirstParts ==
  ASSUME NamedLocates, RealReductions, RefInv, NEW w \in Offers, NEW rdy \in Readiness,
         Cycle(w, rdy)
  PROVE  /\ EngineInv' /\ SymbolInv' /\ ListInv'
         /\ Extends(locMap, locCnt, locMap', locCnt')
<1>1. EngineInv /\ SymbolInv /\ ListInv
  BY DEF RefInv
<1>2. EngineInv'
  BY <1>1, EngineInvNext DEF Next
<1>3. SymbolInv' /\ Extends(locMap, locCnt, locMap', locCnt')
  BY <1>1, StepExtends
<1>4. ListInv'
  BY <1>1, ListStep
<1> QED
  BY <1>2, <1>3, <1>4

\* The cycles of ST_APPLY.
LEMMA ApplyParts ==
  ASSUME FeedNumbers, IsFiniteSet(Refs), 2 * MaxShares < QLim, RealReductions, RefInv,
         EngineInv', SymbolInv', Extends(locMap, locCnt, locMap', locCnt'), Noted,
         golden' = Abstract', NEW w \in Offers, NEW rdy, Cycle(w, rdy),
         st = "APPLY", ~cur.bad
  PROVE  /\ MessageApplied
         /\ Refuses(cur.msg) => error'
         /\ StageInv'
         /\ anomalies' + golden'.crosses <= anomalies + golden.crosses + 1
<1>1. /\ EngineInv /\ SymbolInv /\ StageInv /\ FreshInv /\ EmittedInv
      /\ CountInv /\ G!BookInv /\ golden = Abstract
  BY DEF RefInv
<1>2. PICK m : m = cur.msg
  OBVIOUS
<1>3. IF Refuses(m) THEN Refusal(w) ELSE Effects(w, m)
  BY <1>1, <1>2, ApplyGolden
<1>4. StageInv'
  BY <1>1, <1>2, <1>3, ApplyStage
<1>5. anomalies' + golden'.crosses <= anomalies + golden.crosses + 1
  BY <1>1, <1>2, <1>3, EffectCounts
<1>6. anomalies + golden.crosses < 2 * MaxMsgs + 1
  BY <1>1, RoomForOne
<1>7. ~Refuses(m) => G!Apply(m)
  BY <1>3, <1>6 DEF Effects, G!Apply
<1>8. Refuses(m) => error' /\ UNCHANGED G!vars
  BY <1>3 DEF Refusal
<1>9. MessageApplied
  BY <1>2, <1>7, <1>8 DEF MessageApplied
<1> QED
  BY <1>2, <1>4, <1>5, <1>8, <1>9

\* A message applied is a step of the reference book.
LEMMA AppliedStep ==
  ASSUME EngineInv, StageInv, MessageApplied
  PROVE  [G!Next]_(G!vars)
<1>1. st = "APPLY" => cur.msg \in Msgs
  BY Owing, InFlightMessage DEF EngineInv
<1> QED
  BY <1>1 DEF MessageApplied, G!Next

\* A cycle keeps the invariant and is a step of the reference book or none.
LEMMA CycleParts ==
  ASSUME FeedNumbers, IsFiniteSet(Refs), 2 * MaxShares < QLim, NamedLocates, RealReductions,
         RefInv, LevelsFit, NEW w \in Offers, NEW rdy \in Readiness, Cycle(w, rdy), Noted,
         golden' = Abstract'
  PROVE  /\ RefInv' /\ MessageApplied
         /\ st = "APPLY" /\ ~cur.bad /\ Refuses(cur.msg) => error'
<1>1. /\ EngineInv /\ SymbolInv /\ ListInv /\ StageInv /\ FreshInv /\ EmittedInv
      /\ CountInv /\ G!BookInv /\ golden = Abstract
  BY DEF RefInv
<1>2. /\ EngineInv' /\ SymbolInv' /\ ListInv'
      /\ Extends(locMap, locCnt, locMap', locCnt')
  BY FirstParts
<1>3. FreshInv' /\ EmittedInv'
  BY <1>1, <1>2, FreshStep, EmittedStep
<1>4. /\ MessageApplied /\ StageInv'
      /\ st = "APPLY" /\ ~cur.bad /\ Refuses(cur.msg) => error'
      /\ \/ anomalies' + golden'.crosses <= anomalies + golden.crosses
         \/ st = "APPLY" /\ anomalies' + golden'.crosses <= anomalies + golden.crosses + 1
  <2>1. CASE st = "APPLY" /\ ~cur.bad
    BY <1>2, <2>1, ApplyParts
  <2>2. CASE ~(st = "APPLY" /\ ~cur.bad)
    <3>1. golden' = golden /\ marketOpen' = marketOpen /\ anomalies' = anomalies
      BY <1>1, <1>2, <2>2, OtherStays
    <3>2. MessageApplied
      BY <2>2, <3>1, GoldenStays DEF MessageApplied
    <3>3. StageInv'
      BY <1>1, <1>2, <2>2, OtherStage
    <3>4. anomalies' + golden'.crosses <= anomalies + golden.crosses
      BY <1>1, <3>1 DEF G!BookInv, G!Bounds
    <3> QED
      BY <2>2, <3>2, <3>3, <3>4
  <2> QED
    BY <2>1, <2>2
<1>5. G!BookInv'
  BY <1>1, <1>4, AppliedStep, GStep
<1>6. CountInv'
  BY <1>1, <1>4, <1>5, CountStep
<1> QED
  BY <1>2, <1>3, <1>4, <1>5, <1>6 DEF RefInv

\* Nothing changes.
LEMMA AbstractStays ==
  ASSUME UNCHANGED <<vars, emitted>>
  PROVE  Abstract' = Abstract
<1>1. UNCHANGED <<st, cur, locMap, locCnt, tab, lvl, lv, uadd, emitOk, prev, marketOpen,
                  tstate, crosses>>
  BY DEF vars, inputVars, recvVars, bookVars, stageVars
<1>2. \A l : LocLookup(l)' = LocLookup(l)
  BY <1>1 DEF LocLookup
<1>3. \A k : FinalMap(k)' = FinalMap(k)
  BY <1>1 DEF FinalMap, InLevels
<1>4. gLevels' = gLevels
  BY <1>2, <1>3 DEF gLevels, Known
<1>5. OwedBbo' = OwedBbo
  BY <1>1, <1>3 DEF OwedBbo
<1>6. OwesEvent' = OwesEvent
  BY <1>1 DEF OwesEvent, InLevels
<1>7. gLastBbo' = gLastBbo
  BY <1>1, <1>2, <1>5, <1>6 DEF gLastBbo
<1>8. gCrosses' = gCrosses
  BY <1>1, <1>5, <1>6 DEF gCrosses, OwesCross
<1>9. gTrading' = gTrading
  BY <1>1, <1>2 DEF gTrading, Known
<1>10. gOrders' = gOrders
  <2>1. LiveSlots' = LiveSlots
    BY <1>1 DEF LiveSlots
  <2>2. TableRefs' = TableRefs
    BY <1>1, <2>1 DEF TableRefs
  <2>3. \A r : SlotOf(r)' = SlotOf(r)
    BY <1>1, <2>1 DEF SlotOf
  <2> QED
    BY <1>1, <2>2, <2>3 DEF gOrders
<1> QED
  BY <1>4, <1>7, <1>8, <1>9, <1>10 DEF Abstract

\* Nor does the invariant.
LEMMA StutterStays ==
  ASSUME IsFiniteSet(Refs), RefInv, UNCHANGED <<vars, emitted, golden>>
  PROVE  RefInv' /\ UNCHANGED G!vars
<1>1. /\ EngineInv /\ SymbolInv /\ ListInv /\ StageInv /\ FreshInv /\ EmittedInv
      /\ CountInv /\ G!BookInv /\ golden = Abstract
  BY DEF RefInv
<1>2. UNCHANGED <<st, cur, nx, locMap, locCnt, tab, prb, lvl, lv, lv2, uadd, emitOk, cap, sel,
                  prev, marketOpen, tstate, crosses, anomalies, started, bus>>
  BY DEF vars, inputVars, recvVars, bookVars, stageVars
<1>3. EngineInv'
  BY <1>1, EngineInvNext
<1>4. SymbolInv'
  BY <1>1, <1>2 DEF SymbolInv, MapInv, SymbolRight, Listed, Belongs, Registry
<1>5. ListInv'
  BY <1>1, <1>2 DEF ListInv, SelectedBbo
<1>6. StageInv'
  BY <1>1, <1>2 DEF StageInv, OwesEvent, InLevels
<1>7. FreshInv' /\ EmittedInv'
  BY <1>1, <1>2 DEF FreshInv, EmittedInv
<1>8. InHand' = InHand
  BY <1>2 DEF InHand, Awaited
<1>9. CountInv'
  BY <1>1, <1>2, <1>8 DEF CountInv
<1>10. UNCHANGED G!vars
  BY <1>2, GoldenStays
<1>11. G!BookInv'
  BY <1>1, <1>10, GStep
<1>12. golden' = Abstract'
  BY <1>1, AbstractStays
<1> QED
  BY <1>3, <1>4, <1>5, <1>6, <1>7, <1>9, <1>10, <1>11, <1>12 DEF RefInv

(***************************************************************************)
(* The two instances of the reference book are the same book               *)
(***************************************************************************)
LEMMA SameParts ==
  /\ \A d, k, v : Golden!Put(d, k, v) = G!Put(d, k, v)
  /\ \A d, k : Golden!Drop(d, k) = G!Drop(d, k)
  /\ \A d, p : Golden!QtyAt(d, p) = G!QtyAt(d, p)
  /\ \A s, p, q : Golden!Better(s, p, q) = G!Better(s, p, q)
  /\ Golden!NoPrice = G!NoPrice
  /\ Golden!AddTypes = G!AddTypes /\ Golden!ReduceTypes = G!ReduceTypes
  /\ Golden!Book = G!Book
  /\ \A m : Golden!OrderOf(m) = G!OrderOf(m)
  /\ \A o : Golden!KeyOf(o) = G!KeyOf(o)
  /\ \A bbo : Golden!Crossed(bbo) = G!Crossed(bbo)
  /\ \A l, n : Golden!Counted(l, n) = G!Counted(l, n)
  /\ Golden!Session = G!Session
  /\ Golden!vars = G!vars
<1>1. \A d, k, v : Golden!Put(d, k, v) = G!Put(d, k, v)
  BY DEF Golden!Put, G!Put
<1>2. \A d, k : Golden!Drop(d, k) = G!Drop(d, k)
  BY DEF Golden!Drop, G!Drop
<1>3. \A d, p : Golden!QtyAt(d, p) = G!QtyAt(d, p)
  BY DEF Golden!QtyAt, G!QtyAt
<1>4. \A s, p, q : Golden!Better(s, p, q) = G!Better(s, p, q)
  BY DEF Golden!Better, G!Better
<1>5. Golden!NoPrice = G!NoPrice
  BY DEF Golden!NoPrice, G!NoPrice
<1>6. Golden!AddTypes = G!AddTypes /\ Golden!ReduceTypes = G!ReduceTypes
  BY DEF Golden!AddTypes, G!AddTypes, Golden!ReduceTypes, G!ReduceTypes
<1>7. Golden!Book = G!Book
  BY DEF Golden!Book, G!Book
<1>8. \A m : Golden!OrderOf(m) = G!OrderOf(m)
  BY DEF Golden!OrderOf, G!OrderOf
<1>9. \A o : Golden!KeyOf(o) = G!KeyOf(o)
  BY DEF Golden!KeyOf, G!KeyOf
<1>10. \A bbo : Golden!Crossed(bbo) = G!Crossed(bbo)
  BY DEF Golden!Crossed, G!Crossed
<1>11. \A l, n : Golden!Counted(l, n) = G!Counted(l, n)
  BY DEF Golden!Counted, G!Counted
<1>12. Golden!Session = G!Session /\ Golden!vars = G!vars
  BY DEF Golden!Session, G!Session, Golden!vars, G!vars
<1> QED
  BY <1>1, <1>2, <1>3, <1>4, <1>5, <1>6, <1>7, <1>8, <1>9, <1>10, <1>11, <1>12

\* _level_add, and so on up to apply().
LEMMA SameLevelAdd == \A b, k, p, d : Golden!LevelAdd(b, k, p, d) = G!LevelAdd(b, k, p, d)
<1>1. \A s, S : Golden!Extreme(s, S) = G!Extreme(s, S)
  BY DEF Golden!Extreme, G!Extreme, Golden!Better, G!Better, Golden!NoPrice, G!NoPrice
<1> QED
  BY <1>1, SameParts DEF Golden!LevelAdd, G!LevelAdd

LEMMA SameBbo ==
  /\ \A b, l : Golden!Bbo(b, l) = G!Bbo(b, l)
  /\ \A l : Golden!Continuous(l) <=> G!Continuous(l)
  /\ \A k, p, d : Golden!Negative(k, p, d) <=> G!Negative(k, p, d)
<1>1. \A b, k : Golden!Top(b, k) = G!Top(b, k)
  BY SameParts DEF Golden!Top, G!Top
<1>2. \A b, l : Golden!Bbo(b, l) = G!Bbo(b, l)
  BY <1>1 DEF Golden!Bbo, G!Bbo
<1>3. \A l : Golden!Continuous(l) <=> G!Continuous(l)
  BY DEF Golden!Continuous, G!Continuous
<1>4. \A k, p, d : Golden!Negative(k, p, d) <=> G!Negative(k, p, d)
  BY SameParts DEF Golden!Negative, G!Negative
<1> QED
  BY <1>2, <1>3, <1>4

LEMMA SameEmit ==
  ASSUME NEW b, NEW l
  PROVE  Golden!Emit(b, l) <=> G!Emit(b, l)
BY SameParts, SameBbo DEF Golden!Emit, G!Emit

LEMMA SameSteps ==
  /\ Golden!Anomaly <=> G!Anomaly
  /\ \A why : Golden!Abort(why) <=> G!Abort(why)
  /\ \A b : Golden!SetBook(b) <=> G!SetBook(b)
BY DEF Golden!Anomaly, G!Anomaly, Golden!Abort, G!Abort, Golden!SetBook, G!SetBook

LEMMA SameRemove ==
  ASSUME NEW r, NEW l
  PROVE  Golden!Remove(r, l) <=> G!Remove(r, l)
BY SameParts, SameLevelAdd, SameBbo, SameEmit, SameSteps
DEF Golden!Remove, G!Remove, Golden!Session, G!Session

LEMMA SameShrink ==
  ASSUME NEW r, NEW s
  PROVE  Golden!Shrink(r, s) <=> G!Shrink(r, s)
BY SameParts, SameLevelAdd, SameBbo, SameEmit, SameSteps
DEF Golden!Shrink, G!Shrink, Golden!Session, G!Session

LEMMA SameMessages ==
  ASSUME NEW m
  PROVE  /\ Golden!SystemEvent(m) <=> G!SystemEvent(m)
         /\ Golden!TradingAction(m) <=> G!TradingAction(m)
         /\ Golden!Add(m) <=> G!Add(m)
         /\ Golden!Reduce(m) <=> G!Reduce(m)
         /\ Golden!Delete(m) <=> G!Delete(m)
         /\ Golden!Replace(m) <=> G!Replace(m)
         /\ Golden!Other(m) <=> G!Other(m)
<1>1. Golden!SystemEvent(m) <=> G!SystemEvent(m)
  BY DEF Golden!SystemEvent, G!SystemEvent
<1>2. Golden!TradingAction(m) <=> G!TradingAction(m)
  BY SameParts DEF Golden!TradingAction, G!TradingAction
<1>3. Golden!Add(m) <=> G!Add(m)
  BY SameParts, SameLevelAdd, SameEmit, SameSteps DEF Golden!Add, G!Add, Golden!Session, G!Session
<1>4. Golden!Reduce(m) <=> G!Reduce(m)
  BY SameParts, SameRemove, SameShrink, SameSteps DEF Golden!Reduce, G!Reduce
<1>5. Golden!Delete(m) <=> G!Delete(m)
  BY SameRemove, SameSteps DEF Golden!Delete, G!Delete
<1>6. Golden!Replace(m) <=> G!Replace(m)
  <2>1. Golden!Replaced(m) = G!Replaced(m)
    BY SameParts DEF Golden!Replaced, G!Replaced
  <2> QED
    BY <2>1, SameParts, SameLevelAdd, SameBbo, SameEmit, SameSteps
    DEF Golden!Replace, G!Replace, Golden!Session, G!Session
<1>7. Golden!Other(m) <=> G!Other(m)
  BY DEF Golden!Other, G!Other, Golden!vars, G!vars
<1> QED
  BY <1>1, <1>2, <1>3, <1>4, <1>5, <1>6, <1>7

LEMMA SameApply ==
  ASSUME NEW m
  PROVE  Golden!Apply(m) <=> G!Apply(m)
BY SameMessages DEF Golden!Apply, G!Apply

LEMMA SameInit == Golden!Init <=> G!Init
<1>1. Golden!Keys = G!Keys /\ Golden!NoPrice = G!NoPrice
  BY DEF Golden!Keys, G!Keys, Golden!Sides, G!Sides, Golden!NoPrice, G!NoPrice
<1> QED
  BY <1>1 DEF Golden!Init, G!Init

(***************************************************************************)
(* The engine implements the reference book                                *)
(***************************************************************************)
LEMMA RefStep ==
  ASSUME FeedNumbers, IsFiniteSet(Refs), 2 * MaxShares < QLim, NamedLocates, RealReductions,
         RefInv, LevelsFit, [RNext]_<<vars, emitted, golden>>
  PROVE  /\ RefInv' /\ [Golden!Next]_(Golden!vars)
         /\ st = "APPLY" /\ ~cur.bad /\ ~UNCHANGED <<vars, emitted, golden>> =>
              IF Rejected(cur.msg) \/ OutOfRoom(cur.msg)
              THEN error' /\ UNCHANGED Golden!vars
              ELSE Golden!Apply(cur.msg)
<1>1. Golden!vars = G!vars /\ Golden!vars' = G!vars'
  BY DEF Golden!vars, G!vars
<1>2. CASE UNCHANGED <<vars, emitted, golden>>
  BY <1>1, <1>2, StutterStays
<1>3. CASE RNext
  <2>1. PICK w \in Offers, rdy \in Readiness : Cycle(w, rdy)
    BY <1>3 DEF RNext, Next
  <2>2. Noted /\ golden' = Abstract'
    BY <1>3 DEF RNext, Noted
  <2>3. /\ RefInv' /\ MessageApplied
        /\ st = "APPLY" /\ ~cur.bad /\ Refuses(cur.msg) => error'
    BY <2>1, <2>2, CycleParts
  <2>4. /\ EngineInv /\ StageInv /\ golden = Abstract
    BY DEF RefInv
  <2>5. PICK m : m = cur.msg
    OBVIOUS
  <2>6. st = "APPLY" /\ ~cur.bad => (Refuses(m) <=> Rejected(m) \/ OutOfRoom(m))
    BY <2>4, <2>5, RefusalIs
  <2>7. Golden!Apply(m) <=> G!Apply(m)
    BY SameApply
  <2>8. st = "APPLY" => m \in Msgs
    BY <2>4, <2>5, Owing, InFlightMessage DEF EngineInv
  <2>9. IF st = "APPLY" /\ ~cur.bad /\ ~Refuses(m) THEN Golden!Apply(m)
        ELSE UNCHANGED Golden!vars
    BY <1>1, <2>3, <2>5, <2>7 DEF MessageApplied
  <2>10. [Golden!Next]_(Golden!vars)
    BY <2>8, <2>9 DEF Golden!Next
  <2>11. st = "APPLY" /\ ~cur.bad =>
           IF Rejected(m) \/ OutOfRoom(m) THEN error' /\ UNCHANGED Golden!vars
           ELSE Golden!Apply(m)
    BY <2>3, <2>5, <2>6, <2>9
  <2> QED
    BY <2>3, <2>5, <2>10, <2>11
<1> QED
  BY <1>2, <1>3

\* The engine of rtl/orderbook implements the reference book of
\* golden_model/src/book.py, whatever the feed, the sizes and the consumers are:
\* in every cycle the registers stand for a state of the reference book, and a
\* cycle is a step of it or none.  The feed numbers an order once, names no
\* locate of the reset value and reduces by at least a share; a quantity leaves
\* the sign bit of the adder alone; and the levels of a side fit its P slots.
THEOREM ImplementsGoldenAlways ==
  ASSUME FeedNumbers, IsFiniteSet(Refs), 2 * MaxShares < QLim, NamedLocates, RealReductions
  PROVE  RSpec /\ []LevelsFit => ImplementsGolden
<1>1. RInit => RefInv /\ Golden!Init
  BY RefInit, SameInit
<1>2. RefInv /\ LevelsFit /\ [RNext]_<<vars, emitted, golden>>
        => RefInv' /\ [Golden!Next]_(Golden!vars)
  BY RefStep
<1> QED
  BY <1>1, <1>2, PTL DEF RSpec, ImplementsGolden, Golden!Spec

\* Every message of a listed symbol does in ST_APPLY what apply() does with that
\* very message, or is refused as a whole where apply() aborts or the table has
\* no room: on the same feeds, no message is lost, halved or applied twice.
THEOREM AppliesMessageAlways ==
  ASSUME FeedNumbers, IsFiniteSet(Refs), 2 * MaxShares < QLim, NamedLocates, RealReductions
  PROVE  RSpec /\ []LevelsFit => AppliesMessage
<1> DEFINE Applied ==
             st = "APPLY" /\ ~cur.bad =>
               IF Rejected(cur.msg) \/ OutOfRoom(cur.msg)
               THEN error' /\ UNCHANGED Golden!vars
               ELSE Golden!Apply(cur.msg)
<1>1. RInit => RefInv
  BY RefInit
<1>2. RefInv /\ LevelsFit /\ [RNext]_<<vars, emitted, golden>>
        => RefInv' /\ [Applied]_<<vars, emitted, golden>>
  BY RefStep
<1>3. [][Applied]_<<vars, emitted, golden>> => AppliesMessage
  BY DEF AppliesMessage
<1> HIDE DEF Applied
<1> QED
  BY <1>1, <1>2, <1>3, PTL DEF RSpec

=============================================================================
