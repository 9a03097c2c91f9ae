-------------------------- MODULE LevelListProofs --------------------------
(***************************************************************************)
(* What the operators of LevelList do to a list, for every number of       *)
(* levels, width of the quantities and set of prices: types, the price     *)
(* order, and what the list shows.                                         *)
(***************************************************************************)
EXTENDS LevelList, FiniteSetTheorems, TLAPS

(***************************************************************************)
(* The helpers of the pipeline                                             *)
(***************************************************************************)
\* A set of natural numbers that is not empty has a lowest element.
LEMMA LowestExists ==
  ASSUME NEW S \in SUBSET Nat, S # {}
  PROVE  \E x \in S : \A y \in S : x <= y
<1> DEFINE R == {z \in Nat \X Nat : z[1] < z[2]}
<1>1. IsWellFoundedOn(R, Nat)
  BY NatLessThanWellFounded DEF OpToRel
<1>2. \A y, x \in Nat : y < x => <<y, x>> \in R
  OBVIOUS
<1> HIDE DEF R
<1>3. PICK x \in S : \A y \in S : ~(<<y, x>> \in R)
  BY <1>1, WFMin, Zenon
<1>4. ASSUME NEW y \in S PROVE x <= y
  <2>1. x \in Nat /\ y \in Nat
    OBVIOUS
  <2>2. ~(y < x)
    BY <2>1, <1>2, <1>3, Zenon
  <2> QED BY <2>1, <2>2
<1> QED
  BY <1>4

\* first_one finds the lowest slot of any set that has one.
LEMMA FirstOneIsLowest ==
  ASSUME NEW S \in SUBSET Slots, S # {}
  PROVE  FirstOne(S) \in S /\ \A j \in S : FirstOne(S) <= j
<1>1. S \in SUBSET Nat
  BY LevelAssumption DEF Slots
<1>2. \E x \in S : \A y \in S : x <= y
  BY <1>1, LowestExists
<1> QED
  BY <1>2 DEF FirstOne

\* It answers a slot whatever the set.
LEMMA FirstOneIsSlot ==
  ASSUME NEW S \in SUBSET Slots
  PROVE  FirstOne(S) \in Slots
<1>1. CASE S = {}
  BY <1>1, LevelAssumption DEF FirstOne, Slots
<1>2. CASE S # {}
  BY <1>2, FirstOneIsLowest
<1> QED
  BY <1>1, <1>2

(***************************************************************************)
(* The decoded operation                                                   *)
(***************************************************************************)
Operation == [side : Sides, px : Prices, delta : Int]

\* What decode_lv2b can decide on the list l for op.
Updates(l, op, d) ==
  /\ d.mode = "UPDATE"
  /\ d.at \in EqSlots(l, op.px)
  /\ d.qty = l[d.at].qty + op.delta
  /\ d.qty \in 1..QLim-1
Removes(l, op, d) ==
  /\ d.mode = "REMOVE"
  /\ d.at \in EqSlots(l, op.px)
  /\ l[d.at].qty + op.delta = 0
Inserts(l, op, d) ==
  /\ d.mode = "INSERT"
  /\ EqSlots(l, op.px) = {}
  /\ op.delta >= 0 /\ d.qty = op.delta
  /\ d.last = FirstOne(ZeroSlots(l))
  /\ d.at = InsertAt(ZeroSlots(l), BeatenSlots(l, op.side, op.px))
  /\ ZeroSlots(l) # {} \/ BeatenSlots(l, op.side, op.px) # {}

\* A decoded operation keeps, updates, removes or inserts; a level that is
\* updated or removed is a level of the operation's price.
LEMMA DecodeCases ==
  ASSUME NEW l \in [Slots -> Level], NEW op \in Operation
  PROVE  LET d == Decode(l, op)
         IN d = Keep \/ Updates(l, op, d) \/ Removes(l, op, d) \/ Inserts(l, op, d)
<1> DEFINE eq == EqSlots(l, op.px)
<1> DEFINE zero == ZeroSlots(l)
<1> DEFINE beaten == BeatenSlots(l, op.side, op.px)
<1> DEFINE found == FirstOne(eq)
<1> DEFINE sum == l[found].qty + op.delta
<1>1. CASE eq = {}
  BY <1>1 DEF Decode, Inserts, Keep, Operation
<1>2. CASE eq # {}
  <2>1. found \in eq
    BY <1>2, FirstOneIsLowest DEF EqSlots
  <2>2. CASE ~Fits(sum)
    BY <1>2, <2>2 DEF Decode
  <2>3. CASE sum = 0
    BY <1>2, <2>1, <2>3, LevelAssumption DEF Decode, Removes, Keep, Fits
  <2>4. CASE Fits(sum) /\ sum # 0
    <3>1. sum \in 1..QLim-1
      BY <2>4, LevelAssumption DEF Fits
    <3> QED
      BY <1>2, <2>1, <2>4, <3>1 DEF Decode, Updates, Keep
  <2> QED
    BY <2>2, <2>3, <2>4
<1> QED
  BY <1>1, <1>2

(***************************************************************************)
(* The list that materialize_write leaves                                  *)
(***************************************************************************)
\* The slots of an insert: at is one of them, whatever the list.
LEMMA InsertAtIsSlot ==
  ASSUME NEW l \in [Slots -> Level], NEW op \in Operation
  PROVE  InsertAt(ZeroSlots(l), BeatenSlots(l, op.side, op.px)) \in Slots
<1>1. ZeroSlots(l) \in SUBSET Slots
      /\ BeatenSlots(l, op.side, op.px) \in SUBSET Slots
  BY DEF ZeroSlots, BeatenSlots
<1> QED
  BY <1>1, FirstOneIsSlot DEF InsertAt

\* What the list becomes in each case.
LEMMA Written ==
  ASSUME NEW l, NEW op, NEW d
  PROVE  /\ d = Keep => Materialize(l, d, op.px) = l
         /\ Updates(l, op, d) => Materialize(l, d, op.px) = Updated(l, d)
         /\ Removes(l, op, d) => Materialize(l, d, op.px) = Removed(l, d.at)
         /\ Inserts(l, op, d) => Materialize(l, d, op.px) = Inserted(l, d, op.px)
BY DEF Materialize, Keep, Updates, Removes, Inserts

\* The pipeline writes levels of prices and of quantities that fit QW bits.
LEMMA MaterializeType ==
  ASSUME NEW l \in [Slots -> Level], NEW op \in Operation, op.delta < QLim
  PROVE  Materialize(l, Decode(l, op), op.px) \in [Slots -> Level]
<1>1. op.px \in Prices /\ op.px \in Nat /\ op.delta \in Int
  BY MessageAssumption DEF Operation
<1>2. EmptyLevel \in Level
  BY LevelAssumption DEF EmptyLevel, Level
<1>3. PICK d : d = Decode(l, op)
  OBVIOUS
<1>4. CASE d = Keep
  BY <1>3, <1>4, Written
<1>5. CASE Updates(l, op, d)
  <2>1. d.at \in Slots /\ l[d.at] \in Level /\ d.qty \in 0..QLim-1
    BY <1>5, LevelAssumption DEF Updates, EqSlots
  <2>2. [l[d.at] EXCEPT !.qty = d.qty] \in Level
    BY <2>1 DEF Level
  <2>3. Updated(l, d) \in [Slots -> Level]
    BY <2>1, <2>2 DEF Updated
  <2> QED
    BY <1>3, <1>5, <2>3, Written
<1>6. CASE Removes(l, op, d)
  <2>1. ASSUME NEW i \in Slots, i < P - 1 PROVE l[i+1] \in Level
    BY <2>1, LevelAssumption DEF Slots
  <2>2. Removed(l, d.at) \in [Slots -> Level]
    BY <1>2, <2>1 DEF Removed
  <2> QED
    BY <1>3, <1>6, <2>2, Written
<1>7. CASE Inserts(l, op, d)
  <2>1. d.at \in Slots
    BY <1>7, InsertAtIsSlot DEF Inserts
  <2>2. [px |-> op.px, qty |-> d.qty] \in Level
    BY <1>1, <1>7, LevelAssumption DEF Inserts, Level
  <2>3. ASSUME NEW i \in Slots, ~(i < d.at), i # d.at PROVE l[i-1] \in Level
    BY <2>1, <2>3, LevelAssumption DEF Slots
  <2>4. Inserted(l, d, op.px) \in [Slots -> Level]
    BY <2>2, <2>3 DEF Inserted
  <2> QED
    BY <1>3, <1>7, <2>4, Written
<1> QED
  BY <1>3, <1>4, <1>5, <1>6, <1>7, DecodeCases

(***************************************************************************)
(* The order of the list                                                   *)
(***************************************************************************)
\* Ordered, of any list.
Sorted(sd, l) ==
  \A i, j \in Slots :
    i < j /\ l[j].qty # 0 => l[i].qty # 0 /\ Better(sd, l[i].px, l[j].px)

\* Better is a strict total order on the prices of a side.
LEMMA BetterOrders ==
  ASSUME NEW sd, NEW p \in Nat, NEW q \in Nat, NEW r \in Nat
  PROVE  /\ ~Better(sd, p, p)
         /\ Better(sd, p, q) /\ Better(sd, q, r) => Better(sd, p, r)
         /\ Better(sd, p, q) \/ p = q \/ Better(sd, q, p)
BY DEF Better

\* The fields of a listed level.
LEMMA LevelFields ==
  ASSUME NEW l \in [Slots -> Level], NEW i \in Slots
  PROVE  l[i].px \in Nat /\ l[i].qty \in 0..QLim-1
<1>1. l[i] \in Level
  OBVIOUS
<1>2. Prices \cup {0} \subseteq Nat
  BY MessageAssumption
<1>3. l[i].px \in Prices \cup {0} /\ l[i].qty \in 0..QLim-1
  BY <1>1 DEF Level
<1> QED
  BY <1>2, <1>3

\* An insert goes below every level that is better than the new price and
\* above every level that is worse; what the shift drops is the last slot or
\* an empty one.
LEMMA InsertPlace ==
  ASSUME NEW l \in [Slots -> Level], NEW op \in Operation, NEW d,
         Sorted(op.side, l), Inserts(l, op, d)
  PROVE  /\ d.at \in Slots /\ d.last \in Slots /\ d.at <= d.last
         /\ \A i \in Slots : i < d.at =>
              l[i].qty # 0 /\ Better(op.side, l[i].px, op.px)
         /\ \A i \in Slots : i >= d.at /\ l[i].qty # 0 =>
              Better(op.side, op.px, l[i].px)
         /\ \A i \in Slots : i < d.last => l[i].qty # 0
         /\ \A i \in Slots : i > d.last => l[i].qty = 0
<1> DEFINE zero == ZeroSlots(l)
<1> DEFINE beaten == BeatenSlots(l, op.side, op.px)
<1>1. op.px \in Nat /\ \A i \in Slots : l[i].px \in Nat
  BY MessageAssumption, LevelFields DEF Operation
<1>2. zero \in SUBSET Slots /\ beaten \in SUBSET Slots
  BY DEF ZeroSlots, BeatenSlots
<1>3. d.at \in Slots /\ d.last \in Slots
  BY <1>2, InsertAtIsSlot, FirstOneIsSlot DEF Inserts
<1>4. \A i \in Slots : i < d.last => l[i].qty # 0
  <2>1. CASE zero = {}
    BY <2>1 DEF ZeroSlots
  <2>2. CASE zero # {}
    <3>1. \A j \in zero : d.last <= j
      BY <1>2, <2>2, FirstOneIsLowest DEF Inserts
    <3> QED
      BY <1>3, <3>1 DEF ZeroSlots, Slots
  <2> QED
    BY <2>1, <2>2
<1>5. \A i \in Slots : i > d.last => l[i].qty = 0
  <2>1. CASE zero = {}
    <3>1. d.last = P - 1
      BY <2>1 DEF Inserts, FirstOne
    <3> QED
      BY <3>1, LevelAssumption DEF Slots
  <2>2. CASE zero # {}
    <3>1. l[d.last].qty = 0
      BY <1>2, <2>2, FirstOneIsLowest DEF Inserts, ZeroSlots
    <3> QED
      BY <1>3, <3>1 DEF Sorted
  <2> QED
    BY <2>1, <2>2
<1>6. \A i \in Slots : l[i].qty # 0 /\ i \notin beaten =>
        Better(op.side, l[i].px, op.px)
  BY <1>1, BetterOrders DEF Inserts, EqSlots, BeatenSlots
<1>7. CASE beaten = {}
  <2>1. d.at = d.last
    BY <1>7 DEF Inserts, InsertAt
  <2>2. \A i \in Slots : i >= d.at => l[i].qty = 0
    <3>1. l[d.last].qty = 0
      BY <1>2, <1>7, FirstOneIsLowest DEF Inserts, ZeroSlots
    <3> QED
      BY <1>3, <1>5, <2>1, <3>1 DEF Slots
  <2> QED
    BY <1>3, <1>4, <1>5, <1>6, <1>7, <2>1, <2>2 DEF Slots
<1>8. CASE beaten # {}
  <2>1. d.at \in beaten /\ \A j \in beaten : d.at <= j
    BY <1>2, <1>8, FirstOneIsLowest DEF Inserts, InsertAt
  <2>2. l[d.at].qty # 0 /\ Better(op.side, op.px, l[d.at].px)
    BY <2>1 DEF BeatenSlots
  <2>3. d.at <= d.last
    BY <1>3, <1>5, <2>2 DEF Slots
  <2>4. \A i \in Slots : i < d.at => i \notin beaten
    BY <1>3, <2>1 DEF Slots
  <2>5. ASSUME NEW i \in Slots, i >= d.at, l[i].qty # 0
        PROVE  Better(op.side, op.px, l[i].px)
    <3>1. i = d.at \/ Better(op.side, l[d.at].px, l[i].px)
      BY <1>3, <2>5 DEF Sorted, Slots
    <3> QED
      BY <1>1, <1>3, <2>2, <3>1, BetterOrders
  <2>6. \A i \in Slots : i < d.at => l[i].qty # 0
    BY <1>3, <1>4, <2>3 DEF Slots
  <2> QED
    BY <1>3, <1>4, <1>5, <1>6, <2>3, <2>4, <2>5, <2>6
<1> QED
  BY <1>7, <1>8

\* No operation but one of zero shares can disturb the order.
LEMMA SortedKept ==
  ASSUME NEW l \in [Slots -> Level], NEW op \in Operation, op.delta # 0,
         op.delta < QLim, Sorted(op.side, l)
  PROVE  Sorted(op.side, Materialize(l, Decode(l, op), op.px))
<1>1. op.px \in Nat /\ op.delta \in Int
  BY MessageAssumption DEF Operation
<1>2. \A i \in Slots : l[i].px \in Nat /\ l[i].qty \in Nat
  BY LevelFields, LevelAssumption
<1>3. PICK d : d = Decode(l, op)
  OBVIOUS
<1>4. CASE d = Keep
  BY <1>3, <1>4, Written
<1>5. CASE Updates(l, op, d)
  <2>1. d.at \in Slots /\ l[d.at].qty # 0 /\ d.qty # 0
    BY <1>5, LevelAssumption DEF Updates, EqSlots
  <2>2. \A i \in Slots : /\ Updated(l, d)[i].px = l[i].px
                         /\ Updated(l, d)[i].qty # 0 <=> l[i].qty # 0
    <3> SUFFICES ASSUME NEW i \in Slots
                 PROVE  /\ Updated(l, d)[i].px = l[i].px
                        /\ Updated(l, d)[i].qty # 0 <=> l[i].qty # 0
      OBVIOUS
    <3>1. l[i] \in Level
      OBVIOUS
    <3>2. CASE i = d.at
      <4>1. Updated(l, d)[i] = [l[i] EXCEPT !.qty = d.qty]
        BY <2>1, <3>2 DEF Updated
      <4> QED
        BY <2>1, <3>1, <3>2, <4>1 DEF Level
    <3>3. CASE i # d.at
      BY <2>1, <3>3 DEF Updated
    <3> QED
      BY <3>2, <3>3
  <2>3. Sorted(op.side, Updated(l, d))
    BY <2>2 DEF Sorted
  <2> QED
    BY <1>3, <1>5, <2>3, Written
<1>6. CASE Removes(l, op, d)
  <2>1. d.at \in Slots
    BY <1>6 DEF Removes, EqSlots
  <2>2. \A i \in Slots :
          /\ i < d.at => Removed(l, d.at)[i] = l[i]
          /\ ~(i < d.at) /\ i < P - 1 => Removed(l, d.at)[i] = l[i+1]
          /\ ~(i < d.at) /\ ~(i < P - 1) => Removed(l, d.at)[i].qty = 0
    BY DEF Removed, EmptyLevel
  <2>3. ASSUME NEW i \in Slots, NEW j \in Slots, i < j, 
               Removed(l, d.at)[j].qty # 0
        PROVE  /\ Removed(l, d.at)[i].qty # 0
               /\ Better(op.side, Removed(l, d.at)[i].px, Removed(l, d.at)[j].px)
    <3>1. CASE j < d.at
      BY <2>1, <2>2, <2>3, <3>1 DEF Sorted, Slots
    <3>2. CASE ~(j < d.at)
      <4>1. j < P - 1 /\ Removed(l, d.at)[j] = l[j+1] /\ j + 1 \in Slots
        BY <2>2, <2>3, <3>2, LevelAssumption DEF Slots
      <4>2. CASE i < d.at
        BY <2>2, <2>3, <4>1, <4>2, LevelAssumption DEF Sorted, Slots
      <4>3. CASE ~(i < d.at)
        <5>1. Removed(l, d.at)[i] = l[i+1] /\ i + 1 \in Slots
          BY <2>2, <2>3, <4>1, <4>3, LevelAssumption DEF Slots
        <5> QED
          BY <2>3, <4>1, <5>1, LevelAssumption DEF Sorted, Slots
      <4> QED
        BY <4>2, <4>3
    <3> QED
      BY <3>1, <3>2
  <2>4. Sorted(op.side, Removed(l, d.at))
    BY <2>3 DEF Sorted
  <2> QED
    BY <1>3, <1>6, <2>4, Written
<1>7. CASE Inserts(l, op, d)
  <2> DEFINE new == Inserted(l, d, op.px)
  <2>1. /\ d.at \in Slots /\ d.last \in Slots /\ d.at <= d.last
        /\ \A i \in Slots : i < d.at =>
             l[i].qty # 0 /\ Better(op.side, l[i].px, op.px)
        /\ \A i \in Slots : i >= d.at /\ l[i].qty # 0 =>
             Better(op.side, op.px, l[i].px)
        /\ \A i \in Slots : i < d.last => l[i].qty # 0
        /\ \A i \in Slots : i > d.last => l[i].qty = 0
    BY <1>7, InsertPlace
  <2>2. \A i \in Slots :
          /\ i < d.at => new[i] = l[i]
          /\ i = d.at => new[i].px = op.px /\ new[i].qty = op.delta
          /\ i > d.at /\ i <= d.last => new[i] = l[i-1]
          /\ i > d.last => new[i] = l[i]
    BY <1>7, <2>1, LevelAssumption DEF Inserted, Inserts, Slots
  <2> HIDE DEF new
  <2>3. \A i \in Slots : i <= d.last => new[i].qty # 0
    BY <2>1, <2>2, LevelAssumption DEF Slots
  <2>4. \A i \in Slots : i > d.last => new[i].qty = 0
    BY <2>1, <2>2
  <2>5. ASSUME NEW i \in Slots, NEW j \in Slots, i < j, j <= d.last
        PROVE  Better(op.side, new[i].px, new[j].px)
    <3>1. CASE j < d.at
      <4>1. new[i] = l[i] /\ new[j] = l[j] /\ l[j].qty # 0
        BY <2>1, <2>2, <2>5, <3>1 DEF Slots
      <4> QED
        BY <2>5, <4>1 DEF Sorted
    <3>2. CASE j = d.at
      BY <2>1, <2>2, <2>5, <3>2
    <3>3. CASE j > d.at
      <4>1. new[j] = l[j-1] /\ j - 1 \in Slots /\ j - 1 >= d.at
            /\ j - 1 < d.last /\ l[j-1].qty # 0
        BY <2>1, <2>2, <2>5, <3>3, LevelAssumption DEF Slots
      <4>2. CASE i < d.at
        <5>1. new[i] = l[i] /\ i < j - 1
          BY <2>1, <2>2, <4>1, <4>2 DEF Slots
        <5> QED
          BY <4>1, <5>1 DEF Sorted
      <4>3. CASE i = d.at
        BY <2>1, <2>2, <4>1, <4>3
      <4>4. CASE i > d.at
        <5>1. new[i] = l[i-1] /\ i - 1 \in Slots /\ i - 1 < j - 1
          BY <2>1, <2>2, <2>5, <4>4, LevelAssumption DEF Slots
        <5> QED
          BY <4>1, <5>1 DEF Sorted
      <4> QED
        BY <2>1, <4>2, <4>3, <4>4 DEF Slots
    <3> QED
      BY <2>1, <3>1, <3>2, <3>3 DEF Slots
  <2>6. Sorted(op.side, new)
    BY <2>1, <2>3, <2>4, <2>5 DEF Sorted, Slots
  <2> QED
    BY <1>3, <1>7, <2>6, Written DEF new
<1> QED
  BY <1>3, <1>4, <1>5, <1>6, <1>7, DecodeCases

(***************************************************************************)
(* What the list shows                                                     *)
(***************************************************************************)
\* The list l shows exactly the prices that f gives a quantity.
Shows(l, f) ==
  /\ \A i \in Slots : l[i].qty # 0 => l[i].qty = f[l[i].px]
  /\ \A p \in Nat : f[p] # 0 => EqSlots(l, p) # {}

\* A price is listed once.
LEMMA ListedOnce ==
  ASSUME NEW l \in [Slots -> Level], NEW sd, Sorted(sd, l),
         NEW i \in Slots, NEW j \in Slots,
         l[i].qty # 0, l[j].qty # 0, l[i].px = l[j].px
  PROVE  i = j
<1>1. l[i].px \in Nat
  BY LevelFields
<1>2. ~(i < j) /\ ~(j < i)
  BY <1>1, BetterOrders DEF Sorted
<1> QED
  BY <1>2, LevelAssumption DEF Slots

\* An operation that is neither discarded nor pushes a level out changes the
\* quantity of its own price and of no other.
LEMMA ShowsKept ==
  ASSUME NEW l \in [Slots -> Level], NEW op \in Operation, NEW f \in [Nat -> Nat],
         op.delta # 0, f[op.px] + op.delta >= 0,
         Sorted(op.side, l), Shows(l, f),
         Decode(l, op).mode # "NONE",
         Decode(l, op).mode = "INSERT" => ZeroSlots(l) # {}
  PROVE  Shows(Materialize(l, Decode(l, op), op.px),
               [f EXCEPT ![op.px] = @ + op.delta])
<1> DEFINE g == [f EXCEPT ![op.px] = @ + op.delta]
<1>1. op.px \in Nat /\ op.delta \in Int
  BY MessageAssumption DEF Operation
<1>2. \A i \in Slots : l[i].px \in Nat /\ l[i].qty \in Nat
  BY LevelFields, LevelAssumption
<1>0. P \in Nat /\ \A i : i \in Slots <=> i \in Nat /\ i < P
  BY LevelAssumption DEF Slots
<1>3. PICK d : d = Decode(l, op)
  OBVIOUS
<1>4. d # Keep
  BY <1>3 DEF Keep
<1>5. /\ g[op.px] = f[op.px] + op.delta
      /\ \A p \in Nat : p # op.px => g[p] = f[p]
  BY <1>1
<1> HIDE DEF g
<1>6. CASE Updates(l, op, d)
  <2> DEFINE new == Updated(l, d)
  <2>1. d.at \in Slots /\ l[d.at].qty # 0 /\ l[d.at].px = op.px
        /\ d.qty = l[d.at].qty + op.delta /\ d.qty # 0
    BY <1>6, LevelAssumption DEF Updates, EqSlots
  <2>2. new[d.at].px = op.px /\ new[d.at].qty = d.qty
    <3>1. new[d.at] = [l[d.at] EXCEPT !.qty = d.qty] /\ l[d.at] \in Level
      BY <2>1 DEF Updated
    <3> QED
      BY <2>1, <3>1 DEF Level
  <2>3. \A i \in Slots : i # d.at => new[i] = l[i]
    BY <2>1 DEF Updated
  <2> HIDE DEF new
  <2>4. d.qty = g[op.px]
    BY <1>5, <2>1 DEF Shows
  <2>5. \A i \in Slots : i # d.at /\ l[i].qty # 0 => l[i].px # op.px
    BY <2>1, ListedOnce
  <2>6. \A i \in Slots : new[i].qty # 0 => new[i].qty = g[new[i].px]
    BY <1>2, <1>5, <2>2, <2>3, <2>4, <2>5 DEF Shows
  <2>7. ASSUME NEW p \in Nat, g[p] # 0 PROVE EqSlots(new, p) # {}
    <3>1. CASE p = op.px
      BY <2>1, <2>2, <3>1 DEF EqSlots
    <3>2. CASE p # op.px
      <4>1. PICK i \in Slots : l[i].qty # 0 /\ l[i].px = p
        BY <1>5, <2>7, <3>2 DEF Shows, EqSlots
      <4>2. new[i] = l[i]
        BY <2>1, <2>3, <3>2, <4>1
      <4> QED
        BY <4>1, <4>2 DEF EqSlots
    <3> QED
      BY <3>1, <3>2
  <2>8. Shows(new, g)
    BY <2>6, <2>7 DEF Shows
  <2> QED
    BY <1>3, <1>6, <2>8, Written DEF new, g
<1>7. CASE Removes(l, op, d)
  <2> DEFINE new == Removed(l, d.at)
  <2>1. d.at \in Slots /\ l[d.at].qty # 0 /\ l[d.at].px = op.px
        /\ l[d.at].qty + op.delta = 0
    BY <1>7 DEF Removes, EqSlots
  <2>0. d.at \in Slots
    BY <2>1
  <2>2. \A i \in Slots :
          /\ i < d.at => new[i] = l[i]
          /\ ~(i < d.at) /\ i < P - 1 => new[i] = l[i+1]
          /\ ~(i < d.at) /\ ~(i < P - 1) => new[i].qty = 0
    BY DEF Removed, EmptyLevel
  <2> HIDE DEF new
  <2>3. g[op.px] = 0
    BY <1>2, <1>5, <2>1 DEF Shows
  <2>4. \A i \in Slots : i # d.at /\ l[i].qty # 0 => l[i].px # op.px
    BY <2>1, ListedOnce
  <2>5. ASSUME NEW i \in Slots, new[i].qty # 0
        PROVE  \E j \in Slots : j # d.at /\ new[i] = l[j]
    <3>1. CASE i < d.at
      BY <1>0, <2>0, <2>2, <3>1
    <3>2. CASE ~(i < d.at)
      <4>1. i < P - 1 /\ new[i] = l[i+1]
        BY <2>2, <2>5, <3>2
      <4>2. i + 1 \in Slots /\ i + 1 # d.at
        BY <1>0, <2>0, <3>2, <4>1
      <4> QED
        BY <4>1, <4>2
    <3> QED
      BY <3>1, <3>2
  <2>6. \A i \in Slots : new[i].qty # 0 => new[i].qty = g[new[i].px]
    BY <1>2, <1>5, <2>4, <2>5 DEF Shows
  <2>7. ASSUME NEW p \in Nat, g[p] # 0 PROVE EqSlots(new, p) # {}
    <3>1. PICK i \in Slots : l[i].qty # 0 /\ l[i].px = p
      BY <1>5, <2>3, <2>7 DEF Shows, EqSlots
    <3>2. i # d.at
      BY <2>1, <2>3, <2>7, <3>1
    <3>3. CASE i < d.at
      BY <2>2, <3>1, <3>3 DEF EqSlots
    <3>4. CASE ~(i < d.at)
      <4>1. i - 1 \in Slots /\ ~(i - 1 < d.at) /\ i - 1 < P - 1
        BY <1>0, <2>0, <3>2, <3>4
      <4>2. new[i-1] = l[i]
        <5>1. new[i-1] = l[(i-1)+1]
          BY <2>2, <4>1
        <5> QED
          BY <1>0, <5>1
      <4> QED
        BY <3>1, <4>1, <4>2 DEF EqSlots
    <3> QED
      BY <3>3, <3>4
  <2>8. Shows(new, g)
    BY <2>6, <2>7 DEF Shows
  <2> QED
    BY <1>3, <1>7, <2>8, Written DEF new, g
<1>8. CASE Inserts(l, op, d)
  <2> DEFINE new == Inserted(l, d, op.px)
  <2>1. /\ d.at \in Slots /\ d.last \in Slots /\ d.at <= d.last
        /\ \A i \in Slots : i < d.last => l[i].qty # 0
        /\ \A i \in Slots : i > d.last => l[i].qty = 0
    BY <1>8, InsertPlace
  <2>0. d.at \in Slots /\ d.last \in Slots /\ d.at <= d.last
    BY <2>1
  <2>2. l[d.last].qty = 0
    <3>1. ZeroSlots(l) # {} /\ ZeroSlots(l) \in SUBSET Slots
      BY <1>3, <1>8 DEF Inserts, ZeroSlots
    <3> QED
      BY <1>8, <3>1, FirstOneIsLowest DEF Inserts, ZeroSlots
  <2>3. \A i \in Slots :
          /\ i < d.at => new[i] = l[i]
          /\ i = d.at => new[i].px = op.px /\ new[i].qty = op.delta
          /\ i > d.at /\ i <= d.last => new[i] = l[i-1]
          /\ i > d.last => new[i] = l[i]
    BY <1>8, <1>0, <2>0 DEF Inserted, Inserts
  <2> HIDE DEF new
  <2>4. \A i \in Slots : l[i].qty # 0 => l[i].px # op.px
    BY <1>8 DEF Inserts, EqSlots
  <2>5. g[op.px] = op.delta
    <3>1. f[op.px] = 0
      BY <1>1, <1>8 DEF Shows, Inserts
    <3> QED
      BY <1>1, <1>5, <3>1
  <2>6. ASSUME NEW i \in Slots, new[i].qty # 0 PROVE new[i].qty = g[new[i].px]
    <3>1. CASE i = d.at
      BY <2>3, <2>5, <3>1
    <3>2. CASE i # d.at
      <4>1. PICK j \in Slots : new[i] = l[j]
        <5>1. CASE i > d.at /\ i <= d.last
          <6>1. i - 1 \in Slots
            BY <1>0, <2>0, <5>1
          <6> QED
            BY <2>3, <5>1, <6>1
        <5>2. CASE ~(i > d.at /\ i <= d.last)
          BY <1>0, <2>0, <2>3, <3>2, <5>2
        <5> QED
          BY <5>1, <5>2
      <4> QED
        BY <1>2, <1>5, <2>4, <2>6, <4>1 DEF Shows
    <3> QED
      BY <3>1, <3>2
  <2>7. ASSUME NEW p \in Nat, g[p] # 0 PROVE EqSlots(new, p) # {}
    <3>1. CASE p = op.px
      BY <2>1, <2>3, <3>1 DEF EqSlots
    <3>2. CASE p # op.px
      <4>1. PICK i \in Slots : l[i].qty # 0 /\ l[i].px = p
        BY <1>5, <2>7, <3>2 DEF Shows, EqSlots
      <4>2. i < d.last
        BY <1>0, <2>0, <2>1, <2>2, <4>1
      <4>3. CASE i < d.at
        BY <2>3, <4>1, <4>3 DEF EqSlots
      <4>4. CASE ~(i < d.at)
        <5>1. i + 1 \in Slots /\ i + 1 > d.at /\ i + 1 <= d.last
          BY <1>0, <2>0, <4>2, <4>4
        <5>2. new[i+1] = l[i]
          <6>1. new[i+1] = l[(i+1)-1]
            BY <2>3, <5>1
          <6> QED
            BY <1>0, <2>0, <6>1
        <5> QED
          BY <4>1, <5>1, <5>2 DEF EqSlots
      <4> QED
        BY <4>3, <4>4
    <3> QED
      BY <3>1, <3>2
  <2>8. Shows(new, g)
    BY <2>6, <2>7 DEF Shows
  <2> QED
    BY <1>3, <1>8, <2>8, Written DEF new, g
<1> QED
  BY <1>3, <1>4, <1>6, <1>7, <1>8, DecodeCases

=============================================================================
