-------------------------- MODULE LevelSideProofs --------------------------
(***************************************************************************)
(* The level list of rtl/orderbook, for every number of levels, width of   *)
(* the quantities, set of prices and feed: its order is never lost, and    *)
(* until an overflow it is the book of the resting orders.                 *)
(***************************************************************************)
EXTENDS LevelSide, LevelListProofs

(***************************************************************************)
(* The state machine                                                       *)
(***************************************************************************)
\* What a share count becomes on its way into the pipeline fits its
\* arithmetic, and is zero for a count of zero only.
LEMMA Deltas ==
  ASSUME NEW q \in 0..MaxShares
  PROVE  /\ Signed(q) \in Int /\ Signed(q) < QLim
         /\ Negate(q) \in Int /\ Negate(q) < QLim
         /\ q # 0 => Signed(q) # 0 /\ Negate(q) # 0
<1>1. q \in Nat /\ q < QLim /\ QLim \in Nat
  BY MessageAssumption, LevelAssumption, SideAssumption
<1>2. \A x \in 0..QLim-1 :
        Signed(x) \in Int /\ Signed(x) < QLim /\ (x # 0 => Signed(x) # 0)
  BY <1>1 DEF Signed
<1>3. CASE q = 0
  <2>1. (QLim - q) % QLim = 0
    BY <1>1, <1>3
  <2> QED
    BY <1>1, <1>2, <1>3, <2>1 DEF Negate
<1>4. CASE q # 0
  <2>1. (QLim - q) % QLim = QLim - q
    BY <1>1, <1>4
  <2>2. QLim - q \in 0..QLim-1 /\ QLim - q # 0
    BY <1>1, <1>4
  <2> QED
    BY <1>1, <1>2, <1>4, <2>1, <2>2 DEF Negate
<1> QED
  BY <1>3, <1>4

\* The operation that a pass of the pipeline works on.
Op(px, delta) == [side |-> side, px |-> px, delta |-> delta]

\* Every step but a stutter is one pass of the pipeline for a share count.
LEMMA StepIsPass ==
  ASSUME TypeOK, Next
  PROVE  \E px \in Prices, q \in MinReduce..MaxShares :
           \E delta \in {Signed(q), Negate(q)} : Pipeline(px, delta)
<1>1. ASSUME NEW r \in Refs, NEW p \in Prices, NEW q \in 1..MaxShares, Add(r, p, q)
      PROVE  q \in MinReduce..MaxShares /\ Pipeline(p, Signed(q))
  BY <1>1, SideAssumption, MessageAssumption DEF Add
<1>2. ASSUME NEW r \in Refs, NEW q \in MinReduce..MaxShares, Reduce(r, q)
      PROVE  orders[r].px \in Prices /\ Pipeline(orders[r].px, Negate(q))
  BY <1>2, SideAssumption, MessageAssumption DEF Reduce, TypeOK
<1> QED
  BY <1>1, <1>2 DEF Next

\* The orders keep their type.
LEMMA OrdersType ==
  ASSUME TypeOK, Next
  PROVE  /\ DOMAIN orders' \subseteq Refs
         /\ orders' \in [DOMAIN orders' -> [px : Prices, qty : 1..MaxShares]]
<1>1. ASSUME NEW r \in Refs, NEW p \in Prices, NEW q \in 1..MaxShares, Add(r, p, q)
      PROVE  /\ DOMAIN orders' \subseteq Refs
             /\ orders' \in [DOMAIN orders' -> [px : Prices, qty : 1..MaxShares]]
  BY <1>1 DEF Add, TypeOK
<1>2. ASSUME NEW r \in Refs, NEW q \in MinReduce..MaxShares, Reduce(r, q)
      PROVE  /\ DOMAIN orders' \subseteq Refs
             /\ orders' \in [DOMAIN orders' -> [px : Prices, qty : 1..MaxShares]]
  <2>1. r \in DOMAIN orders /\ orders[r] \in [px : Prices, qty : 1..MaxShares]
        /\ q <= orders[r].qty /\ q \in Nat
    BY <1>2, SideAssumption DEF Reduce, TypeOK
  <2>2. CASE q = orders[r].qty
    BY <1>2, <2>2 DEF Reduce, TypeOK
  <2>3. CASE q # orders[r].qty
    <3>1. [orders[r] EXCEPT !.qty = @ - q] \in [px : Prices, qty : 1..MaxShares]
      BY <2>1, <2>3, MessageAssumption
    <3>2. orders' = [orders EXCEPT ![r] = [orders[r] EXCEPT !.qty = @ - q]]
      BY <1>2, <2>1, <2>3 DEF Reduce
    <3> QED
      BY <2>1, <3>1, <3>2 DEF TypeOK
  <2> QED
    BY <2>2, <2>3
<1> QED
  BY <1>1, <1>2 DEF Next

\* The list only ever holds prices that orders carry, with quantities of QW
\* bits: no operation of the pipeline wraps.
THEOREM TypeCorrect == Spec => []TypeOK
<1>1. Init => TypeOK
  <2> SUFFICES ASSUME Init PROVE TypeOK
    OBVIOUS
  <2>1. EmptyLevel \in Level
    BY LevelAssumption DEF EmptyLevel, Level
  <2>2. list \in [Slots -> Level]
    BY <2>1 DEF Init, EmptySide
  <2> QED
    BY <2>2 DEF Init, TypeOK
<1>2. TypeOK /\ [Next]_vars => TypeOK'
  <2> SUFFICES ASSUME TypeOK, [Next]_vars PROVE TypeOK'
    OBVIOUS
  <2>1. CASE Next
    <3>1. PICK px \in Prices, q \in MinReduce..MaxShares :
            \E delta \in {Signed(q), Negate(q)} : Pipeline(px, delta)
      BY <2>1, StepIsPass
    <3> PICK delta \in {Signed(q), Negate(q)} : Pipeline(px, delta)
      BY <3>1
    <3>2. q \in 0..MaxShares
      BY <3>1, SideAssumption, MessageAssumption
    <3>3. delta \in Int /\ delta < QLim
      BY <3>1, <3>2, Deltas
    <3>4. Op(px, delta) \in Operation /\ Op(px, delta).delta < QLim
      BY <3>1, <3>3 DEF Op, Operation, TypeOK
    <3>5. /\ list' = Materialize(list, Decode(list, Op(px, delta)), Op(px, delta).px)
          /\ signalled' \in BOOLEAN /\ pushedOut' \in BOOLEAN /\ side' = side
      BY <3>1 DEF Pipeline, Op, TypeOK
    <3>6. list' \in [Slots -> Level]
      BY <3>4, <3>5, MaterializeType DEF TypeOK
    <3> QED
      BY <2>1, <3>5, <3>6, OrdersType DEF TypeOK
  <2>2. CASE UNCHANGED vars
    BY <2>2 DEF vars, TypeOK
  <2> QED
    BY <2>1, <2>2
<1> QED
  BY <1>1, <1>2, PTL DEF Spec

\* Where no execution is of zero shares, the levels of a side are always a
\* prefix of its slots in strict price order, best first: after signalled
\* overflows and silent push-outs as well.
THEOREM OrderedAlways ==
  ASSUME MinReduce = 1
  PROVE  Spec => []Ordered
<1>1. Init => Ordered
  BY LevelAssumption DEF Init, Ordered, EmptySide, EmptyLevel
<1>2. TypeOK /\ Ordered /\ [Next]_vars => Ordered'
  <2> SUFFICES ASSUME TypeOK, Ordered, [Next]_vars PROVE Ordered'
    OBVIOUS
  <2>1. CASE Next
    <3>1. PICK px \in Prices, q \in MinReduce..MaxShares :
            \E delta \in {Signed(q), Negate(q)} : Pipeline(px, delta)
      BY <2>1, StepIsPass
    <3> PICK delta \in {Signed(q), Negate(q)} : Pipeline(px, delta)
      BY <3>1
    <3>2. q \in 0..MaxShares /\ q # 0
      BY <3>1, MessageAssumption
    <3>3. delta \in Int /\ delta < QLim /\ delta # 0
      BY <3>1, <3>2, Deltas
    <3> DEFINE op == Op(px, delta)
    <3>4. op \in Operation /\ op.delta < QLim /\ op.delta # 0 /\ op.side = side
      BY <3>1, <3>3 DEF Op, Operation, TypeOK
    <3>5. list' = Materialize(list, Decode(list, op), op.px) /\ side' = side
      BY <3>1 DEF Pipeline, Op
    <3>6. Sorted(op.side, list)
      BY <3>4 DEF Ordered, Sorted
    <3> HIDE DEF op
    <3>7. Sorted(op.side, list')
      BY <3>4, <3>5, <3>6, SortedKept DEF TypeOK
    <3> QED
      BY <3>4, <3>5, <3>7 DEF Ordered, Sorted
  <2>2. CASE UNCHANGED vars
    BY <2>2 DEF vars, Ordered
  <2> QED
    BY <2>1, <2>2
<1> QED
  BY <1>1, <1>2, TypeCorrect, PTL DEF Spec

(***************************************************************************)
(* The orders behind the list                                              *)
(***************************************************************************)
Resting == [px : Prices, qty : 1..MaxShares]

\* SharesAt, of any orders, as a subset of one finite set.
Units(ords, p) ==
  {u \in Refs \X (1..MaxShares) :
     /\ u[1] \in DOMAIN ords
     /\ ords[u[1]].px = p
     /\ u[2] <= ords[u[1]].qty}

\* SharesAt is that subset.
LEMMA SharesAreUnits ==
  ASSUME NEW ords, DOMAIN ords \subseteq Refs, ords \in [DOMAIN ords -> Resting],
         NEW p
  PROVE  UNION {{r} \X (1..ords[r].qty) : r \in {x \in DOMAIN ords : ords[x].px = p}}
           = Units(ords, p)
<1> DEFINE U == UNION {{r} \X (1..ords[r].qty) :
                         r \in {x \in DOMAIN ords : ords[x].px = p}}
<1>1. \A r \in DOMAIN ords : r \in Refs /\ ords[r].qty \in 1..MaxShares
  BY DEF Resting
<1>2. ASSUME NEW u \in U PROVE u \in Units(ords, p)
  <2>1. PICK r \in DOMAIN ords : ords[r].px = p /\ u \in {r} \X (1..ords[r].qty)
    OBVIOUS
  <2>2. u = <<r, u[2]>> /\ u[2] \in 1..ords[r].qty
    BY <2>1
  <2> QED
    BY <1>1, <2>1, <2>2, MessageAssumption DEF Units
<1>3. ASSUME NEW u \in Units(ords, p) PROVE u \in U
  <2>1. u[1] \in DOMAIN ords /\ ords[u[1]].px = p
        /\ u \in {u[1]} \X (1..ords[u[1]].qty)
    BY <1>1, MessageAssumption DEF Units
  <2> QED
    BY <2>1
<1> QED
  BY <1>2, <1>3

\* They are finitely many, and none exactly where no order rests.
LEMMA UnitsFinite ==
  ASSUME NEW ords, DOMAIN ords \subseteq Refs, ords \in [DOMAIN ords -> Resting],
         NEW p
  PROVE  /\ IsFiniteSet(Units(ords, p))
         /\ Cardinality(Units(ords, p)) \in Nat
         /\ \A r \in DOMAIN ords :
              ords[r].px = p => Cardinality(Units(ords, p)) # 0
<1>1. IsFiniteSet(Refs \X (1..MaxShares))
  <2>1. IsFiniteSet(1..MaxShares)
    BY MessageAssumption, FS_Interval
  <2> QED
    BY <2>1, SideAssumption, FS_Product
<1>2. Units(ords, p) \in SUBSET (Refs \X (1..MaxShares))
  BY DEF Units
<1>3. IsFiniteSet(Units(ords, p))
  BY <1>1, <1>2, FS_Subset
<1>4. ASSUME NEW r \in DOMAIN ords, ords[r].px = p
      PROVE  Units(ords, p) # {}
  <2>1. ords[r].qty \in 1..MaxShares /\ r \in Refs
    BY DEF Resting
  <2>2. <<r, 1>> \in Units(ords, p)
    BY <1>4, <2>1, MessageAssumption DEF Units
  <2> QED
    BY <2>2
<1> QED
  BY <1>3, <1>4, FS_CardinalityType, FS_EmptySet

\* The units of one order from the one after k to the n-th after it.
Block(r, k, n) == {r} \X (k+1..k+n)

LEMMA BlockSize ==
  ASSUME NEW r, NEW k \in Nat, NEW n \in Nat
  PROVE  IsFiniteSet(Block(r, k, n)) /\ Cardinality(Block(r, k, n)) = n
<1>1. IsFiniteSet(k+1..k+n) /\ Cardinality(k+1..k+n) = n
  BY FS_Interval
<1>2. IsFiniteSet({r}) /\ Cardinality({r}) = 1
  BY FS_Singleton
<1>3. /\ IsFiniteSet({r} \X (k+1..k+n))
      /\ Cardinality({r} \X (k+1..k+n)) = 1 * n
  BY <1>1, <1>2, FS_Product
<1> QED
  BY <1>3 DEF Block

\* What is added to a set that it does not meet.
LEMMA DisjointUnion ==
  ASSUME NEW A, NEW B, IsFiniteSet(A), IsFiniteSet(B), A \cap B = {}
  PROVE  Cardinality(A \cup B) = Cardinality(A) + Cardinality(B)
<1>1. Cardinality(A \cup B) = Cardinality(A) + Cardinality(B) - Cardinality(A \cap B)
  BY FS_Union
<1>2. /\ Cardinality(A) \in Nat /\ Cardinality(B) \in Nat
      /\ Cardinality(A \cap B) = 0
  BY FS_CardinalityType, FS_EmptySet
<1> QED
  BY <1>1, <1>2

\* The orders once q shares of a new order r rest at price p.
Gained(ords, r, p, q) ==
  [x \in DOMAIN ords \cup {r} |->
     IF x = r THEN [px |-> p, qty |-> q] ELSE ords[x]]

\* An order that arrives adds its shares to its price and to no other.
LEMMA UnitsAdded ==
  ASSUME NEW ords, DOMAIN ords \subseteq Refs, ords \in [DOMAIN ords -> Resting],
         NEW r \in Refs, r \notin DOMAIN ords,
         NEW p \in Prices, NEW q \in 1..MaxShares,
         NEW more, more = Gained(ords, r, p, q)
  PROVE  /\ Cardinality(Units(more, p)) = Cardinality(Units(ords, p)) + q
         /\ \A x : x # p => Units(more, x) = Units(ords, x)
<1>1. \A x \in DOMAIN ords : ords[x].qty \in 1..MaxShares
  BY DEF Resting
<1>2. Units(more, p) = Units(ords, p) \cup Block(r, 0, q)
  BY <1>1, MessageAssumption DEF Units, Block, Gained
<1>3. Units(ords, p) \cap Block(r, 0, q) = {}
  BY DEF Units, Block
<1>4. ASSUME NEW x, x # p PROVE Units(more, x) = Units(ords, x)
  BY <1>4 DEF Units, Gained
<1>5. q \in Nat
  BY MessageAssumption
<1>6. /\ IsFiniteSet(Units(ords, p)) /\ IsFiniteSet(Block(r, 0, q))
      /\ Cardinality(Block(r, 0, q)) = q
  BY <1>5, UnitsFinite, BlockSize
<1> QED
  BY <1>2, <1>3, <1>4, <1>6, DisjointUnion

\* The orders after a reduction of order r by q shares.
Lost(ords, r, q) ==
  IF q = ords[r].qty THEN [x \in DOMAIN ords \ {r} |-> ords[x]]
  ELSE [ords EXCEPT ![r].qty = @ - q]

\* An order that loses q shares takes them from its price and from no other.
LEMMA UnitsRemoved ==
  ASSUME NEW ords, DOMAIN ords \subseteq Refs, ords \in [DOMAIN ords -> Resting],
         NEW r \in DOMAIN ords, NEW q \in Nat, q <= ords[r].qty,
         NEW less, less = Lost(ords, r, q),
         DOMAIN less \subseteq Refs, less \in [DOMAIN less -> Resting]
  PROVE  /\ Cardinality(Units(ords, ords[r].px)) =
              Cardinality(Units(less, ords[r].px)) + q
         /\ \A x : x # ords[r].px => Units(less, x) = Units(ords, x)
<1> DEFINE p == ords[r].px
<1> DEFINE k == ords[r].qty - q
<1>1. \A x \in DOMAIN ords : ords[x].qty \in 1..MaxShares /\ ords[x].qty \in Nat
  BY MessageAssumption DEF Resting
<1>2. k \in Nat /\ k + q = ords[r].qty
  BY <1>1
<1>3. /\ \A x \in DOMAIN ords : x # r => x \in DOMAIN less /\ less[x] = ords[x]
      /\ DOMAIN less \subseteq DOMAIN ords
      /\ r \in DOMAIN less => less[r].px = p /\ less[r].qty = k
      /\ r \notin DOMAIN less => k = 0
  <2>1. CASE q = ords[r].qty
    BY <1>1, <2>1 DEF Lost
  <2>2. CASE q # ords[r].qty
    <3>1. less = [ords EXCEPT ![r] = [ords[r] EXCEPT !.qty = @ - q]]
      BY <2>2 DEF Lost
    <3>2. ords[r] \in Resting
      OBVIOUS
    <3> QED
      BY <3>1, <3>2 DEF Resting
  <2> QED
    BY <2>1, <2>2
<1>4. Units(ords, p) = Units(less, p) \cup Block(r, k, q)
  <2>1. ASSUME NEW u \in Refs \X (1..MaxShares)
        PROVE  u \in Units(ords, p) <=> u \in Units(less, p) \/ u \in Block(r, k, q)
    <3>1. u[2] \in Nat /\ u[2] >= 1 /\ u = <<u[1], u[2]>>
      BY MessageAssumption
    <3>2. u \in Block(r, k, q) <=> u[1] = r /\ u[2] > k /\ u[2] <= ords[r].qty
      BY <1>2, <3>1 DEF Block
    <3>3. u \in Units(ords, p) <=>
            u[1] \in DOMAIN ords /\ ords[u[1]].px = p /\ u[2] <= ords[u[1]].qty
      BY DEF Units
    <3>4. u \in Units(less, p) <=>
            u[1] \in DOMAIN less /\ less[u[1]].px = p /\ u[2] <= less[u[1]].qty
      BY DEF Units
    <3>5. CASE u[1] = r
      BY <1>1, <1>2, <1>3, <3>1, <3>2, <3>3, <3>4, <3>5
    <3>6. CASE u[1] # r
      BY <1>3, <3>2, <3>3, <3>4, <3>6
    <3> QED
      BY <3>5, <3>6
  <2>2. Block(r, k, q) \subseteq Refs \X (1..MaxShares)
    BY <1>1, <1>2, MessageAssumption DEF Block
  <2> QED
    BY <2>1, <2>2 DEF Units
<1>5. Units(less, p) \cap Block(r, k, q) = {}
  BY <1>2, <1>3, MessageAssumption DEF Units, Block
<1>6. ASSUME NEW x, x # p PROVE Units(less, x) = Units(ords, x)
  <2>1. ASSUME NEW u \in Refs \X (1..MaxShares)
        PROVE  u \in Units(less, x) <=> u \in Units(ords, x)
    BY <1>3, <1>6 DEF Units
  <2> QED
    BY <2>1 DEF Units
<1>7. /\ IsFiniteSet(Units(less, p)) /\ IsFiniteSet(Block(r, k, q))
      /\ Cardinality(Block(r, k, q)) = q
  BY <1>2, UnitsFinite, BlockSize
<1> QED
  BY <1>4, <1>5, <1>6, <1>7, DisjointUnion

(***************************************************************************)
(* The list is the book of the orders                                      *)
(***************************************************************************)
Quantities(ords) == [p \in Nat |-> Cardinality(Units(ords, p))]

\* The second half of Agrees, of any list and orders, in terms of Shows.
LEMMA ShowsOrders ==
  ASSUME NEW l \in [Slots -> Level],
         NEW ords, DOMAIN ords \subseteq Refs, ords \in [DOMAIN ords -> Resting]
  PROVE  Shows(l, Quantities(ords)) <=>
           /\ \A i \in Slots :
                l[i].qty # 0 => l[i].qty = Cardinality(Units(ords, l[i].px))
           /\ \A r \in DOMAIN ords : EqSlots(l, ords[r].px) # {}
<1>1. \A i \in Slots : l[i].px \in Nat
  BY LevelFields
<1>2. \A r \in DOMAIN ords : ords[r].px \in Nat
  BY MessageAssumption DEF Resting
<1>3. \A p \in Nat : Quantities(ords)[p] = Cardinality(Units(ords, p))
  BY DEF Quantities
<1>4. \A r \in DOMAIN ords : Quantities(ords)[ords[r].px] # 0
  BY <1>2, <1>3, UnitsFinite
<1>5. ASSUME NEW p \in Nat, Quantities(ords)[p] # 0
      PROVE  \E r \in DOMAIN ords : ords[r].px = p
  <2>1. Units(ords, p) # {}
    BY <1>3, <1>5, FS_EmptySet
  <2> QED
    BY <2>1 DEF Units
<1> QED
  BY <1>1, <1>2, <1>3, <1>4, <1>5 DEF Shows

\* The quantities are natural numbers.
LEMMA QuantitiesType ==
  ASSUME NEW ords, DOMAIN ords \subseteq Refs, ords \in [DOMAIN ords -> Resting]
  PROVE  Quantities(ords) \in [Nat -> Nat]
BY UnitsFinite DEF Quantities

\* Share counts below half the range of QW bits are never taken for negative.
LEMMA SignsKept ==
  ASSUME 2 * MaxShares < QLim, NEW q \in 1..MaxShares
  PROVE  Signed(q) = q /\ Negate(q) = -q
<1>1. q \in Nat /\ q > 0 /\ 2 * q < QLim /\ QLim \in Nat
  BY MessageAssumption, LevelAssumption
<1>2. (QLim - q) % QLim = QLim - q
  BY <1>1
<1> QED
  BY <1>1, <1>2 DEF Signed, Negate

\* Agrees is Shows for the quantities of the orders.
LEMMA AgreesShows ==
  ASSUME TypeOK
  PROVE  Agrees <=> (~signalled /\ ~pushedOut => Shows(list, Quantities(orders)))
<1>1. \A p : QtyAt(p) = Cardinality(Units(orders, p))
  BY SharesAreUnits DEF QtyAt, SharesAt, At, TypeOK, Resting
<1> QED
  BY <1>1, ShowsOrders DEF Agrees, TypeOK, Resting

\* f with delta more at price p.
Moved(f, p, delta) == [f EXCEPT ![p] = @ + delta]

\* What a pass that is not discarded and pushes nothing out does to Shows.
LEMMA PassShows ==
  ASSUME TypeOK, Ordered, NEW px \in Prices, NEW delta \in Int, delta # 0,
         NEW f \in [Nat -> Nat], f[px] + delta >= 0, Shows(list, f),
         Pipeline(px, delta), ~signalled', ~pushedOut'
  PROVE  Shows(list', Moved(f, px, delta))
<1> DEFINE op == Op(px, delta)
<1>1. op \in Operation /\ op.delta = delta /\ op.px = px /\ op.side = side
  BY DEF Op, Operation, TypeOK
<1>2. list' = Materialize(list, Decode(list, op), op.px)
  BY DEF Pipeline, Op
<1>3. /\ Decode(list, op).mode # "NONE"
      /\ Decode(list, op).mode = "INSERT" => ZeroSlots(list) # {}
  BY DEF Pipeline, Op, DecodeError
<1>4. Sorted(op.side, list) /\ list \in [Slots -> Level]
  BY <1>1 DEF Ordered, Sorted, TypeOK
<1> HIDE DEF op
<1> QED
  BY <1>1, <1>2, <1>3, <1>4, ShowsKept DEF Moved

\* AgreesShows, of the next state.
LEMMA AgreesShowsNext ==
  ASSUME TypeOK'
  PROVE  Agrees' <=>
           (~signalled' /\ ~pushedOut' => Shows(list', Quantities(orders')))
<1>1. \A p : QtyAt(p)' = Cardinality(Units(orders', p))
  BY SharesAreUnits DEF QtyAt, SharesAt, At, TypeOK, Resting
<1> QED
  BY <1>1, ShowsOrders DEF Agrees, TypeOK, Resting

\* Until the first overflow the list holds exactly the levels that the
\* resting orders make up, with their quantities: where no execution is of
\* zero shares and share counts stay below half the range of a quantity.
THEOREM AgreesAlways ==
  ASSUME MinReduce = 1, 2 * MaxShares < QLim
  PROVE  Spec => []Agrees
<1>1. Init => Agrees
  BY DEF Init, Agrees, EmptySide, EmptyLevel
<1>2. TypeOK /\ TypeOK' /\ Ordered /\ Agrees /\ [Next]_vars => Agrees'
  <2> SUFFICES ASSUME TypeOK, TypeOK', Ordered, Agrees, [Next]_vars,
                      ~signalled', ~pushedOut'
               PROVE  Shows(list', Quantities(orders'))
    BY AgreesShowsNext
  <2> DEFINE f == Quantities(orders)
  <2>1. /\ DOMAIN orders \subseteq Refs
        /\ orders \in [DOMAIN orders -> Resting]
        /\ DOMAIN orders' \subseteq Refs
        /\ orders' \in [DOMAIN orders' -> Resting]
    BY DEF TypeOK, Resting
  <2>2. f \in [Nat -> Nat] /\ Quantities(orders') \in [Nat -> Nat]
    BY <2>1, QuantitiesType
  <2>3. ASSUME NEW r \in Refs, NEW p \in Prices, NEW q \in 1..MaxShares,
               Add(r, p, q)
        PROVE  Shows(list', Quantities(orders'))
    <3>1. Signed(q) = q /\ q \in Int /\ q > 0
      BY SignsKept, MessageAssumption
    <3>2. Pipeline(p, q) /\ ~signalled /\ ~pushedOut
      BY <2>3, <3>1 DEF Add, Pipeline
    <3>3. Shows(list, f)
      BY <3>2, AgreesShows
    <3>4. p \in Nat /\ f[p] + q >= 0
      BY <2>2, <3>1, MessageAssumption
    <3>5. /\ Cardinality(Units(orders', p)) = Cardinality(Units(orders, p)) + q
          /\ \A x : x # p => Units(orders', x) = Units(orders, x)
      <4>1. orders' = Gained(orders, r, p, q) /\ r \notin DOMAIN orders
        BY <2>3 DEF Add, Gained
      <4> QED
        BY <2>1, <4>1, UnitsAdded
    <3>6. Quantities(orders') = Moved(f, p, q)
      BY <3>4, <3>5 DEF Quantities, Moved
    <3> HIDE DEF f
    <3> QED
      BY <2>2, <3>1, <3>2, <3>3, <3>4, <3>6, PassShows
  <2>4. ASSUME NEW r \in Refs, NEW q \in MinReduce..MaxShares, Reduce(r, q)
        PROVE  Shows(list', Quantities(orders'))
    <3> DEFINE p == orders[r].px
    <3>1. q \in 1..MaxShares /\ q \in Nat /\ q > 0 /\ Negate(q) = -q
      BY SignsKept, MessageAssumption
    <3>2. Pipeline(p, -q) /\ ~signalled /\ ~pushedOut
      BY <2>4, <3>1 DEF Reduce, Pipeline
    <3>3. Shows(list, f)
      BY <3>2, AgreesShows
    <3>4. p \in Prices /\ p \in Nat
      BY <2>1, <2>4, MessageAssumption DEF Reduce, Resting
    <3>5. /\ Cardinality(Units(orders, p)) = Cardinality(Units(orders', p)) + q
          /\ \A x : x # p => Units(orders', x) = Units(orders, x)
      <4>1. orders' = Lost(orders, r, q) /\ r \in DOMAIN orders /\ q <= orders[r].qty
        BY <2>4 DEF Reduce, Lost
      <4> QED
        BY <2>1, <3>1, <4>1, UnitsRemoved
    <3>6. Cardinality(Units(orders, p)) \in Nat /\ Cardinality(Units(orders', p)) \in Nat
      BY <2>1, UnitsFinite
    <3> HIDE DEF p
    <3>7. f[p] + (-q) >= 0 /\ -q \in Int /\ -q # 0
      BY <3>1, <3>4, <3>5, <3>6 DEF Quantities
    <3>8. Quantities(orders') = Moved(f, p, -q)
      <4>1. \A x \in Nat : Quantities(orders')[x] = IF x = p THEN f[x] + (-q) ELSE f[x]
        BY <3>1, <3>4, <3>5, <3>6 DEF Quantities
      <4> HIDE DEF f
      <4> QED
        BY <2>2, <4>1 DEF Moved
    <3>9. PICK delta \in Int : delta = -q
      BY <3>7
    <3> HIDE DEF f
    <3> QED
      BY <2>2, <3>2, <3>3, <3>4, <3>7, <3>8, <3>9, PassShows
  <2>5. CASE UNCHANGED vars
    BY <2>5, AgreesShows DEF vars
  <2> QED
    BY <2>3, <2>4, <2>5 DEF Next
<1> QED
  BY <1>1, <1>2, TypeCorrect, OrderedAlways, PTL DEF Spec

=============================================================================
