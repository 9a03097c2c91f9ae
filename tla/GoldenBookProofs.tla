-------------------------- MODULE GoldenBookProofs --------------------------
(***************************************************************************)
(* The reference book keeps its redundant structures in agreement, for any *)
(* references, locates, prices and share counts and for any feed.          *)
(***************************************************************************)
EXTENDS GoldenBook, FiniteSetTheorems, WellFoundedInduction, TLAPS

(***************************************************************************)
(* The extreme of a set of prices                                          *)
(***************************************************************************)
LEMMA LeastExists ==
  ASSUME NEW S \in SUBSET Nat, S # {}
  PROVE  \E x \in S : \A y \in S : x <= y
<1> DEFINE R == OpToRel(<, Nat)
<1>1. IsWellFoundedOn(R, Nat)
  BY NatLessThanWellFounded
<1>2. PICK x \in S : \A y \in S : <<y, x>> \notin R
  <2> HIDE DEF R
  <2> QED
    BY <1>1, WFMin
<1>3. \A y \in S : ~(y < x)
  BY <1>2 DEF OpToRel
<1> QED
  BY <1>3

\* Prices are bounded, so the largest of some of them is the one that is
\* closest to the bound.
LEMMA GreatestExists ==
  ASSUME NEW S \in SUBSET Prices, S # {}
  PROVE  \E x \in S : \A y \in S : y <= x
<1>1. PICK top \in Prices : \A p \in Prices : p <= top
  BY MessageAssumption
<1> DEFINE T == {top - p : p \in S}
<1>2. T \in SUBSET Nat /\ T # {}
  <2>1. ASSUME NEW p \in S PROVE top - p \in Nat
    <3>1. p \in Nat /\ top \in Nat /\ p <= top
      BY <1>1, MessageAssumption
    <3> QED
      BY <3>1
  <2> QED
    BY <2>1
<1>3. PICK t \in T : \A u \in T : t <= u
  <2> HIDE DEF T
  <2> QED
    BY <1>2, LeastExists
<1>4. PICK x \in S : t = top - x
  BY <1>3
<1>5. ASSUME NEW y \in S PROVE y <= x
  <2>1. top - y \in T
    OBVIOUS
  <2>2. top - x <= top - y
    BY <1>3, <1>4, <2>1
  <2>3. {top, x, y} \subseteq Nat
    BY <1>1, MessageAssumption
  <2> QED
    BY <2>2, <2>3
<1> QED
  BY <1>5

\* What the choice of Extreme is, of prices that exist.
LEMMA ExtremeIs ==
  ASSUME NEW s \in Sides, NEW S \in SUBSET Prices, S # {}
  PROVE  /\ Extreme(s, S) \in S
         /\ \A q \in S : q = Extreme(s, S) \/ Better(s, Extreme(s, S), q)
<1>1. S \in SUBSET Nat
  BY MessageAssumption
<1>2. \E p \in S : \A q \in S : p = q \/ Better(s, p, q)
  <2>1. CASE s = "B"
    <3>1. PICK p \in S : \A q \in S : q <= p
      BY GreatestExists
    <3>2. \A q \in S : p = q \/ p > q
      BY <1>1, <3>1
    <3> QED
      BY <2>1, <3>2 DEF Better
  <2>2. CASE s = "S"
    <3>1. PICK p \in S : \A q \in S : p <= q
      BY <1>1, LeastExists
    <3>2. \A q \in S : p = q \/ p < q
      BY <1>1, <3>1
    <3> QED
      BY <2>2, <3>2 DEF Better
  <2> QED
    BY <2>1, <2>2 DEF Sides
<1> QED
  BY <1>2 DEF Extreme

(***************************************************************************)
(* Levels and the cached best price                                        *)
(***************************************************************************)
GoodLevel(level) ==
  /\ DOMAIN level \subseteq Prices
  /\ \A p \in DOMAIN level : level[p] \in Nat \ {0}
  /\ level = [p \in DOMAIN level |-> level[p]]

\* Price c is the extreme one of a level dictionary of side s.
GoodBest(s, level, c) ==
  IF c = NoPrice THEN DOMAIN level = {}
  ELSE /\ c \in DOMAIN level
       /\ \A p \in DOMAIN level : p = c \/ Better(s, c, p)

GoodBook(b) ==
  /\ DOMAIN b.levels = Keys
  /\ b.best \in [Keys -> Prices \cup {NoPrice}]
  /\ \A k \in Keys : GoodLevel(b.levels[k]) /\ GoodBest(k[2], b.levels[k], b.best[k])

\* A level dictionary after one quantity of it has become n.
LevelWith(level, p, n) == IF n = 0 THEN Drop(level, p) ELSE Put(level, p, n)

LEMMA LevelWithGood ==
  ASSUME NEW level, GoodLevel(level), NEW p \in Prices, NEW n \in Nat
  PROVE  /\ GoodLevel(LevelWith(level, p, n))
         /\ QtyAt(LevelWith(level, p, n), p) = n
         /\ \A x : x # p => QtyAt(LevelWith(level, p, n), x) = QtyAt(level, x)
<1>1. CASE n = 0
  BY <1>1 DEF LevelWith, Drop, GoodLevel, QtyAt
<1>2. CASE n # 0
  BY <1>2 DEF LevelWith, Put, GoodLevel, QtyAt
<1> QED
  BY <1>1, <1>2

\* The price that _level_add caches.
NewBest(s, level, c, p, n) ==
  IF c = NoPrice \/ Better(s, p, c) THEN p
  ELSE IF p = c /\ n = 0 THEN Extreme(s, DOMAIN LevelWith(level, p, n))
  ELSE c

LEMMA NewBestGood ==
  ASSUME NEW s \in Sides, NEW level, GoodLevel(level),
         NEW c \in Prices \cup {NoPrice}, GoodBest(s, level, c),
         NEW p \in Prices, NEW n \in Nat, p \in DOMAIN level \/ n # 0
  PROVE  /\ NewBest(s, level, c, p, n) \in Prices \cup {NoPrice}
         /\ GoodBest(s, LevelWith(level, p, n), NewBest(s, level, c, p, n))
<1> DEFINE after == LevelWith(level, p, n)
<1> DEFINE e == Extreme(s, DOMAIN after)
<1>1. /\ DOMAIN after = IF n = 0 THEN DOMAIN level \ {p} ELSE DOMAIN level \cup {p}
      /\ DOMAIN after \in SUBSET Prices
  BY DEF GoodLevel, LevelWith, Drop, Put
<1>2. /\ Prices \subseteq Nat /\ NoPrice \notin Prices
      /\ DOMAIN level \subseteq Prices
  BY MessageAssumption DEF NoPrice, GoodLevel
<1>3. /\ DOMAIN after # {} => /\ e \in DOMAIN after
                              /\ \A q \in DOMAIN after : q = e \/ Better(s, e, q)
      /\ DOMAIN after = {} => e = NoPrice
  BY <1>1, ExtremeIs DEF Extreme
<1>4. \A x, y, z \in Prices :
        /\ Better(s, x, y) /\ Better(s, y, z) => Better(s, x, z)
        /\ ~Better(s, x, x)
        /\ x = y \/ Better(s, x, y) \/ Better(s, y, x)
  BY <1>2 DEF Better
<1> HIDE DEF after, e
<1>5. CASE c = NoPrice
  <2>1. DOMAIN level = {} /\ n # 0
    BY <1>5 DEF GoodBest
  <2>2. DOMAIN after = {p}
    BY <1>1, <2>1
  <2> QED
    BY <1>2, <1>5, <2>2 DEF NewBest, GoodBest, after
<1>6. CASE c # NoPrice
  <2>1. c \in DOMAIN level /\ c \in Prices
        /\ \A q \in DOMAIN level : q = c \/ Better(s, c, q)
    BY <1>2, <1>6 DEF GoodBest
  <2>2. CASE Better(s, p, c)
    <3>1. p \notin DOMAIN level
      BY <1>4, <2>1, <2>2
    <3>2. DOMAIN after = DOMAIN level \cup {p}
      BY <1>1, <3>1
    <3>3. \A q \in DOMAIN after : q = p \/ Better(s, p, q)
      BY <1>2, <1>4, <2>1, <2>2, <3>2
    <3> QED
      BY <1>2, <2>2, <3>2, <3>3 DEF NewBest, GoodBest, after
  <2>3. CASE ~Better(s, p, c) /\ p = c /\ n = 0
    <3>1. NewBest(s, level, c, p, n) = e
      BY <1>6, <2>3 DEF NewBest, e, after
    <3> QED
      BY <1>1, <1>2, <1>3, <3>1 DEF GoodBest, after
  <2>4. CASE ~Better(s, p, c) /\ ~(p = c /\ n = 0)
    <3>1. NewBest(s, level, c, p, n) = c
      BY <1>6, <2>4 DEF NewBest
    <3>2. c \in DOMAIN after
      BY <1>1, <2>1, <2>4
    <3>3. \A q \in DOMAIN after : q = c \/ Better(s, c, q)
      BY <1>1, <1>4, <2>1, <2>4
    <3> QED
      BY <1>6, <2>1, <3>1, <3>2, <3>3 DEF GoodBest, after
  <2> QED
    BY <2>2, <2>3, <2>4
<1> QED
  BY <1>5, <1>6

\* From book b to c one quantity, at price p of side k, changed by d.
Moved(b, c, k, p, d) ==
  /\ QtyAt(c.levels[k], p) = QtyAt(b.levels[k], p) + d
  /\ \A x : x # p => QtyAt(c.levels[k], x) = QtyAt(b.levels[k], x)
  /\ \A j \in Keys : j # k => c.levels[j] = b.levels[j] /\ c.best[j] = b.best[j]

\* _level_add keeps a book good and changes one quantity of one side; unless it
\* adds shares there must be a level to take them from.
LEMMA LevelAddGood ==
  ASSUME NEW b, GoodBook(b), NEW k \in Keys, NEW p \in Prices, NEW d \in Int,
         QtyAt(b.levels[k], p) + d \in Nat,
         p \in DOMAIN b.levels[k] \/ d > 0,
         NEW c, c = LevelAdd(b, k, p, d)
  PROVE  GoodBook(c) /\ Moved(b, c, k, p, d)
<1> DEFINE level == b.levels[k]
<1> DEFINE n == QtyAt(level, p) + d
<1>1. k[2] \in Sides
  BY DEF Keys
<1>2. GoodLevel(level) /\ b.best[k] \in Prices \cup {NoPrice}
      /\ GoodBest(k[2], level, b.best[k])
  BY DEF GoodBook
<1>3. n \in Nat /\ (p \in DOMAIN level \/ n # 0)
  BY DEF QtyAt
<1>4. /\ c.levels = [b.levels EXCEPT ![k] = LevelWith(level, p, n)]
      /\ c.best = [b.best EXCEPT ![k] = NewBest(k[2], level, b.best[k], p, n)]
  BY DEF LevelAdd, LevelWith, NewBest
<1> HIDE DEF n, level
<1>5. /\ GoodLevel(LevelWith(level, p, n))
      /\ QtyAt(LevelWith(level, p, n), p) = n
      /\ \A x : x # p => QtyAt(LevelWith(level, p, n), x) = QtyAt(level, x)
  BY <1>2, <1>3, LevelWithGood
<1>6. /\ NewBest(k[2], level, b.best[k], p, n) \in Prices \cup {NoPrice}
      /\ GoodBest(k[2], LevelWith(level, p, n), NewBest(k[2], level, b.best[k], p, n))
  BY <1>1, <1>2, <1>3, NewBestGood
<1>7. /\ DOMAIN c.levels = Keys /\ c.levels[k] = LevelWith(level, p, n)
      /\ c.best \in [Keys -> Prices \cup {NoPrice}]
      /\ c.best[k] = NewBest(k[2], level, b.best[k], p, n)
      /\ \A j \in Keys : j # k => c.levels[j] = b.levels[j] /\ c.best[j] = b.best[j]
  BY <1>4, <1>6 DEF GoodBook
<1>8. GoodBook(c)
  BY <1>5, <1>6, <1>7 DEF GoodBook
<1> QED
  BY <1>5, <1>7, <1>8 DEF n, level, Moved

(***************************************************************************)
(* The orders behind the levels                                            *)
(***************************************************************************)
GoodOrders(ords) == DOMAIN ords \subseteq Refs /\ ords \in [DOMAIN ords -> Order]

\* SharesAt, of any orders, as a subset of one finite set.
Units(ords, k, p) ==
  {u \in Refs \X (1..MaxShares) :
     /\ u[1] \in DOMAIN ords
     /\ KeyOf(ords[u[1]]) = k
     /\ ords[u[1]].px = p
     /\ u[2] <= ords[u[1]].qty}

Total(ords, k, p) == Cardinality(Units(ords, k, p))

Matches(ords, lv) ==
  \A k \in Keys, p \in Prices : QtyAt(lv[k], p) = Total(ords, k, p)

LEMMA SharesAreUnits ==
  ASSUME GoodOrders(orders), NEW k, NEW p
  PROVE  SharesAt(k, p) = Units(orders, k, p)
<1>1. \A r \in DOMAIN orders : r \in Refs /\ orders[r].qty \in 1..MaxShares
  BY DEF GoodOrders, Order
<1>2. ASSUME NEW u \in SharesAt(k, p) PROVE u \in Units(orders, k, p)
  <2>1. PICK r \in DOMAIN orders :
          /\ KeyOf(orders[r]) = k /\ orders[r].px = p
          /\ u \in {r} \X (1..orders[r].qty)
    BY DEF SharesAt, At
  <2>2. u = <<r, u[2]>> /\ u[2] \in 1..orders[r].qty
    BY <2>1
  <2> QED
    BY <1>1, <2>1, <2>2, MessageAssumption DEF Units
<1>3. ASSUME NEW u \in Units(orders, k, p) PROVE u \in SharesAt(k, p)
  <2>1. u[1] \in At(k, p) /\ u \in {u[1]} \X (1..orders[u[1]].qty)
    BY <1>1, MessageAssumption DEF Units, At
  <2> QED
    BY <2>1 DEF SharesAt
<1> QED
  BY <1>2, <1>3

LEMMA UnitsFinite ==
  ASSUME NEW ords, NEW k, NEW p
  PROVE  IsFiniteSet(Units(ords, k, p)) /\ Total(ords, k, p) \in Nat
<1>1. IsFiniteSet(1..MaxShares)
  BY MessageAssumption, FS_Interval
<1>2. IsFiniteSet(Refs \X (1..MaxShares))
  BY <1>1, BookAssumption, FS_Product
<1>3. Units(ords, k, p) \in SUBSET (Refs \X (1..MaxShares))
  BY DEF Units
<1>4. IsFiniteSet(Units(ords, k, p))
  BY <1>2, <1>3, FS_Subset
<1> QED
  BY <1>4, FS_CardinalityType DEF Total

\* An order that arrives adds its shares to its own level and to no other.
LEMMA TotalArrives ==
  ASSUME NEW ords, GoodOrders(ords), NEW r \in Refs, r \notin DOMAIN ords,
         NEW o \in Order, NEW more, more = Put(ords, r, o)
  PROVE  /\ GoodOrders(more)
         /\ Total(more, KeyOf(o), o.px) = Total(ords, KeyOf(o), o.px) + o.qty
         /\ \A k, p : <<k, p>> # <<KeyOf(o), o.px>> =>
              Total(more, k, p) = Total(ords, k, p)
<1> DEFINE mine == {r} \X (1..o.qty)
<1> DEFINE rest == Units(ords, KeyOf(o), o.px)
<1>1. o.qty \in 1..MaxShares /\ o.qty \in Nat
  BY MessageAssumption DEF Order
<1>2. /\ GoodOrders(more)
      /\ DOMAIN more = DOMAIN ords \cup {r} /\ more[r] = o
      /\ \A x \in DOMAIN ords : more[x] = ords[x]
  BY DEF GoodOrders, Put
<1>3. IsFiniteSet(mine) /\ Cardinality(mine) = o.qty
  <2>1. IsFiniteSet(1..o.qty) /\ Cardinality(1..o.qty) = o.qty
    BY <1>1, FS_Interval
  <2>2. IsFiniteSet({r}) /\ Cardinality({r}) = 1
    BY FS_Singleton
  <2>3. /\ IsFiniteSet({r} \X (1..o.qty))
        /\ Cardinality({r} \X (1..o.qty))
             = Cardinality({r}) * Cardinality(1..o.qty)
    BY <2>1, <2>2, FS_Product, Zenon
  <2> QED
    BY <1>1, <2>1, <2>2, <2>3
<1>4. Units(more, KeyOf(o), o.px) = rest \cup mine
  <2>1. mine \subseteq Refs \X (1..MaxShares)
    BY <1>1, MessageAssumption
  <2>2. ASSUME NEW u \in Refs \X (1..MaxShares)
        PROVE  u \in Units(more, KeyOf(o), o.px) <=> u \in rest \/ u \in mine
    <3>1. u[2] \in Nat /\ u[2] >= 1 /\ u = <<u[1], u[2]>>
      BY MessageAssumption
    <3>2. CASE u[1] = r
      BY <1>1, <1>2, <3>1, <3>2 DEF Units
    <3>3. CASE u[1] # r
      BY <1>2, <3>1, <3>3 DEF Units
    <3> QED
      BY <3>2, <3>3
  <2> QED
    BY <2>1, <2>2 DEF Units
<1>5. rest \cap mine = {}
  BY DEF Units
<1>6. Total(more, KeyOf(o), o.px) = Total(ords, KeyOf(o), o.px) + o.qty
  <2>1. IsFiniteSet(rest) /\ Cardinality(rest) \in Nat
    BY UnitsFinite DEF Total
  <2>2. Cardinality(rest \cup mine)
          = Cardinality(rest) + Cardinality(mine) - Cardinality(rest \cap mine)
    BY <1>3, <2>1, FS_Union
  <2>3. Cardinality(rest \cap mine) = 0
    BY <1>5, FS_EmptySet
  <2> QED
    BY <1>1, <1>3, <1>4, <2>1, <2>2, <2>3 DEF Total
<1>7. ASSUME NEW k, NEW p, <<k, p>> # <<KeyOf(o), o.px>>
      PROVE  Total(more, k, p) = Total(ords, k, p)
  <2>1. Units(more, k, p) = Units(ords, k, p)
    BY <1>2, <1>7 DEF Units
  <2> QED
    BY <2>1 DEF Total
<1> QED
  BY <1>2, <1>6, <1>7

\* An order that leaves takes its shares from its own level and from no other.
LEMMA TotalDeparts ==
  ASSUME NEW ords, GoodOrders(ords), NEW r \in DOMAIN ords,
         NEW o, o = ords[r], NEW less, less = Drop(ords, r)
  PROVE  /\ GoodOrders(less) /\ r \in Refs /\ r \notin DOMAIN less /\ o \in Order
         /\ Total(ords, KeyOf(o), o.px) = Total(less, KeyOf(o), o.px) + o.qty
         /\ \A k, p : <<k, p>> # <<KeyOf(o), o.px>> =>
              Total(ords, k, p) = Total(less, k, p)
<1>1. GoodOrders(less) /\ r \in Refs /\ r \notin DOMAIN less /\ o \in Order
  BY DEF GoodOrders, Drop
<1>2. ords = Put(less, r, o)
  BY DEF GoodOrders, Put, Drop
<1> QED
  BY <1>1, <1>2, TotalArrives

LEMMA KeyType ==
  ASSUME NEW o \in Order
  PROVE  KeyOf(o) \in Keys /\ o.px \in Prices /\ o.qty \in Nat /\ o.qty > 0
BY MessageAssumption DEF Order, KeyOf, Keys

\* A book that is the one of some orders.
Agree(ords, b) == GoodOrders(ords) /\ GoodBook(b) /\ Matches(ords, b.levels)

\* From book b to c nothing changed but side k.
Elsewhere(b, c, k) ==
  \A j \in Keys : j # k => c.levels[j] = b.levels[j] /\ c.best[j] = b.best[j]

\* The book gains an order.
LEMMA BookGains ==
  ASSUME NEW ords, NEW b, Agree(ords, b),
         NEW r \in Refs, r \notin DOMAIN ords, NEW o \in Order,
         NEW more, more = Put(ords, r, o),
         NEW c, c = LevelAdd(b, KeyOf(o), o.px, o.qty)
  PROVE  Agree(more, c) /\ Elsewhere(b, c, KeyOf(o))
<1> DEFINE k == KeyOf(o)
<1> DEFINE p == o.px
<1>0. GoodOrders(ords) /\ GoodBook(b) /\ Matches(ords, b.levels)
  BY DEF Agree
<1>1. k \in Keys /\ p \in Prices /\ o.qty \in Nat /\ o.qty > 0
  BY KeyType
<1>2. QtyAt(b.levels[k], p) = Total(ords, k, p) /\ Total(ords, k, p) \in Nat
  BY <1>1, <1>0, UnitsFinite DEF Matches
<1>3. /\ GoodBook(c)
      /\ QtyAt(c.levels[k], p) = QtyAt(b.levels[k], p) + o.qty
      /\ \A x : x # p => QtyAt(c.levels[k], x) = QtyAt(b.levels[k], x)
      /\ \A j \in Keys : j # k => c.levels[j] = b.levels[j] /\ c.best[j] = b.best[j]
  <2>1. QtyAt(b.levels[k], p) + o.qty \in Nat /\ o.qty \in Int
    BY <1>1, <1>2
  <2>2. GoodBook(c) /\ Moved(b, c, k, p, o.qty)
    BY <1>0, <1>1, <2>1, LevelAddGood
  <2> QED
    BY <2>2 DEF Moved
<1>4. /\ GoodOrders(more)
      /\ Total(more, k, p) = Total(ords, k, p) + o.qty
      /\ \A j, x : <<j, x>> # <<k, p>> => Total(more, j, x) = Total(ords, j, x)
  BY <1>0, TotalArrives
<1>5. ASSUME NEW j \in Keys, NEW x \in Prices
      PROVE  QtyAt(c.levels[j], x) = Total(more, j, x)
  <2>1. QtyAt(b.levels[j], x) = Total(ords, j, x)
    BY <1>0 DEF Matches
  <2>2. CASE j = k /\ x = p
    BY <1>2, <1>3, <1>4, <2>2
  <2>3. CASE j = k /\ x # p
    BY <1>3, <1>4, <2>1, <2>3
  <2>4. CASE j # k
    <3>1. c.levels[j] = b.levels[j] /\ Total(more, j, x) = Total(ords, j, x)
      BY <1>3, <1>4, <2>4
    <3> QED
      BY <2>1, <3>1
  <2> QED
    BY <2>2, <2>3, <2>4
<1> QED
  BY <1>3, <1>4, <1>5 DEF Matches, Agree, Elsewhere

\* The orders once order r has lost q shares.
Less(ords, r, q) ==
  IF q = ords[r].qty THEN Drop(ords, r) ELSE [ords EXCEPT ![r].qty = @ - q]

\* Some shares of an order leave the book: the level has them.
LEMMA BookLoses ==
  ASSUME NEW ords, NEW b, Agree(ords, b),
         NEW r \in DOMAIN ords, NEW o, o = ords[r],
         NEW q \in Nat, q <= o.qty,
         NEW after, after = Less(ords, r, q),
         NEW c, c = LevelAdd(b, KeyOf(o), o.px, -q)
  PROVE  /\ ~(QtyAt(b.levels[KeyOf(o)], o.px) + -q < 0)
         /\ Agree(after, c) /\ Elsewhere(b, c, KeyOf(o))
<1> DEFINE k == KeyOf(o)
<1> DEFINE p == o.px
<1>0. GoodOrders(ords) /\ GoodBook(b) /\ Matches(ords, b.levels)
  BY DEF Agree
<1> DEFINE less == Drop(ords, r)
<1>1. /\ GoodOrders(less) /\ r \in Refs /\ r \notin DOMAIN less /\ o \in Order
      /\ Total(ords, k, p) = Total(less, k, p) + o.qty
      /\ \A j, x : <<j, x>> # <<k, p>> => Total(ords, j, x) = Total(less, j, x)
  BY <1>0, TotalDeparts
<1>2. k \in Keys /\ p \in Prices /\ o.qty \in Nat /\ o.qty > 0
  BY <1>1, KeyType
<1>3. QtyAt(b.levels[k], p) = Total(less, k, p) + o.qty /\ Total(less, k, p) \in Nat
  BY <1>1, <1>2, <1>0, UnitsFinite DEF Matches
<1>4. p \in DOMAIN b.levels[k]
  BY <1>2, <1>3 DEF QtyAt
<1>5. QtyAt(b.levels[k], p) + -q \in Nat /\ -q \in Int
  BY <1>2, <1>3
<1>6. /\ GoodBook(c)
      /\ QtyAt(c.levels[k], p) = QtyAt(b.levels[k], p) + -q
      /\ \A x : x # p => QtyAt(c.levels[k], x) = QtyAt(b.levels[k], x)
      /\ \A j \in Keys : j # k => c.levels[j] = b.levels[j] /\ c.best[j] = b.best[j]
  <2>1. GoodBook(c) /\ Moved(b, c, k, p, -q)
    BY <1>0, <1>2, <1>4, <1>5, LevelAddGood
  <2> QED
    BY <2>1 DEF Moved
<1>7. /\ GoodOrders(after)
      /\ Total(after, k, p) = Total(less, k, p) + o.qty - q
      /\ \A j, x : <<j, x>> # <<k, p>> => Total(after, j, x) = Total(less, j, x)
  <2>1. CASE q = o.qty
    <3>1. after = less
      BY <2>1 DEF Less
    <3> QED
      BY <1>1, <1>2, <1>3, <2>1, <3>1
  <2>2. CASE q # o.qty
    <3> DEFINE rest == [o EXCEPT !.qty = o.qty - q]
    <3>1. /\ rest \in Order /\ KeyOf(rest) = k /\ rest.px = p
          /\ rest.qty = o.qty - q
      BY <1>1, <1>2, <2>2, MessageAssumption DEF Order, KeyOf
    <3>2. after = Put(less, r, rest)
      BY <1>0, <2>2 DEF Less, Put, Drop, GoodOrders
    <3> HIDE DEF rest, less, k, p
    <3>3. /\ GoodOrders(after)
          /\ Total(after, k, p) = Total(less, k, p) + rest.qty
          /\ \A j, x : <<j, x>> # <<k, p>> => Total(after, j, x) = Total(less, j, x)
      BY <1>1, <3>1, <3>2, TotalArrives
    <3> QED
      BY <1>2, <1>3, <3>1, <3>3
  <2> QED
    BY <2>1, <2>2
<1>8. ASSUME NEW j \in Keys, NEW x \in Prices
      PROVE  QtyAt(c.levels[j], x) = Total(after, j, x)
  <2>1. QtyAt(b.levels[j], x) = Total(ords, j, x)
    BY <1>0 DEF Matches
  <2> HIDE DEF k, p, less
  <2>2. CASE j = k /\ x = p
    BY <1>2, <1>3, <1>6, <1>7, <2>2
  <2>3. CASE j = k /\ x # p
    BY <1>1, <1>6, <1>7, <2>1, <2>3
  <2>4. CASE j # k
    <3>1. c.levels[j] = b.levels[j] /\ Total(after, j, x) = Total(ords, j, x)
      BY <1>1, <1>6, <1>7, <2>4
    <3> QED
      BY <2>1, <3>1
  <2> QED
    BY <2>2, <2>3, <2>4
<1> QED
  BY <1>5, <1>6, <1>7, <1>8 DEF Matches, Agree, Elsewhere

(***************************************************************************)
(* The live orders of each locate                                          *)
(***************************************************************************)
OfLocate(ords, l) == {r \in DOMAIN ords : ords[r].loc = l}

Counts(ords, live) == \A l \in Locates : live[l] = Cardinality(OfLocate(ords, l))

LEMMA OfLocateFinite ==
  ASSUME NEW ords, GoodOrders(ords), NEW l
  PROVE  IsFiniteSet(OfLocate(ords, l)) /\ Cardinality(OfLocate(ords, l)) \in Nat
<1>1. OfLocate(ords, l) \in SUBSET Refs
  BY DEF OfLocate, GoodOrders
<1> QED
  BY <1>1, BookAssumption, FS_Subset, FS_CardinalityType

\* An order that arrives is one more of its locate.
LEMMA CountArrives ==
  ASSUME NEW ords, GoodOrders(ords), NEW live \in [Locates -> Int], Counts(ords, live),
         NEW r \in Refs, r \notin DOMAIN ords, NEW o \in Order
  PROVE  /\ [live EXCEPT ![o.loc] = @ + 1] \in [Locates -> Int]
         /\ Counts(Put(ords, r, o), [live EXCEPT ![o.loc] = @ + 1])
<1> DEFINE more == Put(ords, r, o)
<1> DEFINE now == [live EXCEPT ![o.loc] = @ + 1]
<1>1. ASSUME NEW l \in Locates
      PROVE  now[l] = Cardinality(OfLocate(more, l))
  <2>1. live[l] = Cardinality(OfLocate(ords, l))
    BY DEF Counts
  <2>2. CASE l = o.loc
    <3>1. OfLocate(more, l) = OfLocate(ords, l) \cup {r} /\ r \notin OfLocate(ords, l)
      BY <2>2 DEF OfLocate, Put
    <3>2. Cardinality(OfLocate(more, l)) = Cardinality(OfLocate(ords, l)) + 1
      BY <3>1, OfLocateFinite, FS_AddElement
    <3> QED
      BY <2>1, <2>2, <3>2
  <2>3. CASE l # o.loc
    <3>1. OfLocate(more, l) = OfLocate(ords, l)
      BY <2>3 DEF OfLocate, Put
    <3> QED
      BY <2>1, <2>3, <3>1
  <2> QED
    BY <2>2, <2>3
<1>2. now \in [Locates -> Int]
  <2>1. o.loc \in Locates
    BY DEF Order, GoodOrders
  <2>2. live[o.loc] + 1 \in Int
    BY <2>1
  <2> DEFINE n == live[o.loc] + 1
  <2> HIDE DEF n
  <2>3. [live EXCEPT ![o.loc] = n] \in [Locates -> Int]
    BY <2>2 DEF n
  <2> QED
    BY <2>3 DEF n
<1> HIDE DEF now
<1>3. Counts(more, now)
  BY <1>1 DEF Counts
<1> QED
  BY <1>2, <1>3 DEF now

\* An order that leaves is one less of its locate.
LEMMA CountDeparts ==
  ASSUME NEW ords, GoodOrders(ords), NEW live \in [Locates -> Int], Counts(ords, live),
         NEW r \in DOMAIN ords, NEW o, o = ords[r]
  PROVE  /\ [live EXCEPT ![o.loc] = @ + -1] \in [Locates -> Int]
         /\ Counts(Drop(ords, r), [live EXCEPT ![o.loc] = @ + -1])
<1> DEFINE less == Drop(ords, r)
<1> DEFINE now == [live EXCEPT ![o.loc] = @ + -1]
<1>1. ASSUME NEW l \in Locates
      PROVE  now[l] = Cardinality(OfLocate(less, l))
  <2>1. live[l] = Cardinality(OfLocate(ords, l)) /\ live[l] \in Int
    BY DEF Counts
  <2>2. CASE l = o.loc
    <3>1. OfLocate(less, l) = OfLocate(ords, l) \ {r} /\ r \in OfLocate(ords, l)
      BY <2>2 DEF OfLocate, Drop
    <3>2. /\ IsFiniteSet(OfLocate(ords, l))
          /\ Cardinality(OfLocate(ords, l) \ {r}) = Cardinality(OfLocate(ords, l)) - 1
      <4>1. IsFiniteSet(OfLocate(ords, l))
        BY OfLocateFinite
      <4> QED
        BY <3>1, <4>1, FS_RemoveElement, Zenon
    <3> QED
      BY <2>1, <2>2, <3>1, <3>2
  <2>3. CASE l # o.loc
    <3>1. OfLocate(less, l) = OfLocate(ords, l)
      BY <2>3 DEF OfLocate, Drop
    <3> QED
      BY <2>1, <2>3, <3>1
  <2> QED
    BY <2>2, <2>3
<1>2. now \in [Locates -> Int]
  <2>1. o.loc \in Locates
    BY DEF Order, GoodOrders
  <2>2. live[o.loc] + -1 \in Int
    BY <2>1
  <2> DEFINE n == live[o.loc] + -1
  <2> HIDE DEF n
  <2>3. [live EXCEPT ![o.loc] = n] \in [Locates -> Int]
    BY <2>2 DEF n
  <2> QED
    BY <2>3 DEF n
<1> HIDE DEF now
<1>3. Counts(less, now)
  BY <1>1 DEF Counts
<1> QED
  BY <1>2, <1>3 DEF now

(***************************************************************************)
(* The state machine                                                       *)
(***************************************************************************)
Reasons == {"no", "duplicate", "quantity", "overexecuted", "cross"}

\* What the events and the session leave behind.
Bounds ==
  /\ marketHours \in BOOLEAN
  /\ anomalies \in Nat /\ crosses \in Nat
  /\ DOMAIN lastBbo \subseteq Locates
  /\ DOMAIN trading \subseteq Locates
  /\ aborted \in Reasons

\* The inductive invariant.
BookInv ==
  /\ Agree(orders, Book)
  /\ liveCount \in [Locates -> Int]
  /\ Counts(orders, liveCount)
  /\ Bounds

\* An event of a locate moves none of what Bounds bounds out of it.
LEMMA EmitBounds ==
  ASSUME Bounds, NEW b, NEW l \in Locates, Emit(b, l), UNCHANGED Session
  PROVE  Bounds'
<1>1. /\ crosses' \in Nat
      /\ DOMAIN lastBbo' \subseteq Locates
      /\ aborted' \in Reasons
  <2>1. CASE Continuous(l) /\ Crossed(Bbo(b, l)) /\ StrictCross
    BY <2>1 DEF Bounds, Emit, Reasons
  <2>2. CASE ~(Continuous(l) /\ Crossed(Bbo(b, l)) /\ StrictCross)
    <3>1. /\ crosses' \in {crosses, crosses + 1}
          /\ lastBbo' = Put(lastBbo, l, Bbo(b, l))
          /\ aborted' = aborted
      BY <2>2 DEF Emit
    <3> QED
      BY <3>1 DEF Bounds, Put
  <2> QED
    BY <2>1, <2>2
<1> QED
  BY <1>1 DEF Bounds, Session

\* The book that SetBook leaves agrees with what it agreed with.
LEMMA SetBookAgrees ==
  ASSUME NEW ords, NEW b, Agree(ords, b), SetBook(b), orders' = ords
  PROVE  Agree(orders, Book)'
BY DEF Agree, SetBook, Book, GoodBook, Matches, GoodOrders

\* A message has its fields.
LEMMA MessageFields ==
  ASSUME NEW m \in Msgs
  PROVE  /\ m.type \in Types /\ m.loc \in Locates /\ m.ref \in Refs /\ m.new \in Refs
         /\ m.side \in Sides /\ m.px \in Prices /\ m.qty \in Nat
         /\ m.qty # 0 => OrderOf(m) \in Order /\ KeyOf(OrderOf(m)) = <<m.loc, m.side>>
BY MessageAssumption DEF Message, OrderOf, Order, KeyOf

\* A message that stops the run leaves the book as it was.
LEMMA AbortInv ==
  ASSUME BookInv, NEW why \in Reasons, Abort(why)
  PROVE  BookInv'
BY DEF BookInv, Abort, Bounds, Agree, Book, GoodOrders, GoodBook, Matches, Counts

LEMMA AnomalyInv ==
  ASSUME BookInv, Anomaly
  PROVE  BookInv'
BY DEF BookInv, Anomaly, Bounds, Agree, Book, GoodOrders, GoodBook, Matches, Counts

LEMMA AddInv ==
  ASSUME BookInv, NEW m \in Msgs, Add(m)
  PROVE  BookInv'
<1>1. CASE m.ref \in DOMAIN orders
  BY <1>1, AbortInv DEF Add, Reasons
<1>2. CASE m.ref \notin DOMAIN orders /\ m.qty = 0
  BY <1>2, AbortInv DEF Add, Reasons
<1>3. CASE m.ref \notin DOMAIN orders /\ m.qty # 0
  <2> DEFINE o == OrderOf(m)
  <2> DEFINE b == LevelAdd(Book, KeyOf(o), o.px, o.qty)
  <2>1. /\ o \in Order /\ m.ref \in Refs /\ m.loc \in Locates /\ o.loc = m.loc
        /\ KeyOf(o) = <<m.loc, m.side>> /\ o.px = m.px /\ o.qty = m.qty
    BY <1>3, MessageFields DEF OrderOf
  <2>2. /\ orders' = Put(orders, m.ref, o)
        /\ liveCount' = [liveCount EXCEPT ![o.loc] = @ + 1]
        /\ SetBook(b) /\ Emit(b, m.loc) /\ UNCHANGED Session
    BY <1>3, <2>1 DEF Add, Counted
  <2> HIDE DEF o, b
  <2>3. Agree(orders', b)
    BY <1>3, <2>1, <2>2, BookGains DEF BookInv, b
  <2>4. Agree(orders, Book)'
    BY <2>2, <2>3, SetBookAgrees
  <2>5. liveCount' \in [Locates -> Int] /\ Counts(orders', liveCount')
    BY <1>3, <2>1, <2>2, CountArrives DEF BookInv, Agree
  <2>6. Bounds'
    BY <2>1, <2>2, EmitBounds DEF BookInv
  <2> QED
    BY <2>4, <2>5, <2>6 DEF BookInv, Counts
<1> QED
  BY <1>1, <1>2, <1>3

\* Remove, for an order that lives and the locate that the event is for.
LEMMA RemoveInv ==
  ASSUME BookInv, NEW r \in DOMAIN orders, NEW l \in Locates, Remove(r, l)
  PROVE  BookInv'
<1> DEFINE o == orders[r]
<1> DEFINE b == LevelAdd(Book, KeyOf(o), o.px, -o.qty)
<1>1. /\ GoodOrders(orders) /\ Agree(orders, Book)
      /\ o \in Order /\ o.qty \in Nat /\ o.qty <= o.qty
      /\ liveCount \in [Locates -> Int] /\ Counts(orders, liveCount)
  BY KeyType DEF BookInv, Agree, GoodOrders
<1>2. /\ ~(QtyAt(Book.levels[KeyOf(o)], o.px) + -o.qty < 0)
      /\ Agree(Drop(orders, r), b)
  <2>1. Less(orders, r, o.qty) = Drop(orders, r)
    BY DEF Less
  <2> HIDE DEF b
  <2> QED
    BY <1>1, <2>1, BookLoses DEF b
<1>3. /\ orders' = Drop(orders, r)
      /\ liveCount' = [liveCount EXCEPT ![o.loc] = @ + -1]
      /\ SetBook(b) /\ Emit(b, l) /\ UNCHANGED Session
  BY <1>2 DEF Remove, Negative, Book, Counted
<1> HIDE DEF b, o
<1>4. Agree(orders, Book)'
  BY <1>2, <1>3, SetBookAgrees
<1>5. liveCount' \in [Locates -> Int] /\ Counts(orders', liveCount')
  BY <1>1, <1>3, CountDeparts DEF o
<1>6. Bounds'
  BY <1>3, EmitBounds DEF BookInv
<1> QED
  BY <1>4, <1>5, <1>6 DEF BookInv, Counts

\* Shrink, by less than the order has.
LEMMA ShrinkInv ==
  ASSUME BookInv, NEW r \in DOMAIN orders, NEW q \in Nat, q <= orders[r].qty,
         q # orders[r].qty, Shrink(r, q)
  PROVE  BookInv'
<1> DEFINE o == orders[r]
<1> DEFINE b == LevelAdd(Book, KeyOf(o), o.px, -q)
<1>1. /\ GoodOrders(orders) /\ Agree(orders, Book)
      /\ o \in Order /\ o.loc \in Locates
      /\ liveCount \in [Locates -> Int] /\ Counts(orders, liveCount)
  BY DEF BookInv, Agree, GoodOrders, Order
<1>2. /\ ~(QtyAt(Book.levels[KeyOf(o)], o.px) + -q < 0)
      /\ Agree(Less(orders, r, q), b)
  <2> HIDE DEF b
  <2> QED
    BY <1>1, BookLoses DEF b
<1>3. /\ orders' = Less(orders, r, q)
      /\ SetBook(b) /\ Emit(b, o.loc) /\ UNCHANGED <<liveCount, Session>>
  BY <1>2 DEF Shrink, Negative, Book, Less
<1> HIDE DEF b
<1>4. Agree(orders, Book)'
  BY <1>2, <1>3, SetBookAgrees
<1>5. ASSUME NEW l \in Locates
      PROVE  OfLocate(orders', l) = OfLocate(orders, l)
  <2>1. /\ DOMAIN orders' = DOMAIN orders
        /\ \A x \in DOMAIN orders : orders'[x].loc = orders[x].loc
    <3>1. orders' = [orders EXCEPT ![r] = [o EXCEPT !.qty = @ - q]]
      BY <1>3 DEF Less
    <3>2. [o EXCEPT !.qty = @ - q].loc = o.loc
      BY <1>1 DEF Order
    <3> QED
      BY <3>1, <3>2
  <2> QED
    BY <2>1 DEF OfLocate
<1>6. liveCount' \in [Locates -> Int] /\ Counts(orders', liveCount')
  BY <1>1, <1>3, <1>5 DEF Counts
<1>7. Bounds'
  BY <1>1, <1>3, EmitBounds DEF BookInv
<1> QED
  BY <1>4, <1>6, <1>7 DEF BookInv, Counts

LEMMA ReduceInv ==
  ASSUME BookInv, NEW m \in Msgs, Reduce(m)
  PROVE  BookInv'
<1>1. CASE m.ref \notin DOMAIN orders
  BY <1>1, AnomalyInv DEF Reduce
<1>2. CASE m.ref \in DOMAIN orders
  <2>1. orders[m.ref].loc \in Locates /\ orders[m.ref].qty \in Nat /\ m.qty \in Nat
    BY <1>2, MessageFields, MessageAssumption DEF BookInv, Agree, GoodOrders, Order
  <2>2. CASE m.qty > orders[m.ref].qty
    BY <1>2, <2>2, AbortInv DEF Reduce, Reasons
  <2>3. CASE m.qty = orders[m.ref].qty
    <3>1. Remove(m.ref, orders[m.ref].loc)
      BY <1>2, <2>1, <2>3 DEF Reduce
    <3> QED
      BY <1>2, <2>1, <3>1, RemoveInv
  <2>4. CASE m.qty < orders[m.ref].qty
    <3>1. Shrink(m.ref, m.qty)
      BY <1>2, <2>1, <2>4 DEF Reduce
    <3>2. m.qty <= orders[m.ref].qty /\ m.qty # orders[m.ref].qty
      BY <2>1, <2>4
    <3> QED
      BY <1>2, <2>1, <3>1, <3>2, ShrinkInv
  <2> QED
    BY <2>1, <2>2, <2>3, <2>4
<1> QED
  BY <1>1, <1>2

LEMMA DeleteInv ==
  ASSUME BookInv, NEW m \in Msgs, Delete(m)
  PROVE  BookInv'
<1>1. m.loc \in Locates
  BY MessageFields
<1> QED
  BY <1>1, AnomalyInv, RemoveInv DEF Delete

LEMMA ReplaceInv ==
  ASSUME BookInv, NEW m \in Msgs, Replace(m)
  PROVE  BookInv'
<1>1. CASE m.ref \notin DOMAIN orders
  BY <1>1, AnomalyInv DEF Replace
<1>2. CASE m.ref \in DOMAIN orders /\ (m.qty = 0 \/ m.new \in DOMAIN orders)
  BY <1>2, AbortInv DEF Replace, Reasons
<1>3. CASE m.ref \in DOMAIN orders /\ m.qty # 0 /\ m.new \notin DOMAIN orders
  <2> DEFINE o == orders[m.ref]
  <2> DEFINE n == [o EXCEPT !.px = m.px, !.qty = m.qty]
  <2> DEFINE less == Drop(orders, m.ref)
  <2> DEFINE a == LevelAdd(Book, KeyOf(o), o.px, -o.qty)
  <2> DEFINE b == LevelAdd(a, KeyOf(n), n.px, n.qty)
  <2>1. /\ GoodOrders(orders) /\ Agree(orders, Book)
        /\ o \in Order /\ o.loc \in Locates /\ o.qty \in Nat /\ o.qty <= o.qty
        /\ liveCount \in [Locates -> Int] /\ Counts(orders, liveCount)
    BY <1>3, KeyType DEF BookInv, Agree, GoodOrders, Order
  <2>2. /\ n \in Order /\ KeyOf(n) = KeyOf(o) /\ n.loc = o.loc
        /\ n.px = m.px /\ n.qty = m.qty
    <3>1. m.px \in Prices /\ m.qty \in 1..MaxShares
      BY <1>3, MessageAssumption DEF Message
    <3> HIDE DEF o
    <3> QED
      BY <2>1, <3>1 DEF Order, KeyOf
  <2>3. /\ ~(QtyAt(Book.levels[KeyOf(o)], o.px) + -o.qty < 0)
        /\ Agree(less, a)
    <3>1. Less(orders, m.ref, o.qty) = less
      BY DEF Less
    <3> HIDE DEF a
    <3> QED
      BY <1>3, <2>1, <3>1, BookLoses DEF a
  <2>4. /\ orders' = Put(less, m.new, n)
        /\ SetBook(b) /\ Emit(b, o.loc) /\ UNCHANGED <<liveCount, Session>>
    <3>1. b = LevelAdd(LevelAdd(Book, KeyOf(o), o.px, -o.qty), KeyOf(o), m.px, m.qty)
      BY <2>2
    <3>2. ~Negative(KeyOf(o), o.px, -o.qty)
      BY <2>3 DEF Negative, Book
    <3> HIDE DEF b, n
    <3>3. /\ orders' = Replaced(m)
          /\ SetBook(b) /\ Emit(b, o.loc) /\ UNCHANGED <<liveCount, Session>>
      BY <1>3, <3>1, <3>2 DEF Replace
    <3> QED
      BY <3>3 DEF Replaced, n
  <2>5. /\ m.new \in Refs /\ m.new \notin DOMAIN less
        /\ GoodOrders(less)
    BY <1>3, <2>3, MessageFields DEF Drop, Agree
  <2>6. Agree(orders', b)
    <3> HIDE DEF b, a, n, less
    <3> QED
      BY <2>2, <2>3, <2>4, <2>5, BookGains DEF b
  <2>7. Agree(orders, Book)'
    <3> HIDE DEF b
    <3> QED
      BY <2>4, <2>6, SetBookAgrees
  <2>8. liveCount' \in [Locates -> Int] /\ Counts(orders', liveCount')
    <3> DEFINE fewer == [liveCount EXCEPT ![o.loc] = @ + -1]
    <3> DEFINE again == [fewer EXCEPT ![n.loc] = @ + 1]
    <3>1. fewer \in [Locates -> Int] /\ Counts(less, fewer)
      BY <1>3, <2>1, CountDeparts
    <3>2. again \in [Locates -> Int] /\ Counts(Put(less, m.new, n), again)
      <4> HIDE DEF fewer, n, less
      <4> QED
        BY <2>2, <2>5, <3>1, CountArrives
    <3>3. again = liveCount
      <4> DEFINE l == o.loc
      <4>1. liveCount[l] \in Int /\ l \in DOMAIN liveCount /\ n.loc = l
        BY <2>1, <2>2
      <4>2. fewer = [liveCount EXCEPT ![l] = liveCount[l] + -1]
        OBVIOUS
      <4>3. again = [fewer EXCEPT ![l] = fewer[l] + 1]
        BY <4>1
      <4> HIDE DEF l, fewer, again
      <4>4. /\ DOMAIN again = DOMAIN liveCount /\ again[l] = liveCount[l]
            /\ \A x \in DOMAIN liveCount : x # l => again[x] = liveCount[x]
        BY <4>1, <4>2, <4>3
      <4>5. again = [x \in DOMAIN again |-> again[x]]
        BY <4>3
      <4> QED
        BY <2>1, <4>4, <4>5
    <3> QED
      BY <2>1, <2>4, <3>2, <3>3
  <2>9. Bounds'
    <3> HIDE DEF b
    <3> QED
      BY <2>1, <2>4, EmitBounds DEF BookInv
  <2> QED
    BY <2>7, <2>8, <2>9 DEF BookInv, Counts
<1> QED
  BY <1>1, <1>2, <1>3

LEMMA InitInv == Init => BookInv
<1> SUFFICES ASSUME Init PROVE BookInv
  OBVIOUS
<1>1. GoodOrders(orders) /\ DOMAIN orders = {}
  BY DEF Init, GoodOrders
<1>2. GoodBook(Book)
  BY DEF Init, GoodBook, Book, GoodLevel, GoodBest
<1>3. ASSUME NEW k \in Keys, NEW p \in Prices
      PROVE  QtyAt(levels[k], p) = Total(orders, k, p)
  <2>1. QtyAt(levels[k], p) = 0
    BY DEF Init, QtyAt
  <2>2. Units(orders, k, p) = {}
    BY <1>1 DEF Units
  <2> QED
    BY <2>1, <2>2, FS_EmptySet DEF Total
<1>4. ASSUME NEW l \in Locates
      PROVE  liveCount[l] = Cardinality(OfLocate(orders, l))
  <2>1. OfLocate(orders, l) = {}
    BY <1>1 DEF OfLocate
  <2> QED
    BY <2>1, FS_EmptySet DEF Init
<1>5. liveCount \in [Locates -> Int] /\ Bounds
  <2>1. DOMAIN lastBbo \subseteq Locates
    BY DEF Init
  <2>2. DOMAIN trading \subseteq Locates
    BY DEF Init
  <2>3. marketHours \in BOOLEAN
    BY DEF Init
  <2>4. liveCount \in [Locates -> Int] /\ anomalies \in Nat /\ crosses \in Nat
        /\ aborted \in Reasons
    BY DEF Init, Reasons
  <2> QED
    BY <2>1, <2>2, <2>3, <2>4 DEF Bounds
<1> QED
  BY <1>1, <1>2, <1>3, <1>4, <1>5 DEF BookInv, Agree, Matches, Counts, Book

LEMMA StepInv == BookInv /\ [Next]_vars => BookInv'
<1> SUFFICES ASSUME BookInv, [Next]_vars PROVE BookInv'
  OBVIOUS
<1>1. CASE UNCHANGED vars
  BY <1>1 DEF BookInv, vars, Agree, Book, GoodOrders, GoodBook, Matches, Counts, Bounds
<1>2. ASSUME NEW m \in Msgs, Apply(m) PROVE BookInv'
  <2>1. CASE SystemEvent(m)
    BY <2>1 DEF BookInv, SystemEvent, Agree, Book, GoodOrders, GoodBook, Matches,
                Counts, Bounds
  <2>2. CASE TradingAction(m)
    <3>1. DOMAIN trading' \subseteq Locates
      BY <2>2, MessageFields DEF TradingAction, Put, BookInv, Bounds
    <3> QED
      BY <2>2, <3>1 DEF BookInv, TradingAction, Agree, Book, GoodOrders, GoodBook,
                        Matches, Counts, Bounds
  <2>3. CASE Other(m)
    BY <2>3 DEF BookInv, Other, vars, Agree, Book, GoodOrders, GoodBook, Matches,
                Counts, Bounds
  <2> QED
    BY <1>2, <2>1, <2>2, <2>3, AddInv, ReduceInv, DeleteInv, ReplaceInv DEF Apply
<1> QED
  BY <1>1, <1>2 DEF Next

\* What the invariant says of the book, in the words of its properties.
LEMMA InvImplies == BookInv => Consistent /\ BestIsExtreme
<1> SUFFICES ASSUME BookInv PROVE Consistent /\ BestIsExtreme
  OBVIOUS
<1>1. GoodOrders(orders) /\ GoodBook(Book) /\ Matches(orders, levels)
  BY DEF BookInv, Agree, Book
<1>2. TypeOK
  BY <1>1 DEF TypeOK, BookInv, Bounds, Reasons, GoodOrders, GoodBook, GoodLevel, Book
<1>3. LevelsMatchOrders
  BY <1>1, SharesAreUnits DEF LevelsMatchOrders, Matches, Total
<1>4. LiveCountMatches
  BY DEF LiveCountMatches, BookInv, Counts, OfLocate
<1>5. NeverNegative
  BY DEF NeverNegative, BookInv, Bounds, Reasons
<1>6. BestIsExtreme
  BY <1>1 DEF BestIsExtreme, GoodBook, GoodBest, Book
<1> QED
  BY <1>2, <1>3, <1>4, <1>5, <1>6 DEF Consistent

\* Orders, levels and live counts of golden_model/src/book.py agree after every
\* message of any feed, also one that reduces, replaces or deletes orders it
\* never added, and no reduction takes more from a level than it holds: neither
\* check_deep() nor the negative-level check of _level_add can ever fail.
THEOREM ConsistentAlways == Spec => []Consistent
<1>1. BookInv => Consistent
  BY InvImplies
<1> QED
  BY <1>1, InitInv, StepInv, PTL DEF Spec

\* The best price that _level_add caches is always the extreme live one.
THEOREM BestIsExtremeAlways == Spec => []BestIsExtreme
<1>1. BookInv => BestIsExtreme
  BY InvImplies
<1> QED
  BY <1>1, InitInv, StepInv, PTL DEF Spec

(***************************************************************************)
(* Events                                                                  *)
(***************************************************************************)
\* A feed whose messages name the locate of the order that they are about, as
\* the exchange's does: each reference belongs to one locate.
FeedNames(locOf) ==
  \A m \in Msgs :
    /\ m.type \in LookupTypes => m.loc = locOf[m.ref]
    /\ m.type = "U" => locOf[m.new] = locOf[m.ref]

Named(locOf) == \A r \in DOMAIN orders : orders[r].loc = locOf[r]

\* The step changed the book at locate l only, and emitted its event.
EmitsFor(l) ==
  \E c : /\ SetBook(c) /\ Emit(c, l)
         /\ \A j \in Keys : j[1] # l => /\ c.levels[j] = levels[j]
                                        /\ c.best[j] = best[j]

\* What any message may do to the events.
Eventful ==
  \/ aborted' # "no"
  \/ UNCHANGED <<levels, best, lastBbo, aborted>>
  \/ \E l \in Locates : EmitsFor(l)

\* A change to one side of a locate is a change to that locate.
LEMMA ElsewhereEmits ==
  ASSUME NEW k \in Keys, NEW l \in Locates, k[1] = l,
         NEW c, Elsewhere(Book, c, k), SetBook(c), Emit(c, l)
  PROVE  EmitsFor(l)
<1>1. \A j \in Keys : j[1] # l => c.levels[j] = levels[j] /\ c.best[j] = best[j]
  BY DEF Elsewhere, Book
<1> QED
  BY <1>1 DEF EmitsFor

LEMMA AddEmits ==
  ASSUME BookInv, NEW locOf, FeedNames(locOf), Named(locOf), NEW m \in Msgs, Add(m)
  PROVE  Named(locOf)' /\ Eventful
<1>1. CASE m.ref \in DOMAIN orders \/ m.qty = 0
  BY <1>1 DEF Add, Abort, Named, Eventful
<1>2. CASE m.ref \notin DOMAIN orders /\ m.qty # 0
  <2> DEFINE o == OrderOf(m)
  <2> DEFINE c == LevelAdd(Book, KeyOf(o), o.px, o.qty)
  <2>1. /\ o \in Order /\ m.ref \in Refs /\ m.loc \in Locates /\ o.loc = m.loc
        /\ KeyOf(o) = <<m.loc, m.side>> /\ o.px = m.px /\ o.qty = m.qty
        /\ KeyOf(o) \in Keys /\ KeyOf(o)[1] = m.loc
    BY <1>2, MessageFields, KeyType DEF OrderOf
  <2>2. orders' = Put(orders, m.ref, o) /\ SetBook(c) /\ Emit(c, m.loc)
    BY <1>2, <2>1 DEF Add
  <2>3. Named(locOf)'
    BY <2>1, <2>2 DEF Named, Put, FeedNames, Add, LookupTypes
  <2> HIDE DEF o, c
  <2>4. Elsewhere(Book, c, KeyOf(o))
    BY <1>2, <2>1, BookGains DEF BookInv, c
  <2> QED
    BY <2>1, <2>2, <2>3, <2>4, ElsewhereEmits DEF Eventful
<1> QED
  BY <1>1, <1>2

LEMMA RemoveEmits ==
  ASSUME BookInv, NEW locOf, Named(locOf), NEW r \in DOMAIN orders, Remove(r, locOf[r])
  PROVE  Named(locOf)' /\ Eventful
<1> DEFINE o == orders[r]
<1> DEFINE c == LevelAdd(Book, KeyOf(o), o.px, -o.qty)
<1>1. /\ Agree(orders, Book) /\ o \in Order /\ o.qty \in Nat /\ o.qty <= o.qty
      /\ o.loc = locOf[r] /\ o.loc \in Locates
      /\ KeyOf(o) \in Keys /\ KeyOf(o)[1] = o.loc
  BY KeyType DEF BookInv, Agree, GoodOrders, Named, Order, KeyOf
<1>2. /\ ~(QtyAt(Book.levels[KeyOf(o)], o.px) + -o.qty < 0)
      /\ Elsewhere(Book, c, KeyOf(o))
  <2> HIDE DEF c
  <2> QED
    BY <1>1, BookLoses DEF c
<1>3. orders' = Drop(orders, r) /\ SetBook(c) /\ Emit(c, o.loc)
  BY <1>1, <1>2 DEF Remove, Negative, Book
<1>4. Named(locOf)'
  BY <1>3 DEF Named, Drop
<1> HIDE DEF c, o
<1> QED
  BY <1>1, <1>2, <1>3, <1>4, ElsewhereEmits DEF Eventful

LEMMA ShrinkEmits ==
  ASSUME BookInv, NEW locOf, Named(locOf), NEW r \in DOMAIN orders,
         NEW q \in Nat, q <= orders[r].qty, q # orders[r].qty, Shrink(r, q)
  PROVE  Named(locOf)' /\ Eventful
<1> DEFINE o == orders[r]
<1> DEFINE c == LevelAdd(Book, KeyOf(o), o.px, -q)
<1>1. /\ Agree(orders, Book) /\ o \in Order /\ o.loc \in Locates
      /\ KeyOf(o) \in Keys /\ KeyOf(o)[1] = o.loc
  BY KeyType DEF BookInv, Agree, GoodOrders, Order, KeyOf
<1>2. /\ ~(QtyAt(Book.levels[KeyOf(o)], o.px) + -q < 0)
      /\ Elsewhere(Book, c, KeyOf(o))
  <2> HIDE DEF c
  <2> QED
    BY <1>1, BookLoses DEF c
<1>3. /\ orders' = [orders EXCEPT ![r].qty = @ - q]
      /\ SetBook(c) /\ Emit(c, o.loc)
  BY <1>2 DEF Shrink, Negative, Book
<1>4. Named(locOf)'
  <2>1. [o EXCEPT !.qty = @ - q].loc = o.loc
    BY <1>1 DEF Order
  <2> QED
    BY <1>3, <2>1 DEF Named
<1> HIDE DEF c, o
<1> QED
  BY <1>1, <1>2, <1>3, <1>4, ElsewhereEmits DEF Eventful

LEMMA ReduceEmits ==
  ASSUME BookInv, NEW locOf, Named(locOf), NEW m \in Msgs, Reduce(m)
  PROVE  Named(locOf)' /\ Eventful
<1>1. CASE m.ref \notin DOMAIN orders
  BY <1>1 DEF Reduce, Anomaly, Named, Eventful
<1>2. CASE m.ref \in DOMAIN orders
  <2>1. orders[m.ref].qty \in Nat /\ m.qty \in Nat
    BY <1>2, MessageFields, MessageAssumption DEF BookInv, Agree, GoodOrders, Order
  <2>2. CASE m.qty > orders[m.ref].qty
    BY <1>2, <2>2 DEF Reduce, Abort, Named, Eventful
  <2>3. CASE m.qty = orders[m.ref].qty
    <3>1. Remove(m.ref, locOf[m.ref])
      BY <1>2, <2>1, <2>3 DEF Reduce, Named
    <3> QED
      BY <1>2, <3>1, RemoveEmits
  <2>4. CASE m.qty < orders[m.ref].qty
    <3>1. /\ Shrink(m.ref, m.qty)
          /\ m.qty <= orders[m.ref].qty /\ m.qty # orders[m.ref].qty
      BY <1>2, <2>1, <2>4 DEF Reduce
    <3> QED
      BY <1>2, <2>1, <3>1, ShrinkEmits
  <2> QED
    BY <2>1, <2>2, <2>3, <2>4
<1> QED
  BY <1>1, <1>2

LEMMA ReplaceEmits ==
  ASSUME BookInv, NEW locOf, FeedNames(locOf), Named(locOf), NEW m \in Msgs, Replace(m)
  PROVE  Named(locOf)' /\ Eventful
<1>1. CASE m.ref \notin DOMAIN orders \/ m.qty = 0 \/ m.new \in DOMAIN orders
  BY <1>1 DEF Replace, Anomaly, Abort, Named, Eventful
<1>2. CASE m.ref \in DOMAIN orders /\ m.qty # 0 /\ m.new \notin DOMAIN orders
  <2> DEFINE o == orders[m.ref]
  <2> DEFINE k == KeyOf(o)
  <2> DEFINE n == [o EXCEPT !.px = m.px, !.qty = m.qty]
  <2> DEFINE less == Drop(orders, m.ref)
  <2> DEFINE a == LevelAdd(Book, k, o.px, -o.qty)
  <2> DEFINE c == LevelAdd(a, k, m.px, m.qty)
  <2>1. /\ Agree(orders, Book) /\ o \in Order /\ o.loc \in Locates /\ o.qty \in Nat
        /\ o.qty <= o.qty /\ o.loc = locOf[m.ref] /\ k \in Keys /\ k[1] = o.loc
    BY <1>2, KeyType DEF BookInv, Agree, GoodOrders, Order, KeyOf, Named
  <2>2. /\ n \in Order /\ KeyOf(n) = k /\ n.loc = o.loc
        /\ n.px = m.px /\ n.qty = m.qty
    <3>1. m.px \in Prices /\ m.qty \in 1..MaxShares
      BY <1>2, MessageAssumption DEF Message
    <3> HIDE DEF o
    <3> QED
      BY <2>1, <3>1 DEF Order, KeyOf, k
  <2>3. /\ ~(QtyAt(Book.levels[k], o.px) + -o.qty < 0)
        /\ Agree(less, a) /\ Elsewhere(Book, a, k)
    <3>1. Less(orders, m.ref, o.qty) = less
      BY DEF Less
    <3> HIDE DEF a
    <3> QED
      BY <1>2, <2>1, <3>1, BookLoses DEF a
  <2>4. Elsewhere(a, c, k)
    <3>1. m.new \in Refs /\ m.new \notin DOMAIN less
      BY <1>2, MessageFields DEF Drop
    <3>2. c = LevelAdd(a, KeyOf(n), n.px, n.qty)
      BY <2>2
    <3> HIDE DEF a, c, n, less, k
    <3> QED
      BY <2>2, <2>3, <3>1, <3>2, BookGains
  <2>5. orders' = Put(less, m.new, n) /\ SetBook(c) /\ Emit(c, o.loc)
    <3>1. ~Negative(k, o.px, -o.qty)
      BY <2>3 DEF Negative, Book
    <3>2. orders' = Replaced(m) /\ SetBook(c) /\ Emit(c, o.loc)
      BY <1>2, <3>1 DEF Replace
    <3> QED
      BY <3>2 DEF Replaced
  <2>6. Named(locOf)'
    <3>1. locOf[m.new] = o.loc
      BY <2>1 DEF FeedNames, Replace
    <3> HIDE DEF n, o, c
    <3> QED
      BY <2>2, <2>5, <3>1 DEF Named, Put, Drop
  <2> HIDE DEF a, c, k, o
  <2>7. Elsewhere(Book, c, k)
    BY <2>3, <2>4 DEF Elsewhere
  <2> QED
    BY <2>1, <2>5, <2>6, <2>7, ElsewhereEmits DEF Eventful
<1> QED
  BY <1>1, <1>2

LEMMA StepEmits ==
  ASSUME BookInv, NEW locOf, FeedNames(locOf), Named(locOf), NEW m \in Msgs, Apply(m)
  PROVE  Named(locOf)' /\ Eventful
<1>1. CASE SystemEvent(m) \/ TradingAction(m) \/ Other(m)
  BY <1>1 DEF SystemEvent, TradingAction, Other, vars, Named, Eventful
<1>2. CASE Delete(m)
  <2>1. CASE m.ref \notin DOMAIN orders
    BY <1>2, <2>1 DEF Delete, Anomaly, Named, Eventful
  <2>2. CASE m.ref \in DOMAIN orders
    <3>1. Remove(m.ref, locOf[m.ref])
      BY <1>2, <2>2 DEF Delete, FeedNames, LookupTypes
    <3> QED
      BY <2>2, <3>1, RemoveEmits
  <2> QED
    BY <2>1, <2>2
<1> QED
  BY <1>1, <1>2, AddEmits, ReduceEmits, ReplaceEmits DEF Apply

\* What an event shows is the book after the message, and no other locate's
\* changed; a crossed one in continuous trading is not shown to a strict run.
LEMMA EventBbo ==
  ASSUME NEW l \in Locates, EmitsFor(l), aborted' = "no"
  PROVE  /\ lastBbo' = Put(lastBbo, l, Bbo(Book, l)')
         /\ \A x \in Locates : x # l => Bbo(Book, x)' = Bbo(Book, x)
         /\ ~(Continuous(l) /\ Crossed(Bbo(Book, l)') /\ StrictCross)
<1>1. PICK c : /\ SetBook(c) /\ Emit(c, l)
               /\ \A j \in Keys : j[1] # l => /\ c.levels[j] = levels[j]
                                              /\ c.best[j] = best[j]
  BY DEF EmitsFor
<1>2. /\ \A x : Bbo(Book, x)' = Bbo(c, x)
      /\ \A x \in Locates : x # l => Bbo(c, x) = Bbo(Book, x)
  <2>1. \A k : Top(Book, k)' = Top(c, k)
    BY <1>1 DEF Top, SetBook, Book
  <2>2. ASSUME NEW x \in Locates, x # l, NEW s \in Sides
        PROVE  Top(c, <<x, s>>) = Top(Book, <<x, s>>)
    <3>1. <<x, s>> \in Keys /\ <<x, s>>[1] # l
      BY <2>2 DEF Keys
    <3> QED
      BY <1>1, <3>1 DEF Top, Book
  <2> QED
    BY <2>1, <2>2 DEF Bbo, Sides
<1>3. ~(Continuous(l) /\ Crossed(Bbo(c, l)) /\ StrictCross)
  BY <1>1 DEF Emit
<1>4. lastBbo' = Put(lastBbo, l, Bbo(c, l))
  BY <1>1, <1>3 DEF Emit
<1> QED
  BY <1>2, <1>3, <1>4

\* The events never say less than the book: until something stops the run, the
\* last BBO of each locate is its present one.
LEMMA LastBboStep ==
  ASSUME LastBboCurrent, aborted = "no", Eventful
  PROVE  LastBboCurrent'
<1> SUFFICES ASSUME aborted' = "no", NEW x \in Locates
             PROVE  Bbo(Book, x)' = IF x \in DOMAIN lastBbo' THEN lastBbo'[x]
                                    ELSE <<<<0, 0>>, <<0, 0>>>>
  BY DEF LastBboCurrent
<1>1. Bbo(Book, x) = IF x \in DOMAIN lastBbo THEN lastBbo[x]
                     ELSE <<<<0, 0>>, <<0, 0>>>>
  BY DEF LastBboCurrent
<1>2. CASE UNCHANGED <<levels, best, lastBbo, aborted>>
  BY <1>1, <1>2 DEF Bbo, Top, Book
<1>3. ASSUME NEW l \in Locates, EmitsFor(l)
      PROVE  Bbo(Book, x)' = IF x \in DOMAIN lastBbo' THEN lastBbo'[x]
                             ELSE <<<<0, 0>>, <<0, 0>>>>
  <2>1. /\ lastBbo' = Put(lastBbo, l, Bbo(Book, l)')
        /\ x # l => Bbo(Book, x)' = Bbo(Book, x)
    BY <1>3, EventBbo
  <2>2. CASE x = l
    BY <2>1, <2>2 DEF Put
  <2>3. CASE x # l
    BY <1>1, <2>1, <2>3 DEF Put
  <2> QED
    BY <2>2, <2>3
<1> QED
  BY <1>2, <1>3 DEF Eventful

\* No event of a strict run carries a locate from uncrossed to crossed.
LEMMA StrictStep ==
  ASSUME Eventful, NEW x \in Locates, StrictCross, Continuous(x), aborted' = "no",
         ~Crossed(Bbo(Book, x))
  PROVE  ~Crossed(Bbo(Book, x)')
<1>1. CASE UNCHANGED <<levels, best, lastBbo, aborted>>
  BY <1>1 DEF Bbo, Top, Book
<1>2. ASSUME NEW l \in Locates, EmitsFor(l) PROVE ~Crossed(Bbo(Book, x)')
  <2>1. CASE x = l
    BY <1>2, <2>1, EventBbo
  <2>2. CASE x # l
    <3>1. Bbo(Book, x)' = Bbo(Book, x)
      BY <1>2, <2>2, EventBbo
    <3> QED
      BY <3>1
  <2> QED
    BY <2>1, <2>2
<1> QED
  BY <1>1, <1>2 DEF Eventful

\* The invariant of a feed that names locates.
NamedInv(locOf) == BookInv /\ Named(locOf) /\ LastBboCurrent

LEMMA NamedStep ==
  ASSUME NEW locOf, FeedNames(locOf), NamedInv(locOf), [Next]_vars
  PROVE  /\ NamedInv(locOf)'
         /\ UNCHANGED vars \/ Eventful
<1>1. BookInv'
  BY StepInv DEF NamedInv
<1>2. CASE UNCHANGED vars
  BY <1>1, <1>2 DEF NamedInv, vars, Named, LastBboCurrent, Bbo, Top, Book
<1>3. ASSUME NEW m \in Msgs, Apply(m)
      PROVE  Named(locOf)' /\ LastBboCurrent' /\ Eventful
  <2>1. Named(locOf)' /\ Eventful
    BY <1>3, StepEmits DEF NamedInv
  <2>2. aborted = "no"
    BY <1>3 DEF Apply
  <2> QED
    BY <2>1, <2>2, LastBboStep DEF NamedInv
<1> QED
  BY <1>1, <1>2, <1>3 DEF Next, NamedInv

LEMMA NamedInit == ASSUME NEW locOf, Init PROVE NamedInv(locOf)
<1>1. Named(locOf)
  BY DEF Init, Named
<1>2. ASSUME NEW l \in Locates PROVE Bbo(Book, l) = <<<<0, 0>>, <<0, 0>>>>
  <2>1. <<l, "B">> \in Keys /\ <<l, "S">> \in Keys
    BY DEF Keys, Sides
  <2> QED
    BY <2>1 DEF Init, Bbo, Top, Book
<1>3. DOMAIN lastBbo = {}
  BY DEF Init
<1> QED
  BY <1>1, <1>2, <1>3, InitInv DEF NamedInv, LastBboCurrent

\* The reference emits enough: for a feed whose messages name the locate of the
\* order they are about, a locate's BBO is the one of its last event, although
\* a delete emits for the locate of the message and not for the order's.
THEOREM LastBboAlways ==
  ASSUME NEW CONSTANT locOf, FeedNames(locOf)
  PROVE  Spec => []LastBboCurrent
<1>1. Init => NamedInv(locOf)
  BY NamedInit
<1>2. NamedInv(locOf) /\ [Next]_vars => NamedInv(locOf)'
  BY NamedStep
<1>3. NamedInv(locOf) => LastBboCurrent
  BY DEF NamedInv
<1> QED
  BY <1>1, <1>2, <1>3, PTL DEF Spec

\* With strict_cross the run stops before any event, of any locate, would show
\* a book that the message crossed in continuous trading.
THEOREM StrictAlways ==
  ASSUME NEW CONSTANT locOf, FeedNames(locOf)
  PROVE  Spec => StrictStaysUncrossed
<1> DEFINE Uncrossed ==
      \A l \in Locates :
        /\ StrictCross /\ Continuous(l) /\ aborted' = "no"
        /\ ~Crossed(Bbo(Book, l))
        => ~Crossed(Bbo(Book, l))'
<1>1. Init => NamedInv(locOf)
  BY NamedInit
<1>2. NamedInv(locOf) /\ [Next]_vars => NamedInv(locOf)'
  BY NamedStep
<1>3. NamedInv(locOf) /\ [Next]_vars => [Uncrossed]_vars
  <2> SUFFICES ASSUME NamedInv(locOf), [Next]_vars, ~UNCHANGED vars
               PROVE  Uncrossed
    OBVIOUS
  <2>1. Eventful
    BY NamedStep
  <2> QED
    BY <2>1, StrictStep DEF Crossed
<1> QED
  BY <1>1, <1>2, <1>3, PTL DEF Spec, StrictStaysUncrossed

=============================================================================
