--------------------------- MODULE ItchDayProofs ---------------------------
(***************************************************************************)
(* What holds of a campaign day for any files, calls and messages: of the  *)
(* download, of the statistics and the vectors, of the capture, and of     *)
(* what the three tools make of one file.                                  *)
(***************************************************************************)
EXTENDS ItchDay, GoldenBookProofs, TLAPS

(***************************************************************************)
(* The download                                                            *)
(***************************************************************************)
\* DownloadSafe is not inductive: that a file which is about to be renamed was
\* compared, and that nothing is compared before it is known with what.
FetchInv ==
  /\ DownloadSafe
  /\ step = "rename" /\ expected => part = published
  /\ step = "md5" => ~expected

LEMMA FetchStep ==
  ASSUME FetchInv, Fetch!FNext
  PROVE  FetchInv'
<1> USE DEF FetchInv, DownloadSafe, Fetch!DownloadSafe, Fetch!FinalIsWhole,
            Fetch!NoPartLeft, NoFile, Fetch!NoFile
<1>1. CASE Fetch!Call
  BY <1>1 DEF Fetch!Call, Fetch!Working
<1>2. CASE Fetch!GotMd5
  BY <1>2 DEF Fetch!GotMd5
<1>3. CASE Fetch!NoMd5
  BY <1>3 DEF Fetch!NoMd5
<1>4. CASE Fetch!Opened
  BY <1>4 DEF Fetch!Opened
<1>5. CASE Fetch!Copied
  BY <1>5 DEF Fetch!Copied
<1>6. CASE Fetch!Broken
  BY <1>6 DEF Fetch!Broken, Fetch!Cleanup
<1>7. CASE Fetch!Checked
  BY <1>7 DEF Fetch!Checked, Fetch!Accepts, Fetch!Cleanup
<1>8. CASE Fetch!Renamed
  BY <1>8 DEF Fetch!Renamed
<1>9. CASE Fetch!Killed
  BY <1>9 DEF Fetch!Killed
<1> QED
  BY <1>1, <1>2, <1>3, <1>4, <1>5, <1>6, <1>7, <1>8, <1>9 DEF Fetch!FNext

\* What the other tools do leaves the download alone.
LEMMA DayStep ==
  ASSUME FetchInv, [DNext]_dayVars
  PROVE  FetchInv'
<1>1. CASE Download
  BY <1>1, FetchStep DEF Download
<1>2. ASSUME UNCHANGED fetchState PROVE FetchInv'
  BY <1>2 DEF fetchState, FetchInv, DownloadSafe, Fetch!DownloadSafe,
              Fetch!FinalIsWhole, Fetch!NoPartLeft
<1>3. CASE StartDay
  BY <1>2, <1>3 DEF StartDay
<1>4. CASE Run
  BY <1>2, <1>4 DEF Run
<1>5. CASE Convert
  BY <1>2, <1>5 DEF Convert
<1>6. CASE UNCHANGED dayVars
  BY <1>2, <1>6 DEF dayVars
<1> QED
  BY <1>1, <1>3, <1>4, <1>5, <1>6 DEF DNext

\* fetch_itch.py:5-7: whatever is published, and however the calls end, a file
\* under its final name is the published one, unless one was accepted without
\* an md5, and a call that ended leaves no part of one.
THEOREM DownloadSafeAlways == DSpec => []DownloadSafe
<1>1. DInit => FetchInv
  BY DEF DInit, FetchInv, DownloadSafe, Fetch!FInit, Fetch!DownloadSafe,
         Fetch!FinalIsWhole, Fetch!NoPartLeft, NoFile, Fetch!NoFile
<1>2. FetchInv /\ [DNext]_dayVars => FetchInv'
  BY DayStep
<1>3. FetchInv => DownloadSafe
  BY DEF FetchInv
<1> QED
  BY <1>1, <1>2, <1>3, PTL DEF DSpec

(***************************************************************************)
(* The messages that reach the book                                        *)
(***************************************************************************)
\* A file of the exchange, or as much of one as was downloaded.
Stored(f) == f.items \in Seq(Item)

LEMMA CutStored ==
  ASSUME NEW f, Stored(f), NEW c \in Cuts(f)
  PROVE  Stored(c)
<1>1. PICK n \in 0..(Len(f.items) - 1) : c.items = SubSeq(f.items, 1, n)
  BY DEF Cuts
<1> QED
  BY <1>1 DEF Stored

\* What iter_messages yields is a message of the feed.
LEMMA FoundIsMessage ==
  ASSUME Stored(file), messages \in Nat, Found = "message"
  PROVE  Item1 \in Msgs /\ run = "running" /\ messages + 1 \in 1..Len(file.items)
<1>1. run = "running" /\ Parsed(file, messages) = "message"
  BY DEF Found
<1>2. Split(file, messages) = "message"
  BY <1>1 DEF Parsed
<1>3. messages < Len(file.items)
  BY <1>2 DEF Split
<1>4. file.items[messages + 1] \in Item /\ messages + 1 \in 1..Len(file.items)
  BY <1>3 DEF Stored
<1>5. Item1.type \in DOMAIN Length
  BY <1>1, <1>2 DEF Parsed, Item1
<1>6. Blank.type \notin DOMAIN Length
  BY DEF Blank, Length
<1>7. Item1 \in Msgs \cup {Blank}
  BY <1>4 DEF Item1, Item
<1> QED
  BY <1>1, <1>4, <1>5, <1>6, <1>7

(***************************************************************************)
(* Statistics                                                              *)
(***************************************************************************)
Untouched(l) ==
  /\ liveCount'[l] = liveCount[l]
  /\ \A s \in Sides : levels'[<<l, s>>] = levels[<<l, s>>]

LEMMA LevelElsewhere ==
  ASSUME NEW b, DOMAIN b.levels = Keys, NEW k, NEW px, NEW qty
  PROVE  /\ DOMAIN LevelAdd(b, k, px, qty).levels = Keys
         /\ \A j \in Keys : j # k => LevelAdd(b, k, px, qty).levels[j] = b.levels[j]
BY DEF LevelAdd

\* A message of a feed that names locates changes the book of its own locate
\* only, and none unless its type is one that modifies the book.
LEMMA OnlyItsLocate ==
  ASSUME NEW locOf, FeedNames(locOf), NamedInv(locOf), NEW m \in Msgs, Apply(m),
         NEW l \in Locates, l # m.loc \/ m.type \notin LookupTypes
  PROVE  Untouched(l)
<1>1. DOMAIN levels = Keys /\ liveCount \in [Locates -> Int]
  BY DEF NamedInv, BookInv, Agree, GoodBook, Book
<1>2. m.ref \in DOMAIN orders /\ m.type \in LookupTypes => orders[m.ref].loc = m.loc
  BY DEF NamedInv, Named, FeedNames
<1>3. \A s \in Sides : <<l, s>> \in Keys
  BY DEF Keys
<1>4. CASE SystemEvent(m) \/ TradingAction(m) \/ Other(m)
  BY <1>4 DEF SystemEvent, TradingAction, Other, vars, Untouched
<1>5. CASE Add(m)
  BY <1>1, <1>3, <1>5 DEF Add, Abort, Untouched, SetBook, LevelAdd, Book, Counted,
                          LookupTypes
<1>6. ASSUME NEW r, l # orders[r].loc, NEW x, Remove(r, x) PROVE Untouched(l)
  BY <1>1, <1>3, <1>6 DEF Remove, Abort, Untouched, SetBook, LevelAdd, Book, Counted,
                          KeyOf
<1>7. ASSUME NEW r, l # orders[r].loc, NEW n, Shrink(r, n) PROVE Untouched(l)
  BY <1>1, <1>3, <1>7 DEF Shrink, Abort, Untouched, SetBook, LevelAdd, Book, KeyOf
<1>8. CASE Reduce(m)
  BY <1>2, <1>6, <1>7, <1>8 DEF Reduce, Anomaly, Abort, Untouched, LookupTypes
<1>9. CASE Delete(m)
  BY <1>2, <1>6, <1>9 DEF Delete, Anomaly, Untouched, LookupTypes
<1>10. CASE Replace(m)
  <2>1. CASE m.ref \notin DOMAIN orders \/ m.qty = 0 \/ m.new \in DOMAIN orders
    BY <1>10, <2>1 DEF Replace, Anomaly, Abort, Untouched
  <2>2. CASE ~(m.ref \notin DOMAIN orders \/ m.qty = 0 \/ m.new \in DOMAIN orders)
    <3>1. l # orders[m.ref].loc
      BY <1>2, <1>10, <2>2 DEF Replace, LookupTypes
    <3> QED
      <4>1. CASE UNCHANGED <<levels, liveCount>>
        BY <4>1 DEF Untouched
      <4>2. ASSUME NEW b, NEW k, NEW px, NEW gone, NEW qty,
                   k = KeyOf(orders[m.ref]), SetBook(b), liveCount' = liveCount,
                   b = LevelAdd(LevelAdd(Book, k, px, gone), k, m.px, qty)
            PROVE  Untouched(l)
        <5> DEFINE half == LevelAdd(Book, k, px, gone)
        <5>1. /\ DOMAIN half.levels = Keys
              /\ \A s \in Sides : half.levels[<<l, s>>] = levels[<<l, s>>]
          BY <1>1, <1>3, <3>1, <4>2, LevelElsewhere DEF KeyOf, Book
        <5> HIDE DEF half
        <5>2. \A s \in Sides : b.levels[<<l, s>>] = half.levels[<<l, s>>]
          BY <1>3, <3>1, <4>2, <5>1, LevelElsewhere DEF KeyOf, half
        <5> QED
          BY <4>2, <5>1, <5>2 DEF Untouched, SetBook
      <4> QED
        BY <1>10, <2>2, <4>1, <4>2 DEF Replace, Abort
  <2> QED
    BY <2>1, <2>2
<1> QED
  BY <1>4, <1>5, <1>8, <1>9, <1>10 DEF Apply

LEMMA PricesFinite == IsFiniteSet(Prices)
<1>1. CASE Prices = {}
  BY <1>1, FS_EmptySet
<1>2. CASE Prices # {}
  <2>1. PICK top \in Prices : \A p \in Prices : p <= top
    BY <1>2, MessageAssumption
  <2>2. Prices \in SUBSET (0..top) /\ top \in Nat
    BY <2>1, MessageAssumption
  <2>3. IsFiniteSet(0..top)
    BY <2>2, FS_Interval
  <2> QED
    BY <2>2, <2>3, FS_Subset
<1> QED
  BY <1>1, <1>2

\* How many orders and levels a locate has is a number.
LEMMA CountsAreNumbers ==
  ASSUME NEW ords, NEW live, NEW b, Agree(ords, b), Counts(ords, live),
         NEW l \in Locates
  PROVE  live[l] \in Nat /\ LevelCount(b.levels, l) \in Nat
<1>1. live[l] \in Nat
  BY OfLocateFinite DEF Counts, Agree
<1>2. ASSUME NEW s \in Sides PROVE Cardinality(DOMAIN b.levels[<<l, s>>]) \in Nat
  <2>1. DOMAIN b.levels[<<l, s>>] \in SUBSET Prices
    BY DEF Agree, GoodBook, GoodLevel, Keys
  <2> QED
    BY <2>1, PricesFinite, FS_Subset, FS_CardinalityType
<1> QED
  BY <1>1, <1>2 DEF LevelCount, Sides

\* The same after a step.
LEMMA CountsStayNumbers ==
  ASSUME BookInv', NEW l \in Locates
  PROVE  liveCount'[l] \in Nat /\ LevelCount(levels', l) \in Nat
<1>1. Agree(orders', Book') /\ Counts(orders', liveCount') /\ Book'.levels = levels'
  BY DEF BookInv, Book
<1> QED
  BY <1>1, CountsAreNumbers

\* A row has the two fields that are compared.
Measured(row) ==
  /\ {"orders", "levels"} \subseteq DOMAIN row
  /\ row.orders \in Nat /\ row.levels \in Nat

LEMMA SampledIs ==
  ASSUME NEW row, Measured(row), NEW m, NEW live \in Nat, NEW count \in Nat
  PROVE  /\ Measured(Sampled(row, m, live, count))
         /\ Sampled(row, m, live, count).orders =
              IF m.type \in LookupTypes THEN Highest(row.orders, live) ELSE row.orders
         /\ Sampled(row, m, live, count).levels =
              IF m.type \in LookupTypes THEN Highest(row.levels, count) ELSE row.levels
<1>0. "R" \notin LookupTypes
  BY DEF LookupTypes, AddTypes, ReduceTypes
<1>1. CASE m.type = "R"
  <2>1. Sampled(row, m, live, count)
          = [[row EXCEPT !.messages = @ + 1] EXCEPT !.symbol = TRUE]
    BY <1>1 DEF Sampled
  <2> QED
    BY <1>0, <1>1, <2>1 DEF Measured
<1>2. CASE m.type # "R" /\ m.type \in LookupTypes
  <2> DEFINE most == Highest(row.orders, live)
  <2> DEFINE deep == Highest(row.levels, count)
  <2>1. Sampled(row, m, live, count)
          = [row EXCEPT !.messages = @ + 1, !.orders = most, !.levels = deep]
    BY <1>2 DEF Sampled
  <2>2. most \in Nat /\ deep \in Nat
    BY DEF Measured, Highest
  <2> HIDE DEF most, deep
  <2>3. /\ Measured(Sampled(row, m, live, count))
        /\ Sampled(row, m, live, count).orders = most
        /\ Sampled(row, m, live, count).levels = deep
    BY <2>1, <2>2 DEF Measured
  <2> QED
    BY <1>2, <2>3 DEF most, deep
<1>3. CASE m.type # "R" /\ m.type \notin LookupTypes
  BY <1>3 DEF Sampled, Measured
<1> QED
  BY <1>1, <1>2, <1>3

RowsType ==
  /\ DOMAIN syms \subseteq Locates \ {0} /\ IsFiniteSet(DOMAIN syms)
  /\ \A l \in DOMAIN syms : Measured(syms[l])

\* PeaksAreTrue is not inductive: what a locate has now is no more than its
\* peak.
AtPeak(l) ==
  /\ liveCount[l] <= peak[l].orders
  /\ LevelCount(levels, l) <= peak[l].levels
  /\ l # 0 => /\ RowOf(l).orders = peak[l].orders
              /\ RowOf(l).levels = peak[l].levels

PeakInv ==
  /\ peak \in [Locates -> [orders : Nat, levels : Nat]]
  /\ RowsType
  /\ aborted = "no" => \A l \in Locates : AtPeak(l)

\* What a message of the feed does to the rows.
LEMMA RowsStep ==
  ASSUME RowsType, BookInv', NEW m \in Msgs, Observe(m)
  PROVE  /\ RowsType'
         /\ \A l \in Locates \ {0} :
              /\ RowOf(l)'.orders = IF l = m.loc /\ m.type \in LookupTypes
                                   THEN Highest(RowOf(l).orders, liveCount'[l])
                                   ELSE RowOf(l).orders
              /\ RowOf(l)'.levels = IF l = m.loc /\ m.type \in LookupTypes
                                   THEN Highest(RowOf(l).levels, LevelCount(levels', l))
                                   ELSE RowOf(l).levels
<1>1. m.loc \in Locates
  BY MessageFields
<1>2. CASE m.loc = 0
  BY <1>2 DEF Observe, RowsType, RowOf
<1>3. CASE m.loc # 0
  <2> DEFINE live == liveCount'[m.loc]
  <2> DEFINE count == LevelCount(levels', m.loc)
  <2> DEFINE now == Sampled(RowOf(m.loc), m, live, count)
  <2>1. Measured(RowOf(m.loc))
    BY DEF RowOf, RowsType, NewRow, Measured
  <2>2. live \in Nat /\ count \in Nat
    BY <1>1, CountsStayNumbers
  <2>3. syms' = Put(syms, m.loc, now)
    BY <1>3 DEF Observe
  <2> HIDE DEF live, count
  <2>4. /\ Measured(now)
        /\ now.orders = IF m.type \in LookupTypes THEN Highest(RowOf(m.loc).orders, live)
                        ELSE RowOf(m.loc).orders
        /\ now.levels = IF m.type \in LookupTypes THEN Highest(RowOf(m.loc).levels, count)
                        ELSE RowOf(m.loc).levels
    BY <2>1, <2>2, SampledIs
  <2> HIDE DEF now
  <2>5. RowsType'
    <3>1. DOMAIN syms' = DOMAIN syms \cup {m.loc}
      BY <2>3 DEF Put
    <3>2. IsFiniteSet(DOMAIN syms')
      BY <3>1, FS_AddElement DEF RowsType
    <3> QED
      BY <1>1, <1>3, <2>3, <2>4, <3>1, <3>2 DEF RowsType, Put
  <2>6. \A l : RowOf(l)' = IF l = m.loc THEN now ELSE RowOf(l)
    BY <2>3 DEF RowOf, Put, NewRow
  <2> QED
    BY <2>4, <2>5, <2>6 DEF live, count
<1> QED
  BY <1>2, <1>3

\* A message that goes the whole way, up to the vectors.
LEMMA PeakStep ==
  ASSUME NEW locOf, FeedNames(locOf), NamedInv(locOf), BookInv', PeakInv,
         NEW m \in Msgs, Apply(m), Observe(m), peak' = TruePeak
  PROVE  PeakInv'
<1>1. /\ RowsType'
      /\ \A l \in Locates \ {0} :
           /\ RowOf(l)'.orders = IF l = m.loc /\ m.type \in LookupTypes
                                THEN Highest(RowOf(l).orders, liveCount'[l])
                                ELSE RowOf(l).orders
           /\ RowOf(l)'.levels = IF l = m.loc /\ m.type \in LookupTypes
                                THEN Highest(RowOf(l).levels, LevelCount(levels', l))
                                ELSE RowOf(l).levels
  BY RowsStep DEF PeakInv
<1>2. ASSUME NEW l \in Locates
      PROVE  liveCount'[l] \in Nat /\ LevelCount(levels', l) \in Nat
  BY CountsStayNumbers
<1>3. peak' \in [Locates -> [orders : Nat, levels : Nat]]
  BY <1>2 DEF PeakInv, TruePeak, Highest
<1>4. ASSUME NEW l \in Locates PROVE AtPeak(l)'
  <2>1. /\ AtPeak(l) /\ peak[l] \in [orders : Nat, levels : Nat]
        /\ peak'[l].orders = Highest(peak[l].orders, liveCount'[l])
        /\ peak'[l].levels = Highest(peak[l].levels, LevelCount(levels', l))
    BY DEF PeakInv, TruePeak, Apply
  <2>2. CASE l = m.loc /\ m.type \in LookupTypes
    BY <1>1, <1>2, <2>1, <2>2 DEF AtPeak, Highest
  <2>3. CASE ~(l = m.loc /\ m.type \in LookupTypes)
    <3>1. Untouched(l)
      BY <2>3, OnlyItsLocate
    <3>2. liveCount'[l] = liveCount[l] /\ LevelCount(levels', l) = LevelCount(levels, l)
      BY <3>1 DEF Untouched, LevelCount, Sides
    <3>3. peak'[l].orders = peak[l].orders /\ peak'[l].levels = peak[l].levels
      BY <1>2, <2>1, <3>2 DEF AtPeak, Highest
    <3> QED
      BY <1>1, <2>1, <2>3, <3>2, <3>3 DEF AtPeak
  <2> QED
    BY <2>2, <2>3
<1> QED
  BY <1>1, <1>3, <1>4 DEF PeakInv

(***************************************************************************)
(* The day                                                                 *)
(***************************************************************************)
\* Every file there is has items, and the run has counted some of its file's;
\* the tools are called as they may be.
FilesStored ==
  /\ Stored(published) /\ Stored(final) /\ Stored(part) /\ Stored(file)
  /\ messages \in Nat /\ args \in Calls

\* The converter and the oracle read the arguments and the file.
LEMMA ConvertKeeps == Pcap!PNext => UNCHANGED <<args, file>>
BY DEF Pcap!PNext, Pcap!Begin, Pcap!Pack, Pcap!Finish, Pcap!Raise, Pcap!Listen,
       Pcap!Hear, Pcap!NextPacket, Pcap!Heed

\* A step of the day is one of the run, the start of the tools, or none of what
\* the run works on.
LEMMA DayKinds ==
  ASSUME [DNext]_dayVars
  PROVE  \/ Run
         \/ StartDay
         \/ /\ UNCHANGED <<vars, runVars>>
            /\ Download \/ UNCHANGED fetchState
<1>1. CASE Convert
  BY <1>1, ConvertKeeps DEF Convert, runVars
<1> QED
  BY <1>1 DEF DNext, Download, dayVars

LEMMA FilesInit == DInit => FilesStored
<1> SUFFICES ASSUME DInit PROVE FilesStored
  OBVIOUS
<1>1. /\ published \in Days /\ file = NoFile /\ messages = 0 /\ args \in Calls
      /\ final = NoFile /\ part = NoFile
  BY DEF DInit, RInit, Fetch!FInit, NoFile, Fetch!NoFile
<1>2. Stored(published)
  BY <1>1, DayAssumption DEF IsFile, Stored
<1>3. Stored(NoFile)
  BY DEF Stored, NoFile
<1> QED
  BY <1>1, <1>2, <1>3 DEF FilesStored

LEMMA FilesStep ==
  ASSUME FilesStored, [DNext]_dayVars
  PROVE  FilesStored'
<1>1. CASE Run
  BY <1>1 DEF Run, RNext, FilesStored, Stored, fetchState, Outcome, Open, Process,
              BookRaises, RecordRaises, ParserRaises, Close, Select
<1>2. CASE StartDay
  BY <1>2 DEF StartDay, FilesStored, Stored, fetchState
<1>3. CASE UNCHANGED <<vars, runVars>> /\ Download
  <2>1. /\ UNCHANGED <<file, messages, published, args>>
        /\ final' \in {final, part}
        /\ part' \in {part, NoFile, [items |-> <<>>, tail |-> "whole"], published}
                       \cup Cuts(published)
    BY <1>3 DEF runVars, Download, Fetch!FNext, Fetch!Call, Fetch!GotMd5, Fetch!NoMd5,
                Fetch!Opened, Fetch!Copied, Fetch!Broken, Fetch!Cleanup, Fetch!Checked,
                Fetch!Renamed, Fetch!Killed, Fetch!Cuts, Cuts, Fetch!NoFile, NoFile,
                Fetch!Tails, Tails
  <2>2. \A c \in Cuts(published) : Stored(c)
    BY CutStored DEF FilesStored
  <2>3. Stored(NoFile) /\ Stored([items |-> <<>>, tail |-> "whole"])
    BY DEF Stored, NoFile
  <2> QED
    BY <2>1, <2>2, <2>3 DEF FilesStored
<1>4. CASE UNCHANGED <<vars, runVars>> /\ UNCHANGED fetchState
  BY <1>4 DEF FilesStored, Stored, runVars, fetchState
<1> QED
  BY <1>1, <1>2, <1>3, <1>4, DayKinds

\* The order in which a run gets on, and what it leaves.
RunInv ==
  /\ run # "failed" => aborted = "no"
  /\ Downloading => run = "waiting"
  /\ run = "waiting" => vec = <<>> /\ events = <<>>
  /\ csv = "new" => run = "done"
  /\ picked # {} => csv = "new"

LEMMA RunInit == DInit => RunInv
BY DEF DInit, RInit, Init, RunInv

LEMMA RunStep ==
  ASSUME RunInv, [DNext]_dayVars
  PROVE  RunInv'
<1>1. CASE Run
  BY <1>1 DEF Run, RNext, RunInv, Downloading, Outcome, Found, vars, Open, Process,
              BookRaises, RecordRaises, ParserRaises, Close, Select
<1>2. CASE StartDay
  BY <1>2 DEF StartDay, RunInv, Downloading, vars
<1>3. CASE UNCHANGED <<vars, runVars>>
  BY <1>3 DEF RunInv, Downloading, vars, runVars
<1> QED
  BY <1>1, <1>2, <1>3, DayKinds

\* Whatever the run does to the book is what messages of the feed do to it.
LEMMA BookSteps ==
  ASSUME FilesStored, [DNext]_dayVars
  PROVE  [Next]_vars
<1>1. ASSUME Found = "message", Apply(Item1) PROVE Next
  BY <1>1, FoundIsMessage DEF FilesStored, Next
<1>2. CASE Run
  BY <1>1, <1>2 DEF Run, RNext, Open, Process, BookRaises, RecordRaises,
                    ParserRaises, Close, Select
<1>3. CASE StartDay
  BY <1>3 DEF StartDay
<1> QED
  BY <1>2, <1>3, DayKinds

\* The largest symbols are the ones that are picked: what comes before the row
\* of one that is left out also comes before every row with fewer orders.
LEMMA SelectStep ==
  ASSUME PeakInv, aborted = "no", Select
  PROVE  PickedAreLargest'
<1> DEFINE Before(l) == {k \in DOMAIN syms : Above(k, l)}
<1>1. /\ picked' = {l \in DOMAIN syms : Cardinality(Before(l)) < PickMax}
      /\ syms' = syms /\ peak' = peak
  BY DEF Select
<1>2. \A l \in DOMAIN syms :
        /\ IsFiniteSet(Before(l)) /\ Cardinality(Before(l)) \in Nat
        /\ syms[l].orders = peak[l].orders /\ syms[l].orders \in Nat
  <2>1. ASSUME NEW l \in DOMAIN syms
        PROVE  IsFiniteSet(Before(l)) /\ Cardinality(Before(l)) \in Nat
    BY FS_Subset, FS_CardinalityType DEF PeakInv, RowsType
  <2>2. ASSUME NEW l \in DOMAIN syms
        PROVE  syms[l].orders = peak[l].orders /\ syms[l].orders \in Nat
    BY DEF PeakInv, RowsType, Measured, AtPeak, RowOf
  <2> QED
    BY <2>1, <2>2
<1>3. ASSUME NEW l \in picked', NEW k \in DOMAIN syms' \ picked'
      PROVE  peak'[l].orders >= peak'[k].orders
  <2>1. /\ l \in DOMAIN syms /\ k \in DOMAIN syms
        /\ Cardinality(Before(l)) < PickMax /\ ~(Cardinality(Before(k)) < PickMax)
    BY <1>1, <1>3
  <2>2. ASSUME syms[k].orders > syms[l].orders PROVE FALSE
    <3>1. ASSUME NEW x \in Before(k) PROVE x \in Before(l)
      <4>1. x \in DOMAIN syms /\ Above(x, k)
        OBVIOUS
      <4>2. syms[x].orders \in Nat /\ syms[k].orders \in Nat /\ syms[l].orders \in Nat
        BY <1>2, <2>1, <4>1
      <4>3. syms[x].orders >= syms[k].orders
        BY <4>1, <4>2 DEF Above
      <4>4. syms[x].orders > syms[l].orders
        BY <2>2, <4>2, <4>3
      <4> QED
        BY <4>1, <4>4 DEF Above
    <3>2. Cardinality(Before(k)) <= Cardinality(Before(l))
      <4> HIDE DEF Before
      <4> QED
        BY <1>2, <2>1, <3>1, FS_Subset, Zenon
    <3> QED
      <4> HIDE DEF Before
      <4> QED
        BY <1>2, <2>1, <3>2, DayAssumption
  <2> QED
    BY <1>1, <1>2, <2>1, <2>2
<1> QED
  BY <1>3 DEF PickedAreLargest

\* The inductive invariant of the sizes.
SizesInv(locOf) ==
  NamedInv(locOf) /\ FilesStored /\ RunInv /\ PeakInv /\ PickedAreLargest

LEMMA SizesStep ==
  ASSUME NEW locOf, FeedNames(locOf), SizesInv(locOf), [DNext]_dayVars
  PROVE  SizesInv(locOf)'
<1>1. FilesStored' /\ RunInv'
  BY FilesStep, RunStep DEF SizesInv
<1>2. [Next]_vars
  BY BookSteps DEF SizesInv
<1>3. NamedInv(locOf)' /\ BookInv'
  BY <1>2, NamedStep DEF SizesInv, NamedInv
<1>4. ASSUME picked = {}, picked' = picked PROVE PickedAreLargest'
  BY <1>4 DEF PickedAreLargest
<1>5. ASSUME UNCHANGED <<picked, syms, peak, aborted, liveCount, levels>>
      PROVE  PeakInv' /\ PickedAreLargest'
  BY <1>5 DEF SizesInv, PickedAreLargest, PeakInv, RowsType, AtPeak, RowOf, LevelCount
<1>6. ASSUME run = "running" PROVE picked = {}
  BY <1>6 DEF SizesInv, RunInv
<1>7. PeakInv' /\ PickedAreLargest'
  <2>1. CASE Run
    <3>1. CASE Open \/ ParserRaises \/ Close
      BY <1>5, <3>1 DEF Open, ParserRaises, Close, Outcome, vars
    <3>2. CASE Process \/ RecordRaises
      <4>1. /\ Found = "message" /\ Apply(Item1) /\ Observe(Item1) /\ peak' = TruePeak
            /\ picked' = picked
        BY <3>2 DEF Process, RecordRaises, Outcome
      <4>2. Item1 \in Msgs /\ run = "running"
        BY <4>1, FoundIsMessage DEF SizesInv, FilesStored
      <4>3. PeakInv'
        BY <1>3, <4>1, <4>2, PeakStep DEF SizesInv
      <4> QED
        BY <1>4, <1>6, <4>1, <4>2, <4>3
    <3>3. CASE BookRaises
      <4>1. run = "running"
        BY <3>3 DEF BookRaises, Found
      <4>2. PeakInv'
        BY <3>3 DEF BookRaises, SizesInv, PeakInv, RowsType
      <4> QED
        BY <1>4, <1>6, <3>3, <4>1, <4>2 DEF BookRaises, Outcome
    <3>4. CASE Select
      <4>1. aborted = "no"
        BY <3>4 DEF Select, SizesInv, RunInv
      <4>2. PickedAreLargest'
        BY <3>4, <4>1, SelectStep DEF SizesInv
      <4>3. PeakInv'
        BY <3>4 DEF Select, SizesInv, vars, PeakInv, RowsType, AtPeak, RowOf, LevelCount
      <4> QED
        BY <4>2, <4>3
    <3> QED
      BY <2>1, <3>1, <3>2, <3>3, <3>4 DEF Run, RNext
  <2>2. CASE StartDay
    BY <1>5, <2>2 DEF StartDay, vars
  <2>3. CASE UNCHANGED <<vars, runVars>>
    BY <1>5, <2>3 DEF vars, runVars
  <2> QED
    BY <2>1, <2>2, <2>3, DayKinds
<1> QED
  BY <1>1, <1>3, <1>7 DEF SizesInv

LEMMA SizesInit == ASSUME NEW locOf, DInit PROVE SizesInv(locOf)
<1>1. RInit /\ Init
  BY DEF DInit, RInit
<1>2. NamedInv(locOf) /\ FilesStored /\ RunInv
  BY <1>1, NamedInit, FilesInit, RunInit
<1>3. PickedAreLargest
  BY <1>1 DEF RInit, PickedAreLargest
<1>4. RowsType
  BY <1>1, FS_EmptySet DEF RInit, RowsType
<1>5. ASSUME NEW l \in Locates PROVE AtPeak(l)
  <2>1. liveCount[l] = 0 /\ peak[l] = [orders |-> 0, levels |-> 0]
    BY <1>1 DEF RInit, Init
  <2>2. LevelCount(levels, l) = 0
    <3>1. \A s \in Sides : DOMAIN levels[<<l, s>>] = {}
      BY <1>1 DEF Init, Keys
    <3> QED
      BY <3>1, FS_EmptySet DEF LevelCount, Sides
  <2>3. RowOf(l) = NewRow
    BY <1>1 DEF RInit, RowOf
  <2> QED
    BY <2>1, <2>2, <2>3 DEF AtPeak, NewRow
<1>6. PeakInv
  BY <1>1, <1>4, <1>5 DEF PeakInv, RInit
<1> QED
  BY <1>2, <1>3, <1>6 DEF SizesInv

\* stats.py and select_subset.py, for any files, wherever the download, the run
\* or a message in it stops: the peaks that are sampled at the messages of a
\* symbol are the most orders and levels it ever had, and no symbol that is left
\* out held more orders than one that is picked.  The feed names locates.
THEOREM SizesAreTrueAlways ==
  ASSUME NEW CONSTANT locOf, FeedNames(locOf)
  PROVE  DSpec => []SizesAreTrue
<1>1. DInit => SizesInv(locOf)
  BY SizesInit
<1>2. SizesInv(locOf) /\ [DNext]_dayVars => SizesInv(locOf)'
  BY SizesStep
<1>3. SizesInv(locOf) => SizesAreTrue
  BY DEF SizesInv, SizesAreTrue, PeaksAreTrue, PeakInv, RowsType, AtPeak
<1> QED
  BY <1>1, <1>2, <1>3, PTL DEF DSpec

(***************************************************************************)
(* Vectors                                                                 *)
(***************************************************************************)
IsSequence(s) == \E S : s \in Seq(S)

LEMMA AppendIs ==
  ASSUME NEW s, IsSequence(s), NEW e, NEW t, t = Append(s, e)
  PROVE  /\ IsSequence(t) /\ Len(s) \in Nat /\ Len(t) = Len(s) + 1
         /\ t[Len(s) + 1] = e
         /\ \A i \in 1..Len(s) : t[i] = s[i]
<1>1. PICK S : s \in Seq(S)
  BY DEF IsSequence
<1>2. s \in Seq(S \cup {e}) /\ e \in S \cup {e}
  BY <1>1
<1>3. t \in Seq(S \cup {e})
  BY <1>2
<1> QED
  BY <1>2, <1>3 DEF IsSequence

\* An event that reaches the run is the last BBO of its locate, and no other
\* message changes a last BBO.
LEMMA EventIs ==
  ASSUME BookInv, NEW m \in Msgs, Apply(m), aborted' = "no"
  PROVE  \/ EventLoc(m) = None /\ lastBbo' = lastBbo
         \/ /\ EventLoc(m) \in Locates
            /\ \E bbo : lastBbo' = Put(lastBbo, EventLoc(m), bbo)
<1>1. \A b, l : Emit(b, l) => lastBbo' = Put(lastBbo, l, Bbo(b, l))
  BY DEF Emit
<1>2. \A r, l : Remove(r, l) => \E bbo : lastBbo' = Put(lastBbo, l, bbo)
  BY <1>1 DEF Remove, Abort
<1>3. \A r, n : Shrink(r, n) => \E bbo : lastBbo' = Put(lastBbo, orders[r].loc, bbo)
  BY <1>1 DEF Shrink, Abort
<1>4. m.ref \in DOMAIN orders => orders[m.ref].loc \in Locates
  BY DEF BookInv, Agree, GoodOrders, Order
<1>5. m.loc \in Locates
  BY MessageFields
<1>6. CASE SystemEvent(m) \/ TradingAction(m) \/ Other(m)
  BY <1>6 DEF SystemEvent, TradingAction, Other, vars, EventLoc, AddTypes, LookupTypes,
              ReduceTypes
<1>7. CASE Add(m)
  BY <1>1, <1>5, <1>7 DEF Add, Abort, EventLoc
<1>8. CASE Reduce(m)
  <2>1. m.type \notin AddTypes /\ m.type \in LookupTypes /\ m.type # "D"
    BY <1>8 DEF Reduce, AddTypes, ReduceTypes, LookupTypes
  <2> QED
    BY <1>2, <1>3, <1>4, <1>8, <2>1 DEF Reduce, Anomaly, Abort, EventLoc
<1>9. CASE Delete(m)
  <2>1. m.type \notin AddTypes /\ m.type \in LookupTypes /\ m.type = "D"
    BY <1>9 DEF Delete, AddTypes, LookupTypes
  <2> QED
    BY <1>2, <1>5, <1>9, <2>1 DEF Delete, Anomaly, EventLoc
<1>10. CASE Replace(m)
  <2>1. m.type \notin AddTypes /\ m.type \in LookupTypes /\ m.type # "D"
    BY <1>10 DEF Replace, AddTypes, LookupTypes
  <2> QED
    BY <1>1, <1>4, <1>10, <2>1 DEF Replace, Anomaly, Abort, EventLoc
<1> QED
  BY <1>6, <1>7, <1>8, <1>9, <1>10 DEF Apply

\* The events that owe a record, and the place of one among them.
Owed == {j \in 1..Len(events) : Wanted(events[j][2])}
Nth(S, j) == Cardinality({k \in S : k <= j})

\* A later event comes after all the others.
Grown(S, T, n) ==
  /\ Cardinality(S) \in Nat /\ Cardinality(T) = Cardinality(S) + 1
  /\ \A j \in S : Nth(T, j) = Nth(S, j) /\ Nth(S, j) \in 1..Cardinality(S)
  /\ Nth(T, n + 1) = Cardinality(S) + 1

LEMMA NthGrows ==
  ASSUME NEW n \in Nat, NEW S \in SUBSET (1..n), NEW T, T = S \cup {n + 1}
  PROVE  Grown(S, T, n)
<1>1. IsFiniteSet(S) /\ Cardinality(S) \in Nat
  <2>1. IsFiniteSet(1..n)
    BY FS_Interval
  <2> QED
    BY <2>1, FS_Subset, FS_CardinalityType
<1>2. Cardinality(T) = Cardinality(S) + 1
  <2>1. n + 1 \notin S
    OBVIOUS
  <2> QED
    BY <1>1, <2>1, FS_AddElement
<1>3. ASSUME NEW j \in S
      PROVE  Nth(T, j) = Nth(S, j) /\ Nth(S, j) \in 1..Cardinality(S)
  <2> DEFINE upTo == {k \in S : k <= j}
  <2>1. {k \in T : k <= j} = upTo
    OBVIOUS
  <2>2. upTo \subseteq S /\ j \in upTo
    OBVIOUS
  <2> HIDE DEF upTo
  <2>3. /\ IsFiniteSet(upTo) /\ Cardinality(upTo) \in Nat
        /\ Cardinality(upTo) <= Cardinality(S)
    BY <1>1, <2>2, FS_Subset, FS_CardinalityType
  <2>4. Cardinality(upTo) # 0
    BY <2>2, <2>3, FS_EmptySet
  <2> QED
    BY <1>1, <2>1, <2>3, <2>4 DEF Nth, upTo
<1>4. {k \in T : k <= n + 1} = T
  <2>1. \A k \in T : k <= n + 1
    OBVIOUS
  <2> QED
    BY <2>1
<1> QED
  BY <1>1, <1>2, <1>3, <1>4 DEF Nth, Grown

\* What a record says, of the event it is owed by.
Records(v, es, S) ==
  \A j \in S :
    Nth(S, j) <= Len(v) =>
      /\ <<v[Nth(S, j)].idx, v[Nth(S, j)].loc, v[Nth(S, j)].bbo>> = es[j]
      /\ v[Nth(S, j)].type = file.items[es[j][1] + 1].msg.type

LEMMA RecordsAre ==
  RecordsAreEvents <=>
    /\ Records(vec, events, Owed)
    /\ \/ Len(vec) = Cardinality(Owed)
       \/ run = "failed" /\ Len(vec) = Cardinality(Owed) - 1
BY DEF RecordsAreEvents, Records, Owed, Nth

\* The events are those of before.
LEMMA RecordsStay ==
  ASSUME RecordsAreEvents, run = "failed" => run' = "failed",
         UNCHANGED <<vec, file, args>>, IsSequence(events),
         \/ events' = events
         \/ \E e : events' = Append(events, e) /\ ~Wanted(e[2])
  PROVE  RecordsAreEvents'
<1>1. Owed' = Owed /\ \A j \in Owed : events'[j] = events[j]
  <2>1. CASE events' = events
    BY <2>1 DEF Owed, Wanted
  <2>2. ASSUME NEW e, events' = Append(events, e), ~Wanted(e[2])
        PROVE  Owed' = Owed /\ \A j \in Owed : events'[j] = events[j]
    <3>1. /\ Len(events) \in Nat /\ Len(events') = Len(events) + 1
          /\ events'[Len(events) + 1] = e
          /\ \A i \in 1..Len(events) : events'[i] = events[i]
      BY <2>2, AppendIs
    <3>2. \A x : Wanted(x)' <=> Wanted(x)
      BY DEF Wanted
    <3> QED
      BY <2>2, <3>1, <3>2 DEF Owed
  <2> QED
    BY <2>1, <2>2
<1>2. /\ Records(vec, events, Owed)
      /\ \/ Len(vec) = Cardinality(Owed)
         \/ run = "failed" /\ Len(vec) = Cardinality(Owed) - 1
  BY RecordsAre
<1>3. /\ \A j \in Owed' : Nth(Owed', j) <= Len(vec') =>
           /\ <<vec'[Nth(Owed', j)].idx, vec'[Nth(Owed', j)].loc, vec'[Nth(Owed', j)].bbo>>
                = events'[j]
           /\ vec'[Nth(Owed', j)].type = file'.items[events'[j][1] + 1].msg.type
      /\ \/ Len(vec') = Cardinality(Owed')
         \/ run' = "failed" /\ Len(vec') = Cardinality(Owed') - 1
  BY <1>1, <1>2 DEF Records
<1> QED
  BY <1>3 DEF RecordsAreEvents, Owed, Nth

\* There is one more event, of a locate that is wanted, and its record unless
\* the run has failed.
LEMMA RecordsGrow ==
  ASSUME RecordsAreEvents, run = "running", UNCHANGED <<file, args>>,
         IsSequence(events), IsSequence(vec),
         NEW r, NEW e, e = <<r.idx, r.loc, r.bbo>>, Wanted(r.loc),
         r.type = file.items[r.idx + 1].msg.type,
         events' = Append(events, e),
         vec' = Append(vec, r) \/ (vec' = vec /\ run' = "failed")
  PROVE  RecordsAreEvents'
<1> DEFINE n == Len(events)
<1>1. /\ n \in Nat /\ Len(events') = n + 1 /\ events'[n + 1] = e
      /\ \A i \in 1..n : events'[i] = events[i]
  BY AppendIs
<1>2. Owed \in SUBSET (1..n) /\ Owed' = Owed \cup {n + 1}
  <2>1. \A x : Wanted(x)' <=> Wanted(x)
    BY DEF Wanted
  <2>2. e[2] = r.loc
    OBVIOUS
  <2> QED
    BY <1>1, <2>1, <2>2 DEF Owed
<1>3. Records(vec, events, Owed) /\ Len(vec) = Cardinality(Owed)
  BY RecordsAre
<1> HIDE DEF n
<1>21. PICK was : was = Owed
  OBVIOUS
<1>22. PICK now : now = Owed'
  OBVIOUS
<1>23. was \in SUBSET (1..n) /\ now = was \cup {n + 1} /\ Records(vec, events, was)
       /\ Len(vec) = Cardinality(was)
  BY <1>2, <1>3, <1>21, <1>22
<1>4. /\ Cardinality(was) \in Nat /\ Cardinality(now) = Cardinality(was) + 1
      /\ \A j \in was : Nth(now, j) = Nth(was, j) /\ Nth(was, j) \in 1..Cardinality(was)
      /\ Nth(now, n + 1) = Cardinality(was) + 1
  <2>1. Grown(was, now, n)
    BY <1>1, <1>23, NthGrows
  <2> QED
    BY <2>1 DEF Grown
<1>5. /\ Len(vec) \in Nat
      /\ \A i \in 1..Len(vec) : vec'[i] = vec[i]
      /\ \/ Len(vec') = Len(vec) + 1 /\ vec'[Len(vec) + 1] = r
         \/ Len(vec') = Len(vec) /\ run' = "failed"
  BY AppendIs
<1> DEFINE Right(j) ==
      Nth(now, j) <= Len(vec') =>
        /\ <<vec'[Nth(now, j)].idx, vec'[Nth(now, j)].loc, vec'[Nth(now, j)].bbo>>
             = events'[j]
        /\ vec'[Nth(now, j)].type = file'.items[events'[j][1] + 1].msg.type
<1>6. ASSUME NEW j \in was PROVE Right(j)
  <2>1. /\ vec'[Nth(now, j)] = vec[Nth(was, j)] /\ events'[j] = events[j]
        /\ Nth(was, j) <= Len(vec)
    <3>1. Nth(now, j) = Nth(was, j) /\ Nth(was, j) \in 1..Len(vec)
      BY <1>23, <1>4
    <3>2. vec'[Nth(was, j)] = vec[Nth(was, j)]
      BY <1>5, <3>1
    <3>3. events'[j] = events[j]
      BY <1>1, <1>23
    <3>4. Nth(was, j) <= Len(vec)
      BY <1>5, <3>1
    <3> QED
      BY <3>1, <3>2, <3>3, <3>4
  <2> QED
    BY <1>23, <2>1 DEF Records
<1>7. Right(n + 1)
  <2>1. CASE Len(vec') = Len(vec) + 1 /\ vec'[Len(vec) + 1] = r
    BY <1>1, <1>23, <1>4, <2>1
  <2>2. CASE Len(vec') = Len(vec)
    BY <1>23, <1>4, <2>2
  <2> QED
    BY <1>5, <2>1, <2>2
<1>8. \A j \in now : Right(j)
  BY <1>23, <1>6, <1>7
<1>9. \/ Len(vec') = Cardinality(Owed')
      \/ run' = "failed" /\ Len(vec') = Cardinality(Owed') - 1
  BY <1>21, <1>22, <1>23, <1>4, <1>5
<1> QED
  BY <1>8, <1>9, <1>22 DEF RecordsAreEvents, Owed, Nth

(***************************************************************************)
(* The flag of a record                                                    *)
(***************************************************************************)
LEMMA LatestExists ==
  ASSUME NEW n \in Nat, NEW S \in SUBSET (1..n), S # {}
  PROVE  \E x \in S : \A y \in S : y <= x
<1> DEFINE T == {n - x : x \in S}
<1>1. T \in SUBSET Nat /\ T # {}
  <2>1. ASSUME NEW x \in S PROVE n - x \in Nat
    <3>1. x \in 1..n
      OBVIOUS
    <3> QED
      BY <3>1
  <2> QED
    BY <2>1
<1>2. PICK t \in T : \A u \in T : t <= u
  <2> HIDE DEF T
  <2> QED
    BY <1>1, LeastExists
<1>3. PICK x \in S : t = n - x
  BY <1>2
<1>4. ASSUME NEW y \in S PROVE y <= x
  <2>1. n - y \in T
    OBVIOUS
  <2>2. n - x <= n - y
    BY <1>2, <1>3, <2>1
  <2> QED
    BY <2>2
<1> QED
  BY <1>4

\* The records of the same symbol before record i, and the latest of some.
Before(v, i) == {j \in 1..(i - 1) : v[j].loc = v[i].loc}
Latest(S) == CHOOSE j \in S : \A k \in S : k <= j

Flagged(v, i) ==
  v[i].changed = (Before(v, i) = {} \/ v[Latest(Before(v, i))].bbo # v[i].bbo)

LEMMA LatestIs ==
  ASSUME NEW n \in Nat, NEW S \in SUBSET (1..n), S # {}
  PROVE  Latest(S) \in S /\ \A k \in S : k <= Latest(S)
BY LatestExists DEF Latest

\* A record that follows changes nothing of the ones before it.
LEMMA FlagKept ==
  ASSUME NEW v, IsSequence(v), NEW e, NEW w, w = Append(v, e),
         NEW i \in 1..Len(v), Flagged(v, i)
  PROVE  Flagged(w, i)
<1>1. Len(v) \in Nat /\ \A j \in 1..Len(v) : w[j] = v[j]
  BY AppendIs
<1>2. Before(w, i) = Before(v, i) /\ w[i] = v[i]
  BY <1>1 DEF Before
<1>3. CASE Before(v, i) = {}
  BY <1>2, <1>3 DEF Flagged
<1>4. CASE Before(v, i) # {}
  <2>1. Before(v, i) \in SUBSET (1..Len(v))
    BY <1>1 DEF Before
  <2>2. Latest(Before(v, i)) \in 1..Len(v)
    BY <1>1, <1>4, <2>1, LatestIs
  <2> QED
    BY <1>1, <1>2, <2>2 DEF Flagged
<1> QED
  BY <1>3, <1>4

\* The last record of locate l is number j.
IsLast(v, j, l) ==
  v[j].loc = l /\ \A k \in 1..Len(v) : v[k].loc = l => k <= j

\* What a dictionary of last BBOs says of the records of a locate.
Told(v, d, l) ==
  IF l \in DOMAIN d THEN \E j \in 1..Len(v) : IsLast(v, j, l) /\ v[j].bbo = d[l]
  ELSE \A j \in 1..Len(v) : v[j].loc # l

LEMMA FlagNew ==
  ASSUME NEW v, IsSequence(v), NEW d, NEW e, Told(v, d, e.loc),
         e.changed = (e.loc \notin DOMAIN d \/ d[e.loc] # e.bbo),
         NEW w, w = Append(v, e)
  PROVE  Flagged(w, Len(v) + 1)
<1> DEFINE n == Len(v)
<1>1. n \in Nat /\ w[n + 1] = e /\ \A j \in 1..n : w[j] = v[j]
  BY AppendIs
<1>2. Before(w, n + 1) = {j \in 1..n : v[j].loc = e.loc}
  BY <1>1 DEF Before
<1> HIDE DEF n
<1>3. CASE e.loc \notin DOMAIN d
  <2>1. Before(w, n + 1) = {}
    BY <1>2, <1>3 DEF Told, n
  <2> QED
    BY <1>1, <1>3, <2>1 DEF Flagged, n
<1>4. CASE e.loc \in DOMAIN d
  <2>1. PICK j \in 1..n : IsLast(v, j, e.loc) /\ v[j].bbo = d[e.loc]
    BY <1>4 DEF Told, n
  <2>2. j \in Before(w, n + 1) /\ \A k \in Before(w, n + 1) : k <= j /\ k \in 1..n
    BY <1>2, <2>1 DEF IsLast, n
  <2>3. /\ Latest(Before(w, n + 1)) \in Before(w, n + 1)
        /\ \A k \in Before(w, n + 1) : k <= Latest(Before(w, n + 1))
    BY <1>1, <2>2, LatestIs
  <2>4. Latest(Before(w, n + 1)) = j
    <3>1. /\ Latest(Before(w, n + 1)) <= j /\ j <= Latest(Before(w, n + 1))
          /\ Latest(Before(w, n + 1)) \in 1..n /\ j \in 1..n
      BY <2>2, <2>3
    <3> HIDE DEF Before, Latest
    <3> QED
      BY <1>1, <3>1
  <2> QED
    BY <1>1, <1>4, <2>1, <2>2, <2>4 DEF Flagged, n
<1> QED
  BY <1>3, <1>4

\* A record is the last one of its locate, and of no other.
LEMMA ToldNew ==
  ASSUME NEW v, IsSequence(v), NEW d, NEW e, NEW l, Told(v, d, l),
         NEW w, w = Append(v, e), NEW c, c = Put(d, e.loc, e.bbo)
  PROVE  Told(w, c, l)
<1>1. /\ Len(v) \in Nat /\ Len(w) = Len(v) + 1 /\ w[Len(v) + 1] = e
      /\ \A j \in 1..Len(v) : w[j] = v[j]
  BY AppendIs
<1>2. CASE l = e.loc
  <2>1. IsLast(w, Len(v) + 1, l)
    BY <1>1, <1>2 DEF IsLast
  <2>2. l \in DOMAIN c /\ c[l] = e.bbo
    BY <1>2 DEF Put
  <2> QED
    BY <1>1, <2>1, <2>2 DEF Told
<1>3. CASE l # e.loc
  <2>1. (l \in DOMAIN c <=> l \in DOMAIN d) /\ (l \in DOMAIN d => c[l] = d[l])
    BY <1>3 DEF Put
  <2>2. CASE l \in DOMAIN d
    <3>1. PICK j \in 1..Len(v) : IsLast(v, j, l) /\ v[j].bbo = d[l]
      BY <2>2 DEF Told
    <3>2. IsLast(w, j, l) /\ w[j].bbo = d[l] /\ j \in 1..Len(w)
      BY <1>1, <1>3, <3>1 DEF IsLast
    <3> QED
      BY <2>1, <2>2, <3>2 DEF Told
  <2>3. CASE l \notin DOMAIN d
    BY <1>1, <1>3, <2>1, <2>3 DEF Told
  <2> QED
    BY <2>2, <2>3
<1> QED
  BY <1>2, <1>3

\* An event of another locate.
LEMMA ToldElsewhere ==
  ASSUME NEW v, NEW d, NEW l, Told(v, d, l), NEW x, x # l, NEW bbo,
         NEW c, c = Put(d, x, bbo)
  PROVE  Told(v, c, l)
<1>1. (l \in DOMAIN c <=> l \in DOMAIN d) /\ (l \in DOMAIN d => c[l] = d[l])
  BY DEF Put
<1> QED
  BY <1>1 DEF Told

\* ChangedIsSinceRecord is not inductive: what the book remembers of a wanted
\* locate is what its last record says.
LatestInv ==
  run # "failed" => \A l \in Locates : Wanted(l) => Told(vec, lastBbo, l)

FlagsRight == \A i \in 1..Len(vec) : Flagged(vec, i)

LEMMA FlagsAre == FlagsRight <=> ChangedIsSinceRecord
BY DEF FlagsRight, Flagged, Before, Latest, ChangedIsSinceRecord

\* The inductive invariant of the vectors.
VectorsInv ==
  /\ BookInv /\ FilesStored /\ RunInv
  /\ IsSequence(vec) /\ IsSequence(events)
  /\ RecordsAreEvents /\ FlagsRight /\ LatestInv

\* A message that goes the whole way.
LEMMA ProcessVectors ==
  ASSUME VectorsInv, Process
  PROVE  /\ IsSequence(vec)' /\ IsSequence(events)'
         /\ RecordsAreEvents' /\ FlagsRight' /\ LatestInv'
<1> DEFINE m == Item1
<1> DEFINE l == EventLoc(m)
<1>1. /\ Apply(m) /\ aborted' = "no" /\ UNCHANGED <<args, file>>
      /\ vec' = IF Wanted(l) THEN Append(vec, RecordOf(m, l, lastBbo'[l])) ELSE vec
      /\ events' = Happens(l)
  BY DEF Process, Outcome
<1>2. m \in Msgs /\ run = "running"
  BY FoundIsMessage DEF VectorsInv, FilesStored, Process
<1>3. None \notin args.subset /\ None \notin Locates
  BY DayAssumption DEF VectorsInv, FilesStored, None
<1>4. \/ l = None /\ lastBbo' = lastBbo
      \/ l \in Locates /\ \E bbo : lastBbo' = Put(lastBbo, l, bbo)
  BY <1>1, <1>2, EventIs DEF VectorsInv
<1>5. /\ IsSequence(vec) /\ IsSequence(events) /\ RecordsAreEvents /\ FlagsRight
      /\ \A x \in Locates : Wanted(x) => Told(vec, lastBbo, x)
      /\ \A x : Wanted(x)' <=> Wanted(x)
  BY <1>1, <1>2 DEF VectorsInv, LatestInv, Wanted
<1> HIDE DEF l, m
<1>6. CASE ~Wanted(l)
  <2>1. vec' = vec
    BY <1>1, <1>6
  <2>2. \/ events' = events
        \/ events' = Append(events, <<messages, l, lastBbo'[l]>>)
    BY <1>1 DEF Happens
  <2>3. IsSequence(events)'
    BY <1>5, <2>2, AppendIs
  <2>4. RecordsAreEvents'
    <3>1. <<messages, l, lastBbo'[l]>>[2] = l
      OBVIOUS
    <3> QED
      BY <1>1, <1>2, <1>5, <1>6, <2>1, <2>2, <3>1, RecordsStay
  <2>5. ASSUME NEW x \in Locates, Wanted(x) PROVE Told(vec, lastBbo', x)
    <3>1. Told(vec, lastBbo, x) /\ x # l
      BY <1>5, <1>6, <2>5
    <3> QED
      BY <1>4, <3>1, ToldElsewhere
  <2> QED
    BY <1>5, <2>1, <2>3, <2>4, <2>5 DEF FlagsRight, LatestInv
<1>7. CASE Wanted(l)
  <2> DEFINE bbo == lastBbo'[l]
  <2> DEFINE r == RecordOf(m, l, bbo)
  <2> DEFINE e == <<messages, l, bbo>>
  <2>1. l # None /\ l \in Locates /\ lastBbo' = Put(lastBbo, l, bbo)
    <3>1. l # None
      BY <1>3, <1>7 DEF Wanted
    <3> QED
      BY <1>4, <3>1 DEF Put
  <2>2. /\ r.idx = messages /\ r.loc = l /\ r.bbo = bbo /\ r.type = m.type
        /\ r.changed = Differs(l, bbo)
    BY DEF RecordOf
  <2>3. vec' = Append(vec, r) /\ events' = Append(events, e)
    BY <1>1, <1>7, <2>1 DEF Happens
  <2>4. r.type = file.items[r.idx + 1].msg.type
    BY <2>2 DEF m, Item1
  <2>5. e = <<r.idx, r.loc, r.bbo>> /\ Wanted(r.loc)
    BY <1>7, <2>2
  <2>6. Told(vec, lastBbo, r.loc)
    BY <1>5, <1>7, <2>1, <2>2
  <2>7. r.changed = (r.loc \notin DOMAIN lastBbo \/ lastBbo[r.loc] # r.bbo)
    BY <2>2 DEF Differs
  <2>8. lastBbo' = Put(lastBbo, r.loc, r.bbo)
    BY <2>1, <2>2
  <2> HIDE DEF r, e, bbo
  <2>9. RecordsAreEvents'
    BY <1>1, <1>2, <1>5, <2>3, <2>4, <2>5, RecordsGrow
  <2>10. /\ IsSequence(vec') /\ Len(vec) \in Nat /\ Len(vec') = Len(vec) + 1
         /\ IsSequence(events')
    BY <1>5, <2>3, AppendIs
  <2>11. FlagsRight'
    <3>1. ASSUME NEW i \in 1..Len(vec) PROVE Flagged(vec', i)
      BY <1>5, <2>3, FlagKept DEF FlagsRight
    <3>2. Flagged(vec', Len(vec) + 1)
      BY <1>5, <2>3, <2>6, <2>7, FlagNew
    <3> QED
      BY <2>10, <3>1, <3>2 DEF FlagsRight
  <2>12. ASSUME NEW x \in Locates, Wanted(x) PROVE Told(vec', lastBbo', x)
    BY <1>5, <2>3, <2>8, <2>12, ToldNew
  <2> QED
    BY <1>5, <2>9, <2>10, <2>11, <2>12 DEF LatestInv
<1> QED
  BY <1>6, <1>7

\* The book has taken the message, its record cannot be packed.
LEMMA RaiseVectors ==
  ASSUME VectorsInv, RecordRaises
  PROVE  IsSequence(events)' /\ RecordsAreEvents'
<1> DEFINE l == EventLoc(Item1)
<1> DEFINE r == RecordOf(Item1, l, lastBbo'[l])
<1>1. /\ Wanted(l) /\ UNCHANGED <<args, file, vec>> /\ events' = Happens(l)
      /\ run = "running" /\ run' = "failed"
  BY DEF RecordRaises, Outcome, Found
<1>2. l # None
  BY <1>1, DayAssumption DEF VectorsInv, FilesStored, None, Wanted
<1>3. /\ r.idx = messages /\ r.loc = l /\ r.bbo = lastBbo'[l]
      /\ r.type = file.items[r.idx + 1].msg.type
  BY DEF RecordOf, Item1
<1>4. events' = Append(events, <<r.idx, r.loc, r.bbo>>)
  BY <1>1, <1>2, <1>3 DEF Happens
<1>5. IsSequence(vec) /\ IsSequence(events) /\ RecordsAreEvents /\ Wanted(r.loc)
  BY <1>1, <1>3 DEF VectorsInv
<1> DEFINE e == <<r.idx, r.loc, r.bbo>>
<1>6. events' = Append(events, e) /\ e = <<r.idx, r.loc, r.bbo>>
  BY <1>4
<1> HIDE DEF r, l, e
<1>7. IsSequence(events)'
  BY <1>5, <1>6, AppendIs
<1>8. RecordsAreEvents'
  BY <1>1, <1>3, <1>5, <1>6, RecordsGrow
<1> QED
  BY <1>7, <1>8

LEMMA VectorsStep ==
  ASSUME VectorsInv, [DNext]_dayVars
  PROVE  VectorsInv'
<1>1. FilesStored' /\ RunInv' /\ BookInv'
  BY FilesStep, RunStep, BookSteps, StepInv DEF VectorsInv
<1> DEFINE Vectors == /\ IsSequence(vec) /\ IsSequence(events)
                      /\ RecordsAreEvents /\ FlagsRight /\ LatestInv
<1>2. ASSUME UNCHANGED <<vec, events, args, file>>,
             run = "failed" => run' = "failed",
             run' # "failed" => run # "failed" /\ lastBbo' = lastBbo
      PROVE  Vectors'
  <2>1. RecordsAreEvents'
    BY <1>2, RecordsStay DEF VectorsInv
  <2>2. LatestInv'
    BY <1>2 DEF VectorsInv, LatestInv, Wanted
  <2> QED
    BY <1>2, <2>1, <2>2 DEF VectorsInv, FlagsRight
<1>3. Vectors'
  <2>1. CASE Run
    <3>1. CASE Open \/ ParserRaises \/ Close \/ Select \/ BookRaises
      BY <1>2, <3>1 DEF Open, ParserRaises, Close, Select, BookRaises, Outcome, vars,
                        Found
    <3>2. CASE Process
      BY <3>2, ProcessVectors
    <3>3. CASE RecordRaises
      <4>1. IsSequence(events)' /\ RecordsAreEvents'
        BY <3>3, RaiseVectors
      <4>2. vec' = vec /\ run' = "failed"
        BY <3>3 DEF RecordRaises
      <4> QED
        BY <4>1, <4>2 DEF VectorsInv, FlagsRight, LatestInv
    <3> QED
      BY <2>1, <3>1, <3>2, <3>3 DEF Run, RNext
  <2>2. CASE StartDay
    <3>1. /\ UNCHANGED <<vec, events, args, run, lastBbo>>
          /\ vec = <<>> /\ events = <<>>
      BY <2>2 DEF StartDay, VectorsInv, RunInv, vars
    <3>2. Owed' = {} /\ Len(vec') = 0
      BY <3>1 DEF Owed
    <3>3. RecordsAreEvents'
      BY <3>2, FS_EmptySet DEF RecordsAreEvents, Owed
    <3> QED
      BY <3>1, <3>3 DEF VectorsInv, FlagsRight, LatestInv, Wanted
  <2>3. CASE UNCHANGED <<vars, runVars>>
    BY <1>2, <2>3 DEF vars, runVars
  <2> QED
    BY <2>1, <2>2, <2>3, DayKinds
<1> QED
  BY <1>1, <1>3 DEF VectorsInv

LEMMA VectorsInit == DInit => VectorsInv
<1> SUFFICES ASSUME DInit PROVE VectorsInv
  OBVIOUS
<1>1. /\ BookInv /\ FilesStored /\ RunInv
      /\ vec = <<>> /\ events = <<>> /\ DOMAIN lastBbo = {}
  BY InitInv, FilesInit, RunInit DEF DInit, RInit, Init
<1>2. IsSequence(<<>>) /\ Len(<<>>) = 0
  <2>1. <<>> \in Seq({})
    OBVIOUS
  <2> QED
    BY <2>1 DEF IsSequence
<1>3. Owed = {}
  BY <1>1, <1>2 DEF Owed
<1>4. RecordsAreEvents
  BY <1>1, <1>2, <1>3, FS_EmptySet, RecordsAre DEF Records
<1>5. FlagsRight /\ LatestInv
  BY <1>1, <1>2 DEF FlagsRight, LatestInv, Told
<1> QED
  BY <1>1, <1>2, <1>4, <1>5 DEF VectorsInv

\* vectors.py:9-11, for any files, subsets and limits and however the run ends:
\* vectors.bin has one record for each event of a symbol of the subset, in the
\* order of the file and under the index of its message, except of the one that
\* could not be packed; the flag tells whether the BBO is another one than in
\* the previous record of the symbol, although the book compares it with the one
\* that it remembers.
THEOREM VectorsAreEventsAlways == DSpec => []VectorsAreEvents
<1>1. VectorsInv => VectorsAreEvents
  BY FlagsAre DEF VectorsInv, VectorsAreEvents
<1>2. VectorsInv /\ [DNext]_dayVars => VectorsInv'
  BY VectorsStep
<1> QED
  BY <1>1, <1>2, VectorsInit, PTL DEF DSpec

(***************************************************************************)
(* The capture                                                             *)
(***************************************************************************)
\* Pcap!Bytes, of messages of any items.
Weight(items, i) == items[i].decl + 2
SumOf(items, msgs) ==
  LET upTo[n \in 0..Len(msgs)] ==
        IF n = 0 THEN 0 ELSE upTo[n - 1] + Weight(items, msgs[n])
  IN upTo[Len(msgs)]

LEMMA BytesAre ==
  /\ \A msgs : Pcap!Bytes(msgs) = SumOf(file.items, msgs)
  /\ \A i : Pcap!Framed(i) = Weight(file.items, i)
BY DEF Pcap!Bytes, Pcap!Framed, Pcap!DeclOf, SumOf, Weight

\* The sums of the first messages, up to n of them.
IsSum(f, w, n) ==
  f \in [0..n -> Int] /\ f[0] = 0 /\ \A i \in 1..n : f[i] = f[i - 1] + w[i]

LEMMA SumExists ==
  ASSUME NEW N \in Nat, NEW w \in [1..N -> Int]
  PROVE  \E f : IsSum(f, w, N)
<1> DEFINE S == {n \in 0..N : ~\E f : IsSum(f, w, n)}
<1>1. SUFFICES ASSUME S # {} PROVE FALSE
  <2>1. N \in 0..N
    OBVIOUS
  <2> QED
    BY <1>1, <2>1
<1>2. PICK x \in S : \A y \in S : x <= y
  <2>1. S \in SUBSET Nat
    OBVIOUS
  <2> HIDE DEF S
  <2> QED
    BY <1>1, <2>1, LeastExists
<1>3. x \in 0..N /\ ~\E f : IsSum(f, w, x)
  OBVIOUS
<1>4. CASE x = 0
  <2>1. [i \in 0..0 |-> 0] \in [0..0 -> Int] /\ [i \in 0..0 |-> 0][0] = 0
    OBVIOUS
  <2>2. 1..0 = {}
    OBVIOUS
  <2>3. IsSum([i \in 0..0 |-> 0], w, 0)
    BY <2>1, <2>2 DEF IsSum
  <2> QED
    BY <1>3, <1>4, <2>3
<1>5. CASE x # 0
  <2>1. x - 1 \in 0..N /\ x - 1 \notin S /\ x \in 1..N
    BY <1>2, <1>3, <1>5
  <2>2. PICK g : IsSum(g, w, x - 1)
    BY <2>1
  <2> DEFINE f == [i \in 0..x |-> IF i < x THEN g[i] ELSE g[x - 1] + w[x]]
  <2>3. g \in [0..(x - 1) -> Int] /\ g[0] = 0 /\ w[x] \in Int
        /\ \A i \in 1..(x - 1) : g[i] = g[i - 1] + w[i]
    BY <2>1, <2>2 DEF IsSum
  <2>4. f \in [0..x -> Int] /\ f[0] = 0
    BY <2>1, <2>3
  <2>5. ASSUME NEW i \in 1..x PROVE f[i] = f[i - 1] + w[i]
    <3>1. f[i - 1] = g[i - 1]
      BY <2>1
    <3>2. CASE i < x
      BY <2>1, <2>3, <3>1, <3>2
    <3>3. CASE i = x
      BY <2>1, <3>1, <3>3
    <3> QED
      BY <2>1, <3>2, <3>3
  <2> HIDE DEF f
  <2>6. IsSum(f, w, x)
    BY <2>4, <2>5 DEF IsSum
  <2> QED
    BY <1>3, <2>6
<1> QED
  BY <1>3, <1>4, <1>5

\* The sum of messages that have a length each.
Weights(items, msgs) == [i \in 1..Len(msgs) |-> Weight(items, msgs[i])]

LEMMA SumOfIs ==
  ASSUME NEW items, NEW msgs, Len(msgs) \in Nat,
         \A i \in 1..Len(msgs) : Weight(items, msgs[i]) \in Int
  PROVE  \E f : IsSum(f, Weights(items, msgs), Len(msgs)) /\ SumOf(items, msgs) = f[Len(msgs)]
<1> DEFINE N == Len(msgs)
<1> DEFINE w == Weights(items, msgs)
<1> DEFINE Is(f) == f = [n \in 0..N |-> IF n = 0 THEN 0 ELSE f[n - 1] + Weight(items, msgs[n])]
<1>1. w \in [1..N -> Int] /\ \A i \in 1..N : w[i] = Weight(items, msgs[i])
  BY DEF Weights
<1>2. SumOf(items, msgs) = (CHOOSE f : Is(f))[N]
  BY DEF SumOf
<1> HIDE DEF w
<1>3. \A f : IsSum(f, w, N) => Is(f)
  <2> SUFFICES ASSUME NEW f, IsSum(f, w, N) PROVE Is(f)
    OBVIOUS
  <2>1. f \in [0..N -> Int] /\ f[0] = 0 /\ \A i \in 1..N : f[i] = f[i - 1] + w[i]
    BY DEF IsSum
  <2>2. \A n \in 0..N : f[n] = IF n = 0 THEN 0 ELSE f[n - 1] + Weight(items, msgs[n])
    <3>1. \A n \in 0..N : n = 0 \/ n \in 1..N
      OBVIOUS
    <3> QED
      BY <1>1, <2>1, <3>1
  <2> QED
    BY <2>1, <2>2
<1>4. \E f : Is(f)
  <2>1. \E f : IsSum(f, w, N)
    BY <1>1, SumExists
  <2> QED
    BY <1>3, <2>1
<1>5. PICK f : Is(f) /\ SumOf(items, msgs) = f[N]
  <2>1. Is(CHOOSE f : Is(f))
    <3> HIDE DEF Is
    <3> QED
      BY <1>4
  <2> QED
    BY <1>2, <2>1
<1>6. DOMAIN f = 0..N /\ f = [n \in 0..N |-> f[n]] /\ f[0] = 0
      /\ \A i \in 1..N : f[i] = f[i - 1] + w[i]
  BY <1>1, <1>5
<1>7. f \in [0..N -> Int]
  <2> DEFINE S == {n \in 0..N : f[n] \notin Int}
  <2>1. ASSUME S # {} PROVE FALSE
    <3>1. PICK x \in S : \A y \in S : x <= y
      <4>1. S \in SUBSET Nat
        OBVIOUS
      <4> HIDE DEF S
      <4> QED
        BY <2>1, <4>1, LeastExists
    <3>2. x \in 1..N
      BY <1>6
    <3>3. x - 1 \in 0..N /\ x - 1 \notin S
      BY <3>1, <3>2
    <3>4. f[x - 1] \in Int /\ w[x] \in Int
      BY <1>1, <3>2, <3>3
    <3>5. f[x] = f[x - 1] + w[x]
      BY <1>6, <3>2
    <3>6. f[x] \in Int
      BY <3>4, <3>5
    <3> QED
      BY <3>6
  <2> QED
    BY <1>6, <2>1
<1> QED
  BY <1>5, <1>6, <1>7 DEF IsSum, w

\* Sums of the same numbers are the same.
LEMMA SumUnique ==
  ASSUME NEW n \in Nat, NEW f, NEW v, IsSum(f, v, n), NEW g, NEW w, IsSum(g, w, n),
         \A i \in 1..n : v[i] = w[i]
  PROVE  f[n] = g[n]
<1> DEFINE S == {i \in 0..n : f[i] # g[i]}
<1>1. ASSUME S # {} PROVE FALSE
  <2>1. PICK x \in S : \A y \in S : x <= y
    <3>1. S \in SUBSET Nat
      OBVIOUS
    <3> HIDE DEF S
    <3> QED
      BY <1>1, <3>1, LeastExists
  <2>2. x \in 1..n
    BY DEF IsSum
  <2>3. x - 1 \in 0..n /\ x - 1 \notin S
    BY <2>1, <2>2
  <2> QED
    BY <2>2, <2>3 DEF IsSum
<1> QED
  BY <1>1

\* No message has no bytes, and one more message has its own.
LEMMA SumGrows ==
  ASSUME NEW items, NEW msgs \in Seq(Nat), NEW x \in Nat, Weight(items, x) \in Int,
         \A i \in 1..Len(msgs) : Weight(items, msgs[i]) \in Int
  PROVE  /\ SumOf(items, msgs) \in Int
         /\ SumOf(items, Append(msgs, x)) = SumOf(items, msgs) + Weight(items, x)
         /\ SumOf(items, <<>>) = 0
<1> DEFINE n == Len(msgs)
<1> DEFINE more == Append(msgs, x)
<1>1. /\ n \in Nat /\ Len(more) = n + 1 /\ more[n + 1] = x
      /\ \A i \in 1..n : more[i] = msgs[i]
  OBVIOUS
<1> HIDE DEF more
<1>2. PICK f : IsSum(f, Weights(items, msgs), n) /\ SumOf(items, msgs) = f[n]
  BY <1>1, SumOfIs
<1>3. PICK g : IsSum(g, Weights(items, more), n + 1) /\ SumOf(items, more) = g[n + 1]
  <2>1. n + 1 = Len(more) /\ Len(more) \in Nat
    BY <1>1
  <2>2. ASSUME NEW i \in 1..Len(more) PROVE Weight(items, more[i]) \in Int
    <3>1. i \in 1..n \/ i = n + 1
      BY <1>1, <2>1
    <3>2. CASE i \in 1..n
      BY <1>1, <3>2, Zenon
    <3>3. CASE i = n + 1
      BY <1>1, <3>3, Zenon
    <3> QED
      BY <3>1, <3>2, <3>3
  <2>3. \E g : IsSum(g, Weights(items, more), Len(more))
                /\ SumOf(items, more) = g[Len(more)]
    BY <2>1, <2>2, SumOfIs, Zenon
  <2> QED
    BY <2>1, <2>3, Zenon
<1>4. /\ \A i \in 1..n : Weights(items, more)[i] = Weights(items, msgs)[i]
      /\ Weights(items, more)[n + 1] = Weight(items, x)
  BY <1>1 DEF Weights
<1> DEFINE short == [i \in 0..n |-> g[i]]
<1>5. IsSum(short, Weights(items, more), n) /\ short[n] = g[n]
  BY <1>1, <1>3 DEF IsSum
<1>6. f[n] = g[n]
  <2> HIDE DEF short
  <2> QED
    BY <1>1, <1>2, <1>4, <1>5, SumUnique, SMTT(30)
<1>7. g[n + 1] = g[n] + Weight(items, x) /\ f[n] \in Int
  <2>1. g[n + 1] = g[n + 1 - 1] + Weights(items, more)[n + 1]
    BY <1>1, <1>3 DEF IsSum
  <2>2. f[n] \in Int
    BY <1>1, <1>2 DEF IsSum
  <2> QED
    BY <1>1, <1>4, <2>1, <2>2
<1>8. SumOf(items, <<>>) = 0
  <2>1. Len(<<>>) = 0 /\ 1..0 = {}
    OBVIOUS
  <2>2. PICK h : IsSum(h, Weights(items, <<>>), 0) /\ SumOf(items, <<>>) = h[0]
    BY <2>1, SumOfIs
  <2> QED
    BY <2>2 DEF IsSum
<1> QED
  BY <1>2, <1>3, <1>6, <1>7, <1>8 DEF more

\* A datagram carries consecutive messages and has the size that was asked for.
Datagram == [seq : Nat, msgs : Seq(Nat)]
Next1(d) == d.seq + Len(d.msgs)
Numbered(n, msgs) == \A k \in 1..Len(msgs) : msgs[k] = n - 1 + k
Fits(max, n, bytes) ==
  /\ bytes \in Int
  /\ Pcap!MoldHeader + bytes <= max \/ (n = 1 /\ bytes <= max)

GoodDatagram(items, max, d) ==
  /\ Numbered(d.seq, d.msgs) /\ d.msgs # <<>>
  /\ Fits(max, Len(d.msgs), SumOf(items, d.msgs))

\* The datagrams of capture p, the messages of which are those before number n.
GoodCapture(items, max, p, n) ==
  /\ p \in Seq(Datagram) /\ n \in Nat \ {0}
  /\ \A i \in 1..Len(p) :
       /\ GoodDatagram(items, max, p[i])
       /\ p[i].seq = IF i = 1 THEN 1 ELSE Next1(p[i - 1])
       /\ Next1(p[i]) <= n
  /\ n = IF p = <<>> THEN 1 ELSE Next1(p[Len(p)])

LEMMA CaptureGrows ==
  ASSUME NEW items, NEW max, NEW p, NEW n, GoodCapture(items, max, p, n),
         NEW d \in Datagram, d.seq = n, GoodDatagram(items, max, d),
         NEW q, q = Append(p, d)
  PROVE  GoodCapture(items, max, q, n + Len(d.msgs))
<1>1. p \in Seq(Datagram) /\ n \in Nat \ {0} /\ Len(d.msgs) \in Nat
  BY DEF GoodCapture, Datagram
<1>2. /\ q \in Seq(Datagram) /\ Len(p) \in Nat /\ Len(q) = Len(p) + 1
      /\ q[Len(p) + 1] = d /\ \A i \in 1..Len(p) : q[i] = p[i]
  BY <1>1
<1>3. q # <<>> /\ (p = <<>> <=> Len(p) = 0)
  BY <1>1, <1>2
<1>4. \A i \in 1..Len(p) : /\ GoodDatagram(items, max, p[i])
                           /\ p[i].seq = IF i = 1 THEN 1 ELSE Next1(p[i - 1])
  BY DEF GoodCapture
<1>5. ASSUME NEW i \in 1..Len(q)
      PROVE  /\ GoodDatagram(items, max, q[i])
             /\ q[i].seq = IF i = 1 THEN 1 ELSE Next1(q[i - 1])
  <2>1. CASE i \in 1..Len(p)
    <3>1. q[i] = p[i] /\ (i # 1 => q[i - 1] = p[i - 1])
      BY <1>2, <2>1
    <3> QED
      BY <1>4, <2>1, <3>1
  <2>2. CASE i = Len(p) + 1
    <3>1. n = IF Len(p) = 0 THEN 1 ELSE Next1(p[Len(p)])
      BY <1>3 DEF GoodCapture
    <3>2. i # 1 => q[i - 1] = p[Len(p)]
      BY <1>2, <2>2
    <3> QED
      BY <1>2, <2>2, <3>1, <3>2
  <2> QED
    BY <1>2, <2>1, <2>2
<1>6. n + Len(d.msgs) = Next1(q[Len(q)]) /\ n + Len(d.msgs) \in Nat \ {0}
  BY <1>1, <1>2 DEF Next1
<1>7. ASSUME NEW i \in 1..Len(q) PROVE Next1(q[i]) <= n + Len(d.msgs)
  <2>1. CASE i \in 1..Len(p)
    <3>1. Next1(p[i]) <= n /\ q[i] = p[i] /\ p[i] \in Datagram
      BY <1>1, <1>2, <2>1 DEF GoodCapture
    <3>2. Next1(p[i]) \in Int
      BY <3>1 DEF Next1, Datagram
    <3> QED
      BY <1>1, <3>1, <3>2
  <2>2. CASE i = Len(p) + 1
    BY <1>1, <1>2, <1>6, <2>2
  <2> QED
    BY <1>2, <2>1, <2>2
<1> QED
  BY <1>2, <1>3, <1>5, <1>6, <1>7 DEF GoodCapture

\* What CaptureExact needs to be inductive: the group that is being filled is
\* what follows the datagrams, its bytes are counted, and it fits.
CaptureInv ==
  /\ GoodCapture(file.items, args.maxPayload, pcap, seq)
  /\ conv \in {"waiting", "running", "done", "failed"}
  /\ taken \in 0..Len(file.items)
  /\ group \in Seq(Nat) /\ Numbered(seq, group)
  /\ seq - 1 + Len(group) = taken
  /\ args.limit # None => taken <= args.limit
  /\ conv = "waiting" => taken = 0 /\ pcap = <<>> /\ groupLen = 0
  /\ conv = "running" =>
       /\ groupLen = SumOf(file.items, group)
       /\ group # <<>> => Fits(args.maxPayload, Len(group), groupLen)
  /\ conv = "done" =>
       /\ group = <<>>
       /\ taken = IF args.limit # None /\ args.limit < Len(file.items)
                  THEN args.limit ELSE Len(file.items)
  /\ Downloading => conv = "waiting"

LEMMA CaptureImplies ==
  ASSUME CaptureInv, FilesStored
  PROVE  CaptureExact
<1>1. /\ pcap \in Seq(Datagram) /\ seq \in Nat
      /\ \A i \in 1..Len(pcap) :
           /\ GoodDatagram(file.items, args.maxPayload, pcap[i])
           /\ pcap[i].seq = IF i = 1 THEN 1 ELSE Next1(pcap[i - 1])
      /\ seq = IF pcap = <<>> THEN 1 ELSE Next1(pcap[Len(pcap)])
  BY DEF CaptureInv, GoodCapture
<1>2. Pcap!SequenceContiguous
  BY <1>1 DEF Pcap!SequenceContiguous, GoodDatagram, Next1
<1>3. Pcap!InCapture = seq - 1
  <2>1. CASE pcap = <<>>
    BY <1>1, <2>1 DEF Pcap!InCapture
  <2>2. CASE pcap # <<>>
    <3>1. pcap[Len(pcap)] \in Datagram
      BY <1>1, <2>2
    <3>2. pcap[Len(pcap)].seq \in Nat /\ Len(pcap[Len(pcap)].msgs) \in Nat
      BY <3>1 DEF Datagram
    <3> QED
      BY <1>1, <2>2, <3>2 DEF Pcap!InCapture, Next1
  <2> QED
    BY <2>1, <2>2
<1>4. Pcap!CaptureIsPrefix
  BY <1>1, <1>3 DEF Pcap!CaptureIsPrefix, CaptureInv, GoodDatagram, Numbered,
                    None, Pcap!None
<1>5. ASSUME NEW i \in 1..Len(pcap)
      PROVE  \/ Pcap!PayloadOf(pcap[i]) <= args.maxPayload
             \/ /\ Len(pcap[i].msgs) = 1
                /\ Pcap!PayloadOf(pcap[i]) <= args.maxPayload + Pcap!MoldHeader
  <2> DEFINE bytes == SumOf(file.items, pcap[i].msgs)
  <2>1. Pcap!PayloadOf(pcap[i]) = Pcap!MoldHeader + bytes
    BY BytesAre DEF Pcap!PayloadOf
  <2>2. Fits(args.maxPayload, Len(pcap[i].msgs), bytes)
    BY <1>1 DEF GoodDatagram
  <2>3. args.maxPayload \in Nat
    BY DayAssumption DEF FilesStored
  <2> HIDE DEF bytes
  <2> QED
    BY <2>1, <2>2, <2>3 DEF Fits, Pcap!MoldHeader
<1> QED
  BY <1>2, <1>4, <1>5 DEF CaptureExact, Pcap!CaptureExact, Pcap!PayloadBounded

\* Every message of a file has a length.
LEMMA WeightsAre ==
  ASSUME NEW items \in Seq(Item), NEW i \in 1..Len(items)
  PROVE  Weight(items, i) \in Int
<1>1. items[i] \in Item
  OBVIOUS
<1>2. items[i].decl \in 0..50
  BY <1>1 DEF Item
<1>3. \A n \in 0..50 : n + 2 \in Int
  OBVIOUS
<1>4. items[i].decl + 2 \in Int
  BY <1>2, <1>3
<1> QED
  BY <1>4, Zenon DEF Weight

\* What follows from the group that is filled: its bytes, and what they become.
LEMMA GroupBytes ==
  ASSUME CaptureInv, FilesStored
  PROVE  /\ SumOf(file.items, group) \in Int
         /\ SumOf(file.items, <<>>) = 0
         /\ taken < Len(file.items) =>
              /\ Weight(file.items, taken + 1) \in Int
              /\ SumOf(file.items, Append(group, taken + 1))
                   = SumOf(file.items, group) + Weight(file.items, taken + 1)
              /\ SumOf(file.items, <<taken + 1>>) = Weight(file.items, taken + 1)
<1> DEFINE items == file.items
<1>1. items \in Seq(Item) /\ Len(items) \in Nat
  BY DEF FilesStored, Stored
<1>2. /\ group \in Seq(Nat) /\ Len(group) \in Nat /\ taken \in 0..Len(items)
      /\ seq \in Nat \ {0} /\ seq - 1 + Len(group) = taken
      /\ \A k \in 1..Len(group) : group[k] = seq - 1 + k
  BY DEF CaptureInv, GoodCapture, Numbered
<1>3. \A k \in 1..Len(group) : group[k] \in 1..Len(items)
  BY <1>1, <1>2
<1> HIDE DEF items
<1>4. \A k \in 1..Len(group) : Weight(items, group[k]) \in Int
  BY <1>1, <1>3, WeightsAre
<1>5. SumOf(items, group) \in Int /\ SumOf(items, <<>>) = 0
  <2>1. CASE Len(group) = 0
    <3>1. group = <<>> /\ Len(<<>>) = 0 /\ 1..0 = {}
      BY <1>2, <2>1
    <3>2. PICK h : IsSum(h, Weights(items, <<>>), 0) /\ SumOf(items, <<>>) = h[0]
      BY <3>1, SumOfIs
    <3> QED
      BY <3>1, <3>2 DEF IsSum
  <2>2. CASE Len(group) # 0
    <3>1. 1 \in 1..Len(group)
      BY <1>2, <2>2
    <3>2. group[1] \in Nat /\ Weight(items, group[1]) \in Int
      BY <1>1, <1>3, <1>4, <3>1
    <3> QED
      BY <1>2, <1>4, <3>2, SumGrows
  <2> QED
    BY <2>1, <2>2
<1>6. ASSUME taken < Len(items)
      PROVE  /\ Weight(items, taken + 1) \in Int
             /\ SumOf(items, Append(group, taken + 1))
                  = SumOf(items, group) + Weight(items, taken + 1)
             /\ SumOf(items, <<taken + 1>>) = Weight(items, taken + 1)
  <2>1. taken + 1 \in 1..Len(items) /\ taken + 1 \in Nat
    BY <1>1, <1>2, <1>6
  <2>2. Weight(items, taken + 1) \in Int
    BY <1>1, <2>1, WeightsAre
  <2>3. SumOf(items, Append(group, taken + 1))
          = SumOf(items, group) + Weight(items, taken + 1)
    BY <1>2, <1>4, <2>1, <2>2, SumGrows
  <2>4. SumOf(items, Append(<<>>, taken + 1))
          = SumOf(items, <<>>) + Weight(items, taken + 1)
    <3>1. <<>> \in Seq(Nat) /\ \A k \in 1..Len(<<>>) : Weight(items, <<>>[k]) \in Int
      OBVIOUS
    <3> QED
      BY <2>1, <2>2, <3>1, SumGrows
  <2>5. Append(<<>>, taken + 1) = <<taken + 1>>
    OBVIOUS
  <2> QED
    BY <1>5, <2>2, <2>3, <2>4, <2>5
<1> QED
  BY <1>5, <1>6 DEF items

\* flush(): the group becomes a datagram, if there is one.
LEMMA FlushStep ==
  ASSUME CaptureInv, FilesStored, conv = "running",
         NEW p, p = Pcap!Written.pcap, NEW n, n = Pcap!Written.seq
  PROVE  /\ GoodCapture(file.items, args.maxPayload, p, n)
         /\ n = seq + Len(group)
<1>1. /\ GoodCapture(file.items, args.maxPayload, pcap, seq)
      /\ group \in Seq(Nat) /\ Numbered(seq, group) /\ seq \in Nat
      /\ groupLen = SumOf(file.items, group)
      /\ group # <<>> => Fits(args.maxPayload, Len(group), groupLen)
  BY DEF CaptureInv, GoodCapture
<1>2. n = seq + Len(group)
  BY DEF Pcap!Written
<1>3. CASE group = <<>>
  <2>1. p = pcap /\ n = seq
    BY <1>1, <1>2, <1>3 DEF Pcap!Written
  <2> QED
    BY <1>1, <1>2, <2>1
<1>4. CASE group # <<>>
  <2> DEFINE d == [seq |-> seq, msgs |-> group]
  <2>1. p = Append(pcap, d)
    BY <1>4 DEF Pcap!Written
  <2>2. d \in Datagram /\ d.seq = seq /\ d.msgs = group
    BY <1>1 DEF Datagram
  <2> HIDE DEF d
  <2>3. GoodDatagram(file.items, args.maxPayload, d)
    BY <1>1, <1>4, <2>2 DEF GoodDatagram
  <2>4. GoodCapture(file.items, args.maxPayload, p, seq + Len(d.msgs))
    BY <1>1, <2>1, <2>2, <2>3, CaptureGrows
  <2> QED
    BY <1>2, <2>2, <2>4
<1> QED
  BY <1>3, <1>4

\* A group of one message, and one that had room for one more.
LEMMA FitsAlone ==
  ASSUME NEW most \in Nat, NEW b \in Int, b <= most
  PROVE  Fits(most, 1, b)
BY DEF Fits, Pcap!MoldHeader

LEMMA FitsMore ==
  ASSUME NEW most \in Nat, NEW g \in Int, NEW b \in Int, NEW n,
         ~(g + Pcap!MoldHeader + b > most)
  PROVE  Fits(most, n, g + b)
BY DEF Fits, Pcap!MoldHeader

\* A message goes into the group, or into the next one.
LEMMA PackStep ==
  ASSUME CaptureInv, FilesStored, Pcap!Pack
  PROVE  CaptureInv'
<1> DEFINE items == file.items
           bytes == Weight(items, taken + 1)
<1>1. /\ conv = "running" /\ taken < Len(items)
      /\ UNCHANGED <<args, file, conv>> /\ taken' = taken + 1
      /\ bytes <= args.maxPayload
      /\ args.limit # None => ~(taken >= args.limit)
  <2>1. Pcap!Turn = "message" /\ ~Pcap!TooLong(taken + 1) /\ ~Pcap!AtLimit
    BY DEF Pcap!Pack
  <2>2. conv = "running" /\ taken < Len(items)
    BY <2>1 DEF Pcap!Turn, Pcap!Split
  <2>3. ~(bytes > args.maxPayload)
    BY <2>1, BytesAre DEF Pcap!TooLong
  <2>4. bytes \in Int /\ args.maxPayload \in Nat
    BY <2>2, GroupBytes, DayAssumption DEF FilesStored
  <2> HIDE DEF bytes
  <2>5. bytes <= args.maxPayload
    BY <2>3, <2>4
  <2> QED
    BY <2>1, <2>2, <2>5 DEF Pcap!Pack, Pcap!AtLimit, None, Pcap!None
<1>2. /\ SumOf(items, group) \in Int /\ bytes \in Int
      /\ SumOf(items, Append(group, taken + 1)) = SumOf(items, group) + bytes
      /\ SumOf(items, <<taken + 1>>) = bytes /\ SumOf(items, <<>>) = 0
  BY <1>1, GroupBytes
<1>3. /\ GoodCapture(items, args.maxPayload, pcap, seq)
      /\ group \in Seq(Nat) /\ Numbered(seq, group) /\ seq \in Nat \ {0}
      /\ seq - 1 + Len(group) = taken /\ taken \in Nat /\ Len(group) \in Nat
      /\ groupLen = SumOf(items, group)
      /\ group # <<>> => Fits(args.maxPayload, Len(group), groupLen)
  BY <1>1 DEF CaptureInv, GoodCapture
<1>4. /\ Len(items) \in Nat /\ args.limit \in Nat \cup {None} /\ args.maxPayload \in Nat
  BY DayAssumption DEF FilesStored, Stored
<1>5. args.limit # None => taken + 1 <= args.limit
  BY <1>1, <1>3, <1>4 DEF None
<1>6. conv # "waiting" /\ conv # "done" /\ ~Downloading
  BY <1>1 DEF CaptureInv
<1> HIDE DEF bytes, items
<1>7. /\ GoodCapture(items, args.maxPayload, pcap', seq')
      /\ group' \in Seq(Nat) /\ Numbered(seq', group')
      /\ seq' - 1 + Len(group') = taken + 1
      /\ groupLen' = SumOf(items, group')
      /\ Fits(args.maxPayload, Len(group'), groupLen')
  <2>1. CASE group # <<>> /\ Pcap!Over(taken + 1)
    <3>1. /\ pcap' = Pcap!Written.pcap /\ seq' = Pcap!Written.seq
          /\ group' = <<taken + 1>> /\ groupLen' = bytes
      BY <2>1, BytesAre DEF Pcap!Pack, bytes, items
    <3>2. GoodCapture(items, args.maxPayload, pcap', seq') /\ seq' = seq + Len(group)
      BY <1>1, <3>1, FlushStep DEF items
    <3>3. seq' = taken + 1
      BY <1>3, <3>2
    <3>4. /\ group' \in Seq(Nat) /\ Len(group') = 1 /\ group'[1] = taken + 1
      BY <1>3, <3>1
    <3>5. Numbered(seq', group')
      BY <1>3, <3>3, <3>4 DEF Numbered
    <3>6. groupLen' = SumOf(items, group')
      BY <1>2, <3>1
    <3>7. seq' - 1 + Len(group') = taken + 1
      BY <1>3, <3>3, <3>4
    <3>8. Fits(args.maxPayload, Len(group'), groupLen')
      BY <1>1, <1>2, <1>4, <3>1, <3>4, FitsAlone
    <3> QED
      BY <3>2, <3>4, <3>5, <3>6, <3>7, <3>8
  <2>2. CASE ~(group # <<>> /\ Pcap!Over(taken + 1))
    <3>1. /\ pcap' = pcap /\ seq' = seq
          /\ group' = Append(group, taken + 1) /\ groupLen' = groupLen + bytes
      BY <2>2, BytesAre DEF Pcap!Pack, bytes, items
    <3>2. /\ group' \in Seq(Nat) /\ Len(group') = Len(group) + 1
          /\ group'[Len(group) + 1] = taken + 1
          /\ \A k \in 1..Len(group) : group'[k] = group[k]
      BY <1>3, <3>1
    <3>3. Numbered(seq', group')
      <4>1. ASSUME NEW k \in 1..Len(group') PROVE group'[k] = seq - 1 + k
        <5>1. k \in 1..Len(group) \/ k = Len(group) + 1
          BY <1>3, <3>2
        <5>2. \A j \in 1..Len(group) : group[j] = seq - 1 + j
          BY <1>3 DEF Numbered
        <5>3. CASE k \in 1..Len(group)
          BY <3>2, <5>2, <5>3
        <5>4. CASE k = Len(group) + 1
          BY <1>3, <3>2, <5>4
        <5> QED
          BY <5>1, <5>3, <5>4
      <4> QED
        BY <3>1, <4>1 DEF Numbered
    <3>4. Fits(args.maxPayload, Len(group'), groupLen')
      <4>1. CASE group = <<>>
        <5>1. Len(group) = 0 /\ groupLen = 0
          BY <1>2, <1>3, <4>1
        <5>2. Len(group') = 1 /\ groupLen' = bytes
          BY <1>2, <3>1, <3>2, <5>1
        <5> QED
          BY <1>1, <1>2, <1>4, <5>2, FitsAlone
      <4>2. CASE group # <<>>
        <5>1. ~(groupLen + Pcap!MoldHeader + bytes > args.maxPayload)
          BY <2>2, <4>2, BytesAre DEF Pcap!Over, bytes, items
        <5>2. groupLen \in Int /\ groupLen' = groupLen + bytes
          BY <1>2, <1>3, <3>1
        <5> QED
          BY <1>2, <1>4, <5>1, <5>2, FitsMore
      <4> QED
        BY <4>1, <4>2
    <3>5. GoodCapture(items, args.maxPayload, pcap', seq')
      BY <1>3, <3>1
    <3>6. groupLen' = SumOf(items, group')
      BY <1>2, <1>3, <3>1
    <3>7. seq' - 1 + Len(group') = taken + 1
      <4>1. seq' = seq /\ Len(group') = Len(group) + 1
        BY <3>1, <3>2
      <4> QED
        BY <1>3, <4>1
    <3> QED
      BY <3>2, <3>3, <3>4, <3>5, <3>6, <3>7
  <2> QED
    BY <2>1, <2>2
<1>8. taken + 1 \in 0..Len(items)
  BY <1>1, <1>3, <1>4 DEF items
<1> QED
  BY <1>1, <1>5, <1>6, <1>7, <1>8 DEF CaptureInv, Downloading, items

\* The last datagram, and the ends of convert.
LEMMA EndStep ==
  ASSUME CaptureInv, FilesStored, Pcap!Finish \/ Pcap!Raise
  PROVE  CaptureInv'
<1>1. CASE Pcap!Finish
  <2>1. /\ conv = "running" /\ conv' = "done" /\ group' = <<>>
        /\ UNCHANGED <<args, file, taken>>
        /\ pcap' = Pcap!Written.pcap /\ seq' = Pcap!Written.seq
    BY <1>1 DEF Pcap!Finish, Pcap!Turn, Pcap!Rest
  <2>2. /\ GoodCapture(file.items, args.maxPayload, pcap', seq')
        /\ seq' = seq + Len(group)
    BY <2>1, FlushStep
  <2>3. /\ seq \in Nat /\ group \in Seq(Nat) /\ seq - 1 + Len(group) = taken
        /\ taken \in 0..Len(file.items) /\ (args.limit # None => taken <= args.limit)
        /\ ~Downloading /\ Len(file.items) \in Nat /\ args.limit \in Nat \cup {None}
    BY <2>1, DayAssumption DEF CaptureInv, GoodCapture, FilesStored, Stored
  <2>4. \/ ~(taken < Len(file.items))
        \/ args.limit # None /\ taken >= args.limit /\ taken < Len(file.items)
    BY <1>1 DEF Pcap!Finish, Pcap!Turn, Pcap!Split, Pcap!AtLimit, None, Pcap!None
  <2>5. taken = IF args.limit # None /\ args.limit < Len(file.items)
                THEN args.limit ELSE Len(file.items)
    BY <2>3, <2>4 DEF None
  <2>6. /\ <<>> \in Seq(Nat) /\ Len(<<>>) = 0 /\ Numbered(seq', <<>>)
        /\ seq' - 1 = taken
    BY <2>2, <2>3 DEF Numbered
  <2> QED
    BY <2>1, <2>2, <2>3, <2>5, <2>6 DEF CaptureInv, Downloading
<1>2. CASE Pcap!Raise
  <2>1. /\ conv = "running" /\ conv' = "failed"
        /\ UNCHANGED <<args, file, taken, group, groupLen, seq, pcap>>
    BY <1>2 DEF Pcap!Raise, Pcap!Turn
  <2> QED
    BY <2>1 DEF CaptureInv, Downloading
<1> QED
  BY <1>1, <1>2

LEMMA CaptureStep ==
  ASSUME CaptureInv, FilesStored, [DNext]_dayVars
  PROVE  CaptureInv'
<1>1. ASSUME UNCHANGED <<args, file, conv, taken, group, groupLen, seq, pcap>>
      PROVE  CaptureInv'
  BY <1>1 DEF CaptureInv, Downloading
<1>2. CASE Convert
  <2>1. CASE Pcap!Begin
    <3>1. /\ conv = "waiting" /\ conv' = "running"
          /\ UNCHANGED <<args, file, taken, group, groupLen, seq, pcap>>
      BY <2>1 DEF Pcap!Begin
    <3>2. group = <<>>
      BY <3>1 DEF CaptureInv, GoodCapture
    <3>3. groupLen = SumOf(file.items, group)
      BY <3>1, <3>2, GroupBytes DEF CaptureInv
    <3>4. ~Downloading
      BY <1>2 DEF Convert
    <3> QED
      BY <3>1, <3>2, <3>3, <3>4 DEF CaptureInv, Downloading
  <2>2. CASE Pcap!Listen \/ Pcap!Hear \/ Pcap!NextPacket \/ Pcap!Heed
    BY <1>1, <2>2 DEF Pcap!Listen, Pcap!Hear, Pcap!NextPacket, Pcap!Heed
  <2> QED
    BY <1>2, <2>1, <2>2, PackStep, EndStep DEF Convert, Pcap!PNext
<1>3. CASE StartDay
  <2>1. /\ conv = "waiting" /\ taken = 0 /\ pcap = <<>>
        /\ UNCHANGED <<args, conv, taken, group, groupLen, seq, pcap>>
        /\ file' = final /\ final # NoFile
    BY <1>3 DEF StartDay, CaptureInv, pcapState
  <2>2. Stored(final) /\ Len(final.items) \in Nat
    BY DEF FilesStored, Stored
  <2>3. GoodCapture(final.items, args.maxPayload, pcap, seq)
    BY <2>1 DEF CaptureInv, GoodCapture
  <2> QED
    BY <2>1, <2>2, <2>3 DEF CaptureInv, Downloading
<1>4. CASE Download \/ Run \/ UNCHANGED dayVars
  <2>1. CASE Run
    BY <1>1, <2>1 DEF Run, pcapState, RNext, Open, Process, BookRaises, RecordRaises,
                      ParserRaises, Close, Select, Outcome
  <2>2. CASE Download \/ UNCHANGED dayVars
    BY <1>1, <2>2 DEF Download, dayVars, runVars, pcapState
  <2> QED
    BY <1>4, <2>1, <2>2
<1> QED
  BY <1>2, <1>3, <1>4 DEF DNext

LEMMA CaptureInit == DInit => CaptureInv
<1> SUFFICES ASSUME DInit PROVE CaptureInv
  OBVIOUS
<1>1. /\ file = NoFile /\ args \in Calls
      /\ conv = "waiting" /\ taken = 0 /\ group = <<>> /\ groupLen = 0
      /\ seq = 1 /\ pcap = <<>>
  BY DEF DInit, RInit, Pcap!PInit
<1>2. Len(file.items) = 0
  BY <1>1 DEF NoFile
<1>3. args.limit # None => args.limit \in Nat
  BY <1>1, DayAssumption
<1>4. <<>> \in Seq(Nat) /\ <<>> \in Seq(Datagram) /\ Len(<<>>) = 0
  OBVIOUS
<1> QED
  BY <1>1, <1>2, <1>3, <1>4 DEF CaptureInv, GoodCapture, Numbered

\* binaryfile_to_pcap.py, for any files, payload sizes, groupings and limits: the
\* datagrams carry the messages of the file in its order, each once and under
\* contiguous sequence numbers, all of them up to the limit if convert returned,
\* and none is larger than max_payload but for the header of a single message.
THEOREM CaptureExactAlways == DSpec => []CaptureExact
<1>1. CaptureInv /\ FilesStored => CaptureExact
  BY CaptureImplies
<1>2. CaptureInv /\ FilesStored /\ [DNext]_dayVars => (CaptureInv /\ FilesStored)'
  BY CaptureStep, FilesStep
<1>3. DInit => CaptureInv /\ FilesStored
  BY CaptureInit, FilesInit
<1> QED
  BY <1>1, <1>2, <1>3, PTL DEF DSpec


(***************************************************************************)
(* The three tools on one file                                             *)
(***************************************************************************)
\* A message that no reader refuses.
SoundAt(items, k) ==
  /\ items[k].decl > 0
  /\ items[k].msg.type \in DOMAIN Length
  /\ items[k].decl = Length[items[k].msg.type]

\* What the run has counted, and why it ended.
CountedInv ==
  /\ messages \in 0..Len(file.items)
  /\ \A k \in 1..messages : SoundAt(file.items, k)
  /\ run \in {"waiting", "running", "closing", "done", "failed"}
  /\ csv \in {"old", "new"}
  /\ run \in {"waiting", "running"} => args.limit = None \/ messages < args.limit
  /\ run = "closing" => args.limit # None /\ messages = args.limit
  /\ run = "done" =>
       \/ args.limit # None /\ messages = args.limit
       \/ /\ messages = Len(file.items) /\ file.tail = "whole"
          /\ args.limit = None \/ messages < args.limit
  /\ Downloading => messages = 0

\* Record r is of a message of the n that were counted, and of its locate.
IsOf(r, items, n) ==
  /\ r.idx \in 0..(n - 1)
  /\ r.type = items[r.idx + 1].msg.type /\ r.type \in LookupTypes
  /\ r.loc = items[r.idx + 1].msg.loc

SourcesInv ==
  IsSequence(vec) /\ \A i \in 1..Len(vec) : IsOf(vec[i], file.items, messages)

\* A message that the parser yields.
LEMMA FoundIsSound ==
  ASSUME Stored(file), messages \in Nat, Found = "message"
  PROVE  SoundAt(file.items, messages + 1)
<1>1. Parsed(file, messages) = "message"
  BY DEF Found
<1>2. Split(file, messages) = "message"
  BY <1>1 DEF Parsed
<1>3. messages + 1 \in 1..Len(file.items)
  BY FoundIsMessage
<1>4. file.items[messages + 1] \in Item
  BY <1>3 DEF Stored
<1>5. file.items[messages + 1].decl \in 0..50
  BY <1>4 DEF Item
<1>6. /\ file.items[messages + 1].decl # 0
      /\ file.items[messages + 1].msg.type \in DOMAIN Length
      /\ file.items[messages + 1].decl = Length[file.items[messages + 1].msg.type]
  BY <1>1, <1>2 DEF Parsed
<1>7. file.items[messages + 1].decl > 0
  BY <1>5, <1>6
<1> QED
  BY <1>6, <1>7 DEF SoundAt

\* The end of the file is that of a whole one.
LEMMA FoundIsEnd ==
  ASSUME Stored(file), messages \in 0..Len(file.items), Found = "end"
  PROVE  run = "running" /\ messages = Len(file.items) /\ file.tail = "whole"
<1>1. run = "running" /\ Parsed(file, messages) = "end"
  BY DEF Found
<1>2. Split(file, messages) = "end"
  BY <1>1 DEF Parsed
<1>3. ~(messages < Len(file.items)) /\ file.tail = "whole"
  BY <1>2 DEF Split
<1>4. Len(file.items) \in Nat
  BY DEF Stored
<1> QED
  BY <1>1, <1>3, <1>4

LEMMA CountedStep ==
  ASSUME CountedInv, FilesStored, RunInv, [DNext]_dayVars
  PROVE  CountedInv'
<1>0. Stored(file) /\ messages \in Nat /\ Len(file.items) \in Nat
  BY DEF FilesStored, Stored
<1>00. args.limit \in Nat \cup {None}
  BY DayAssumption DEF FilesStored
<1>1. ASSUME UNCHANGED <<args, file, run, messages, csv>> PROVE CountedInv'
  BY <1>1 DEF CountedInv, Downloading
<1>2. ASSUME UNCHANGED <<args, file, messages, csv>>, run' = "failed"
      PROVE  CountedInv'
  BY <1>2 DEF CountedInv, Downloading
<1>3. CASE Run
  <2>1. CASE Open
    <3>1. UNCHANGED <<args, file, messages, csv>> /\ run = "waiting" /\ run' = "running"
      BY <2>1 DEF Open, Outcome
    <3> QED
      BY <3>1 DEF CountedInv, Downloading
  <2>2. CASE Process
    <3>1. /\ UNCHANGED <<args, file, csv>> /\ messages' = messages + 1
          /\ Found = "message"
          /\ \/ run' = "failed"
             \/ run' = "closing" /\ Stops(messages')
             \/ run' = "running" /\ ~Stops(messages')
      BY <2>2 DEF Process, Outcome
    <3>2. /\ run = "running" /\ messages + 1 \in 1..Len(file.items)
          /\ SoundAt(file.items, messages + 1)
      BY <1>0, <3>1, FoundIsMessage, FoundIsSound
    <3>3. args.limit = None \/ messages < args.limit
      BY <3>2 DEF CountedInv
    <3>4. \/ run' = "failed"
          \/ run' = "closing" /\ args.limit # None /\ messages + 1 = args.limit
          \/ run' = "running" /\ (args.limit = None \/ messages + 1 < args.limit)
      BY <1>0, <1>00, <3>1, <3>3 DEF Stops
    <3>5. ASSUME NEW k \in 1..messages' PROVE SoundAt(file.items, k)
      BY <1>0, <3>1, <3>2 DEF CountedInv
    <3>6. ~Downloading'
      BY <1>3, <3>1 DEF Run, Downloading
    <3>7. messages' \in 0..Len(file.items)
      BY <1>0, <3>1, <3>2
    <3> QED
      BY <3>1, <3>4, <3>5, <3>6, <3>7 DEF CountedInv
  <2>3. CASE BookRaises \/ RecordRaises \/ ParserRaises
    BY <1>2, <2>3 DEF BookRaises, RecordRaises, ParserRaises, Outcome
  <2>4. CASE Close
    <3>1. /\ UNCHANGED <<args, file, messages>> /\ csv' \in {csv, "new"}
          /\ run' \in {"done", "failed"}
          /\ run = "closing" \/ Found = "end"
      BY <2>4 DEF Close
    <3>2. \/ args.limit # None /\ messages = args.limit
          \/ /\ messages = Len(file.items) /\ file.tail = "whole"
             /\ args.limit = None \/ messages < args.limit
      BY <1>0, <3>1, FoundIsEnd DEF CountedInv
    <3> QED
      BY <3>1, <3>2 DEF CountedInv, Downloading
  <2>5. CASE Select
    BY <1>1, <2>5 DEF Select
  <2> QED
    BY <1>3, <2>1, <2>2, <2>3, <2>4, <2>5 DEF Run, RNext
<1>4. CASE StartDay
  <2>1. /\ UNCHANGED <<args, run, messages, csv>> /\ file' = final /\ final # NoFile
        /\ run = "waiting" /\ messages = 0
    BY <1>4 DEF StartDay, CountedInv, RunInv
  <2>2. Len(final.items) \in Nat
    BY DEF FilesStored, Stored
  <2> QED
    BY <2>1, <2>2 DEF CountedInv, Downloading
<1>5. CASE UNCHANGED <<vars, runVars>>
  BY <1>1, <1>5 DEF runVars
<1> QED
  BY <1>3, <1>4, <1>5, DayKinds

\* An event is of the locate that its message names.
LEMMA EventNames ==
  ASSUME NEW locOf, FeedNames(locOf), NamedInv(locOf), NEW m \in Msgs,
         EventLoc(m) # None
  PROVE  EventLoc(m) = m.loc /\ m.type \in LookupTypes
<1>1. CASE m.type \in AddTypes
  BY <1>1 DEF EventLoc, LookupTypes
<1>2. CASE m.type \notin AddTypes
  <2>1. m.type \in LookupTypes /\ m.ref \in DOMAIN orders
    BY <1>2 DEF EventLoc
  <2>2. orders[m.ref].loc = m.loc
    BY <2>1 DEF NamedInv, Named, FeedNames
  <2> QED
    BY <1>2, <2>1, <2>2 DEF EventLoc
<1> QED
  BY <1>1, <1>2

LEMMA SourcesStep ==
  ASSUME NEW locOf, FeedNames(locOf), NamedInv(locOf), SourcesInv, FilesStored,
         RunInv, [DNext]_dayVars
  PROVE  SourcesInv'
<1>1. ASSUME UNCHANGED <<file, vec, messages>> PROVE SourcesInv'
  BY <1>1 DEF SourcesInv
<1>2. CASE Process
  <2> DEFINE m == Item1
             l == EventLoc(m)
             r == RecordOf(m, l, lastBbo'[l])
  <2>1. /\ UNCHANGED <<args, file>> /\ messages' = messages + 1 /\ Found = "message"
        /\ vec' = IF Wanted(l) THEN Append(vec, r) ELSE vec
    BY <1>2 DEF Process, Outcome
  <2>2. messages \in Nat /\ m \in Msgs
    BY <2>1, FoundIsMessage DEF FilesStored
  <2>3. IsSequence(vec) /\ \A i \in 1..Len(vec) : IsOf(vec[i], file.items, messages)
    BY DEF SourcesInv
  <2>4. ASSUME NEW i \in 1..Len(vec) PROVE IsOf(vec[i], file.items, messages')
    <3>1. IsOf(vec[i], file.items, messages)
      BY <2>3
    <3>2. vec[i].idx \in 0..(messages' - 1)
      BY <2>1, <2>2, <3>1 DEF IsOf
    <3> QED
      BY <3>1, <3>2 DEF IsOf
  <2>5. CASE ~Wanted(l)
    BY <2>1, <2>3, <2>4, <2>5 DEF SourcesInv
  <2>6. CASE Wanted(l)
    <3>1. l # None
      BY <2>6, DayAssumption DEF Wanted, FilesStored, None
    <3>2. l = m.loc /\ m.type \in LookupTypes
      BY <2>2, <3>1, EventNames
    <3>3. r.idx = messages /\ r.type = m.type /\ r.loc = l
      BY DEF RecordOf
    <3>4. m = file.items[messages + 1].msg
      BY DEF Item1
    <3>5. messages \in 0..(messages' - 1)
      BY <2>1, <2>2
    <3> HIDE DEF m, l, r
    <3>6. IsOf(r, file.items, messages')
      BY <3>2, <3>3, <3>4, <3>5 DEF IsOf
    <3>70. vec' = Append(vec, r)
      BY <2>1, <2>6
    <3>7. /\ IsSequence(vec') /\ Len(vec) \in Nat /\ Len(vec') = Len(vec) + 1
          /\ vec'[Len(vec) + 1] = r
          /\ \A i \in 1..Len(vec) : vec'[i] = vec[i]
      <4>1. IsSequence(vec') /\ Len(vec) \in Nat /\ Len(vec') = Len(vec) + 1
        BY <2>3, <3>70, AppendIs
      <4>2. vec'[Len(vec) + 1] = r
        BY <2>3, <3>70, AppendIs
      <4>3. \A i \in 1..Len(vec) : vec'[i] = vec[i]
        BY <2>3, <3>70, AppendIs
      <4> QED
        BY <4>1, <4>2, <4>3
    <3>8. ASSUME NEW i \in 1..Len(vec') PROVE IsOf(vec'[i], file.items, messages')
      <4>1. i \in 1..Len(vec) \/ i = Len(vec) + 1
        BY <3>7
      <4> QED
        BY <2>4, <3>6, <3>7, <4>1
    <3> QED
      BY <2>1, <3>7, <3>8 DEF SourcesInv
  <2> QED
    BY <2>5, <2>6
<1>3. CASE Run
  BY <1>1, <1>2, <1>3 DEF Run, RNext, Open, BookRaises, RecordRaises, ParserRaises,
                          Close, Select, Outcome
<1>4. CASE StartDay
  <2>1. UNCHANGED <<vec, messages>> /\ vec = <<>>
    BY <1>4 DEF StartDay, RunInv
  <2> QED
    BY <2>1 DEF SourcesInv
<1>5. CASE UNCHANGED <<vars, runVars>>
  BY <1>1, <1>5 DEF runVars
<1> QED
  BY <1>3, <1>4, <1>5, DayKinds


\* The register of message n + 1 of the file, if it has one.
HasRegister(regs, items, n) ==
  items[n + 1].msg.type \in Pcap!SubsetTypes =>
    \E j \in 1..Len(regs) : /\ regs[j].idx = n
                            /\ regs[j].type = items[n + 1].msg.type
                            /\ regs[j].loc = items[n + 1].msg.loc

\* The oracle is in datagram k, of which it walked n messages, or behind the
\* last one.
AtPacket(p, k, n, w, last) ==
  /\ k \in 1..(Len(p) + 1)
  /\ IF k <= Len(p) THEN n \in 0..Len(p[k].msgs) /\ w = p[k].seq - 1 + n
     ELSE n = 0 /\ w = last - 1

OracleInv ==
  /\ oracle \in {"waiting", "running", "done", "failed"}
  /\ oracle # "waiting" => conv \in {"done", "failed"}
  /\ oracle = "waiting" => packet = 1 /\ heard = 0 /\ walked = 0 /\ registers = <<>>
  /\ walked \in Nat /\ globalIdx = walked
  /\ IsSequence(registers)
  /\ \A n \in 0..(walked - 1) : HasRegister(registers, file.items, n)
  /\ oracle = "running" => AtPacket(pcap, packet, heard, walked, seq)
  /\ oracle = "done" => walked = seq - 1
  /\ oracle = "failed" => walked < seq - 1 /\ ~SoundAt(file.items, walked + 1)

\* The datagrams and their sequence numbers.
LEMMA Datagrams ==
  ASSUME CaptureInv
  PROVE  /\ pcap \in Seq(Datagram) /\ Len(pcap) \in Nat
         /\ \A i \in 1..Len(pcap) : i = 1 => pcap[i].seq = 1
         /\ \A i \in 1..Len(pcap) : i # 1 => pcap[i].seq = Next1(pcap[i - 1])
         /\ pcap = <<>> => seq = 1
         /\ pcap # <<>> => seq = Next1(pcap[Len(pcap)])
<1>1. GoodCapture(file.items, args.maxPayload, pcap, seq)
  BY DEF CaptureInv
<1>2. /\ pcap \in Seq(Datagram)
      /\ \A i \in 1..Len(pcap) :
           pcap[i].seq = IF i = 1 THEN 1 ELSE Next1(pcap[i - 1])
      /\ seq = IF pcap = <<>> THEN 1 ELSE Next1(pcap[Len(pcap)])
  BY <1>1 DEF GoodCapture
<1>3. Len(pcap) \in Nat
  BY <1>2
<1> QED
  BY <1>2, <1>3

LEMMA ListenStep ==
  ASSUME OracleInv, CaptureInv, Pcap!Listen
  PROVE  OracleInv'
<1>1. /\ oracle = "waiting" /\ oracle' = "running" /\ conv \in {"done", "failed"}
      /\ UNCHANGED <<file, conv, seq, pcap, packet, heard, walked, globalIdx, registers>>
  BY DEF Pcap!Listen
<1>2. packet = 1 /\ heard = 0 /\ walked = 0
  BY <1>1 DEF OracleInv
<1>3. /\ pcap \in Seq(Datagram) /\ Len(pcap) \in Nat
      /\ \A i \in 1..Len(pcap) : i = 1 => pcap[i].seq = 1
      /\ pcap = <<>> => seq = 1
  BY Datagrams
<1>4. AtPacket(pcap, 1, 0, 0, seq)
  <2>1. CASE pcap = <<>>
    BY <1>3, <2>1 DEF AtPacket
  <2>2. CASE pcap # <<>>
    <3>1. 1 <= Len(pcap) /\ pcap[1].seq = 1 /\ Len(pcap[1].msgs) \in Nat
      BY <1>3, <2>2 DEF Datagram
    <3> QED
      BY <1>3, <3>1 DEF AtPacket
  <2> QED
    BY <2>1, <2>2
<1> QED
  BY <1>1, <1>2, <1>4 DEF OracleInv

\* A datagram the oracle is in.
LEMMA InPacket ==
  ASSUME OracleInv, CaptureInv, Pcap!Reading
  PROVE  /\ oracle = "running" /\ packet \in 1..Len(pcap)
         /\ conv \in {"done", "failed"}
         /\ pcap[packet].seq \in Nat /\ Len(pcap[packet].msgs) \in Nat /\ seq \in Nat
         /\ heard \in 0..Len(pcap[packet].msgs)
         /\ walked = pcap[packet].seq - 1 + heard
         /\ Next1(pcap[packet]) <= seq
         /\ heard < Len(pcap[packet].msgs) =>
              pcap[packet].msgs[heard + 1] = walked + 1 /\ walked < seq - 1
<1>1. oracle = "running" /\ packet <= Len(pcap)
  BY DEF Pcap!Reading
<1>2. pcap \in Seq(Datagram) /\ Len(pcap) \in Nat /\ seq \in Nat
  BY DEF CaptureInv, GoodCapture
<1>3. AtPacket(pcap, packet, heard, walked, seq) /\ conv \in {"done", "failed"}
  BY <1>1 DEF OracleInv
<1>4. /\ packet \in 1..Len(pcap) /\ heard \in 0..Len(pcap[packet].msgs)
      /\ walked = pcap[packet].seq - 1 + heard
  BY <1>1, <1>2, <1>3 DEF AtPacket
<1>5. pcap[packet] \in Datagram
  BY <1>2, <1>4
<1>6. pcap[packet].seq \in Nat /\ Len(pcap[packet].msgs) \in Nat
  BY <1>5 DEF Datagram
<1>7. Next1(pcap[packet]) <= seq /\ Numbered(pcap[packet].seq, pcap[packet].msgs)
  BY <1>4 DEF CaptureInv, GoodCapture, GoodDatagram
<1>8. ASSUME heard < Len(pcap[packet].msgs)
      PROVE  pcap[packet].msgs[heard + 1] = walked + 1 /\ walked < seq - 1
  <2>1. heard + 1 \in 1..Len(pcap[packet].msgs)
    BY <1>4, <1>6, <1>8
  <2>2. pcap[packet].msgs[heard + 1] = pcap[packet].seq - 1 + (heard + 1)
    BY <1>7, <2>1 DEF Numbered
  <2>3. pcap[packet].seq + Len(pcap[packet].msgs) <= seq
    BY <1>7 DEF Next1
  <2>4. pcap[packet].msgs[heard + 1] = walked + 1
    <3>1. pcap[packet].seq \in Int /\ heard \in Int
      BY <1>4, <1>6
    <3>2. walked + 1 = pcap[packet].seq - 1 + (heard + 1)
      BY <1>4, <3>1
    <3> QED
      BY <2>2, <3>2
  <2>5. walked < seq - 1
    <3>1. \A x, y, h, z \in Nat : h < y /\ x + y <= z => x - 1 + h < z - 1
      OBVIOUS
    <3>2. heard \in Nat
      BY <1>4, <1>6
    <3> QED
      BY <1>2, <1>4, <1>6, <1>8, <2>3, <3>1, <3>2, Zenon
  <2> QED
    BY <2>4, <2>5
<1> QED
  BY <1>1, <1>2, <1>3, <1>4, <1>6, <1>7, <1>8

LEMMA HearStep ==
  ASSUME OracleInv, CaptureInv, Pcap!Hear
  PROVE  OracleInv'
<1> DEFINE item == file.items[walked + 1]
<1>1. /\ Pcap!Reading /\ heard < Len(pcap[packet].msgs)
      /\ UNCHANGED <<file, conv, seq, pcap, packet>>
  BY DEF Pcap!Hear
<1>2. /\ oracle = "running" /\ packet \in 1..Len(pcap)
      /\ conv \in {"done", "failed"}
      /\ pcap[packet].seq \in Nat /\ Len(pcap[packet].msgs) \in Nat
      /\ heard \in 0..Len(pcap[packet].msgs)
      /\ walked = pcap[packet].seq - 1 + heard
      /\ pcap[packet].msgs[heard + 1] = walked + 1 /\ walked < seq - 1
  BY <1>1, InPacket
<1>3. Pcap!Heard = item
  BY <1>2 DEF Pcap!Heard
<1>4. Pcap!Sound <=> SoundAt(file.items, walked + 1)
  <2>1. Pcap!Length = Length
    BY DEF Pcap!Length, Length
  <2> QED
    BY <1>3, <2>1, Zenon DEF Pcap!Sound, SoundAt
<1>5. CASE ~Pcap!Sound
  <2>1. oracle' = "failed" /\ UNCHANGED <<heard, walked, globalIdx, registers>>
    BY <1>5 DEF Pcap!Hear
  <2> QED
    BY <1>1, <1>2, <1>4, <1>5, <2>1 DEF OracleInv
<1>6. CASE Pcap!Sound
  <2> DEFINE r == [idx |-> globalIdx, type |-> item.msg.type, loc |-> item.msg.loc]
  <2>1. /\ heard' = heard + 1 /\ walked' = walked + 1 /\ oracle' = oracle
        /\ globalIdx' = globalIdx + 1
        /\ registers' = IF item.msg.type \in Pcap!SubsetTypes
                        THEN Append(registers, r) ELSE registers
    BY <1>3, <1>6 DEF Pcap!Hear, Pcap!Counts
  <2>2. /\ IsSequence(registers) /\ walked \in Nat /\ globalIdx = walked
        /\ \A n \in 0..(walked - 1) : HasRegister(registers, file.items, n)
    BY DEF OracleInv
  <2>3. r.idx = walked /\ r.type = item.msg.type /\ r.loc = item.msg.loc
    BY <2>2
  <2> HIDE DEF r
  <2>4. AtPacket(pcap', packet', heard', walked', seq')
    <3>1. Len(pcap) \in Nat /\ heard + 1 \in 0..Len(pcap[packet].msgs)
      BY <1>1, <1>2, Datagrams
    <3>2. walked + 1 = pcap[packet].seq - 1 + (heard + 1)
      BY <1>2
    <3>3. packet <= Len(pcap) /\ packet \in 1..(Len(pcap) + 1)
      BY <1>2, <3>1
    <3> QED
      BY <1>1, <2>1, <3>1, <3>2, <3>3 DEF AtPacket
  <2>5. /\ IsSequence(registers')
        /\ \A n \in 0..walked : HasRegister(registers', file.items, n)
    <3>1. CASE item.msg.type \notin Pcap!SubsetTypes
      <4>1. HasRegister(registers, file.items, walked)
        BY <3>1 DEF HasRegister
      <4>2. \A n \in 0..walked : n = walked \/ n \in 0..(walked - 1)
        BY <2>2
      <4> QED
        BY <2>1, <2>2, <3>1, <4>1, <4>2
    <3>2. CASE item.msg.type \in Pcap!SubsetTypes
      <4>0. registers' = Append(registers, r)
        BY <2>1, <3>2
      <4>1. /\ IsSequence(registers') /\ Len(registers) \in Nat
            /\ Len(registers') = Len(registers) + 1
            /\ registers'[Len(registers) + 1] = r
            /\ \A i \in 1..Len(registers) : registers'[i] = registers[i]
        <5>1. /\ IsSequence(registers') /\ Len(registers) \in Nat
              /\ Len(registers') = Len(registers) + 1
          BY <2>2, <4>0, AppendIs
        <5>2. registers'[Len(registers) + 1] = r
          BY <2>2, <4>0, AppendIs
        <5>3. \A i \in 1..Len(registers) : registers'[i] = registers[i]
          BY <2>2, <4>0, AppendIs
        <5> QED
          BY <5>1, <5>2, <5>3
      <4>2. HasRegister(registers', file.items, walked)
        BY <2>3, <4>1 DEF HasRegister
      <4>3. ASSUME NEW n \in 0..(walked - 1) PROVE HasRegister(registers', file.items, n)
        <5>1. HasRegister(registers, file.items, n)
          BY <2>2
        <5>2. \A j \in 1..Len(registers) :
                j \in 1..Len(registers') /\ registers'[j] = registers[j]
          BY <4>1
        <5> QED
          BY <5>1, <5>2 DEF HasRegister
      <4>4. \A n \in 0..walked : n = walked \/ n \in 0..(walked - 1)
        BY <2>2
      <4> QED
        BY <4>1, <4>2, <4>3, <4>4
    <3> QED
      BY <3>1, <3>2
  <2>6. walked' \in Nat /\ walked' - 1 = walked /\ globalIdx' = walked'
    BY <2>1, <2>2
  <2> QED
    BY <1>1, <1>2, <2>1, <2>4, <2>5, <2>6 DEF OracleInv
<1> QED
  BY <1>5, <1>6

LEMMA NextPacketStep ==
  ASSUME OracleInv, CaptureInv, Pcap!NextPacket
  PROVE  OracleInv'
<1>1. /\ Pcap!Reading /\ heard = Len(pcap[packet].msgs)
      /\ packet' = packet + 1 /\ heard' = 0
      /\ UNCHANGED <<file, conv, seq, pcap, oracle, walked, globalIdx, registers>>
  BY DEF Pcap!NextPacket
<1>2. /\ oracle = "running" /\ packet \in 1..Len(pcap)
      /\ pcap[packet].seq \in Nat /\ Len(pcap[packet].msgs) \in Nat
      /\ walked = pcap[packet].seq - 1 + heard
  BY <1>1, InPacket
<1>3. /\ pcap \in Seq(Datagram) /\ Len(pcap) \in Nat
      /\ \A i \in 1..Len(pcap) : i # 1 => pcap[i].seq = Next1(pcap[i - 1])
      /\ pcap # <<>> => seq = Next1(pcap[Len(pcap)])
  BY Datagrams
<1>4. Next1(pcap[packet]) - 1 = walked
  BY <1>1, <1>2 DEF Next1
<1>5. AtPacket(pcap, packet + 1, 0, walked, seq)
  <2>1. CASE packet < Len(pcap)
    <3>1. packet + 1 \in 1..Len(pcap) /\ packet + 1 # 1 /\ (packet + 1) - 1 = packet
      BY <1>2, <1>3, <2>1
    <3>2. pcap[packet + 1].seq = Next1(pcap[packet])
      BY <1>3, <3>1
    <3>3. pcap[packet + 1] \in Datagram
      BY <1>3, <3>1
    <3>4. pcap[packet + 1].seq \in Nat /\ Len(pcap[packet + 1].msgs) \in Nat
      BY <3>3 DEF Datagram
    <3>5. walked = pcap[packet + 1].seq - 1 + 0
      BY <1>4, <3>2, <3>4
    <3>6. 0 \in 0..Len(pcap[packet + 1].msgs)
      BY <3>4
    <3> QED
      BY <1>3, <3>1, <3>5, <3>6 DEF AtPacket
  <2>2. CASE packet = Len(pcap)
    <3>1. seq = Next1(pcap[packet])
      BY <1>2, <1>3, <2>2
    <3> QED
      BY <1>2, <1>3, <1>4, <2>2, <3>1 DEF AtPacket
  <2> QED
    BY <1>2, <1>3, <2>1, <2>2
<1> QED
  BY <1>1, <1>2, <1>5 DEF OracleInv

LEMMA OracleStep ==
  ASSUME OracleInv, CaptureInv, FilesStored, [DNext]_dayVars
  PROVE  OracleInv'
<1>1. ASSUME UNCHANGED pcapState, UNCHANGED file PROVE OracleInv'
  BY <1>1 DEF pcapState, OracleInv
<1>2. CASE Convert
  <2>1. CASE Pcap!Begin \/ Pcap!Pack \/ Pcap!Finish \/ Pcap!Raise
    <3>1. conv \in {"waiting", "running"} /\ UNCHANGED <<file, Pcap!OracleVars>>
      BY <2>1 DEF Pcap!Begin, Pcap!Pack, Pcap!Finish, Pcap!Raise, Pcap!Turn
    <3>2. oracle = "waiting"
      BY <3>1 DEF OracleInv
    <3> QED
      BY <3>1, <3>2 DEF OracleInv, Pcap!OracleVars
  <2>2. CASE Pcap!Heed
    <3>1. /\ oracle = "running" /\ packet > Len(pcap) /\ oracle' = "done"
          /\ UNCHANGED <<file, conv, seq, pcap, packet, heard, walked, globalIdx,
                         registers>>
      BY <2>2 DEF Pcap!Heed
    <3>2. AtPacket(pcap, packet, heard, walked, seq) /\ Len(pcap) \in Nat
      BY <3>1 DEF OracleInv, CaptureInv, GoodCapture
    <3>3. walked = seq - 1
      BY <3>1, <3>2 DEF AtPacket
    <3> QED
      BY <3>1, <3>3 DEF OracleInv
  <2> QED
    BY <1>2, <2>1, <2>2, ListenStep, HearStep, NextPacketStep DEF Convert, Pcap!PNext
<1>3. CASE StartDay
  <2>1. UNCHANGED pcapState /\ conv = "waiting"
    BY <1>3 DEF StartDay, CaptureInv
  <2>2. oracle = "waiting" /\ walked = 0
    BY <2>1 DEF OracleInv
  <2>3. 0..(walked - 1) = {}
    BY <2>2
  <2> QED
    BY <2>1, <2>2, <2>3 DEF OracleInv, pcapState
<1>4. CASE Run
  BY <1>1, <1>4 DEF Run, RNext, Open, Process, BookRaises, RecordRaises, ParserRaises,
                    Close, Select, Outcome
<1>5. CASE Download \/ UNCHANGED dayVars
  BY <1>1, <1>5 DEF Download, dayVars, runVars
<1> QED
  BY <1>2, <1>3, <1>4, <1>5 DEF DNext


\* The converter starts once the run has ended, and without a limit it returns
\* only from a whole file.
EndedInv ==
  /\ conv # "waiting" => run \in {"failed", "done"}
  /\ conv = "done" /\ args.limit = None => file.tail = "whole"

LEMMA EndedStep ==
  ASSUME EndedInv, CaptureInv, FilesStored, RunInv, [DNext]_dayVars
  PROVE  EndedInv'
<1>1. ASSUME UNCHANGED <<args, file, run, conv>> PROVE EndedInv'
  BY <1>1 DEF EndedInv
<1>2. CASE Convert
  <2>1. run \in {"failed", "done"} /\ UNCHANGED <<args, file, run>>
    BY <1>2, ConvertKeeps DEF Convert, RunEnded, RunInv
  <2>2. CASE Pcap!Finish
    <3>1. conv' = "done" /\ (Pcap!Turn = "end" \/ Pcap!AtLimit)
      BY <2>2 DEF Pcap!Finish
    <3>2. CASE Pcap!Turn = "end"
      <4>1. file.tail = "whole"
        BY <3>2 DEF Pcap!Turn, Pcap!Split
      <4> QED
        BY <2>1, <3>1, <4>1 DEF EndedInv
    <3>3. CASE Pcap!AtLimit
      <4>1. args.limit # None
        BY <3>3 DEF Pcap!AtLimit, None, Pcap!None
      <4> QED
        BY <2>1, <3>1, <4>1 DEF EndedInv
    <3> QED
      BY <3>1, <3>2, <3>3
  <2>3. CASE Pcap!Begin \/ Pcap!Pack \/ Pcap!Raise
    <3>1. conv' # "done"
      BY <2>3 DEF Pcap!Begin, Pcap!Pack, Pcap!Raise, Pcap!Turn
    <3> QED
      BY <2>1, <3>1 DEF EndedInv
  <2>4. CASE Pcap!Listen \/ Pcap!Hear \/ Pcap!NextPacket \/ Pcap!Heed
    BY <1>1, <2>1, <2>4 DEF Pcap!Listen, Pcap!Hear, Pcap!NextPacket, Pcap!Heed
  <2> QED
    BY <1>2, <2>2, <2>3, <2>4 DEF Convert, Pcap!PNext
<1>3. CASE Run
  <2>1. UNCHANGED <<args, file, conv>>
    BY <1>3 DEF Run, RNext, pcapState, Open, Process, BookRaises, RecordRaises,
                ParserRaises, Close, Select, Outcome
  <2>2. run \in {"failed", "done"} => run' = run
    BY <1>3 DEF Run, RNext, Found, Open, Process, BookRaises, RecordRaises,
                ParserRaises, Close, Select
  <2> QED
    BY <2>1, <2>2 DEF EndedInv
<1>4. CASE StartDay
  <2>1. conv = "waiting" /\ conv' = conv
    BY <1>4 DEF StartDay, pcapState, CaptureInv
  <2> QED
    BY <2>1 DEF EndedInv
<1>5. CASE Download \/ UNCHANGED dayVars
  BY <1>1, <1>5 DEF Download, dayVars, runVars, pcapState
<1> QED
  BY <1>2, <1>3, <1>4, <1>5 DEF DNext

\* The inductive invariant of the comparison.
ToolsInv(locOf) ==
  /\ NamedInv(locOf) /\ FilesStored /\ RunInv /\ CaptureInv
  /\ CountedInv /\ SourcesInv /\ EndedInv /\ OracleInv

LEMMA ToolsStep ==
  ASSUME NEW locOf, FeedNames(locOf), ToolsInv(locOf), [DNext]_dayVars
  PROVE  ToolsInv(locOf)'
<1>1. /\ NamedInv(locOf) /\ FilesStored /\ RunInv /\ CaptureInv
      /\ CountedInv /\ SourcesInv /\ EndedInv /\ OracleInv
  BY DEF ToolsInv
<1>2. NamedInv(locOf)'
  <2>1. [Next]_vars
    BY <1>1, BookSteps
  <2> QED
    BY <1>1, <2>1, NamedStep
<1>3. FilesStored' /\ RunInv' /\ CaptureInv'
  BY <1>1, FilesStep, RunStep, CaptureStep
<1>4. CountedInv' /\ SourcesInv' /\ EndedInv' /\ OracleInv'
  BY <1>1, CountedStep, SourcesStep, EndedStep, OracleStep
<1> QED
  BY <1>2, <1>3, <1>4 DEF ToolsInv

LEMMA ToolsInit ==
  ASSUME NEW locOf, DInit, \A c \in Calls : c.limit # 0
  PROVE  ToolsInv(locOf)
<1>1. RInit /\ Init /\ args \in Calls /\ file = NoFile
  BY DEF DInit, RInit
<1>2. NamedInv(locOf) /\ FilesStored /\ RunInv /\ CaptureInv
  BY <1>1, NamedInit, FilesInit, RunInit, CaptureInit
<1>3. CountedInv
  <2>1. args.limit = None \/ 0 < args.limit
    BY <1>1, DayAssumption DEF None
  <2>2. Len(file.items) = 0
    BY <1>1 DEF NoFile
  <2> QED
    BY <1>1, <2>1, <2>2 DEF RInit, CountedInv
<1>4. SourcesInv
  <2>1. <<>> \in Seq({}) /\ Len(<<>>) = 0
    OBVIOUS
  <2> QED
    BY <1>1, <2>1 DEF RInit, SourcesInv, IsSequence
<1>5. EndedInv /\ OracleInv
  <2>1. /\ conv = "waiting" /\ oracle = "waiting" /\ packet = 1 /\ heard = 0
        /\ walked = 0 /\ globalIdx = 0 /\ registers = <<>>
    BY DEF DInit, Pcap!PInit
  <2>2. <<>> \in Seq({}) /\ 0..(walked - 1) = {}
    BY <2>1
  <2> QED
    BY <2>1, <2>2 DEF EndedInv, OracleInv, IsSequence
<1> QED
  BY <1>2, <1>3, <1>4, <1>5 DEF ToolsInv

\* What the run has counted when it is done is what the capture carries.
LEMMA SameCount ==
  ASSUME FilesStored, CaptureInv, CountedInv, run = "done", conv = "done"
  PROVE  messages = seq - 1
<1>1. /\ args.limit \in Nat \cup {None} /\ Len(file.items) \in Nat
      /\ messages \in 0..Len(file.items)
  BY DayAssumption DEF FilesStored, Stored, CountedInv
<1>2. taken = IF args.limit # None /\ args.limit < Len(file.items)
              THEN args.limit ELSE Len(file.items)
  BY DEF CaptureInv
<1>3. seq - 1 = taken
  <2>1. group = <<>> /\ seq - 1 + Len(group) = taken /\ seq \in Nat
    BY DEF CaptureInv, GoodCapture
  <2> QED
    BY <2>1
<1>4. \/ args.limit # None /\ messages = args.limit
      \/ /\ messages = Len(file.items)
         /\ args.limit = None \/ messages < args.limit
  BY DEF CountedInv
<1> QED
  BY <1>1, <1>2, <1>3, <1>4 DEF None

LEMMA ToolsImply ==
  ASSUME NEW locOf, ToolsInv(locOf)
  PROVE  ToolsAgree
<1>1. /\ FilesStored /\ RunInv /\ CaptureInv
      /\ CountedInv /\ SourcesInv /\ EndedInv /\ OracleInv
  BY DEF ToolsInv
<1>2. /\ args.limit \in Nat \cup {None} /\ Len(file.items) \in Nat
      /\ messages \in 0..Len(file.items) /\ walked \in Nat /\ seq \in Nat
  BY <1>1, DayAssumption DEF FilesStored, Stored, CountedInv, OracleInv, CaptureInv,
                             GoodCapture
<1>3. IndexesAgree
  <2> SUFFICES ASSUME run = "done", oracle = "done", conv = "done"
               PROVE  /\ walked = messages
                      /\ \A i \in 1..Len(vec) :
                           \E j \in 1..Len(registers) :
                             /\ registers[j].idx = vec[i].idx
                             /\ registers[j].type = vec[i].type
                             /\ registers[j].loc = vec[i].loc
    BY DEF IndexesAgree
  <2>1. walked = messages
    BY <1>1, SameCount DEF OracleInv
  <2>2. ASSUME NEW i \in 1..Len(vec)
        PROVE  \E j \in 1..Len(registers) :
                 /\ registers[j].idx = vec[i].idx
                 /\ registers[j].type = vec[i].type
                 /\ registers[j].loc = vec[i].loc
    <3>1. IsOf(vec[i], file.items, walked)
      BY <1>1, <2>1 DEF SourcesInv
    <3>2. /\ vec[i].idx \in 0..(walked - 1)
          /\ vec[i].type = file.items[vec[i].idx + 1].msg.type
          /\ vec[i].loc = file.items[vec[i].idx + 1].msg.loc
          /\ vec[i].type \in LookupTypes
      BY <3>1 DEF IsOf
    <3>3. vec[i].type \in Pcap!SubsetTypes
      BY <3>2 DEF LookupTypes, AddTypes, ReduceTypes, Pcap!SubsetTypes
    <3>4. HasRegister(registers, file.items, vec[i].idx)
      BY <1>1, <3>2 DEF OracleInv
    <3> QED
      BY <3>2, <3>3, <3>4 DEF HasRegister
  <2> QED
    BY <2>1, <2>2
<1>4. ASSUME oracle = "failed" PROVE run = "failed"
  <2>1. /\ walked < seq - 1 /\ ~SoundAt(file.items, walked + 1)
        /\ conv \in {"done", "failed"}
    BY <1>1, <1>4 DEF OracleInv
  <2>2. seq - 1 <= taken /\ taken \in 0..Len(file.items)
        /\ (args.limit # None => taken <= args.limit)
    <3>1. /\ seq - 1 + Len(group) = taken /\ Len(group) \in Nat
          /\ taken \in 0..Len(file.items)
          /\ (args.limit # None => taken <= args.limit)
      BY <1>1 DEF CaptureInv
    <3> QED
      BY <1>2, <3>1
  <2>3. SUFFICES ASSUME run = "done" PROVE FALSE
    BY <1>1, <2>1 DEF EndedInv
  <2>4. \/ args.limit # None /\ messages = args.limit
        \/ messages = Len(file.items)
    BY <1>1, <2>3 DEF CountedInv
  <2>5. walked + 1 \in 1..messages
    BY <1>2, <2>1, <2>2, <2>4 DEF None
  <2> QED
    BY <1>1, <2>1, <2>5 DEF CountedInv
<1>5. ASSUME file.tail \in {"prefix", "payload"}, args.limit = None
      PROVE  csv = "old" /\ picked = {} /\ conv # "done"
  <2>1. run # "done"
    BY <1>1, <1>5 DEF CountedInv
  <2>2. csv = "old" /\ picked = {}
    BY <1>1, <2>1 DEF CountedInv, RunInv
  <2>3. conv # "done"
    BY <1>1, <1>5 DEF EndedInv
  <2> QED
    BY <2>2, <2>3
<1> QED
  BY <1>3, <1>4, <1>5 DEF ToolsAgree, VerdictsAgree

\* run_golden.py, binaryfile_to_pcap.py and message_oracle.py, for any files,
\* payload sizes and groupings: what the run and the oracle say of the same
\* message they say under the same index, the oracle rejects only what the run
\* rejected, and a file that is cut is a complete day for neither.  The feed
\* names locates, and a limit is not zero: run_golden.py takes the message
\* before it looks at the limit, the converter looks first.
THEOREM ToolsAgreeAlways ==
  ASSUME NEW CONSTANT locOf, FeedNames(locOf), \A c \in Calls : c.limit # 0
  PROVE  DSpec => []ToolsAgree
<1>1. DInit => ToolsInv(locOf)
  BY ToolsInit
<1>2. ToolsInv(locOf) /\ [DNext]_dayVars => ToolsInv(locOf)'
  BY ToolsStep
<1>3. ToolsInv(locOf) => ToolsAgree
  BY ToolsImply
<1> QED
  BY <1>1, <1>2, <1>3, PTL DEF DSpec

=============================================================================
