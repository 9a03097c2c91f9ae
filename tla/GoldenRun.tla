----------------------------- MODULE GoldenRun -----------------------------
(***************************************************************************)
(* golden_model/scripts/run_golden.py: parser -> book -> statistics and    *)
(* vector sink, message by message, and the selection of symbols from the  *)
(* statistics (select_subset.py).                                          *)
(***************************************************************************)
EXTENDS GoldenBook, ItchFile

CONSTANTS
  RecordMax,   \* largest quantity a record has room for: 2^32 - 1
  DeepEvery,   \* deep_check_every
  PickMax      \* n of select_subset

None == -1     \* max_messages = None, or no locate

VARIABLES
  args,        \* [limit, subset, sink, ...]: what the tools are called with
  file,        \* the BinaryFILE that is read
  run,         \* "waiting", "running", "closing", "done" or "failed"
  messages,    \* messages that went the whole way
  types,       \* by_type
  syms,        \* StatsCollector.symbols: locate -> its row
  vec,         \* the records in vectors.bin
  csv,         \* stats.csv: "old", of an earlier run, or "new"
  picked,      \* the locates of subset_symbols.json
  events,      \* history: <<index, locate, bbo>> of every event of the book
  peak         \* history: locate -> most live orders and levels it ever had

runVars == <<args, file, run, messages, types, syms, vec, csv, picked, events,
             peak>>
Outcome == <<args, file, csv, picked>>

RInit ==
  /\ Init
  /\ run = "waiting" /\ messages = 0
  /\ types = [t \in Types |-> 0]
  /\ syms = [l \in {} |-> {}]
  /\ vec = <<>> /\ csv = "old" /\ picked = {}
  /\ events = <<>>
  /\ peak = [l \in Locates |-> [orders |-> 0, levels |-> 0]]

(***************************************************************************)
(* Statistics                                                              *)
(***************************************************************************)
Highest(a, b) == IF a > b THEN a ELSE b

\* level_count of a book's levels.
LevelCount(lv, l) ==
  Cardinality(DOMAIN lv[<<l, "B">>]) + Cardinality(DOMAIN lv[<<l, "S">>])

NewRow == [symbol |-> FALSE, messages |-> 0, orders |-> 0, levels |-> 0]
RowOf(l) == IF l \in DOMAIN syms THEN syms[l] ELSE NewRow

\* Mutant of Sampled: only adds are sampled for the number of levels.
Sampled_Adds(row, m, live, count) ==
  IF m.type = "R" THEN [row EXCEPT !.messages = @ + 1, !.symbol = TRUE]
  ELSE IF m.type \in AddTypes
  THEN [row EXCEPT !.messages = @ + 1, !.orders = Highest(@, live),
                   !.levels = Highest(@, count)]
  ELSE [row EXCEPT !.messages = @ + 1]

\* The row of the locate of m, after m; live orders and levels are those of
\* the book after m.
Sampled(row, m, live, count) ==
  IF m.type = "R" THEN [row EXCEPT !.messages = @ + 1, !.symbol = TRUE]
  ELSE IF m.type \in LookupTypes
  THEN [row EXCEPT !.messages = @ + 1, !.orders = Highest(@, live),
                   !.levels = Highest(@, count)]
  ELSE [row EXCEPT !.messages = @ + 1]

\* observe(); messages of locate 0 are counted by type only.
Observe(m) ==
  /\ types' = [types EXCEPT ![m.type] = @ + 1]
  /\ syms' = IF m.loc = 0 THEN syms
             ELSE Put(syms, m.loc,
                      Sampled(RowOf(m.loc), m, liveCount'[m.loc],
                              LevelCount(levels', m.loc)))

(***************************************************************************)
(* Vectors                                                                 *)
(***************************************************************************)
\* The locate of the event that apply(m) returns, None if it returns none.
EventLoc(m) ==
  IF m.type \in AddTypes THEN m.loc
  ELSE IF m.type \notin LookupTypes \/ m.ref \notin DOMAIN orders THEN None
  ELSE IF m.type = "D" THEN m.loc ELSE orders[m.ref].loc

Differs(l, bbo) == l \notin DOMAIN lastBbo \/ lastBbo[l] # bbo

\* Mutant of RecordOf: the message is counted before its record is written.
RecordOf_Counted(m, l, bbo) ==
  [idx |-> messages + 1, type |-> m.type, loc |-> l, bbo |-> bbo,
   changed |-> Differs(l, bbo)]

\* write_record; the timestamp is left out.
RecordOf(m, l, bbo) ==
  [idx |-> messages, type |-> m.type, loc |-> l, bbo |-> bbo,
   changed |-> Differs(l, bbo)]

Wanted(l) == args.sink /\ l \in args.subset
Packs(bbo) == bbo[1][2] <= RecordMax /\ bbo[2][2] <= RecordMax

(***************************************************************************)
(* The run                                                                 *)
(***************************************************************************)
Open ==
  /\ run = "waiting" /\ run' = "running"
  /\ UNCHANGED <<Outcome, messages, types, syms, vec, events, peak, vars>>

Stops(n) == args.limit # None /\ n >= args.limit

Found == IF run = "running" THEN Parsed(file, messages) ELSE "nothing"
Item1 == file.items[messages + 1].msg
Happens(l) == IF l = None THEN events
              ELSE Append(events, <<messages, l, lastBbo'[l]>>)
TruePeak ==
  [l \in Locates |-> [orders |-> Highest(peak[l].orders, liveCount'[l]),
                      levels |-> Highest(peak[l].levels, LevelCount(levels', l))]]

\* One message all the way, and check_deep when it is due.
Process ==
  /\ Found = "message"
  /\ LET l == EventLoc(Item1)
     IN /\ Apply(Item1) /\ aborted' = "no"
        /\ Wanted(l) => Packs(lastBbo'[l])
        /\ Observe(Item1)
        /\ vec' = IF Wanted(l) THEN Append(vec, RecordOf(Item1, l, lastBbo'[l]))
                  ELSE vec
        /\ events' = Happens(l) /\ peak' = TruePeak
  /\ messages' = messages + 1
  /\ run' = IF messages' % DeepEvery = 0 /\ ~LevelsMatchOrders' THEN "failed"
            ELSE IF Stops(messages') THEN "closing" ELSE "running"
  /\ UNCHANGED Outcome

\* The book raises InvariantError: the message is neither counted nor written.
BookRaises ==
  /\ Found = "message"
  /\ Apply(Item1) /\ aborted' # "no"
  /\ run' = "failed"
  /\ UNCHANGED <<Outcome, messages, types, syms, vec, events, peak>>

\* struct.error: the aggregated quantity does not fit the record.
RecordRaises ==
  /\ Found = "message"
  /\ LET l == EventLoc(Item1)
     IN /\ Apply(Item1) /\ aborted' = "no"
        /\ Wanted(l) /\ ~Packs(lastBbo'[l])
        /\ Observe(Item1)
        /\ events' = Happens(l) /\ peak' = TruePeak
  /\ run' = "failed"
  /\ UNCHANGED <<Outcome, messages, vec>>

ParserRaises ==
  /\ Found \notin {"nothing", "message", "end"}
  /\ run' = "failed"
  /\ UNCHANGED <<Outcome, messages, types, syms, vec, events, peak, vars>>

\* The last check_deep, then the outputs.
Close ==
  /\ run = "closing" \/ Found = "end"
  /\ run' = IF LevelsMatchOrders THEN "done" ELSE "failed"
  /\ csv' = IF LevelsMatchOrders THEN "new" ELSE csv
  /\ UNCHANGED <<args, file, picked, messages, types, syms, vec, events, peak,
                 vars>>

\* Whether row a comes before row b: a stable sort of rows in locate order.
Above(a, b) ==
  \/ syms[a].orders > syms[b].orders
  \/ /\ syms[a].orders = syms[b].orders
     /\ \/ syms[a].messages > syms[b].messages
        \/ syms[a].messages = syms[b].messages /\ a < b

\* select().
Select ==
  /\ csv = "new" /\ picked = {}
  /\ picked' = {l \in DOMAIN syms :
                  Cardinality({k \in DOMAIN syms : Above(k, l)}) < PickMax}
  /\ UNCHANGED <<args, file, run, csv, messages, types, syms, vec, events, peak,
                 vars>>

RNext == Open \/ Process \/ BookRaises \/ RecordRaises \/ ParserRaises \/ Close
         \/ Select

(***************************************************************************)
(* Properties                                                              *)
(***************************************************************************)
\* The peaks of a row, which are sampled only at messages of its own locate
\* that modify the book, are the most orders and levels the symbol ever had:
\* they size the memories of the hardware.
PeaksAreTrue ==
  aborted = "no" =>
    \A l \in Locates \ {0} :
      /\ RowOf(l).orders = peak[l].orders
      /\ RowOf(l).levels = peak[l].levels

\* vectors.py:9-11: one record per event of a subset symbol, in the order of
\* the file and under the event's index, and nothing else; a run that fails has
\* written the records of everything before, except of the event whose record
\* could not be packed.
RecordsAreEvents ==
  LET wanted == {j \in 1..Len(events) : Wanted(events[j][2])}
      Nth(j) == Cardinality({k \in wanted : k <= j})
  IN /\ \A j \in wanted :
          Nth(j) <= Len(vec) =>
            /\ <<vec[Nth(j)].idx, vec[Nth(j)].loc, vec[Nth(j)].bbo>> = events[j]
            /\ vec[Nth(j)].type = file.items[events[j][1] + 1].msg.type
     /\ \/ Len(vec) = Cardinality(wanted)
        \/ run = "failed" /\ Len(vec) = Cardinality(wanted) - 1

\* vectors.py:9: the flag of a record tells whether the BBO differs from the
\* one in the previous record of the symbol.
ChangedIsSinceRecord ==
  \A i \in 1..Len(vec) :
    LET before == {j \in 1..(i - 1) : vec[j].loc = vec[i].loc}
        last == CHOOSE j \in before : \A k \in before : k <= j
    IN vec[i].changed = (before = {} \/ vec[last].bbo # vec[i].bbo)

\* A symbol that is left out never held more orders than one that is picked.
PickedAreLargest ==
  \A l \in picked, k \in DOMAIN syms \ picked : peak[l].orders >= peak[k].orders

\* The sizes that the statistics give and the symbols that are chosen by them
\* are right; messages of locate 0 are of no symbol.
SizesAreTrue == DOMAIN syms \subseteq Locates \ {0} /\ PeaksAreTrue /\ PickedAreLargest

\* The vectors are the events of the subset, each with the right flag.
VectorsAreEvents == RecordsAreEvents /\ ChangedIsSinceRecord

=============================================================================
