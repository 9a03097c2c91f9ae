# Models of the market-data pipeline

TLA+ models, TLC runs and TLAPS proofs for the pipeline of this repository. An
exchange day in a file is replayed twice: through the Python golden model, which
makes reference vectors, and through the hardware, in which MoldUDP64 datagrams
are parsed into ITCH registers that drive an order book with the best bid and
offer (BBO) and the depth. A second parser reads CME MDP 3.0 packets; its
reference is a codec driven by the exchange's schema.

    server -> fetch_itch -> file -+-> run_golden (parser, Book, stats, vectors) -> vectors, symbols
              FetchItch  ItchFile |   GoldenRun, GoldenBook
                                  +-> binaryfile_to_pcap -> datagrams -> message_oracle
                                      PcapConvert                        (all of it: ItchDay)
    datagrams -> pins -> input FIFO -> itch_parser -> orderbook -> pin registers -> pins
                         SynthInput    ItchParser     OrderBook    SynthOutput
                                       ItchStream     OrderBookEvents, LevelSide
                                                      OrderBookRefinement -> GoldenBook
    server -> fetch_mdp3_schema -> schema -> codec, Corpus -> packets -> mdp3_parser -> records
              FetchSchema         Mdp3Schema Mdp3Codec, Mdp3Corpus       Mdp3Parser, Mdp3Stream

Run a model with `tlc -config X.cfg M.tla`, check proofs with `tlapm M.tla`.
`PROJECT.json` lists every run, the code lines of every definition, and the
hazards with the properties that watch them.

## 1. Inventory

### Reference order book, `golden_model/src/book.py`
- State: `orders`, `_levels` (price -> shares per symbol and side), `_best`
  (cached best price), `_last_bbo`, trading state and market hours, counters
  (`anomalies`, `crosses`, `live_count`).
- Operations: `apply` of A F E C X D U S H and anything else. Errors are
  exceptions that abort the run, or counted anomalies.
- Hard: five structures say the same thing redundantly; `_best` is recomputed
  only when the best level empties; several methods update before they may
  raise; `check_deep` looks only every million messages.
- Correct when: levels are the sum of the orders, the cached best is the best,
  the counters count, the BBO of an event is the book's.

### Order book engine, `rtl/orderbook/orderbook.sv`
- State: a receive FSM (INVAL, W0, TS, BODY, WAIT_PROBE, APPLY, LV2, LV2B, LV3,
  UADD, EMIT_A..C, SWAP), the in-flight message, the double buffer `nx_*`, a
  probe engine with its own FSM, the hashed order table (one write port, a
  registered read), level lists of P slots per symbol and side, the symbol map,
  the registers of three pipelines, two output ports.
- Interaction: one AXI-Stream in, two valid/ready ports out. All parts move in
  the same clock edge, each on the registers of before it.
- Hard: the next message is received while the tail of this one runs; the probe
  reads the table while the body still arrives, and again after a swap; two
  consumers take the halves of a pair apart; replace is two passes; reset does
  not clear the table.
- Correct when: it does what the reference book does, message by message; no
  word, half pair or event is lost; every message ends.

### ITCH parser, `rtl/parser/itch_parser.sv`
- State: an FSM (HDR, LEN, CAP, W0, TS, BODY, NEXT, DRAIN), a byte queue of
  QB plus a beat, `drop_left`, the captured message, sequence registers, the
  end-of-datagram latch, `drop_packet`, an output register.
- Hard: messages at any byte of a beat; drain and refill in one cycle; messages
  longer than the queue; datagrams that end anywhere, with the end taken while
  an earlier message is still emitted; sequence gaps and new sessions.
- Correct when: the registers are the oracle's, malformed datagrams and only
  they raise `error`, gaps and only they raise `gap_detected`, and the framing
  is right again for the next datagram.

### Chain and synthesis top, `rtl/itch_chain.sv`, `synth/itch_chain_synth.sv`
- The chain wires parser to book and keeps no state. The synthesis top adds an
  input FIFO of four beats with a registered ready and a pair of output
  registers. Hard: a ready that is one cycle old; one ready line for two stages.

### MDP3 parser, `rtl/parser/mdp3_parser.sv`
- State: the capture process (HDR, SIZE, BODY, SKIP, WAIT, DISCARD) and the decode
  process (IDLE, HDR, ROOT, G1, G1_ENT, G2_DIM, G2_ENT, PUSH, PASS, DONE), which share two message buffers and their occupancy bits; an output FIFO with
  a count of its own; an output register; the packet's sequence state.
- Hard: both processes touch the occupancy in one cycle; the FIFO is counted by
  `push_commit`, a copy of the conditions under which four states push; the end
  of a packet may come before, with or after the last byte of a message.
- Correct when: each message is decoded once, whole and in order, into the records
  of the codec; malformed packets and only they raise `error`, gaps and only they
  raise `gap_detected`.

### MDP 3.0 reference, `golden_model/mdp3/`
- `schema.py` parses the XML into field offsets, encodings, composites and
  groups; `codec.py` encodes, walks packets and decodes; the oracle turns a
  decoded message into entries and words; `generator.py` builds the `Corpus` and
  saves and loads it with its messages.
- Hard: fields and groups that a version does not have; a group behind one that is
  empty or skipped; an order entry that refers to a price entry by number; a
  packet that is cut.
- Correct when: what was encoded is what is decoded, in the fields of its version;
  the words of the oracle are those of the entry that was meant.

### ITCH reader, golden run and selection
- `golden_model/itch/parser.py`, `golden_model/src/stats.py` and `vectors.py`,
  `golden_model/scripts/run_golden.py` and `select_subset.py`.
- State: position in the file, statistics by type and symbol, the written records.
- `run_golden` sends each message through the book, the statistics and the sink in
  turn; any of them may raise. `select_subset` picks the symbols of the hardware.
- Hard: a record's index, the converter's and the oracle's are counted in
  three places; peaks are sampled; an aborted run leaves half of its files.

### Converter and downloads, `scripts/`
- `binaryfile_to_pcap` groups messages into datagrams under three limits;
  `message_oracle` reads them back. `fetch_itch` and `fetch_mdp3_schema` download
  to a partial file, check it and rename it.
- Hard: the last group, the sequence number of the next datagram; connections
  that break and processes that are killed at any step; a second server.

### Everything else
Drivers, testbenches, and synthesis scripts. The tests were read for what they promise.

## 2. Plan

All modules of the plan exist but one. What is left, in order:

1. `ItchChain`: the parser's output register as the sender of the book. The chain is
   wiring only: `ItchStream` has any consumer behind the parser and
   `OrderBookEvents` any sender of whole registers before the book, so that
   what is left is an abstract pipe (words in, words out, in order) that both
   implement.
2. Theorems. Proved since the plan was made: the invariants of the engine
   (`OrderBook`), of its ports (`OrderBookEvents`), of the MDP 3.0 parser (`Mdp3Stream`),
   of the ITCH parser (`ItchStream`), of the golden run, the converter and the
   comparison of the two (`ItchDay`), and that the engine implements the reference book
   (`OrderBookRefinement`), section 6. Left: the codec (`PacketsWalk`, `RoundTrip`,
   `OracleMeant`).
3. The two sides of the synthesis top together.

## 3. Modules and the code

One step of a hardware module is one rising edge of the clock. An action reads
the registers as they were before the edge (non-blocking assignments) and gives
all of them their next value. The inputs of the cycle are parameters of the
action, chosen anew each cycle. One step of a Python module is one message, or one
step of a download at which it may break.

| module | models |
| --- | --- |
| `Itch` | messages as both sides see them: types, sides, `Better` on prices |
| `GoldenBook` | `Book`: one action per message type; exceptions end in `aborted` |
| `ItchFile` | a BinaryFILE as a sequence of messages and a way to end, what `iter_messages` makes of it, and the files that a cut leaves |
| `FetchItch` | `fetch`: one action per step, failure and kill |
| `GoldenRun` | `run()` (reader, `GoldenBook`, `StatsCollector`, sink) and `select()` |
| `PcapConvert` | `convert`, and the oracle at its place in the datagrams (`packet`, `heard`) |
| `ItchDay` | the four together: the file that was fetched is run, converted and read back |
| `LevelList` | the decode and write of the level pipeline, as pure operators |
| `LevelSide` | one side of one symbol: the pipeline beside the resting orders |
| `OrderBook` | the engine: one action per FSM state, with the probe engine (`Engine`), the double buffer (`NxRecv`, `SwapNext`) and output retention (`Retained`) moving in each |
| `OrderBookEvents` | the engine with what was applied, owed and taken at both ports |
| `OrderBookRefinement` | the map from the engine to `GoldenBook` |
| `ItchParser` | the parser: one action per FSM state and path |
| `ItchStream` | the parser with what was sent and taken, and the oracle |
| `Mdp3Schema` | `load_schema`: offsets, block lengths, composites, since-versions |
| `Mdp3Codec` | encode, walk, decode and the oracle, over bytes |
| `FetchSchema` | `fetch` of the schema: two servers, kills |
| `Mdp3Corpus` | the schema fetched and loaded, packets added, saved, loaded and read |
| `Mdp3Parser` | the MDP 3.0 parser: one action per capture state, one operator per decode state, both in each cycle |
| `Mdp3Stream` | the parser with what was sent and taken, and what the codec makes of it |
| `SynthInput`, `SynthOutput` | the two sides of the synthesis top, with the parser behind the FIFO and the engine before the pin registers |
| `GoldenBookProofs`, `ItchDayProofs`, `LevelListProofs`, `LevelSideProofs`, `OrderBookProofs`, `OrderBookRefinementProofs`, `ItchStreamProofs`, `Mdp3Proofs` | theorems (`Mdp3Proofs`: the MDP 3.0 parser, and the schema file of `Mdp3Corpus`) |
| `MC*` | feeds, files, documents, datagrams and tables for TLC |

What is abstracted, and why it is sound for the properties:

- **Words.** A word of a register is the pair of its message and its number.
  The body array of the engine is the set of slots that hold the in-flight
  message's own word; a reference that is read from a slot with an older word
  is `NoRef`. A message of type P, which the book ignores, is treated like R.
  `tlast` coincides with a message's last word, which the parser's `body_w`
  guarantees, so the length sanity of the receiver is left out, as are the
  timestamps and, in the book, the message index.
- **The byte queue** of the parser holds the last `qn` bytes transferred, so it
  is given by `qn` and the sender's position. Read at a byte where no message
  begins, it gives an arbitrary message. The 16-bit length field is one byte
  wide in the model's messages (1 to 250), as it is in the code's casts.
- **The hash** is the reference modulo the table size, as `ref[SLOT-1:0]` is.
- **hrem.** The cut of the header by one word is always 1 after w0; it has no
  variable. `since` is `pr_runs_started - cur_anchor`, kept as one number.
  Stage registers that nothing reads before the next write are cleared.
- **Reset** is the initial state; a reset in operation is covered for the order
  table, the one memory it does not clear, by `BootTables`: empty, or full of
  the orders of before.
- **Sums** of the level pipeline have the code's width: quantities are in
  0..QLim-1, deltas signed, and a sum outside is refused (QLim is 2^32 there).
- **The MDP 3.0 parser's bytes.** A word of a record is the triple of its message, its
  record and its number; a message is its size, its groups and whether it is
  decoded. DS_IDLE may take either buffer when both are full, as in the code's
  `if` order; the order never matters to the properties. Sequence numbers stay
  away from the wrap at 2^32.
- **The codec's bytes** are small numbers; a character is its number. The schema
  document is not in the repository: the layout is that of
  `mdp3_parser.sv:11-26`, with since-versions chosen so that a field and a group
  are newer than a message. Ids, which `generator.py` turns into the strings of the
  JSON keys and back, are numbers. A group entry without a field that the
  schema has (a TypeError) is left out.
- **Files** are sequences of messages with a way to end: whole, or cut inside a
  length or a message, or a wrong length. The md5 tells any two files apart.

Environment: the exchange's feed. In the refinement a reference belongs to one
locate (`FeedNumbers`, which TLC evaluates) and the levels fit the P slots (`LevelsFit`); executes and cancels
are of at least one share in `level_lists` (`MinReduce`); P is a power of two,
as the comparison tree needs. In `ports` no message has locate 65535 and a reduction is
of at least one share (`FeedAssumption`, which TLC evaluates). In `frames`, `tkeep` is 0 in idle cycles
and the datagrams are `Frameable` and `Meant` (`TrafficFits`, `TrafficMeant`, which TLC evaluates).

## 4. Runs

| run | shows | bounds |
| --- | --- | --- |
| `golden_book` | the redundant structures of the reference book agree after every message, the last BBO of each locate is its present one, and with `strict_cross` no message carries a locate from uncrossed to crossed in continuous trading | 3 references of 2 symbols, 3 prices, up to 2 shares, S and H messages, messages with 0 shares, duplicates, unknown references, overexecutions; at most 1 anomaly or counted cross (`MaxEvents`) |
| `day` | a file fetched under failures is run, converted and read back: the statistics give the true peaks, the records are the events of the book, the datagrams carry the file's messages, the three count alike | files of 3 to 5 messages over 3 locates (0 is the system's), with messages that the reader refuses, and what a download cuts of them; 3 ways to call the tools (limit, subset, payload and count per packet); 2 calls of fetch; `RecordMax` 3, deep check every 2 messages; 550446 states |
| `level_lists` | the list stays a sorted prefix and shows the resting shares | P = 2 slots, 3 prices and 3 orders, so that it overflows and refills |
| `collide` | handshake, body, probe and table under collisions | table of 4 slots, window of 2, three references whose windows overlap around its end, 4 messages, empty and stale tables |
| `ports` | both consumers get every pair, of the right symbol; everything ends | 2 books, 3 locates, DW = 32, 3 messages |
| `trade` | the engine implements the reference book | 2 references with one hash, 2 prices, 4 messages of 7 kinds |
| `frames` | framing, registers, error, gap and index of the parser; it never gets stuck | DW = 32, QB = 46 (the chain's values), 2 datagrams of 16 kinds, any idle beats and stalls |
| `codec` | the schema file can be trusted; packets walk, decode to what was encoded and mean what was meant | 2 packets of 10 kinds of messages: the four templates with empty and full groups, of a version before a field and a group, passthrough and unknown; 2 calls of fetch |
| `mdp3` | buffers, FIFO and records of the MDP 3.0 parser; errors, gaps, and that everything is delivered | DW = 32, FIFO of 3, 2 packets of 16 kinds |
| `level_phantom`, `fifo`, `pins` | violations, section 5 | |

Why the bounds are enough: `collide` needs four messages for a hole inside a
window, a hit behind it, and a message in the double buffer while a third is in
its tail; with fewer the mutants of the probe survive. P = 2 with three
prices is the least that pushes a level out and takes it back. In `frames` P
fills the queue to its last byte, I does not fit, S is the shortest register;
two datagrams are what recovery after an error and a gap need (a third was
tried: 236180 states, the same result). In `mdp3` a FIFO of three is filled by one
message and two packets fill both buffers. In `day` two calls of fetch are a killed one
and the one that finds what it left. `MaxMsgs`, `MaxEvents`,
`MaxDatagrams`, `MaxPackets`, `MaxMessages` and `MaxCalls` bound the inputs and
nothing else. `golden_book`, `day`, `codec` and `mdp3` do not check deadlock: a
program that ran through its file ends, an aborted book stops, and the packets
of `mdp3` are bounded (that the parser delivers them all is `AllDelivered`). The
other hardware runs check it: after the last message idle cycles go on.

Every property of a passing run has a mutant, an operator beside the definition
it replaces (`X_How` beside `X`), that breaks it: a dropped bound, a register
read one cycle late, a counter that misses a beat. Several are versions that
the code's comments say it once had.

### Fairness
`OrderBookEvents`, `ItchStream` and `Mdp3Stream` assume, weakly: the clock runs; a
sender that began a message (datagram, packet) goes on to offer its words; each
consumer is ready again and again. These are the AXI-Stream obligations of the neighbours. No
fairness is put on a state of an FSM or on the probe: that they move is what
`EveryMessageApplied`, `EveryEffectTaken`, `EveryDatagramEnds` and `AllDelivered`
check.

## 5. Where the code differs from what is said of it

- `level_phantom`: after an overflow the list can keep a level at a price where
  no order rests.
- `fifo`: the registered ready lets a fourth beat into the input FIFO, whose
  two-bit count then says that it is empty.
- `pins`: a consumer that is ready for one cycle before the event is at the pins
  makes the book retire the next event, which the pins never captured.

Met while modelling, with an instance that shows it but no run:

- The error pulse of an unlisted symbol is lost when its w0 arrives in ST_LV2B, where
  the level pipeline assigns `error` last (the instance of `ports` with
  `PROPERTY BadSymbolSignalled`).
- With DW = 64 and QB = 46, the values of the 156 MHz build, an I message whose
  front is 45 bytes from the end of the queue when the next beat arrives makes
  `drop_left` 511; the rest of the datagram is lost (the instance of `frames` with
  DW = 64, `Datagrams <- Crossing` and `INVARIANT OnlyMissingBytes`).
- With the same values an I message (52 bytes with its length) is larger than QB and smaller
  than the queue (53 bytes): it is skipped, and not counted in the index, or kept and
  counted, as the beats happen to come. `SkippedSurely` leaves this out; with DW = 32 it holds.

Stated here only, read off the code:

- ARCHITECTURE.md:48 has every level overflow signalled, while an insert into a full
  side pushes the worst level out in silence (test_orderbook.py:430 expects that).
- ITCH parser: a skipped message is not counted in the index, while
  message_oracle.py:67 counts it (`Registers` asks for the number of the messages that
  fit); an idle cycle with a `tkeep` other than 0 is taken for bytes of the message
  that is skipped; a datagram that ends inside a skipped message costs the first
  beat of the next one; one whose count ends at a skipped message, but goes on, is
  not dropped. `IdleKeeps` and the datagrams of `frames` leave the last three out
  (`TrafficFits`). No error tells of a datagram that ends before its last, uncounted message
  begins, nor of a skipped message with a length other than its type's, if the type was not in
  the queue yet (it is looked at from the third byte on); `TrafficMeant` leaves these out.
- MDP 3.0 parser: a packet of a header alone, with one trailing byte, or whose last
  beat is empty leaves it in CS_SIZE with tready low for good (the comment at
  78-79 has what is broken consumed without stalling); a malformed beat in the
  first cycle of CS_WAIT goes to CS_DISCARD without the switch of `cap_sel`, so that
  the next packet overwrites a buffer that is still occupied; with DW = 64 and
  messages of at most 15 bytes, the one that completes with the packet's end
  drops the whole ones behind it; a malformed beat late in a packet discards the rest
  only, as earlier messages are out; a cut message whose bytes all came in the
  final beat is dropped without an error; CS_SKIP with the end latched loses what
  follows. `Traffic` leaves these packets out, except the malformed beats that the
  parser handles.
- MDP 3.0 parser against codec: at a bad size the codec stops and the parser skips on;
  of a group that does not fit the parser emits nothing, with an error, and the
  codec the entries that fit; the parser decodes schema 1 version 12 only.
- Codec: the block length of a group is the schema's, not the wire's; a group newer
  than the message's version is encoded all the same and skipped by decode.
- Golden run and converter: with `max_messages` 0 the run takes one message and the
  converter none; the converter reads one message past its limit, so that a cut
  there raises and loses the last group; a message alone in its datagram may
  exceed `max_payload` by the header of 20 bytes (binaryfile_to_pcap.py:8); an
  aggregated quantity of 2^32 stops the run after the statistics saw the message;
  an aborted run leaves the older stats.csv beside the new vectors.bin.
- Downloads: two calls at once share one partial file (the models have one process); a
  file accepted without an md5 may be cut; when both servers fail, a schema that
  is not the pinned one stays in place, and loading does not look at its version.

## 6. Proofs

For every value of the constants that the modules' ASSUMEs admit:

- **`ConsistentAlways`, `BestIsExtremeAlways`** (`GoldenBookProofs`), for any feed of
  messages of the type `Message`, also one that reduces, replaces or deletes orders
  that it never added. Neither property is inductive alone: that a level has the
  shares that a reduction takes follows from its being the sum of the orders, and
  the new best price from its being the extreme one before. `BookInv` has both, with
  the live counts. `NewBestGood` is the argument for `_level_add`: the cached
  price need not be compared with the others unless its level empties.
  `LevelAddGood` lifts it to a book. Shares are counted as pairs of a reference and a unit
  (`TotalArrives`); all else is an order that arrives, departs (`TotalDeparts`) or does
  both (`BookLoses`, and replace). That a set of prices has an extreme one needs
  that prices are bounded, which their four bytes say (`MessageAssumption`).
- **`LastBboAlways`, `StrictAlways`**. These assume of the feed that its messages
  name the locate of their order (`FeedNames`, for some assignment of locates to
  references; the feed of `golden_book` is one): a delete emits for
  the locate of the message. `Eventful` says what a message may do: stop the run,
  leave the book and the events alone, or change one locate and emit its event.
- **`DownloadSafeAlways`** (`ItchDayProofs`). `FetchInv` adds that a file about to be
  renamed was compared and that nothing is compared before it is known with what. **`SchemaSafeAlways`**
  (`Mdp3Proofs`): `SchemaSafe` is inductive as it is. Both for any files and any number of
  calls, and through every step of the other tools.
- **`SizesAreTrueAlways`** (`ItchDayProofs`), under `FeedNames`, on the invariant of
  `GoldenBookProofs`. A peak is sampled only when a message of its own locate
  was applied, yet must be the maximum over all books there ever were. It is, since a
  message changes the book of its own locate only (`OnlyItsLocate`); `PeakInv` adds that what
  a locate has now is no more than its peak, and `SelectStep` that the picked symbols are the largest.
- **`VectorsAreEventsAlways`**: record k is of the k-th message that emits for a wanted locate (`Nth`,
  `Grown`). For the contents `LatestInv` is needed: what the book remembers of a wanted locate is
  what the last record of that locate says.
- **`CaptureExactAlways`**: the datagrams of the converter and the group that is not written
  yet are the messages that it took, in order, and the bytes counted are those of the group
  (`GoodCapture`). `Bytes` is recursive; `SumExists` and `SumUnique` give it its equation.
- **`ToolsAgreeAlways`**: the run, the converter and the oracle, each with a position of its own, agree
  on the number of messages. `ToolsInv` says for each what it has counted, where it
  is and how it ended; `AtPacket` is the oracle's place in the datagrams. The theorem assumes `FeedNames`
  and limits other than 0: run_golden.py:60 takes a message before it looks at the limit, and
  binaryfile_to_pcap.py:137 looks first (section 5).
- **`TypeCorrect`, `OrderedAlways`** (`LevelSideProofs`). The invariant is that
  the list is `Sorted`, a strictly ordered prefix. `DecodeCases` says what a
  decoded operation can be, and `SortedKept` that each keeps `Sorted`:
  an insert goes to the first slot that its price beats or that is empty
  (`InsertPlace`), so everything before it is better and everything behind it
  worse. It assumes `MinReduce = 1`: a reduction by zero shares of an order
  whose level was discarded would insert an empty level.
- **`AgreesAlways`**. `Agrees` is not inductive, since it is silent once
  something was signalled, and says nothing of prices without orders.
  The strengthening is `Shows`: the list shows exactly the quantities of the
  prices, each once (`ShowsKept`). That the shares at a price change by what the
  order gained or lost is a count of unit shares (`UnitsAdded`, `UnitsRemoved`).
  It assumes `MinReduce = 1` and `2 * MaxShares < QLim`: a larger share count
  reads as a negative delta.
- **`AlignedAlways`, `BodyIntactAlways`** (`OrderBookProofs`). `Aligned` alone is
  not inductive: that the receiver expects the sender's next word after the swap
  depends on what the buffer holds. `ReceiveInv` says, for each stage of the
  in-flight message (`CurInv`) and of the buffered one (`NxInv`), which words
  have arrived, how many are left and which word is on the bus, with the part of
  type correctness that this needs. Every cycle is one of seven kinds of
  move of the receiver (`CycleKinds`), and each keeps it. The theorems hold for
  both bus widths, any table, any feed and any readiness.
- **`TypeCorrect`, `TableSoundAlways`, `ProbeFreshAlways`, `ReplaceFindsItsSlot`**
  (`OrderBookProofs`). `EngineInv` adds to `ReceiveInv` what the probe and the table
  have of each other. `ProbeInv` follows each run of the probe from the cycle that arms it:
  it is pending, or has walked a known part of its window, in which no slot
  passed over holds the reference *by the table as it is now*, or is over with a result that
  is true of that table. It is inductive because only the FSM writes the
  table, in states in which the engine rests. `TableInv` is `TableSound` with the types;
  that an add keeps it needs that the probe found no slot of the reference
  (`ProbeInv`) and a hole in its window. `PendingInv` carries this over the two
  halves of a replace, of which the second writes a cycle later (ST_UADD) to a slot that was
  found before the first: `ReplaceFindsItsSlot` is this, stated by itself.
  `LevelInv` says that the level pipeline decodes a copy of the list that it
  replaces. All hold for any boot table, feed and readiness, and both widths.
- **`DeliveredAlways`, `SymbolRightAlways`, `PairsAgreeAlways`** (`OrderBookProofs`): what
  the consumers of the two ports see, on top of `EngineInv`. `Delivered` is
  inductive with the types of the ports (`PortInv`): in every cycle but an emission
  what was taken and what is held stay the same sequence (`Retention`), an emission moves
  the event that is owed to both ports (`Emission`), and one becomes owed exactly
  when a message takes effect (`OwedKinds`). `SymbolInv` adds to
  `SymbolRight` that the map has each locate once and is as it was reset behind `locCnt`
  (`MapInv`), so that a registration takes no book from a message in flight or
  buffered (`BelongsStill`). For `PairsAgree` the BBO, found by a search for the first level in
  use, must be the top of the list that the depth is cut from: `ListInv` keeps every list
  sorted, with nothing behind its end (`GoodList`, `BestIsFirst`), and carries it through the
  level and the emission pipeline. Both consumers may be as late as they like, apart. The second
  assumes `NamedLocates`, no message of locate 65535, which matches every free place of the map
  (orderbook.sv:407); the third `RealReductions`, a reduction of at least one share: by none, of an
  order whose level was discarded, it inserts a level of no shares, which the depth
  shows and the BBO does not.
- **`ImplementsGoldenAlways`, `AppliesMessageAlways`** (`OrderBookRefinementProofs`): the clocked engine
  implements the reference book of `book.py`, and ST_APPLY is where it does: with a message of a
  listed symbol it does what `apply()` does with that very message, or refuses it as a
  whole, with the error pulse, where `apply()` aborts or the table has no room. The theorems hold for both bus
  widths, any table, window, number of symbols and slots, any feed and consumers.
  The mapping completes what the pipeline still owes, so that each later stage has to be
  a stutter: the add half of a replace (`UaddCalm`), the list that is written (`Lv3Calm`), the event
  that goes out (`EmitStays`), a register that only moves (`MovingSteps`). For these `StageInv` says what the
  registers hold of the message under way, that its list is the one it will replace and
  that a replace takes before it adds. Lists are indexed by symbol and the reference levels by
  locate, and any cycle may register a locate while another message is in its tail: `SpreadMoves` and
  `SpreadStays` need that nothing is there before (`FreshInv`) and that the map only grows (`StepExtends`).
  That a pass of the pipeline is one change of a dictionary (`PassIsChange`) goes through what a
  list shows (`ShownMap`, `ShowsKept`). `Denotes` is the table as the orders of the reference,
  one lemma for each way to change it; that the probe's answer is the reference's lookup is
  `ProbeFreshNow` (`FoundLive`). `CountInv` has every message counted once, so
  that the bound of the reference book is never what stops it.
  `RefInv` joins all this with `EngineInv`, `SymbolInv`, `ListInv` and the `BookInv` of `GoldenBookProofs`,
  which says that the reference never runs into a negative level and that its cached best
  price is the one the mapping derives (`CachedIsBest`).
  Hypotheses about the feed: an order is numbered once and its messages name its
  locate (`FeedNumbers`), no locate is 65535, a reduction is of at least one share,
  `2 * MaxShares < QLim` (the delta of a larger count reads as negative), there are finitely many
  references; and, in every state, no side of the reference book has more than P prices or a
  quantity of more than QW bits (`LevelsFit`): what the engine does beyond is `AgreesAlways`
  and, in section 5, `level_phantom`. The feed of `trade` meets all of them, and every state of that run `LevelsFit`.
- **`TypeCorrect`** (`ItchStreamProofs`). The byte queue never runs over its
  QB + BYTES - 1 bytes nor below zero, and the bytes to skip fit in nine bits.
  `ParserInv` adds to the types that the bytes come from one of the datagrams and
  that the captured length is a number; `QueueBounded` splits a beat that crosses
  the end of a skipped message, one that lies inside it, one that there is room
  for, and one that has to wait.
  It holds for both bus widths, any QB from 20 to 128, any datagrams (cut short,
  miscounted, with malformed beats) and any idle `tkeep`.
- **`FramedAlways`** (`ItchStreamProofs`): the parser looks for a header at the first byte of a
  datagram and for a message where one begins. `FrameInv` gives, for each state, the place of the
  front of the queue relative to the messages that are done (`Position`): at the next
  message, behind it while it is emitted, inside of it while it is skipped, or given
  up (`Discarding`, `Wrecked`). That a skipped message is left at its end depends on
  where beats end (`Cut`), as the count of the bytes to skip is taken modulo 512.
  `BeginIs` gives the recursive function `Begin` its equation, from a least counterexample.
- **`GapsFoundAlways`, `JudgedAlways`**. Two more invariants. `AccuseInv`: an error pulse comes
  only for a datagram that is not well formed (`ErrorsTell`, one lemma for each place that
  assigns the error), and after a well-formed datagram the parser expects the number
  that follows it (`Expecting`). `JudgeInv`: a datagram that is over without a pulse was well formed,
  since each of its messages was looked at (`Looked`), no beat of it was malformed (`BeatsOk`)
  and it ended where the last of its messages did (`ToHdr`, `CloseClears`).
  All three hold for both bus widths, any QB from 20 to 128 and any consumer. Their
  hypotheses are about the traffic. `TrafficFits`: idle beats show no bytes; of a message that does not
  fit, no beat ends between its end and the end of the queue (there the count wraps), the datagram
  does not end inside of it, and nothing follows it if it is the last one counted; a count that is
  too large stands in a datagram that ends with its messages. `TrafficMeant`, for `JudgedAlways`
  alone: what the parser cannot see is as it should be. Section 5 has what happens
  otherwise. TLC evaluates both for the 16 kinds of datagrams of `frames`, of which 10 are malformed.
- **`WordsMatchAlways`, `RegistersAlways`** (`ItchStreamProofs`): the words on the port are those of
  `iter_message_records`, of each datagram an initial part, each word once and in order, for
  every stall of the consumer. `WordsMatch` says nothing of where the parser is, so `WordsInv`
  ties the two: every word of a datagram stands at its place (`Prefixed`), the datagrams come in
  order (`Ordered`), and where the next word of the datagram under way goes is told by the state
  (`Placed`): at the first word of the next register between messages (`Between`), so many words
  behind it while one is emitted (`Holds`). The words that are settled stay
  (`PastSettled`), since nothing is sent for a datagram once it is over. `IndexInv` adds the
  counter: in well-formed traffic `msg_idx` is the number of messages done so far that fit
  in the queue (`Passed`, `Indexed`), and the register on the port has its value at W0 (`PortIndexed`).
  What the recursive functions of the oracle and of the history compute one step further is
  derived as for `Begin` (`Iterates`). `RegistersFit` (every message with a register fits in the
  queue) is the comment's claim at itch_parser.sv:31-32; the index also needs `SkippedSurely`: what is
  longer than QB is longer than the whole queue.
- **`TypeCorrect`** (`Mdp3Proofs`): the FIFO of the MDP 3.0 parser holds as many words
  as are counted and never more than its depth, whatever that is, and the byte queue
  keeps below MAX_MSG. `Fifo` sets each word pushed against `push_commit`: of
  the four states that push, each does in the cycles in which that copy of its
  condition says so, and in no other. The rest of `ParserInv` is the types of the two processes
  and which message each buffer has. Both widths, any packets.
- **`BuffersKept`**, under `[]KeepsInWait`, for both widths: neither process
  touches a buffer that is the other's. `Owners` is the argument: the buffer that the
  capture fills is free, the one that the decoder reads is occupied, and its
  message stays there until DS_DONE. Both processes write `occ` in one cycle, so
  `CaptureOwns` and its counterpart are about the cycle as a whole. `KeepsInWait` excludes one
  beat, a malformed one in the first cycle of CS_WAIT, after which the
  statement is false (section 5).
- **`InSyncAlways`, `JudgedAlways`, `GapsFoundAlways`**: the parser
  looks for a size only where a message begins; it captures what is well formed
  and blames what is not; of two good packets the second has a gap exactly if a number is missing.
  `Bus` says which bytes are taken when the end of a packet is latched, and
  `Position` relates, in each capture state, the bytes in the queue to the begin of
  a message. `Account` sets the messages taken and the errors pulsed against those
  that lie before that position (`Stage`). Where a message begins is a
  recursive function of the model, `Begin`; `BeginIs` gets its equation from a
  least counterexample. The hypotheses are `[]KeepsInWait` and `TrafficFits`, an
  assumption that TLC evaluates for the packets of `mdp3`: the bus has 32 bits,
  packets and messages have at most 65535 bytes, and no size is below the 8
  bytes of the SBE header behind it (0 and 1 make the skip wrap, 2 to 7 in a row
  overrun the queue). With DW = 64 the three are false for short messages (section 5).
- **`RecordsInOrderAlways`**, under `[]KeepsInWait` alone, for both widths, any depth of the FIFO and
  any packets: the consumer gets the words that `anexo_m_records` and `passthrough_record` make
  of the messages captured, each once, in order, with tlast where the record ends, and a parser that is empty
  owes none. `RecordsInOrder` says nothing of the words between the buffers and the port; `Books`
  accounts for them. `Working` counts those pushed of the message under way in each state of
  the decoder (`Sent`: the words of the records before it and those of its own, `Start`), and
  every step pushes the word after these, or none, and leaves only when all are out
  (`DecodeAdvances`). `Ledger` says that what is owed from the word after the last one taken
  is what stands in the FIFO, then the rest of the message under way, then that of the other buffer
  (`Owes`): a list of messages and places of words in them, of which a pop drops the
  first, a push names the next and a capture extends the end (`OwesPop`, `OwesPush`, `OwesMore`).
  That this is the order of the packets rests on `Owners` and on `Alone`, that an idle decoder
  has at most one full buffer to choose. `Words` is recursive; `WordsAre` gets the
  place of each word in it from `Iterates`, as for the ITCH parser.
  **`CleanAlways`** has this and the three before it with no hypothesis on the
  behaviour, for packets without malformed beats (`CleanTraffic`).

Only checked by TLC: liveness and everything under fairness (no prover here
handles ENABLED), and the codec, whose operators are folds
and recursive functions. What these compute for all arguments would
take induction over data, which the installed provers cannot instantiate.

## 7. Not modelled

The chain (section 2); symbols with locate 65535, which the
reset value of the symbol map answers to; the message index, timestamps and the
bytes of bodies; the two sides of the synthesis top together, and its local
reset; clock domains and timing; the headers of Ethernet, IP and UDP in the
capture; formatting of CSV and JSON and command lines; two processes that download at once;
testbenches and synthesis scripts.
