----------------------------- MODULE OrderBook -----------------------------
(***************************************************************************)
(* rtl/orderbook/orderbook.sv, clock cycle by clock cycle.                 *)
(*                                                                         *)
(* The engine takes register words (Annex A: w0, w1, body words) on an     *)
(* AXI-Stream port, looks the order reference up in a hashed table with a  *)
(* probe that runs while the body is still arriving, updates the table and *)
(* the level lists, and presents the resulting BBO and depth on two output *)
(* ports.  While the tail of a message is processed the words of the next  *)
(* one go to a double buffer, nx.                                          *)
(*                                                                         *)
(* One step is one rising edge of clk: every action reads the registers as *)
(* they were before the edge, as non-blocking assignments do.  The inputs  *)
(* of the cycle are w, the word on the bus (NoWord if tvalid is low), and  *)
(* rdy, the readiness of the two consumers.                                *)
(*                                                                         *)
(* Words are abstracted to <which message, which word of it>.  The body    *)
(* array is the set acc of slots that hold the in-flight message's own     *)
(* word; any other slot still holds a word of an earlier message, and a    *)
(* reference read from it is NoRef.                                        *)
(***************************************************************************)
EXTENDS LevelList, FiniteSets

CONSTANTS
  DW,          \* bus width in bits
  NSLOT,       \* slots of the order table, 2^SLOT
  PROBE,       \* linear probing steps
  ND,          \* levels of the public depth
  NSYM,        \* symbols of the subset
  BootTables,  \* what the order table may hold when reset is released
  MaxMsgs      \* bound: messages sent after reset

NoLocate == 65535      \* reset value of loc_map
Unlisted == 31         \* answer of loc_lookup when no entry matches
NoRef == -1

TabSlots == 0..NSLOT-1
Entry == [valid : BOOLEAN, ref : Refs \cup {0}, side : Sides,
          px : Prices \cup {0}, qty : 0..QLim-1]
Hole == [valid |-> FALSE, ref |-> 0, side |-> "B", px |-> 0, qty |-> 0]

ASSUME EngineAssumption ==
  /\ DW \in {32, 64}
  /\ NSLOT \in Nat \ {0} /\ PROBE \in 1..NSLOT
  /\ ND \in 1..P
  /\ NSYM \in 1..(Unlisted - 1)
  /\ Refs \subseteq Nat
  /\ Locates \subseteq 0..NoLocate
  /\ MaxShares < QLim
  /\ BootTables \subseteq [TabSlots -> Entry]
  /\ MaxMsgs \in Nat
  /\ \A m \in Msgs : m.type # "I"  \* the parser makes no register of them

(***************************************************************************)
(* Words on the bus                                                        *)
(***************************************************************************)
BodyBytes(type) ==
  CASE type = "A" -> 25 [] type = "F" -> 29 [] type = "E" -> 20
    [] type = "C" -> 25 [] type = "X" -> 12 [] type = "D" -> 8
    [] type = "U" -> 24 [] type = "S" -> 1  [] type = "H" -> 14
    [] type = "R" -> 28

WordBytes == DW \div 8
BodyWords(m) == (BodyBytes(m.type) + WordBytes - 1) \div WordBytes

\* Word k of a message: 0 is w0, 1 is w1 and 2.. are the body.
LastWord(m) == 1 + BodyWords(m)
NoWord == [msg |-> Blank, k |-> -1]

\* The body slots of the order reference and of the replace's new reference;
\* the probe is armed in the cycle that the last of them arrives.
OldWords == IF DW = 32 THEN {0, 1} ELSE {0}
NewWords == IF DW = 32 THEN {2, 3} ELSE {1}
OldSlot == IF DW = 32 THEN 1 ELSE 0
NewSlot == IF DW = 32 THEN 3 ELSE 1

States == {"INVAL", "W0", "TS", "BODY", "WAIT_PROBE", "APPLY", "LV2", "LV2B",
           "LV3", "UADD", "EMIT_A", "EMIT_B", "EMIT_C", "SWAP"}

VARIABLES
  bus,         \* sender: the message under way and its next word
  started,     \* messages whose w0 was transferred
  st,          \* state of the receive FSM
  inval,       \* st_inval_cnt
  cur,         \* in-flight message: m_* registers, bi, nbody_w, body_acc
  nx,          \* next message: nx_* registers
  locMap, locCnt,
  tab,         \* o_mem
  prb,         \* probe engine
  lvl,         \* lv_price / lv_qty: <<symbol, side>> -> list of levels
  lv,          \* stage 1 of the level pipeline: operation and side copy
  lv2,         \* stage 2: the decoded operation
  uadd,        \* pending add half of a replace: u_* registers and lv_uadd
  emitOk,
  cap,         \* emission stage A: captured levels of the symbol
  sel,         \* emission stage B: best slot of each side, and the depth
  prev,        \* symbol -> BBO of its last event
  out,         \* output ports
  marketOpen, tstate,
  crosses, anomalies, error

inputVars == <<bus, started>>
recvVars == <<cur, nx, locMap, locCnt>>
bookVars == <<tab, lvl, prev, marketOpen, tstate, crosses, anomalies>>
stageVars == <<lv, lv2, uadd, emitOk, cap, sel>>
vars == <<inputVars, st, inval, recvVars, prb, bookVars, stageVars, out, error>>

(***************************************************************************)
(* The input port                                                          *)
(***************************************************************************)
\* assign s_axis_tready
\* The mutant does not cut the input while a complete message waits.
TReady_NoCut == st \notin {"INVAL", "SWAP"}
TReady == st \notin {"INVAL", "SWAP"} /\ (~nx.done \/ st \in {"TS", "BODY"})

Idle == [msg |-> Blank, k |-> 0]

\* What the sender may drive: nothing, or the next word, of a message that
\* it chooses when it starts one.
Offers ==
  {NoWord} \cup
  IF bus.k > 0 THEN {bus}
  ELSE IF started < MaxMsgs THEN {[msg |-> m, k |-> 0] : m \in Msgs} ELSE {}

\* A word is transferred, as the sender sees it, when tready answers tvalid.
Send(w) ==
  IF w # NoWord /\ TReady
  THEN /\ bus' = IF w.k = LastWord(w.msg) THEN Idle
                 ELSE [msg |-> w.msg, k |-> w.k + 1]
       /\ started' = IF w.k = 0 THEN started + 1 ELSE started
  ELSE UNCHANGED inputVars

\* The body slots that hold msg's own words once slot has been written.
Store(acc, slot, w, msg) ==
  IF w.msg = msg /\ w.k = slot + 2 THEN acc \cup {slot} ELSE acc \ {slot}

RefIn(words, acc, ref) == IF words \subseteq acc THEN ref ELSE NoRef

(***************************************************************************)
(* Symbol mapping: loc_lookup and the registration on first sight          *)
(***************************************************************************)
SymIdx == 0..NSYM-1

LocLookup(l) ==
  LET hits == {i \in SymIdx : locMap[i] = l}
  IN IF hits = {} THEN Unlisted ELSE CHOOSE i \in hits : \A j \in hits : i <= j

Registers(l) == LocLookup(l) = Unlisted /\ locCnt < NSYM
BadSym(l) == LocLookup(l) = Unlisted /\ locCnt = NSYM
\* The mutant forgets the index that a registration hands out.
SymOf_Known(l) == IF LocLookup(l) = Unlisted THEN 0 ELSE LocLookup(l)
SymOf(l) == IF BadSym(l) THEN 0 ELSE IF Registers(l) THEN locCnt ELSE LocLookup(l)

\* At a w0 (new is TRUE) the symbol of the message is registered if need be.
Register(new, w) ==
  IF new /\ Registers(w.msg.loc)
  THEN locMap' = [locMap EXCEPT ![locCnt] = w.msg.loc] /\ locCnt' = locCnt + 1
  ELSE UNCHANGED <<locMap, locCnt>>

(***************************************************************************)
(* Probe engine                                                            *)
(*                                                                         *)
(* since is pr_runs_started - cur_anchor_started.  The read port answers   *)
(* with the slot addressed one cycle earlier.                              *)
(***************************************************************************)
Hash(ref) == ref % NSLOT
InWindow(ref, i) == (i - Hash(ref)) % NSLOT < PROBE

ProbeInit ==
  [phase |-> "IDLE", pendOld |-> FALSE, pendNew |-> FALSE,
   oref |-> 0, newref |-> 0, needEmpty |-> FALSE,
   target |-> 0, i |-> 0, recEmpty |-> FALSE, isOld |-> TRUE,
   sawEmpty |-> FALSE,
   found |-> FALSE, slot |-> 0, entry |-> Hole, empty |-> 0, full |-> FALSE,
   newFound |-> FALSE, newEmpty |-> 0, newFull |-> FALSE,
   addr |-> 0, data |-> Hole, since |-> 0, needed |-> 0, pause |-> FALSE]

StartRun(p, ref, old, rec) ==
  [p EXCEPT !.phase = "WARM", !.i = 0, !.target = ref, !.recEmpty = rec,
            !.isOld = old, !.sawEmpty = FALSE, !.addr = Hash(ref),
            !.since = @ + 1]

StartOld(p) ==
  [StartRun(p, p.oref, TRUE, p.needEmpty) EXCEPT
     !.pendOld = FALSE, !.found = FALSE, !.slot = 0, !.entry = Hole,
     !.empty = 0, !.full = FALSE]

StartNew(p) ==
  [StartRun(p, p.newref, FALSE, TRUE) EXCEPT
     !.pendNew = FALSE, !.newFound = FALSE, !.newEmpty = 0, !.newFull = FALSE]

\* Only the last slot of the window ends a walk that has not found its
\* reference: it may live past a hole.  In the mutant a hole cuts the walk.
WalkEnds_AtHole(p, datum) == p.i = PROBE - 1 \/ ~datum.valid
WalkEnds(p, datum) == p.i = PROBE - 1

\* PR_WALK: the datum read one cycle ago is that of slot base + i.
Walk(p, datum) ==
  LET slot == (Hash(p.target) + p.i) % NSLOT
      last == WalkEnds(p, datum)
      hole == ~datum.valid /\ p.recEmpty /\ ~p.sawEmpty
      full == last /\ datum.valid /\ p.recEmpty /\ ~p.sawEmpty
      next == [p EXCEPT !.phase = IF last THEN "IDLE" ELSE @,
                        !.i = IF last THEN @ ELSE @ + 1,
                        !.addr = IF last THEN @ ELSE (slot + 2) % NSLOT,
                        !.sawEmpty = @ \/ hole]
  IN IF datum.valid /\ datum.ref = p.target
     THEN IF p.isOld
          THEN [p EXCEPT !.phase = "IDLE", !.found = TRUE, !.slot = slot,
                         !.entry = datum]
          ELSE [p EXCEPT !.phase = "IDLE", !.newFound = TRUE]
     ELSE IF p.isOld
          THEN [next EXCEPT !.empty = IF hole THEN slot ELSE @,
                            !.full = @ \/ full]
          ELSE [next EXCEPT !.newEmpty = IF hole THEN slot ELSE @,
                            !.newFull = @ \/ full]

EngineHold == st \in {"APPLY", "UADD"}

\* The probe engine after this cycle, but for what the FSM arms in it.
Engine ==
  LET p == [prb EXCEPT !.data = tab[prb.addr]]
  IN CASE EngineHold -> [p EXCEPT !.pause = TRUE]
       [] ~EngineHold /\ p.pause -> [p EXCEPT !.pause = FALSE]
       [] OTHER ->
            CASE p.phase = "IDLE" /\ p.pendOld -> StartOld(p)
              [] p.phase = "IDLE" /\ ~p.pendOld /\ p.pendNew -> StartNew(p)
              [] p.phase = "WARM" ->
                   [p EXCEPT !.phase = "WALK",
                             !.addr = (Hash(p.target) + 1) % NSLOT]
              [] p.phase = "WALK" -> Walk(p, prb.data)
              [] OTHER -> p

RunsNeeded(m) == IF m.type = "U" THEN 2 ELSE IF m.type \in LookupTypes THEN 1 ELSE 0

\* pr_pending_old and pr_pending_new are set for message m, whose words are
\* those of acc; the run counter is anchored before this cycle's start.
ArmOld(p, m, acc) ==
  [p EXCEPT !.pendOld = TRUE, !.oref = RefIn(OldWords, acc, m.ref),
            !.needEmpty = m.type \in AddTypes]
ArmNew(p, m, acc) ==
  [p EXCEPT !.pendNew = TRUE, !.newref = RefIn(NewWords, acc, m.new)]
Anchor(p, m) == [p EXCEPT !.since = @ - prb.since, !.needed = RunsNeeded(m)]

ProbeBusy == prb.pendOld \/ prb.pendNew \/ prb.phase # "IDLE"

(***************************************************************************)
(* Double buffer                                                           *)
(***************************************************************************)
NoMsg == [msg |-> Blank, sym |-> 0, bad |-> FALSE, bi |-> 0, left |-> 0,
          acc |-> {}]
NxEmpty == [active |-> FALSE, done |-> FALSE, st |-> 0, msg |-> Blank,
            sym |-> 0, bad |-> FALSE, bi |-> 0, left |-> 0, acc |-> {}]

\* The guard of every call of nx_recv: no word past a complete body.
Receives(w) == w # NoWord /\ ~nx.done
NxStarts(w) == Receives(w) /\ ~nx.active

\* nx_recv: w0 opens the buffer, w1 is skipped, body words accumulate.
NxAfter(w) ==
  IF ~nx.active
  THEN [active |-> TRUE, done |-> FALSE, st |-> 1, msg |-> w.msg,
        sym |-> SymOf(w.msg.loc), bad |-> BadSym(w.msg.loc), bi |-> 0,
        left |-> BodyWords(w.msg), acc |-> {}]
  ELSE IF nx.st = 1 THEN [nx EXCEPT !.st = 2]
  ELSE LET n == [nx EXCEPT !.acc = Store(@, nx.bi, w, nx.msg)]
       IN IF nx.left <= 1 THEN [n EXCEPT !.done = TRUE]
          ELSE [n EXCEPT !.bi = @ + 1, !.left = @ - 1]

\* nx_recv, where the state calls it; TRUE in nxError is its error pulse.
NxRecv(w) ==
  /\ nx' = IF Receives(w) THEN NxAfter(w) ELSE nx
  /\ Register(NxStarts(w), w)
nxError(w) == NxStarts(w) /\ BadSym(w.msg.loc)

\* swap_next: the buffered message becomes the one in flight; its probe is
\* armed here with the references already complete.
\* The mutant also trusts the word that is still to come.
ArmsOldAtSwap_Early ==
  nx.msg.type \in LookupTypes /\ (nx.done \/ nx.bi >= OldSlot)
ArmsOldAtSwap ==
  nx.msg.type \in LookupTypes /\ (nx.done \/ nx.bi > OldSlot)
ArmsNewAtSwap ==
  nx.msg.type = "U" /\ ((nx.done /\ nx.bi >= NewSlot) \/ nx.bi > NewSlot)

SwapArming ==
  LET old == IF ArmsOldAtSwap THEN ArmOld(Engine, nx.msg, nx.acc) ELSE Engine
      new == IF ArmsNewAtSwap THEN ArmNew(old, nx.msg, nx.acc) ELSE old
  IN IF nx.done \/ ArmsOldAtSwap \/ ArmsNewAtSwap
     THEN Anchor(new, nx.msg) ELSE new

SwapProbes == ProbeBusy \/ ArmsOldAtSwap \/ ArmsNewAtSwap

\* The in-flight registers after a swap; the mutant resumes one word late.
Buffered_Skips ==
  [msg |-> nx.msg, sym |-> nx.sym, bad |-> nx.bad, bi |-> nx.bi + 1,
   left |-> nx.left, acc |-> nx.acc]
Buffered == [msg |-> nx.msg, sym |-> nx.sym, bad |-> nx.bad, bi |-> nx.bi,
             left |-> nx.left, acc |-> nx.acc]

SwapNext ==
  IF ~nx.active
  THEN st' = "W0" /\ prb' = Engine /\ UNCHANGED <<cur, nx>>
  ELSE /\ cur' = Buffered
       /\ nx' = NxEmpty
       /\ prb' = SwapArming
       /\ st' = IF nx.done
                THEN IF SwapProbes THEN "WAIT_PROBE" ELSE "APPLY"
                ELSE IF nx.st = 1 THEN "TS" ELSE "BODY"

\* The end of a tail: a word on the bus is received first and the swap is
\* deferred to ST_SWAP, otherwise it happens now.
EndTail(w) ==
  IF Receives(w)
  THEN NxRecv(w) /\ st' = "SWAP" /\ prb' = Engine /\ UNCHANGED cur
  ELSE SwapNext /\ UNCHANGED <<locMap, locCnt>>

(***************************************************************************)
(* Receiving the in-flight message                                         *)
(***************************************************************************)
\* AXI retention: an output stays valid until its consumer takes it.
Retained(rdy) ==
  [out EXCEPT !.bboValid = @ /\ ~rdy.bbo, !.depthValid = @ /\ ~rdy.depth]

\* The mutant runs past the table.
LastSlot_Past == NSLOT
LastSlot == NSLOT - 1

\* ST_INVAL: one slot of the table is invalidated per cycle after reset.
Inval ==
  /\ st = "INVAL"
  /\ tab' = [tab EXCEPT ![inval] = Hole]
  /\ IF inval = LastSlot THEN st' = "W0" /\ UNCHANGED inval
     ELSE inval' = inval + 1 /\ UNCHANGED st
  /\ prb' = Engine
  /\ error' = FALSE
  /\ UNCHANGED <<recvVars, stageVars, lvl, prev, marketOpen, tstate, crosses,
                 anomalies>>

W0(w) ==
  /\ st = "W0"
  /\ IF w = NoWord THEN UNCHANGED <<st, cur, locMap, locCnt>>
     ELSE /\ cur' = [msg |-> w.msg, sym |-> SymOf(w.msg.loc),
                     bad |-> BadSym(w.msg.loc), bi |-> 0,
                     left |-> BodyWords(w.msg), acc |-> {}]
          /\ Register(TRUE, w)
          /\ st' = "TS"
  /\ prb' = Engine
  /\ error' = (w # NoWord /\ BadSym(w.msg.loc))
  /\ UNCHANGED <<inval, nx, bookVars, stageVars>>

TS(w) ==
  /\ st = "TS"
  /\ st' = IF w = NoWord THEN "TS" ELSE "BODY"
  /\ prb' = Engine
  /\ error' = FALSE
  /\ UNCHANGED <<inval, recvVars, bookVars, stageVars>>

\* arm_old_this and arm_new_this, and what they do to the probe engine.
ArmsOldNow == cur.bi = OldSlot /\ cur.msg.type \in LookupTypes
ArmsNewNow == cur.bi = NewSlot /\ cur.msg.type = "U"

BodyArming(acc) ==
  LET old == IF ArmsOldNow
             THEN Anchor(ArmOld(Engine, cur.msg, acc), cur.msg) ELSE Engine
  IN IF ArmsNewNow THEN ArmNew(old, cur.msg, acc) ELSE old

Body(w) ==
  /\ st = "BODY"
  /\ IF w = NoWord THEN prb' = Engine /\ UNCHANGED <<st, cur>>
     ELSE LET acc == Store(cur.acc, cur.bi, w, cur.msg)
          IN /\ prb' = BodyArming(acc)
             /\ IF cur.left <= 1
                THEN /\ st' = IF ProbeBusy \/ ArmsOldNow \/ ArmsNewNow
                              THEN "WAIT_PROBE" ELSE "APPLY"
                     /\ cur' = [cur EXCEPT !.acc = acc]
                ELSE /\ cur' = [cur EXCEPT !.acc = acc, !.bi = @ + 1,
                                           !.left = @ - 1]
                     /\ UNCHANGED st
  /\ error' = FALSE
  /\ UNCHANGED <<inval, nx, locMap, locCnt, bookVars, stageVars>>

\* What every state of a tail does besides its own work.
Background(w) == NxRecv(w) /\ prb' = Engine /\ UNCHANGED <<inval, cur>>

\* The runs of the in-flight message are over; the mutant awaits one too many.
ProbeDone_More == prb.since > prb.needed /\ prb.phase = "IDLE"
ProbeDone == prb.since >= prb.needed /\ prb.phase = "IDLE"

WaitProbe(w) ==
  /\ st = "WAIT_PROBE"
  /\ st' = IF ProbeDone THEN "APPLY" ELSE st
  /\ Background(w)
  /\ error' = nxError(w)
  /\ UNCHANGED <<bookVars, stageVars>>

(***************************************************************************)
(* ST_APPLY: the message takes effect, from the results of its probe       *)
(***************************************************************************)
NoLv == [key |-> <<0, "B">>, op |-> [side |-> "B", px |-> 0, delta |-> 0],
         list |-> EmptySide]
NoUadd == [on |-> FALSE, ref |-> 0, side |-> "B", px |-> 0, qty |-> 0,
           slot |-> 0]

NewEntry(ref, side, px, qty) ==
  [valid |-> TRUE, ref |-> ref, side |-> side, px |-> px, qty |-> qty]

\* launch_lv; the mutant takes the base of the bid side for both.
Launch_Bid(side, px, delta) ==
  lv' = [key |-> <<cur.sym, "B">>, list |-> lvl[<<cur.sym, "B">>],
         op |-> [side |-> side, px |-> px, delta |-> delta]]
Launch(side, px, delta) ==
  LET key == <<cur.sym, side>>
  IN lv' = [key |-> key, op |-> [side |-> side, px |-> px, delta |-> delta],
            list |-> lvl[key]]

Applies(w, types) == st = "APPLY" /\ ~cur.bad /\ cur.msg.type \in types

\* The message has changed the table: on to the level pipeline.
ToLevels(w) ==
  /\ emitOk' = TRUE
  /\ st' = "LV2"
  /\ Background(w)
  /\ error' = nxError(w)
  /\ UNCHANGED <<anomalies, lvl, prev, marketOpen, tstate, crosses, lv2, cap,
                 sel>>

\* The message has no effect: its tail runs but emits nothing.
Fruitless(w) ==
  /\ emitOk' = FALSE
  /\ st' = "EMIT_A"
  /\ uadd' = NoUadd
  /\ Background(w)
  /\ UNCHANGED <<tab, lvl, prev, marketOpen, tstate, crosses, lv, lv2, cap,
                 sel>>

Refuse(w) == Fruitless(w) /\ error' = TRUE /\ UNCHANGED anomalies
Unknown(w) == Fruitless(w) /\ error' = nxError(w) /\ anomalies' = anomalies + 1

\* The symbol is outside the subset.
ApplyDiscard(w) ==
  /\ st = "APPLY" /\ cur.bad
  /\ EndTail(w)
  /\ error' = nxError(w)
  /\ UNCHANGED <<inval, bookVars, stageVars>>

\* The mutant forgets the duplicate check.
RefusesAdd_Duplicate == cur.msg.qty = 0 \/ prb.full
RefusesAdd == prb.found \/ cur.msg.qty = 0 \/ prb.full

ApplyAdd(w) ==
  /\ Applies(w, AddTypes)
  /\ LET m == cur.msg
     IN IF RefusesAdd THEN Refuse(w)
        ELSE /\ tab' = [tab EXCEPT ![prb.empty] =
                           NewEntry(m.ref, m.side, m.px, m.qty)]
             /\ Launch(m.side, m.px, Signed(m.qty))
             /\ uadd' = NoUadd
             /\ ToLevels(w)

\* Execute and cancel: the entry the probe captured shrinks or goes.
ApplyReduce(w) ==
  /\ Applies(w, ReduceTypes)
  /\ LET e == prb.entry
         shares == cur.msg.qty
     IN IF ~prb.found THEN Unknown(w)
        ELSE IF shares > e.qty THEN Refuse(w)
        ELSE /\ tab' = [tab EXCEPT ![prb.slot] =
                           IF shares = e.qty THEN Hole
                           ELSE [e EXCEPT !.qty = @ - shares]]
             /\ Launch(e.side, e.px, Negate(shares))
             /\ uadd' = NoUadd
             /\ ToLevels(w)

ApplyDelete(w) ==
  /\ Applies(w, {"D"})
  /\ LET e == prb.entry
     IN IF ~prb.found THEN Unknown(w)
        ELSE /\ tab' = [tab EXCEPT ![prb.slot] = Hole]
             /\ Launch(e.side, e.px, Negate(e.qty))
             /\ uadd' = NoUadd
             /\ ToLevels(w)

\* Replace: the delete half now, the add half in ST_UADD, into the slot that
\* the second probe run has already found.
ApplyReplace(w) ==
  /\ Applies(w, {"U"})
  /\ LET e == prb.entry
         m == cur.msg
     IN IF ~prb.found THEN Unknown(w)
        ELSE IF m.qty = 0 \/ prb.newFound \/ prb.newFull THEN Refuse(w)
        ELSE /\ tab' = [tab EXCEPT ![prb.slot] = Hole]
             /\ Launch(e.side, e.px, Negate(e.qty))
             /\ uadd' = [on |-> TRUE, ref |-> m.new, side |-> e.side,
                         px |-> m.px, qty |-> m.qty, slot |-> prb.newEmpty]
             /\ ToLevels(w)

\* The types that do not read the table end their tail here.
ApplySession(w) ==
  /\ Applies(w, {"S", "H", "R"})
  /\ LET m == cur.msg
     IN /\ marketOpen' = IF m.type = "S" /\ m.code \in {"Q", "M"}
                         THEN m.code = "Q" ELSE marketOpen
        /\ tstate' = IF m.type = "H" THEN [tstate EXCEPT ![cur.sym] = m.code]
                     ELSE tstate
  /\ emitOk' = FALSE
  /\ uadd' = NoUadd
  /\ EndTail(w)
  /\ error' = nxError(w)
  /\ UNCHANGED <<inval, tab, lvl, prev, crosses, anomalies, lv, lv2, cap, sel>>

(***************************************************************************)
(* Level pipeline and the add half of a replace.  A stage register that is *)
(* dead until its next load is cleared.                                    *)
(***************************************************************************)
\* ST_LV2: find-first over the stage-1 predicates, all functions of lv.
Lv2(w) ==
  /\ st = "LV2" /\ st' = "LV2B"
  /\ Background(w)
  /\ error' = nxError(w)
  /\ UNCHANGED <<bookVars, stageVars>>

\* ST_LV2B: decode_lv2b's error <= lverr comes after nx_recv's assignment.
Lv2b(w) ==
  /\ st = "LV2B" /\ st' = "LV3"
  /\ lv2' = Decode(lv.list, lv.op)
  /\ Background(w)
  /\ error' = DecodeError(lv2')
  /\ UNCHANGED <<bookVars, lv, uadd, emitOk, cap, sel>>

Lv3(w) ==
  /\ st = "LV3"
  /\ st' = IF uadd.on THEN "UADD" ELSE "EMIT_A"
  /\ lvl' = [lvl EXCEPT ![lv.key] = Materialize(lv.list, lv2, lv.op.px)]
  /\ lv' = NoLv /\ lv2' = Keep
  /\ Background(w)
  /\ error' = nxError(w)
  /\ UNCHANGED <<tab, prev, marketOpen, tstate, crosses, anomalies, uadd,
                 emitOk, cap, sel>>

Uadd(w) ==
  /\ st = "UADD" /\ st' = "LV2"
  /\ Launch(uadd.side, uadd.px, Signed(uadd.qty))
  /\ tab' = [tab EXCEPT ![uadd.slot] =
                NewEntry(uadd.ref, uadd.side, uadd.px, uadd.qty)]
  /\ uadd' = NoUadd
  /\ Background(w)
  /\ error' = nxError(w)
  /\ UNCHANGED <<lvl, prev, marketOpen, tstate, crosses, anomalies, lv2,
                 emitOk, cap, sel>>

(***************************************************************************)
(* Emission pipeline                                                       *)
(***************************************************************************)
NoCap == [B |-> EmptySide, S |-> EmptySide]
\* The mutant starts the depth below the best level.
TopN_Below(list) == [i \in 1..ND |-> list[i % P]]
TopN(list) == [i \in 1..ND |-> list[i-1]]
NoDepth == [B |-> TopN(EmptySide), S |-> TopN(EmptySide)]
NoSel == [B |-> 0, S |-> 0, depth |-> NoDepth]

\* ST_EMIT_A: capture of the levels of the event's symbol.
EmitA(w) ==
  /\ st = "EMIT_A" /\ st' = "EMIT_B"
  /\ cap' = IF emitOk THEN [B |-> lvl[<<cur.sym, "B">>],
                            S |-> lvl[<<cur.sym, "S">>]] ELSE cap
  /\ Background(w)
  /\ error' = nxError(w)
  /\ UNCHANGED <<bookVars, lv, lv2, uadd, emitOk, sel>>

\* ST_EMIT_B: first non-empty slot of each side, and the top-ND depth.
NonEmpty(list) == {i \in Slots : list[i].qty # 0}

EmitB(w) ==
  /\ st = "EMIT_B" /\ st' = "EMIT_C"
  /\ sel' = IF emitOk
            THEN [B |-> FirstOne(NonEmpty(cap.B)),
                  S |-> FirstOne(NonEmpty(cap.S)),
                  depth |-> [B |-> TopN(cap.B), S |-> TopN(cap.S)]]
            ELSE sel
  /\ Background(w)
  /\ error' = nxError(w)
  /\ UNCHANGED <<bookVars, lv, lv2, uadd, emitOk, cap>>

PxQty(level) == <<level.px, level.qty>>
SelectedBbo == <<PxQty(cap.B[sel.B]), PxQty(cap.S[sel.S])>>

Crossed(bbo) == bbo[1][1] # 0 /\ bbo[2][1] # 0 /\ bbo[1][1] >= bbo[2][1]

\* A port still holds the last event.  Mutants: the depth port is forgotten;
\* the event also waits for room in the double buffer.
EmitBusy_Bbo == out.bboValid
EmitBusy_Buffer == out.bboValid \/ out.depthValid \/ nx.done
EmitBusy == out.bboValid \/ out.depthValid

\* ST_EMIT_C with both ports free: the pair goes out.
Emit(w, rdy) ==
  /\ st = "EMIT_C" /\ emitOk /\ ~EmitBusy
  /\ LET bbo == SelectedBbo
         crossing == marketOpen /\ tstate[cur.sym] = "T" /\ Crossed(bbo)
     IN /\ out' = [bboValid |-> TRUE, depthValid |-> TRUE,
                   loc |-> cur.msg.loc, bbo |-> bbo,
                   changed |-> bbo # prev[cur.sym], depth |-> sel.depth]
        /\ prev' = [prev EXCEPT ![cur.sym] = bbo]
        /\ crosses' = IF crossing THEN crosses + 1 ELSE crosses
  /\ cap' = NoCap /\ sel' = NoSel
  /\ EndTail(w)
  /\ error' = nxError(w)
  /\ UNCHANGED <<inval, tab, lvl, marketOpen, tstate, anomalies, lv, lv2, uadd,
                 emitOk>>

\* A port still holds the last event: wait, and keep receiving.
EmitWait(w) ==
  /\ st = "EMIT_C" /\ emitOk /\ EmitBusy
  /\ UNCHANGED st
  /\ Background(w)
  /\ error' = nxError(w)
  /\ UNCHANGED <<bookVars, stageVars>>

EmitNothing(w) ==
  /\ st = "EMIT_C" /\ ~emitOk
  /\ EndTail(w)
  /\ error' = nxError(w)
  /\ UNCHANGED <<inval, bookVars, stageVars>>

Swap ==
  /\ st = "SWAP"
  /\ SwapNext
  /\ error' = FALSE
  /\ UNCHANGED <<inval, locMap, locCnt, bookVars, stageVars>>

(***************************************************************************)
(* The specification                                                       *)
(***************************************************************************)
NoBbo == <<<<0, 0>>, <<0, 0>>>>

Init ==
  /\ bus = Idle /\ started = 0
  /\ st = "INVAL" /\ inval = 0
  /\ cur = NoMsg /\ nx = NxEmpty
  /\ locMap = [i \in SymIdx |-> NoLocate] /\ locCnt = 0
  /\ tab \in BootTables
  /\ prb = ProbeInit
  /\ lvl = [k \in SymIdx \X Sides |-> EmptySide]
  /\ lv = NoLv /\ lv2 = Keep /\ uadd = NoUadd
  /\ emitOk = FALSE /\ cap = NoCap /\ sel = NoSel
  /\ prev = [i \in SymIdx |-> NoBbo]
  /\ out = [bboValid |-> FALSE, depthValid |-> FALSE, loc |-> 0,
            bbo |-> NoBbo, changed |-> FALSE, depth |-> NoDepth]
  /\ marketOpen = FALSE /\ tstate = [i \in SymIdx |-> "none"]
  /\ crosses = 0 /\ anomalies = 0 /\ error = FALSE

\* Every state but the emission of an event leaves the ports to retention.
Quiet(w, rdy) ==
  /\ out' = Retained(rdy)
  /\ \/ Inval
     \/ W0(w) \/ TS(w) \/ Body(w) \/ WaitProbe(w)
     \/ ApplyDiscard(w) \/ ApplyAdd(w) \/ ApplyReduce(w) \/ ApplyDelete(w)
     \/ ApplyReplace(w) \/ ApplySession(w)
     \/ Lv2(w) \/ Lv2b(w) \/ Lv3(w) \/ Uadd(w)
     \/ EmitA(w) \/ EmitB(w) \/ EmitWait(w) \/ EmitNothing(w)
     \/ Swap

\* A consumer's tready matters only while the port is valid.
Readiness ==
  {r \in [bbo : BOOLEAN, depth : BOOLEAN] :
     (r.bbo => out.bboValid) /\ (r.depth => out.depthValid)}

Cycle(w, rdy) == Send(w) /\ (Quiet(w, rdy) \/ Emit(w, rdy))

Next == \E w \in Offers, rdy \in Readiness : Cycle(w, rdy)

Spec == Init /\ [][Next]_vars

(***************************************************************************)
(* Properties                                                              *)
(***************************************************************************)
Bbo == (Nat \X Nat) \X (Nat \X Nat)

TypeOK ==
  /\ bus.msg \in Msgs \cup {Blank} /\ bus.k \in Nat
  /\ started \in 0..MaxMsgs
  /\ st \in States
  /\ inval \in TabSlots
  /\ cur \in [msg : Msgs \cup {Blank}, sym : SymIdx, bad : BOOLEAN, bi : Nat,
              left : Nat, acc : SUBSET Nat]
  /\ nx \in [active : BOOLEAN, done : BOOLEAN, st : 0..2,
             msg : Msgs \cup {Blank}, sym : SymIdx, bad : BOOLEAN, bi : Nat,
             left : Nat, acc : SUBSET Nat]
  /\ locMap \in [SymIdx -> Locates \cup {NoLocate}]
  /\ locCnt \in 0..NSYM
  /\ tab \in [TabSlots -> Entry]
  /\ lvl \in [SymIdx \X Sides -> [Slots -> Level]]
  /\ emitOk \in BOOLEAN
  /\ prev \in [SymIdx -> Bbo]
  /\ marketOpen \in BOOLEAN /\ tstate \in [SymIdx -> Codes \cup {"none"}]
  /\ crosses \in Nat /\ anomalies \in Nat /\ error \in BOOLEAN

\* The states in which the words of the next message go to nx.
InTail == st \notin {"INVAL", "W0", "TS", "BODY"}

\* The word that the receiver takes the next transfer to be.
ExpectedWord ==
  IF InTail
  THEN IF ~nx.active \/ nx.done THEN 0 ELSE IF nx.st = 1 THEN 1 ELSE 2 + nx.bi
  ELSE IF st = "TS" THEN 1 ELSE IF st = "BODY" THEN 2 + cur.bi ELSE 0

\* Handshake: across the in-flight registers, the double buffer and the swap
\* between them, the receiver expects exactly the word that the sender will
\* transfer next: no word is lost, taken twice or put to another message.
Aligned ==
  /\ bus.k = ExpectedWord
  /\ bus.k > 0 => bus.msg = IF InTail THEN nx.msg ELSE cur.msg
  /\ ~InTail => ~nx.active

\* When a message takes effect all its body words are its own: none is left
\* over from the message before it.
BodyIntact == st = "APPLY" => cur.acc = 0..BodyWords(cur.msg) - 1

\* The probe's results describe the table at the moment ST_APPLY uses them.
Window(ref) == {i \in TabSlots : InWindow(ref, i)}
Holds(i, ref) == tab[i].valid /\ tab[i].ref = ref
FirstHole(ref, i) ==
  /\ i \in Window(ref) /\ ~tab[i].valid
  /\ \A j \in Window(ref) :
       (j - Hash(ref)) % NSLOT < (i - Hash(ref)) % NSLOT => tab[j].valid
NoRoom(ref) == \A i \in Window(ref) : tab[i].valid

ProbeFresh ==
  Applies(NoWord, LookupTypes) =>
    LET m == cur.msg
    IN /\ prb.found <=> \E i \in TabSlots : Holds(i, m.ref)
       /\ prb.found => Holds(prb.slot, m.ref) /\ prb.entry = tab[prb.slot]
       /\ m.type \in AddTypes /\ ~prb.found =>
            /\ prb.full <=> NoRoom(m.ref)
            /\ ~prb.full => FirstHole(m.ref, prb.empty)
       /\ m.type = "U" =>
            /\ prb.newFound <=> \E i \in TabSlots : Holds(i, m.new)
            /\ ~prb.newFound => /\ prb.newFull <=> NoRoom(m.new)
                                /\ ~prb.newFull => FirstHole(m.new, prb.newEmpty)

\* A reference is in the table once, within the probe's reach of its hash.
TableSound ==
  st # "INVAL" =>
    \A i \in TabSlots :
      tab[i].valid => /\ InWindow(tab[i].ref, i)
                      /\ \A j \in TabSlots : Holds(j, tab[i].ref) => j = i

=============================================================================
