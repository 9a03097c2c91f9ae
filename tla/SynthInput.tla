----------------------------- MODULE SynthInput -----------------------------
(***************************************************************************)
(* The input side of synth/itch_chain_synth.sv, the top that is            *)
(* synthesised: a FIFO of four beats between the pins and the parser, with *)
(* a registered tready.                                                    *)
(***************************************************************************)
EXTENDS ItchParser

VARIABLES
  pin,               \* sender at the pins: its datagram and position
  fMem,              \* the beats of f_mem, f_keep and f_tl
  fN, fWr, fRd,      \* counters of two bits
  readyFf,           \* tready_ff
  held               \* history: beats pushed and not popped

fifo == <<pin, fMem, fN, fWr, fRd, readyFf, held>>
svars == <<vars, fifo>>

PinOffers ==
  IF pin.pos < pin.dg.size THEN {Beat(pin.dg, pin.seq, pin.n, pin.pos)}
  ELSE IF pin.n = MaxDatagrams THEN {}
  ELSE {Beat(d, pin.seq + Len(pin.dg.msgs) + d.skip, pin.n + 1, 0) : d \in Datagrams}

\* What the parser is offered: the slot at f_rd, whether it is valid or not.
ToParser == [fMem[fRd] EXCEPT !.valid = fN # 0]

Pop(o) == o.valid /\ TReady(o)

Push(b) ==
  /\ readyFf
  /\ pin' = [dg |-> b.dg, seq |-> b.seq, n |-> b.n, pos |-> b.pos + b.bytes]
  /\ fMem' = [fMem EXCEPT ![fWr] = b]
  /\ fWr' = (fWr + 1) % 4

NoPush == UNCHANGED <<pin, fMem, fWr>>

Count(pushed, o) ==
  LET change == (IF pushed THEN 1 ELSE 0) - (IF Pop(o) THEN 1 ELSE 0)
  IN /\ fN' = (fN + change) % 4
     /\ held' = held + change
     /\ fRd' = IF Pop(o) THEN (fRd + 1) % 4 ELSE fRd
     /\ readyFf' = (fN < 3)

SInit ==
  /\ Init
  /\ pin = tx
  /\ fMem \in [0..3 -> {NoBeat(k) : k \in IdleKeeps}]
  /\ fN = 0 /\ fWr = 0 /\ fRd = 0
  /\ readyFf = FALSE
  /\ held = 0

SCycle(o, rdy) ==
  /\ Cycle(o, rdy)
  /\ \/ \E b \in PinOffers : Push(b) /\ Count(TRUE, o)
     \/ NoPush /\ Count(FALSE, o)

SNext == \E rdy \in Readiness : SCycle(ToParser, rdy)

SSpec == SInit /\ [][SNext]_svars

\* itch_chain_synth.sv:118-119: a beat that the pins accepted stays until the
\* parser takes it, "no overflow (f_n <= 3 by construction)".
NoOverflow == held <= 3

=============================================================================
