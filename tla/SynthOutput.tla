---------------------------- MODULE SynthOutput ----------------------------
(***************************************************************************)
(* The output side of synth/itch_chain_synth.sv: registers at the pins     *)
(* behind the BBO and depth ports of the book.  The consumer's tready goes *)
(* to the pins and, past them, straight to the book.                       *)
(***************************************************************************)
EXTENDS OrderBookEvents

VARIABLES
  bboPin,      \* bbo_tvalid_o and the registers behind it
  depthPin,    \* depth_tvalid_o and depth_tdata_o
  bboSeen,     \* history: events that the consumer took at the BBO pins
  depthSeen    \* history: depths that the consumer took at the depth pins

pins == <<bboPin, depthPin, bboSeen, depthSeen>>
pvars == <<hvars, pins>>

Empty == [valid |-> FALSE]

\* A pin retires what was taken and captures what the book offers if it was
\* free.
Pin(pin, ready, offered, x) ==
  IF offered /\ ~pin.valid THEN [valid |-> TRUE, x |-> x]
  ELSE IF ready THEN Empty ELSE pin

Seen(seen, pin, ready) ==
  IF pin.valid /\ ready THEN Append(seen, pin.x) ELSE seen

PInit ==
  /\ HInit
  /\ bboPin = Empty /\ depthPin = Empty
  /\ bboSeen = <<>> /\ depthSeen = <<>>

ToBook(ready) ==
  [bbo |-> ready.bbo /\ out.bboValid, depth |-> ready.depth /\ out.depthValid]

PCycle(w, ready) ==
  /\ HCycle(w, ToBook(ready))
  /\ bboPin' = Pin(bboPin, ready.bbo, out.bboValid, BboOnPort)
  /\ depthPin' = Pin(depthPin, ready.depth, out.depthValid, out.depth)
  /\ bboSeen' = Seen(bboSeen, bboPin, ready.bbo)
  /\ depthSeen' = Seen(depthSeen, depthPin, ready.depth)

PNext == \E w \in Offers, ready \in [bbo : BOOLEAN, depth : BOOLEAN] : PCycle(w, ready)

PSpec == PInit /\ [][PNext]_pvars

\* itch_chain_synth.sv:171-174: "Pin regime identical to the book's", "pin-side
\* retention": what the book counts as taken is on the pins or was taken there.
PinsKeep ==
  \/ bboTaken = bboSeen \o OnPort(bboPin.valid, bboPin.x)
  \/ bboTaken \o OnPort(out.bboValid, BboOnPort)
       = bboSeen \o OnPort(bboPin.valid, bboPin.x)

=============================================================================
