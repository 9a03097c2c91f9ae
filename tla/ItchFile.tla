----------------------------- MODULE ItchFile -----------------------------
(***************************************************************************)
(* BinaryFILE, the framing of the exchange's sample files, and its two     *)
(* readers: golden_model/itch/parser.py, which checks every message, and   *)
(* the one of scripts/binaryfile_to_pcap.py, which only splits.            *)
(***************************************************************************)
EXTENDS Itch, Sequences

\* MESSAGE_LENGTHS.  Blank, whose type is not in the table, stands for the
\* payload of an unknown type.
Length == [S |-> 12, R |-> 39, H |-> 25, A |-> 36, F |-> 40, E |-> 31,
           C |-> 36, X |-> 23, D |-> 19, U |-> 35, I |-> 50]

\* A length prefix with a payload of that many bytes; the file may end within
\* the prefix or within the payload of one more.
Item == [decl : 0..50, msg : Msgs \cup {Blank}]
Tails == {"whole", "prefix", "payload"}
IsFile(f) == /\ DOMAIN f = {"items", "tail"}
             /\ f.tail \in Tails
             /\ f.items \in Seq(Item)

NoFile == [items |-> <<>>, tail |-> "absent"]

\* The files that are cut short of file f.
Cuts(f) ==
  {[items |-> SubSeq(f.items, 1, n), tail |-> t] :
     n \in 0..(Len(f.items) - 1), t \in Tails}

\* What a reader that only splits finds behind the first n items.
Split(f, n) ==
  IF n < Len(f.items) THEN "message"
  ELSE IF f.tail = "whole" THEN "end" ELSE "truncated"

\* One turn of iter_messages.  A payload of no bytes has no type to look at:
\* that is an IndexError.
Parsed(f, n) ==
  LET found == Split(f, n)
      item == f.items[n + 1]
  IN IF found # "message" THEN found
     ELSE IF item.decl = 0 THEN "empty"
     ELSE IF item.msg.type \notin DOMAIN Length THEN "unknown"
     ELSE IF item.decl # Length[item.msg.type] THEN "length"
     ELSE "message"

=============================================================================
