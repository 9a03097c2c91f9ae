------------------------------ MODULE ItchDay ------------------------------
(***************************************************************************)
(* The software side of a campaign day: the feed is downloaded, the golden *)
(* model makes the vectors from it, the converter the datagrams that the   *)
(* hardware will be fed with, and the oracle the registers.  The three     *)
(* tools share the file and the message limit and nothing else, but their  *)
(* results are compared by message index.                                  *)
(***************************************************************************)
EXTENDS GoldenRun

CONSTANTS
  Days,      \* the files that the exchange may publish
  Calls,     \* the arguments the tools may be called with
  MaxCalls   \* bound: calls of fetch

\* Locate codes have two bytes.
ASSUME DayAssumption ==
  /\ \A d \in Days : IsFile(d)
  /\ Locates \subseteq Nat
  /\ \A c \in Calls : /\ c.subset \subseteq Nat
                      /\ c.limit \in Nat \cup {None} /\ c.maxPayload \in Nat
  /\ RecordMax \in Nat /\ DeepEvery \in Nat \ {0} /\ PickMax \in Nat \ {0}

VARIABLES
  published, final, part, step, allow, expected, calls, unchecked,
  conv, taken, group, groupLen, seq, pcap, oracle, packet, heard, walked,
  globalIdx, registers

Fetch == INSTANCE FetchItch
Pcap == INSTANCE PcapConvert

fetchState == <<published, final, part, step, allow, expected, calls, unchecked>>
pcapState == <<conv, taken, group, groupLen, seq, pcap, oracle, packet, heard,
               walked, globalIdx, registers>>
dayVars == <<vars, runVars, fetchState, pcapState>>

DInit ==
  /\ RInit /\ Fetch!FInit /\ Pcap!PInit
  /\ published \in Days /\ args \in Calls
  /\ file = NoFile

Downloading == file = NoFile

Download == /\ Downloading /\ Fetch!FNext
            /\ UNCHANGED <<vars, runVars, pcapState>>

\* The tools are called with the file that is in the directory.
StartDay ==
  /\ Downloading /\ final # NoFile /\ step \notin Fetch!Working
  /\ file' = final
  /\ UNCHANGED <<vars, args, run, messages, types, syms, vec, csv, picked,
                 events, peak, fetchState, pcapState>>

Run == ~Downloading /\ RNext /\ UNCHANGED <<fetchState, pcapState>>

\* Nothing is shared but what is read: the order of the two does not matter.
RunEnded == run = "failed" \/ picked # {} \/ (csv = "new" /\ DOMAIN syms = {})
Convert == /\ ~Downloading /\ RunEnded
           /\ Pcap!PNext
           /\ UNCHANGED <<vars, run, messages, types, syms, vec, csv, picked,
                          events, peak, fetchState>>

DNext == Download \/ StartDay \/ Run \/ Convert

DSpec == DInit /\ [][DNext]_dayVars

\* The same of the composed system.
DownloadSafe == Fetch!DownloadSafe
CaptureExact == Pcap!CaptureExact

\* A record of the vectors and the register that the hardware makes of the
\* same message have the same index, type and locate: the golden model counts
\* messages in the file, the oracle in the datagrams.
IndexesAgree ==
  run = "done" /\ oracle = "done" /\ conv = "done" =>
    /\ walked = messages
    /\ \A i \in 1..Len(vec) :
         \E j \in 1..Len(registers) :
           /\ registers[j].idx = vec[i].idx
           /\ registers[j].type = vec[i].type
           /\ registers[j].loc = vec[i].loc

\* A message that the oracle rejects is one the golden model rejected, and a
\* file that is cut within a message is a complete day for neither tool: it
\* leaves no statistics to select symbols from, and no finished capture.
VerdictsAgree ==
  /\ oracle = "failed" => run = "failed"
  /\ file.tail \in {"prefix", "payload"} /\ args.limit = None =>
       csv = "old" /\ picked = {} /\ conv # "done"

\* What the tools made of one file can be compared message by message.
ToolsAgree == IndexesAgree /\ VerdictsAgree

=============================================================================
