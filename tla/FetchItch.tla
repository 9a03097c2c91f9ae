----------------------------- MODULE FetchItch -----------------------------
(***************************************************************************)
(* scripts/fetch_itch.py: a file is downloaded to <file>.part, compared    *)
(* with the published md5 and renamed.  The server may not answer, the     *)
(* connection may break with or without an exception, and the process may  *)
(* be killed between any two steps and be called again.                    *)
(***************************************************************************)
EXTENDS ItchFile

CONSTANT MaxCalls \* bound: calls of fetch

VARIABLES
  published,  \* the file on the server, which its .md5sum is of
  final,      \* <file> in the destination directory, or NoFile
  part,       \* <file>.part, or NoFile
  step,       \* what fetch does next
  allow,      \* allow_no_md5 of this call
  expected,   \* there is an md5 to compare with
  calls,
  unchecked   \* history: a download was accepted without an md5

fetchVars == <<published, final, part, step, allow, expected, calls, unchecked>>

Working == {"md5", "open", "copy", "check", "rename"}

FInit ==
  /\ final = NoFile /\ part = NoFile /\ step = "idle"
  /\ allow = FALSE /\ expected = FALSE /\ calls = 0 /\ unchecked = FALSE

Call ==
  /\ step \notin Working /\ calls < MaxCalls
  /\ calls' = calls + 1 /\ step' = "md5" /\ expected' = FALSE
  /\ allow' \in BOOLEAN
  /\ UNCHANGED <<published, final, part, unchecked>>

GotMd5 ==
  /\ step = "md5" /\ step' = "open" /\ expected' = TRUE
  /\ UNCHANGED <<published, final, part, allow, calls, unchecked>>

\* Fail closed, before anything is downloaded, unless told otherwise.
NoMd5 ==
  /\ step = "md5" /\ step' = IF allow THEN "open" ELSE "failed"
  /\ UNCHANGED <<published, final, part, allow, expected, calls, unchecked>>

Opened ==
  /\ step = "open" /\ step' = "copy"
  /\ part' = [items |-> <<>>, tail |-> "whole"]
  /\ UNCHANGED <<published, final, allow, expected, calls, unchecked>>

\* copyfileobj returns when the server closes, after all bytes or before.
Copied ==
  /\ step = "copy" /\ step' = "check"
  /\ part' \in {published} \cup Cuts(published)
  /\ UNCHANGED <<published, final, allow, expected, calls, unchecked>>

\* except BaseException.
Cleanup == step' = "failed" /\ part' = NoFile

Broken ==
  /\ step \in {"open", "copy"}
  /\ Cleanup
  /\ UNCHANGED <<published, final, allow, expected, calls, unchecked>>

\* Mutant of Accepts: nothing is compared.
Accepts_All == TRUE
Accepts == expected => part = published

Checked ==
  /\ step = "check"
  /\ IF Accepts THEN step' = "rename" /\ UNCHANGED part ELSE Cleanup
  /\ UNCHANGED <<published, final, allow, expected, calls, unchecked>>

Renamed ==
  /\ step = "rename" /\ step' = "done"
  /\ final' = part /\ part' = NoFile
  /\ unchecked' = (unchecked \/ ~expected)
  /\ UNCHANGED <<published, allow, expected, calls>>

\* The process is killed; what copyfileobj wrote so far stays.
Killed ==
  /\ step \in Working /\ step' = "killed"
  /\ part' \in IF step = "copy" THEN Cuts(published) ELSE {part}
  /\ UNCHANGED <<published, final, allow, expected, calls, unchecked>>

FNext == Call \/ GotMd5 \/ NoMd5 \/ Opened \/ Copied \/ Broken \/ Checked
         \/ Renamed \/ Killed

(***************************************************************************)
(* Properties                                                              *)
(***************************************************************************)
\* fetch_itch.py:5-7: whatever broke and however often it was tried, a file
\* under its final name is the published one, unless one was accepted without
\* an md5.
FinalIsWhole == final = NoFile \/ final = published \/ unchecked

\* A call that ended, well or badly, leaves no partial file, not even the one
\* of an earlier call that was killed; only a call that fails for want of an
\* md5 leaves things as they were.
NoPartLeft ==
  step = "done" \/ (step = "failed" /\ (expected \/ allow)) => part = NoFile

\* Neither a wrong file nor a part of one is left behind.
DownloadSafe == FinalIsWhole /\ NoPartLeft

=============================================================================
