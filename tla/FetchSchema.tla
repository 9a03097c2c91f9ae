---------------------------- MODULE FetchSchema ----------------------------
(***************************************************************************)
(* scripts/fetch_mdp3_schema.py: the schema is downloaded from CME or else *)
(* from the archive to <file>.part, compared with the md5 in the script    *)
(* and renamed.  Both servers may answer with anything or not at all, and  *)
(* the process may be killed between any two steps and be called again.    *)
(* A file is its content: "pinned", or something else.                     *)
(***************************************************************************)
EXTENDS Integers

CONSTANT MaxCalls \* bound: calls of fetch

VARIABLES
  final,   \* the schema file, or "none"
  part,    \* its .part, or "none"
  step,    \* what fetch does next
  source,  \* the server it is trying
  calls

fetchVars == <<final, part, step, source, calls>>

Contents == {"pinned", "cut", "other"}
Working == {"look", "get", "check", "rename"}

\* An earlier use of the directory may have left another file there.
FInit ==
  /\ final \in {"none", "other"} /\ part \in {"none", "cut"}
  /\ step = "idle" /\ source = "CME" /\ calls = 0

Call ==
  /\ step \notin Working /\ calls < MaxCalls
  /\ calls' = calls + 1 /\ step' = "look" /\ source' = "CME"
  /\ UNCHANGED <<final, part>>

\* Mutant of Valid: that there is a file is enough.
Valid_Any(content) == content # "none"

\* The md5 of the content is the one in the script.
Valid(content) == content = "pinned"

Look ==
  /\ step = "look" /\ step' = IF Valid(final) THEN "done" ELSE "get"
  /\ UNCHANGED <<final, part, source, calls>>

Unlink == part' = "none"

\* A download that failed: the other server, or the end.
NextSource ==
  IF source = "CME" THEN source' = "Wayback" /\ step' = "get"
  ELSE source' = source /\ step' = "failed"

\* urlopen or read raises: what was written so far is removed.
Broken ==
  /\ step = "get" /\ Unlink /\ NextSource
  /\ UNCHANGED <<final, calls>>

Downloaded ==
  /\ step = "get" /\ step' = "check" /\ part' \in Contents
  /\ UNCHANGED <<final, source, calls>>

Checked ==
  /\ step = "check"
  /\ IF Valid(part) THEN step' = "rename" /\ UNCHANGED <<part, source>>
     ELSE Unlink /\ NextSource
  /\ UNCHANGED <<final, calls>>

Renamed ==
  /\ step = "rename" /\ step' = "done"
  /\ final' = part /\ part' = "none"
  /\ UNCHANGED <<source, calls>>

Killed ==
  /\ step \in Working /\ step' = "killed"
  /\ part' \in IF step = "get" THEN {part, "cut"} ELSE {part}
  /\ UNCHANGED <<final, source, calls>>

FNext == Call \/ Look \/ Broken \/ Downloaded \/ Checked \/ Renamed \/ Killed

(***************************************************************************)
(* Properties                                                              *)
(***************************************************************************)
\* fetch_mdp3_schema.py:11-12: whatever the servers answered, and whatever
\* earlier calls that were killed have left, the file that a call returns is
\* the pinned one, and no call replaces it by another.
FetchedIsPinned ==
  /\ step = "done" => final = "pinned"
  /\ step = "rename" => part = "pinned"

\* A call that tried the servers in vain leaves no partial file.
NoPartialSchema == step = "failed" => part = "none"

\* Both: what fetch leaves behind can be trusted.
SchemaSafe == FetchedIsPinned /\ NoPartialSchema

=============================================================================
