---------------------------- MODULE ScanContract ----------------------------
(***************************************************************************)
(* What one scan of a list of files promises the query above it, whatever  *)
(* `threads` says.  A query pulls chunks of rows.  Each chunk continues    *)
(* every file it touches exactly where the previous chunks left it, the    *)
(* scan ends with an empty chunk only when every row of every file has     *)
(* been handed over, and it fails only when some file cannot be read to    *)
(* its end.                                                                *)
(*                                                                         *)
(* A file is abstracted to how many rows its reader yields and how the     *)
(* reading ends.  A run of consecutive rows of one file is an interval.    *)
(***************************************************************************)
EXTENDS Integers, Sequences

CONSTANTS
  NFiles,    \* length of the resolved file list
  FileKinds  \* the files considered: records [rows, end]

Files == 1 .. NFiles

\* Rows lo..hi of one file.
Interval == [file : Files, lo : Nat, hi : Nat]

VARIABLES
  corpus,     \* [Files -> FileKinds], the files behind the paths
  delivered,  \* [Files -> Nat], rows of each file handed to the query
  chunk,      \* the rows the last call of func returned, as intervals
  query       \* "running", "done", "failed" or "stopped" (LIMIT, cancel)

vars == <<corpus, delivered, chunk, query>>

Readable(f) == corpus[f].end = "ok"

Init ==
  /\ corpus \in [Files -> FileKinds]
  /\ delivered = [f \in Files |-> 0]
  /\ chunk = <<>>
  /\ query = "running"

\* What every file looks like once the intervals of c are handed over.
After(c) ==
  [f \in Files |->
     IF \E i \in DOMAIN c : c[i].file = f
     THEN c[CHOOSE i \in DOMAIN c : c[i].file = f].hi
     ELSE delivered[f]]

\* A chunk that is not empty, names a file once, continues each file where it
\* was left and never passes its last row.
Continues(c) ==
  /\ c # <<>>
  /\ \A i, j \in DOMAIN c : c[i].file = c[j].file => i = j
  /\ \A i \in DOMAIN c :
       /\ c[i].lo = delivered[c[i].file] + 1
       /\ c[i].hi \in c[i].lo .. corpus[c[i].file].rows

Deliver ==
  /\ query = "running"
  /\ chunk' \in Seq(Interval)
  /\ Continues(chunk')
  /\ delivered' = After(chunk')
  /\ UNCHANGED <<corpus, query>>

Finish ==
  /\ query = "running"
  /\ \A f \in Files : Readable(f) /\ delivered[f] = corpus[f].rows
  /\ query' = "done"
  /\ chunk' = <<>>
  /\ UNCHANGED <<corpus, delivered>>

Fail ==
  /\ query = "running"
  /\ \E f \in Files : ~Readable(f)
  /\ query' = "failed"
  /\ UNCHANGED <<corpus, delivered, chunk>>

Stop ==
  /\ query = "running"
  /\ query' = "stopped"
  /\ UNCHANGED <<corpus, delivered, chunk>>

Next == Deliver \/ Finish \/ Fail \/ Stop

Spec == Init /\ [][Next]_vars
=============================================================================
