-------------------------------- MODULE Scan --------------------------------
(***************************************************************************)
(* The scan behind every table function (src/lib.rs, "shared scan          *)
(* machinery" and "parallel scan").  The first call of func decides        *)
(* whether the files are read one after the other (pull_batch) or by       *)
(* worker threads that claim files from a shared counter and hand batches  *)
(* over a bounded channel (spawn_workers).  Both must keep the promise of  *)
(* ScanContract.                                                           *)
(***************************************************************************)
EXTENDS Integers, Sequences, FiniteSets

CONSTANTS
  NFiles,       \* length of the resolved file list
  VectorSize,   \* rows of one batch (VECTOR_SIZE)
  FileKinds,    \* the files considered: records [rows, end]
  Parallelism,  \* available_parallelism()
  Requests,     \* the values of `threads` considered, NoRequest among them
  NoRequest     \* `threads` absent or NULL

VARIABLES
  corpus,     \* [Files -> FileKinds]
  delivered,  \* [Files -> Nat], rows of each file handed to the query
  chunk,      \* the rows the last call of func returned
  query,      \* "running", "done", "failed" or "stopped"
  request,    \* the `threads` argument, fixed at bind
  scan,       \* Scan::{Pending, Sequential, Parallel}
  idx,        \* next unopened or currently open file (sequential)
  open,       \* ScanState.cur is some (sequential)
  got,        \* rows read from the open file (sequential)
  batch,      \* rows pulled so far in this call (sequential)
  next,       \* the shared counter of claimed files
  pc,         \* [Workers -> where each thread is]
  cur,        \* [Workers -> the file each thread claimed]
  run,        \* [Workers -> the batch each thread fills]
  chan,       \* the bounded channel
  connected   \* the receiver has not been dropped

vars == <<corpus, delivered, chunk, query, request, scan, idx, open, got,
          batch, next, pc, cur, run, chan, connected>>
inputs == <<corpus, request>>
seqVars == <<idx, open, got, batch>>
parVars == <<next, pc, cur, run, chan, connected>>

Contract == INSTANCE ScanContract

Files    == 1 .. NFiles
Interval == [file : Files, lo : Nat, hi : Nat]
Size(r)  == r.hi - r.lo + 1

\* How the reading of a file ends.  "refused": it cannot be opened or its
\* guard refuses it; "bad": next_row returns an error; "panic": the reader
\* panics.  A refused file yields no row.
Ends == {"ok", "refused", "bad", "panic"}

ASSUME ScanAssumption ==
  /\ NFiles \in Nat \ {0}
  /\ VectorSize \in Nat \ {0}
  /\ FileKinds \subseteq [rows : Nat, end : Ends]
  /\ Parallelism \in Nat \ {0}
  /\ NoRequest \notin Int
  /\ Requests \subseteq Int \union {NoRequest}

-----------------------------------------------------------------------------
MinOf(a, b) == IF a <= b THEN a ELSE b

\* How many worker threads a scan gets (effective_threads).
EffectiveThreads(n) ==
  CASE n = NoRequest -> MinOf(Parallelism, NFiles)
    [] n # NoRequest /\ n >= 1 ->
         MinOf(MinOf(n, NFiles), Parallelism * 4)
    [] OTHER -> 1

Threads == EffectiveThreads(request)

\* The most threads any request can get; pc, cur and run range over them.
Workers == 1 .. MinOf(NFiles, Parallelism * 4)

\* Mutant: the channel is sized by the file list.
CapacityOfFiles == NFiles * 2

\* sync_channel(threads * 2)
Capacity == Threads * 2

Rows(f, lo, hi) == [file |-> f, lo |-> lo, hi |-> hi]
Ok(r)  == [tag |-> "ok", rows |-> r]
Err(f) == [tag |-> "err", file |-> f]

Last(f) == corpus[f].rows
End(f)  == corpus[f].end

Where == {"unborn", "claim", "open", "rows", "sendFull", "sendLast",
          "sendErr", "gone"}
Working == {"open", "rows", "sendFull", "sendLast", "sendErr"}

Init ==
  /\ Contract!Init
  /\ request \in Requests
  /\ scan = "pending"
  /\ idx = 1 /\ open = FALSE /\ got = 0 /\ batch = <<>>
  /\ next = 1
  /\ pc = [w \in Workers |-> "unborn"]
  /\ cur = [w \in Workers |-> 1]
  /\ run = [w \in Workers |-> Rows(1, 1, 0)]
  /\ chan = <<>>
  /\ connected = TRUE

-----------------------------------------------------------------------------
(* The first call of func: next_batch leaves Scan::Pending.                *)

StartSequential ==
  /\ query = "running" /\ scan = "pending"
  /\ Threads <= 1
  /\ scan' = "sequential"
  /\ UNCHANGED <<inputs, delivered, chunk, query, seqVars, parVars>>

StartParallel ==
  /\ query = "running" /\ scan = "pending"
  /\ Threads > 1
  /\ scan' = "parallel"
  /\ pc' = [w \in Workers |-> IF w <= Threads THEN "claim" ELSE "unborn"]
  /\ UNCHANGED <<inputs, delivered, chunk, query, seqVars,
                 next, cur, run, chan, connected>>

-----------------------------------------------------------------------------
(* One pull_batch, step by step.                                           *)

Pulled == IF batch = <<>> THEN 0
          ELSE LET counted[i \in 0 .. Len(batch)] ==
                     IF i = 0 THEN 0 ELSE counted[i - 1] + Size(batch[i])
               IN counted[Len(batch)]

Pulling == query = "running" /\ scan = "sequential" /\ Pulled < VectorSize

\* The rows in hand with the next row of file f: one more interval, or the
\* last one a row longer.
Push(b, f, n) ==
  IF b # <<>> /\ b[Len(b)].file = f
  THEN [b EXCEPT ![Len(b)] = Rows(f, b[Len(b)].lo, n)]
  ELSE Append(b, Rows(f, n, n))

FailQuery ==
  /\ query' = "failed"
  /\ UNCHANGED <<inputs, delivered, chunk, scan, parVars>>

OpenNext ==
  /\ Pulling /\ ~open /\ idx <= NFiles
  /\ End(idx) # "refused"
  /\ open' = TRUE /\ got' = 0
  /\ UNCHANGED <<inputs, delivered, chunk, query, scan, idx, batch, parVars>>

OpenFails ==
  /\ Pulling /\ ~open /\ idx <= NFiles
  /\ End(idx) = "refused"
  /\ FailQuery
  /\ UNCHANGED seqVars

PullRow ==
  /\ Pulling /\ open /\ got < Last(idx)
  /\ got' = got + 1
  /\ batch' = Push(batch, idx, got + 1)
  /\ UNCHANGED <<inputs, delivered, chunk, query, scan, idx, open, parVars>>

\* Mutant: the finished reader is not put away.
FileEndsStillOpen ==
  /\ Pulling /\ open /\ got = Last(idx) /\ End(idx) = "ok"
  /\ idx' = idx + 1
  /\ UNCHANGED <<inputs, delivered, chunk, query, scan, open, got, batch,
                 parVars>>

\* next_row returns None: the file is done and the next one is not open yet.
FileEnds ==
  /\ Pulling /\ open /\ got = Last(idx) /\ End(idx) = "ok"
  /\ open' = FALSE /\ idx' = idx + 1
  /\ UNCHANGED <<inputs, delivered, chunk, query, scan, got, batch, parVars>>

\* next_row returns an error, or panics and the table function boundary turns
\* the panic into one.  The rows in hand are not returned.
PullFails ==
  /\ Pulling /\ open /\ got = Last(idx) /\ End(idx) \in {"bad", "panic"}
  /\ FailQuery
  /\ UNCHANGED seqVars

\* The batch is full or the files are used up; an empty batch ends the scan.
ReturnBatch ==
  /\ query = "running" /\ scan = "sequential"
  /\ Pulled = VectorSize \/ (~open /\ idx > NFiles)
  /\ chunk' = batch
  /\ delivered' = Contract!After(batch)
  /\ batch' = <<>>
  /\ query' = IF batch = <<>> THEN "done" ELSE "running"
  /\ UNCHANGED <<inputs, scan, idx, open, got, parVars>>

Sequential ==
  OpenNext \/ OpenFails \/ PullRow \/ FileEnds \/ PullFails \/ ReturnBatch

-----------------------------------------------------------------------------
(* A worker thread.                                                        *)

Goto(w, p) == pc' = [pc EXCEPT ![w] = p]

\* Mutant: the counter is read and not advanced.
ClaimReadsOnly(w) ==
  /\ pc[w] = "claim"
  /\ IF next <= NFiles
     THEN Goto(w, "open") /\ cur' = [cur EXCEPT ![w] = next]
     ELSE Goto(w, "gone") /\ UNCHANGED cur
  /\ UNCHANGED <<next, run, chan, connected>>

\* fetch_add on the shared counter; past the last file the thread returns.
Claim(w) ==
  /\ pc[w] = "claim"
  /\ next' = next + 1
  /\ IF next <= NFiles
     THEN Goto(w, "open") /\ cur' = [cur EXCEPT ![w] = next]
     ELSE Goto(w, "gone") /\ UNCHANGED cur
  /\ UNCHANGED <<run, chan, connected>>

\* open_source and from_input.
Open(w) ==
  /\ pc[w] = "open"
  /\ IF End(cur[w]) = "refused"
     THEN Goto(w, "sendErr") /\ UNCHANGED run
     ELSE Goto(w, "rows") /\ run' = [run EXCEPT ![w] = Rows(cur[w], 1, 0)]
  /\ UNCHANGED <<next, cur, chan, connected>>

\* Mutant: a batch is sent one row late.
NextRowPastVector(w) ==
  /\ pc[w] = "rows"
  /\ run[w].hi < Last(cur[w])
  /\ run' = [run EXCEPT ![w] = Rows(cur[w], run[w].lo, run[w].hi + 1)]
  /\ Goto(w, IF Size(run'[w]) > VectorSize THEN "sendFull" ELSE "rows")
  /\ UNCHANGED <<next, cur, chan, connected>>

NextRow(w) ==
  /\ pc[w] = "rows"
  /\ run[w].hi < Last(cur[w])
  /\ run' = [run EXCEPT ![w] = Rows(cur[w], run[w].lo, run[w].hi + 1)]
  /\ Goto(w, IF Size(run'[w]) = VectorSize THEN "sendFull" ELSE "rows")
  /\ UNCHANGED <<next, cur, chan, connected>>

\* next_row returns None.  A batch with no rows is never sent: the receiver
\* would read it as the end of the scan.
Drained(w) ==
  /\ pc[w] = "rows"
  /\ run[w].hi = Last(cur[w]) /\ End(cur[w]) = "ok"
  /\ Goto(w, IF Size(run[w]) = 0 THEN "claim" ELSE "sendLast")
  /\ UNCHANGED <<next, cur, run, chan, connected>>

\* Mutant: no catch_unwind, a panic just ends the thread.
RowFailsUncaught(w) ==
  /\ pc[w] = "rows"
  /\ run[w].hi = Last(cur[w]) /\ End(cur[w]) \in {"bad", "panic"}
  /\ Goto(w, IF End(cur[w]) = "panic" THEN "gone" ELSE "sendErr")
  /\ UNCHANGED <<next, cur, run, chan, connected>>

\* next_row returns an error, or panics and catch_unwind catches it.
RowFails(w) ==
  /\ pc[w] = "rows"
  /\ run[w].hi = Last(cur[w]) /\ End(cur[w]) \in {"bad", "panic"}
  /\ Goto(w, "sendErr")
  /\ UNCHANGED <<next, cur, run, chan, connected>>

\* send: waits while the channel is full, fails once the receiver is dropped.
Room == connected /\ Len(chan) < Capacity

\* Mutant: a send that fails is tried again.
SendFullRetries(w) ==
  /\ pc[w] = "sendFull"
  /\ \/ /\ Room
        /\ chan' = Append(chan, Ok(run[w]))
        /\ run' = [run EXCEPT ![w] = Rows(cur[w], run[w].hi + 1, run[w].hi)]
        /\ Goto(w, "rows")
     \/ ~connected /\ UNCHANGED <<pc, run, chan>>
  /\ UNCHANGED <<next, cur, connected>>

SendFull(w) ==
  /\ pc[w] = "sendFull"
  /\ \/ /\ Room
        /\ chan' = Append(chan, Ok(run[w]))
        /\ run' = [run EXCEPT ![w] = Rows(cur[w], run[w].hi + 1, run[w].hi)]
        /\ Goto(w, "rows")
     \/ /\ ~connected
        /\ Goto(w, "gone")
        /\ UNCHANGED <<run, chan>>
  /\ UNCHANGED <<next, cur, connected>>

SendLast(w) ==
  /\ pc[w] = "sendLast"
  /\ \/ /\ Room
        /\ chan' = Append(chan, Ok(run[w]))
        /\ Goto(w, "claim")
     \/ /\ ~connected
        /\ Goto(w, "gone")
        /\ UNCHANGED chan
  /\ UNCHANGED <<next, cur, run, connected>>

\* The error is sent, or nobody is left to tell; the thread returns.
SendErr(w) ==
  /\ pc[w] = "sendErr"
  /\ \/ /\ Room
        /\ chan' = Append(chan, Err(cur[w]))
     \/ /\ ~connected
        /\ UNCHANGED chan
  /\ Goto(w, "gone")
  /\ UNCHANGED <<next, cur, run, connected>>

Work(w) ==
  \/ Claim(w) \/ Open(w) \/ NextRow(w) \/ Drained(w) \/ RowFails(w)
  \/ SendFull(w) \/ SendLast(w) \/ SendErr(w)

Worker(w) ==
  Work(w) /\ UNCHANGED <<inputs, delivered, chunk, query, scan, seqVars>>

-----------------------------------------------------------------------------
(* The receiving end: one call of func on a parallel scan.                 *)

Receiving == query = "running" /\ scan = "parallel"

ReceiveBatch ==
  /\ Receiving /\ chan # <<>> /\ Head(chan).tag = "ok"
  /\ chunk' = <<Head(chan).rows>>
  /\ delivered' = Contract!After(chunk')
  /\ query' = IF Size(Head(chan).rows) = 0 THEN "done" ELSE "running"
  /\ chan' = Tail(chan)
  /\ UNCHANGED <<inputs, scan, seqVars, next, pc, cur, run, connected>>

ReceiveError ==
  /\ Receiving /\ chan # <<>> /\ Head(chan).tag = "err"
  /\ query' = "failed"
  /\ chan' = Tail(chan)
  /\ UNCHANGED <<inputs, delivered, chunk, scan, seqVars,
                 next, pc, cur, run, connected>>

\* Mutant: the template sender is not dropped, so recv never fails.
DisconnectedNever == FALSE

\* recv fails only when the channel is empty and the last sender is gone.
Disconnected ==
  /\ Receiving /\ chan = <<>>
  /\ \A w \in Workers : pc[w] \in {"unborn", "gone"}
  /\ chunk' = <<>>
  /\ query' = "done"
  /\ UNCHANGED <<inputs, delivered, scan, seqVars, parVars>>

Receive == ReceiveBatch \/ ReceiveError \/ Disconnected

-----------------------------------------------------------------------------
(* DuckDB around the scan.                                                 *)

\* A LIMIT is satisfied or the query is cancelled: func is not called again.
StopQuery ==
  /\ query = "running"
  /\ query' = "stopped"
  /\ UNCHANGED <<inputs, delivered, chunk, scan, seqVars, parVars>>

\* The query is over and its init data is freed, the receiver with it.
DropReceiver ==
  /\ query # "running" /\ connected
  /\ connected' = FALSE
  /\ chan' = <<>>
  /\ UNCHANGED <<inputs, delivered, chunk, query, scan, seqVars,
                 next, pc, cur, run>>

\* Nothing is left to do.
Over ==
  /\ query # "running" /\ ~connected
  /\ \A w \in Workers : pc[w] \in {"unborn", "gone"}
  /\ UNCHANGED vars

Next ==
  \/ StartSequential \/ StartParallel
  \/ Sequential
  \/ \E w \in Workers : Worker(w)
  \/ Receive
  \/ StopQuery \/ DropReceiver \/ Over

Spec == Init /\ [][Next]_vars

\* Threads are scheduled, DuckDB keeps calling func until the scan ends, and
\* frees the init data of a query that is over.  Nobody has to stop a query.
Fairness ==
  /\ WF_vars(StartSequential \/ StartParallel \/ Sequential \/ Receive)
  /\ WF_vars(DropReceiver)
  /\ \A w \in Workers : WF_vars(Worker(w))

FairSpec == Spec /\ Fairness

-----------------------------------------------------------------------------
(* Properties.                                                             *)

Messages ==
  [tag : {"ok"}, rows : Interval] \union [tag : {"err"}, file : Files]

QueryType ==
  /\ corpus \in [Files -> FileKinds]
  /\ delivered \in [Files -> Nat]
  /\ chunk \in Seq(Interval)
  /\ query \in {"running", "done", "failed", "stopped"}
  /\ request \in Requests
  /\ scan \in {"pending", "sequential", "parallel"}

SequentialType ==
  /\ idx \in Nat \ {0}
  /\ open \in BOOLEAN
  /\ open => idx \in Files
  /\ got \in Nat
  /\ batch \in Seq(Interval)

ParallelType ==
  /\ next \in Nat \ {0}
  /\ pc \in [Workers -> Where]
  /\ cur \in [Workers -> Files]
  /\ run \in [Workers -> Interval]
  /\ chan \in Seq(Messages)
  /\ connected \in BOOLEAN

TypeOK == QueryType /\ SequentialType /\ ParallelType

\* One file is read by one thread at a time: two threads never hold the same
\* claim.
OneReaderPerFile ==
  \A v, w \in Workers :
    pc[v] \in Working /\ pc[w] \in Working /\ cur[v] = cur[w] => v = w

\* Memory is a number of batches that follows the threads and never the file
\* list: the channel, one batch per thread, and the chunk being written
\* (docs/streaming.md: 8 workers, "25 batches at most").
BatchesInFlight ==
  Len(chan) + Cardinality({w \in Workers : pc[w] \in Working}) + 1
    <= 3 * Threads + 1

\* No batch a thread sends is longer than the vectors it is written into
\* (write_numeric's null bitmap has VECTOR_SIZE bits), and none is empty, which
\* the receiver would read as the end of the scan.
BatchFits ==
  \A k \in DOMAIN chan :
    chan[k].tag = "ok" => Size(chan[k].rows) \in 1 .. VectorSize

\* The scan keeps its promise, sequential or parallel: no worker's death, empty
\* file or late batch ends it short, and the rows of a file come in order, without
\* a gap or a repeat.
Implements == Contract!Spec

\* Every query comes to an end.
QueryEnds == query = "running" ~> query # "running"

\* Every thread comes to an end: none is left blocked on a full channel when
\* the query stops or fails.
ThreadsExit == <>[](\A w \in Workers : pc[w] \in {"unborn", "gone"})
=============================================================================
