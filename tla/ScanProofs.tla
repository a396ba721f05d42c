----------------------------- MODULE ScanProofs -----------------------------
(***************************************************************************)
(* Theorems about Scan, for every list of files, every number of threads,  *)
(* every vector size and every interleaving.  Type correctness is          *)
(* inductive as it stands.  OneReaderPerFile needs that a claim stays      *)
(* below the shared counter (ClaimInv); BatchFits needs that a thread      *)
(* stops filling its batch when it is full and has rows in it when it      *)
(* sends it (RoomInv).                                                     *)
(*                                                                         *)
(* Scan implements ScanContract.  The invariant says of a running query    *)
(* where every row of every file is: with the query, in the channel or in  *)
(* the current batch, or still to be read through the one reader that has  *)
(* its file.  Each step of Scan is then a step of the contract or leaves   *)
(* the contract's variables alone.                                         *)
(***************************************************************************)
EXTENDS Scan, FiniteSetTheorems, TLAPS

-----------------------------------------------------------------------------
(* Types.                                                                  *)

\* Handing over a chunk leaves a last row for every file.
LEMMA AfterType ==
  ASSUME delivered \in [Files -> Nat], NEW c \in Seq(Interval)
  PROVE  Contract!After(c) \in [Files -> Nat]
<1> SUFFICES ASSUME NEW f \in Files,
                    \E i \in DOMAIN c : c[i].file = f
             PROVE  c[CHOOSE i \in DOMAIN c : c[i].file = f].hi \in Nat
  BY DEF Contract!After, Contract!Files, Files
<1> DEFINE i == CHOOSE i \in DOMAIN c : c[i].file = f
<1>1. i \in DOMAIN c
  OBVIOUS
<1>2. c[i] \in Interval
  BY <1>1
<1> QED
  BY <1>2 DEF Interval

\* The initial states are of the right types.
LEMMA TypeInit == Init => TypeOK
<1> SUFFICES ASSUME Init
             PROVE  TypeOK
  OBVIOUS
<1>1. corpus \in [Files -> FileKinds] /\ delivered \in [Files -> Nat]
  BY DEF Init, Contract!Init, Contract!Files, Files
<1>2. 1 \in Files
  BY ScanAssumption DEF ScanAssumption, Files
<1>3. cur \in [Workers -> Files] /\ pc \in [Workers -> Where]
  BY <1>2 DEF Init, Where
<1>4. Rows(1, 1, 0) \in Interval
  BY <1>2 DEF Rows, Interval
<1>5. run \in [Workers -> Interval]
  BY <1>4 DEF Init
<1>6. chan \in Seq(Messages) /\ batch \in Seq(Interval) /\ chunk \in Seq(Interval)
  BY DEF Init, Contract!Init
<1>7. QueryType
  BY <1>1, <1>6 DEF Init, Contract!Init, QueryType
<1>8. SequentialType
  <2>1. open \in BOOLEAN /\ ~open
    BY DEF Init
  <2>2. idx \in Nat \ {0} /\ got \in Nat
    BY DEF Init
  <2> QED
    BY <1>6, <2>1, <2>2 DEF SequentialType
<1>9. ParallelType
  BY <1>3, <1>5, <1>6 DEF Init, ParallelType
<1> QED
  BY <1>7, <1>8, <1>9 DEF TypeOK

\* A step of a worker keeps the types of what the workers share.
LEMMA TypeWork ==
  ASSUME TypeOK, NEW w \in Workers, Work(w)
  PROVE  ParallelType'
<1> USE DEF TypeOK, ParallelType, Goto, Where
<1>1. Ok(run[w]) \in Messages /\ Err(cur[w]) \in Messages
  BY DEF Ok, Err, Messages
<1>2. cur[w] \in Files /\ run[w].lo \in Nat /\ run[w].hi \in Nat
  BY DEF Interval
<1>3. \A lo, hi \in Nat : Rows(cur[w], lo, hi) \in Interval
  BY <1>2 DEF Rows, Interval
<1>4. CASE Claim(w)
  <2>1. next \in Nat \ {0} /\ next' = next + 1 /\ chan' = chan /\ run' = run
        /\ connected' = connected
    BY <1>4 DEF Claim
  <2>2. pc' \in [Workers -> Where]
    BY <1>4 DEF Claim
  <2>3. next <= NFiles => next \in Files
    BY <2>1, ScanAssumption DEF Files, ScanAssumption
  <2>4. cur' \in [Workers -> Files]
    BY <1>4, <2>3 DEF Claim
  <2> QED
    BY <2>1, <2>2, <2>4
<1>5. CASE Open(w)
  BY <1>5, <1>3 DEF Open
<1>6. CASE NextRow(w)
  <2>1. run' \in [Workers -> Interval]
    BY <1>6, <1>2, <1>3 DEF NextRow
  <2> QED
    BY <1>6, <2>1 DEF NextRow
<1>7. CASE Drained(w)
  BY <1>7 DEF Drained
<1>8. CASE RowFails(w)
  BY <1>8 DEF RowFails
<1>9. CASE SendFull(w)
  <2>1. run' \in [Workers -> Interval]
    BY <1>9, <1>2, <1>3 DEF SendFull
  <2>2. chan' \in Seq(Messages)
    BY <1>9, <1>1 DEF SendFull
  <2> QED
    BY <1>9, <2>1, <2>2 DEF SendFull
<1>10. CASE SendLast(w)
  <2>1. chan' \in Seq(Messages)
    BY <1>10, <1>1 DEF SendLast
  <2> QED
    BY <1>10, <2>1 DEF SendLast
<1>11. CASE SendErr(w)
  <2>1. chan' \in Seq(Messages)
    BY <1>11, <1>1 DEF SendErr
  <2> QED
    BY <1>11, <2>1 DEF SendErr
<1> QED
  BY <1>4, <1>5, <1>6, <1>7, <1>8, <1>9, <1>10, <1>11 DEF Work

\* The batch of a sequential scan stays a sequence of intervals.
LEMMA PushType ==
  ASSUME NEW b \in Seq(Interval), NEW f \in Files, NEW n \in Nat
  PROVE  Push(b, f, n) \in Seq(Interval)
<1>1. CASE b # <<>> /\ b[Len(b)].file = f
  <2>1. Len(b) \in DOMAIN b /\ b[Len(b)] \in Interval
    BY <1>1
  <2>2. Rows(f, b[Len(b)].lo, n) \in Interval
    BY <2>1 DEF Rows, Interval
  <2> QED
    BY <1>1, <2>1, <2>2 DEF Push
<1>2. CASE ~(b # <<>> /\ b[Len(b)].file = f)
  <2>1. Rows(f, n, n) \in Interval
    BY DEF Rows, Interval
  <2> QED
    BY <1>2, <2>1 DEF Push
<1> QED
  BY <1>1, <1>2

\* Opening the file at the cursor, or moving past it, keeps an open file on the
\* list.
LEMMA OpenType ==
  ASSUME SequentialType, OpenNext \/ FileEnds
  PROVE  SequentialType'
<1>1. CASE OpenNext
  <2>1. idx \in Files
    BY <1>1, ScanAssumption
    DEF OpenNext, SequentialType, Files, ScanAssumption
  <2>2. open' = TRUE /\ idx' = idx /\ got' = 0 /\ batch' = batch
    BY <1>1 DEF OpenNext
  <2> QED
    BY <2>1, <2>2 DEF SequentialType
<1>2. CASE FileEnds
  <2>1. open' = FALSE /\ idx' = idx + 1 /\ got' = got /\ batch' = batch
    BY <1>2 DEF FileEnds
  <2>2. idx' \in Nat \ {0}
    BY <2>1 DEF SequentialType
  <2>3. open' \in BOOLEAN /\ ~open'
    BY <2>1
  <2> QED
    BY <2>1, <2>2, <2>3 DEF SequentialType
<1> QED
  BY <1>1, <1>2

\* Every step keeps the types.
LEMMA TypeNext == TypeOK /\ [Next]_vars => TypeOK'
<1> SUFFICES ASSUME TypeOK, [Next]_vars
             PROVE  TypeOK'
  OBVIOUS
<1> USE DEF TypeOK, inputs, seqVars, parVars
<1>1. UNCHANGED seqVars => SequentialType'
  BY DEF SequentialType, seqVars
<1>2. UNCHANGED parVars => ParallelType'
  BY DEF ParallelType, parVars
<1>3. ASSUME UNCHANGED <<inputs, delivered, chunk>>,
             query' \in {"running", "done", "failed", "stopped"},
             scan' \in {"pending", "sequential", "parallel"}
      PROVE  QueryType'
  BY <1>3 DEF QueryType, inputs
<1>4. CASE StartSequential
  BY <1>1, <1>2, <1>3, <1>4 DEF StartSequential, QueryType
<1>5. CASE StartParallel
  <2>1. ParallelType'
    BY <1>5 DEF StartParallel, ParallelType, Where
  <2> QED
    BY <1>1, <1>3, <1>5, <2>1 DEF StartParallel, QueryType
<1>6. CASE OpenNext
  <2>1. SequentialType'
    BY <1>6, OpenType
  <2> QED
    BY <1>2, <1>3, <1>6, <2>1 DEF OpenNext, QueryType
<1>7. CASE OpenFails
  BY <1>1, <1>2, <1>3, <1>7 DEF OpenFails, FailQuery, QueryType
<1>8. CASE PullRow
  <2>1. idx \in Files /\ got + 1 \in Nat /\ batch \in Seq(Interval)
    BY <1>8 DEF PullRow, SequentialType
  <2>2. batch' \in Seq(Interval)
    BY <1>8, <2>1, PushType DEF PullRow
  <2>3. SequentialType'
    BY <1>8, <2>1, <2>2 DEF PullRow, SequentialType
  <2> QED
    BY <1>2, <1>3, <1>8, <2>3 DEF PullRow, QueryType
<1>9. CASE FileEnds
  <2>1. SequentialType'
    BY <1>9, OpenType
  <2> QED
    BY <1>2, <1>3, <1>9, <2>1 DEF FileEnds, QueryType
<1>10. CASE PullFails
  BY <1>1, <1>2, <1>3, <1>10 DEF PullFails, FailQuery, QueryType
<1>11. CASE ReturnBatch
  <2>1. batch \in Seq(Interval)
    BY DEF SequentialType
  <2>2. QueryType'
    BY <1>11, <2>1, AfterType DEF ReturnBatch, QueryType
  <2>3. SequentialType'
    BY <1>11 DEF ReturnBatch, SequentialType
  <2> QED
    BY <1>2, <1>11, <2>2, <2>3 DEF ReturnBatch
<1>12. ASSUME NEW w \in Workers, Worker(w)
       PROVE  TypeOK'
  BY <1>1, <1>3, <1>12, TypeWork DEF Worker, QueryType
<1>13. CASE Receive
  <2>1. chan # <<>> => Head(chan) \in Messages /\ Tail(chan) \in Seq(Messages)
    BY DEF ParallelType
  <2>2. CASE ReceiveBatch
    <3>1. chunk' \in Seq(Interval)
      BY <2>1, <2>2 DEF ReceiveBatch, Messages
    <3>2. QueryType'
      BY <2>2, <3>1, AfterType DEF ReceiveBatch, QueryType
    <3>3. ParallelType'
      BY <2>1, <2>2 DEF ReceiveBatch, ParallelType
    <3> QED
      BY <1>1, <2>2, <3>2, <3>3 DEF ReceiveBatch
  <2>3. CASE ReceiveError
    <3>1. ParallelType'
      BY <2>1, <2>3 DEF ReceiveError, ParallelType
    <3> QED
      BY <1>1, <1>3, <2>3, <3>1 DEF ReceiveError, QueryType
  <2>4. CASE Disconnected
    <3>1. QueryType'
      BY <2>4 DEF Disconnected, QueryType
    <3> QED
      BY <1>1, <1>2, <2>4, <3>1 DEF Disconnected
  <2> QED
    BY <1>13, <2>2, <2>3, <2>4 DEF Receive
<1>14. CASE StopQuery
  BY <1>1, <1>2, <1>3, <1>14 DEF StopQuery, QueryType
<1>15. CASE DropReceiver
  <2>1. chan' \in Seq(Messages)
    BY <1>15 DEF DropReceiver
  <2>2. connected' \in BOOLEAN
    BY <1>15 DEF DropReceiver
  <2>3. ParallelType'
    BY <1>15, <2>1, <2>2 DEF DropReceiver, ParallelType
  <2> QED
    BY <1>1, <1>3, <1>15, <2>3 DEF DropReceiver, QueryType
<1>16. CASE Over \/ UNCHANGED vars
  <2>1. UNCHANGED vars
    BY <1>16 DEF Over
  <2> QED
    BY <1>1, <1>2, <1>3, <2>1 DEF vars, QueryType
<1> QED
  BY <1>4, <1>5, <1>6, <1>7, <1>8, <1>9, <1>10, <1>11, <1>12, <1>13, <1>14,
     <1>15, <1>16 DEF Next, Sequential

\* The variables of the scan always have their types.
THEOREM TypeCorrect == Spec => []TypeOK
BY TypeInit, TypeNext, PTL DEF Spec
-----------------------------------------------------------------------------
(* One reader per file.                                                    *)

\* A claim is below the counter, so the next claim is a new file.
ClaimInv ==
  /\ OneReaderPerFile
  /\ \A w \in Workers : pc[w] \in Working => cur[w] < next

\* A step that leaves the counter and the claims alone, and puts no thread to
\* work that was not at work, keeps the claims apart.
LEMMA ClaimKept ==
  ASSUME ClaimInv,
         next' = next, cur' = cur,
         \A w \in Workers : pc'[w] \in Working => pc[w] \in Working
  PROVE  ClaimInv'
BY DEF ClaimInv, OneReaderPerFile, Workers, MinOf

\* Every step keeps the files of the threads apart.
LEMMA ClaimNext == TypeOK /\ ClaimInv /\ [Next]_vars => ClaimInv'
<1> SUFFICES ASSUME TypeOK, ClaimInv, [Next]_vars
             PROVE  ClaimInv'
  OBVIOUS
<1> USE DEF parVars, Working
<1>1. pc \in [Workers -> Where] /\ cur \in [Workers -> Files]
      /\ next \in Nat \ {0}
  BY DEF TypeOK, ParallelType
<1>2. ASSUME UNCHANGED <<next, pc, cur>>
      PROVE  ClaimInv'
  BY <1>2, ClaimKept
<1>3. CASE StartSequential \/ Sequential
  BY <1>2, <1>3
  DEF StartSequential, Sequential, OpenNext, OpenFails, PullRow, FileEnds,
      PullFails, ReturnBatch, FailQuery
<1>4. CASE StartParallel
  BY <1>1, <1>4, ClaimKept DEF StartParallel
<1>5. ASSUME NEW w \in Workers, Claim(w)
      PROVE  ClaimInv'
  <2>1. CASE next <= NFiles
    <3>1. next' = next + 1 /\ cur' = [cur EXCEPT ![w] = next]
          /\ pc' = [pc EXCEPT ![w] = "open"]
      BY <1>5, <2>1 DEF Claim, Goto
    <3>2. \A v \in Workers : pc'[v] \in Working => cur'[v] < next'
      BY <1>1, <3>1 DEF ClaimInv, Files
    <3>3. ASSUME NEW v \in Workers, v # w, pc'[v] \in Working
          PROVE  cur'[v] # cur'[w]
      BY <1>1, <3>1, <3>3 DEF ClaimInv, Files
    <3>4. \A u, v \in Workers :
            u # w /\ v # w => cur'[u] = cur[u] /\ pc'[u] = pc[u]
                             /\ cur'[v] = cur[v] /\ pc'[v] = pc[v]
      BY <1>1, <3>1
    <3> QED
      BY <3>2, <3>3, <3>4 DEF ClaimInv, OneReaderPerFile, Workers, MinOf
  <2>2. CASE ~(next <= NFiles)
    <3>1. next' = next + 1 /\ cur' = cur /\ pc' = [pc EXCEPT ![w] = "gone"]
      BY <1>5, <2>2 DEF Claim, Goto
    <3> QED
      BY <1>1, <3>1 DEF ClaimInv, OneReaderPerFile, Workers, MinOf, Files
  <2> QED
    BY <2>1, <2>2
<1>6. ASSUME NEW w \in Workers, Work(w), ~Claim(w)
      PROVE  ClaimInv'
  <2>1. UNCHANGED <<next, cur>> /\ pc[w] \in Working
    BY <1>6
    DEF Work, Open, NextRow, Drained, RowFails, SendFull, SendLast, SendErr
  <2>2. \A v \in Workers : v # w => pc'[v] = pc[v]
    BY <1>1, <1>6
    DEF Work, Open, NextRow, Drained, RowFails, SendFull, SendLast, SendErr,
        Goto
  <2> QED
    BY <2>1, <2>2, ClaimKept
<1>7. CASE Receive
  BY <1>2, <1>7 DEF Receive, ReceiveBatch, ReceiveError, Disconnected
<1>8. CASE StopQuery \/ DropReceiver \/ Over \/ UNCHANGED vars
  BY <1>2, <1>8 DEF StopQuery, DropReceiver, Over, vars
<1> QED
  BY <1>3, <1>4, <1>5, <1>6, <1>7, <1>8 DEF Next, Worker

\* Two threads never read the same file: every claim of the shared counter is
\* a new one.
THEOREM OneReader == Spec => []OneReaderPerFile
<1>1. Init => ClaimInv
  BY DEF Init, ClaimInv, OneReaderPerFile, Working
<1>2. TypeOK /\ ClaimInv /\ [Next]_vars => ClaimInv'
  BY ClaimNext
<1>3. ClaimInv => OneReaderPerFile
  BY DEF ClaimInv
<1> QED
  BY <1>1, <1>2, <1>3, TypeCorrect, PTL DEF Spec

-----------------------------------------------------------------------------
(* Batches fit.                                                            *)

\* A thread that still reads has room in its batch, one that sends a batch has
\* rows in it.
RoomInv ==
  /\ \A w \in Workers :
       /\ pc[w] = "rows" => Size(run[w]) \in 0 .. VectorSize - 1
       /\ pc[w] \in {"sendFull", "sendLast"} => Size(run[w]) \in 1 .. VectorSize
  /\ BatchFits

\* Sending puts the batch of a thread behind those already in the channel.
LEMMA SendFits ==
  ASSUME TypeOK, BatchFits,
         NEW w \in Workers, Size(run[w]) \in 1 .. VectorSize,
         chan' = Append(chan, Ok(run[w]))
  PROVE  BatchFits'
<1>1. chan \in Seq(Messages)
  BY DEF TypeOK, ParallelType
<1>2. \A k \in DOMAIN chan' :
        IF k = Len(chan) + 1 THEN chan'[k] = Ok(run[w])
        ELSE k \in DOMAIN chan /\ chan'[k] = chan[k]
  BY <1>1
<1>3. Ok(run[w]).rows = run[w]
  BY DEF Ok
<1> QED
  BY <1>2, <1>3 DEF BatchFits, Size

\* A step of one thread that leaves the channel alone disturbs only the batch
\* of that thread.
LEMMA OtherBatches ==
  ASSUME TypeOK, RoomInv, NEW w \in Workers, Work(w), BatchFits',
         pc'[w] = "rows" => Size(run'[w]) \in 0 .. VectorSize - 1,
         pc'[w] \in {"sendFull", "sendLast"} =>
           Size(run'[w]) \in 1 .. VectorSize
  PROVE  RoomInv'
<1>1. pc \in [Workers -> Where] /\ run \in [Workers -> Interval]
  BY DEF TypeOK, ParallelType
<1>2. \A v \in Workers : v # w => pc'[v] = pc[v] /\ run'[v] = run[v]
  BY <1>1
  DEF Work, Claim, Open, NextRow, Drained, RowFails, SendFull, SendLast,
      SendErr, Goto
<1>3. \A v \in Workers :
        /\ pc'[v] = "rows" => Size(run'[v]) \in 0 .. VectorSize - 1
        /\ pc'[v] \in {"sendFull", "sendLast"} =>
             Size(run'[v]) \in 1 .. VectorSize
  BY <1>2 DEF RoomInv
<1> QED
  BY <1>3 DEF RoomInv, Workers, MinOf, Size

\* Every step leaves a batch within its vector.
LEMMA RoomNext == TypeOK /\ RoomInv /\ [Next]_vars => RoomInv'
<1> SUFFICES ASSUME TypeOK, RoomInv, [Next]_vars
             PROVE  RoomInv'
  OBVIOUS
<1> USE DEF parVars
<1>1. pc \in [Workers -> Where] /\ run \in [Workers -> Interval]
      /\ chan \in Seq(Messages)
  BY DEF TypeOK, ParallelType
<1>2. VectorSize \in Nat \ {0}
  BY ScanAssumption DEF ScanAssumption
<1>3. \A w \in Workers : run[w].lo \in Nat /\ run[w].hi \in Nat
  BY <1>1 DEF Interval
<1>4. ASSUME UNCHANGED <<pc, run, chan>>
      PROVE  RoomInv'
  BY <1>4 DEF RoomInv, BatchFits, Size, Workers, MinOf
<1>5. CASE StartSequential \/ Sequential
  BY <1>4, <1>5
  DEF StartSequential, Sequential, OpenNext, OpenFails, PullRow, FileEnds,
      PullFails, ReturnBatch, FailQuery
<1>6. CASE StartParallel
  <2>1. \A w \in Workers : pc'[w] \in {"claim", "unborn"}
    BY <1>6 DEF StartParallel
  <2>2. chan' = chan
    BY <1>6 DEF StartParallel
  <2> QED
    BY <2>1, <2>2 DEF RoomInv, BatchFits, Size, Workers, MinOf
<1>7. ASSUME NEW w \in Workers, Work(w)
      PROVE  RoomInv'
  <2> DEFINE Fine == /\ BatchFits'
                     /\ pc'[w] = "rows" => Size(run'[w]) \in 0 .. VectorSize - 1
                     /\ pc'[w] \in {"sendFull", "sendLast"} =>
                          Size(run'[w]) \in 1 .. VectorSize
  <2> SUFFICES Fine
    BY <1>7, OtherBatches
  <2>1. chan' = chan => BatchFits'
    BY DEF RoomInv, BatchFits, Size
  <2>2. ASSUME chan' = Append(chan, Ok(run[w])), pc[w] \in {"sendFull", "sendLast"}
        PROVE  BatchFits'
    BY <2>2, SendFits DEF RoomInv
  <2>3. CASE Claim(w)
    BY <1>1, <2>1, <2>3 DEF Claim, Goto
  <2>4. CASE Open(w)
    BY <1>1, <1>2, <2>1, <2>4 DEF Open, Goto, Rows, Size
  <2>5. CASE NextRow(w)
    <3>1. Size(run'[w]) = Size(run[w]) + 1 /\ pc[w] = "rows"
      BY <1>1, <1>3, <2>5 DEF NextRow, Rows, Size
    <3>2. Size(run[w]) \in 0 .. VectorSize - 1
      BY <3>1 DEF RoomInv
    <3>3. pc'[w] = IF Size(run'[w]) = VectorSize THEN "sendFull" ELSE "rows"
      BY <1>1, <2>5 DEF NextRow, Goto
    <3>4. chan' = chan
      BY <2>5 DEF NextRow
    <3> QED
      BY <1>2, <2>1, <3>1, <3>2, <3>3, <3>4
  <2>6. CASE Drained(w)
    BY <1>1, <1>2, <2>1, <2>6 DEF Drained, Goto, RoomInv, Size
  <2>7. CASE RowFails(w)
    BY <1>1, <2>1, <2>7 DEF RowFails, Goto
  <2>8. CASE SendFull(w)
    BY <1>1, <1>2, <1>3, <2>1, <2>2, <2>8 DEF SendFull, Goto, Rows, Size
  <2>9. CASE SendLast(w)
    BY <1>1, <2>1, <2>2, <2>9 DEF SendLast, Goto
  <2>10. CASE SendErr(w)
    <3>1. chan' = Append(chan, Err(cur[w])) => BatchFits'
      BY <1>1 DEF Err, RoomInv, BatchFits, Size
    <3> QED
      BY <1>1, <2>1, <2>10, <3>1 DEF SendErr, Goto
  <2> QED
    BY <1>7, <2>3, <2>4, <2>5, <2>6, <2>7, <2>8, <2>9, <2>10 DEF Work
<1>8. CASE Receive
  <2>1. UNCHANGED <<pc, run>> /\ (chan' = chan \/ (chan # <<>> /\ chan' = Tail(chan)))
    BY <1>8 DEF Receive, ReceiveBatch, ReceiveError, Disconnected
  <2>2. chan # <<>> =>
          \A k \in DOMAIN Tail(chan) :
            k + 1 \in DOMAIN chan /\ Tail(chan)[k] = chan[k + 1]
    BY <1>1
  <2> QED
    BY <2>1, <2>2 DEF RoomInv, BatchFits, Size, Workers, MinOf
<1>9. CASE DropReceiver
  BY <1>9 DEF DropReceiver, RoomInv, BatchFits, Size, Workers, MinOf
<1>10. CASE StopQuery \/ Over \/ UNCHANGED vars
  BY <1>4, <1>10 DEF StopQuery, Over, vars
<1> QED
  BY <1>5, <1>6, <1>7, <1>8, <1>9, <1>10 DEF Next, Worker

\* Every batch in the channel has a row and no more than one vector of them.
THEOREM BatchesFit == Spec => []BatchFits
<1>1. Init => RoomInv
  BY DEF Init, RoomInv, BatchFits
<1>2. TypeOK /\ RoomInv /\ [Next]_vars => RoomInv'
  BY RoomNext
<1>3. RoomInv => BatchFits
  BY DEF RoomInv
<1> QED
  BY <1>1, <1>2, <1>3, TypeCorrect, PTL DEF Spec

-----------------------------------------------------------------------------
(* Batches in flight.                                                      *)

\* The channel keeps its bound, and only the threads of this scan are started.
FlightInv ==
  /\ Len(chan) <= Capacity
  /\ \A w \in Workers : pc[w] # "unborn" => w <= Threads

\* A parallel scan has at least one thread.
LEMMA ThreadsType ==
  ASSUME TypeOK
  PROVE  Threads \in Nat \ {0}
<1>1. NFiles \in Nat \ {0} /\ Parallelism \in Nat \ {0}
      /\ request \in Int \union {NoRequest} /\ NoRequest \notin Int
  BY ScanAssumption DEF ScanAssumption, TypeOK, QueryType
<1>2. CASE request = NoRequest
  BY <1>1, <1>2 DEF Threads, EffectiveThreads, MinOf
<1>3. CASE request # NoRequest /\ request >= 1
  <2>1. Threads = MinOf(MinOf(request, NFiles), Parallelism * 4)
    BY <1>3 DEF Threads, EffectiveThreads
  <2> QED
    BY <1>1, <1>3, <2>1 DEF MinOf
<1>4. CASE request # NoRequest /\ ~(request >= 1)
  BY <1>4 DEF Threads, EffectiveThreads
<1> QED
  BY <1>2, <1>3, <1>4

\* At first no batch is in flight.
LEMMA FlightInit == Init => FlightInv
<1> SUFFICES ASSUME Init
             PROVE  FlightInv
  OBVIOUS
<1>1. Threads \in Nat
  BY TypeInit, ThreadsType
<1> QED
  BY <1>1 DEF Init, FlightInv, Capacity

\* A thread that starts is one of Threads, and a send finds room.
LEMMA FlightNext == TypeOK /\ FlightInv /\ [Next]_vars => FlightInv'
<1> SUFFICES ASSUME TypeOK, FlightInv, [Next]_vars
             PROVE  FlightInv'
  OBVIOUS
<1> USE DEF inputs, parVars
<1>1. pc \in [Workers -> Where] /\ chan \in Seq(Messages)
  BY DEF TypeOK, ParallelType
<1>2. Threads \in Nat \ {0}
  BY ThreadsType
<1>3. request' = request
  BY DEF Next, StartSequential, StartParallel, Sequential, OpenNext, OpenFails,
         PullRow, FileEnds, PullFails, ReturnBatch, FailQuery, Worker, Receive,
         ReceiveBatch, ReceiveError, Disconnected, StopQuery, DropReceiver,
         Over, vars
<1>4. Threads' = Threads /\ Capacity' = Capacity /\ Workers' = Workers
  BY <1>3 DEF Threads, Capacity, Workers
<1>5. ASSUME UNCHANGED <<pc, chan>>
      PROVE  FlightInv'
  BY <1>4, <1>5 DEF FlightInv
<1>6. CASE StartParallel
  <2>1. \A w \in Workers : pc'[w] # "unborn" => w <= Threads
    BY <1>6 DEF StartParallel
  <2> QED
    BY <1>4, <1>6, <2>1 DEF StartParallel, FlightInv
<1>7. ASSUME NEW w \in Workers, Work(w)
      PROVE  FlightInv'
  <2>1. pc[w] # "unborn" /\ \A v \in Workers : v # w => pc'[v] = pc[v]
    BY <1>1, <1>7
    DEF Work, Claim, Open, NextRow, Drained, RowFails, SendFull, SendLast,
        SendErr, Goto
  <2>2. chan' = chan \/ (Len(chan) < Capacity /\ \E m : chan' = Append(chan, m))
    BY <1>7
    DEF Work, Claim, Open, NextRow, Drained, RowFails, SendFull, SendLast,
        SendErr, Room
  <2>3. Len(chan') <= Capacity
    BY <1>1, <1>2, <2>2 DEF FlightInv, Capacity
  <2> QED
    BY <1>4, <2>1, <2>3 DEF FlightInv
<1>8. CASE Receive \/ DropReceiver
  <2>1. pc' = pc
        /\ (chan' = chan \/ chan' = <<>> \/ (chan # <<>> /\ chan' = Tail(chan)))
    BY <1>8
    DEF Receive, ReceiveBatch, ReceiveError, Disconnected, DropReceiver
  <2>2. Len(chan') <= Capacity
    BY <1>1, <1>2, <2>1 DEF FlightInv, Capacity
  <2> QED
    BY <1>4, <2>1, <2>2 DEF FlightInv
<1>9. CASE StartSequential \/ Sequential \/ StopQuery \/ Over \/ UNCHANGED vars
  BY <1>5, <1>9
  DEF StartSequential, Sequential, OpenNext, OpenFails, PullRow, FileEnds,
      PullFails, ReturnBatch, FailQuery, StopQuery, Over, vars
<1> QED
  BY <1>6, <1>7, <1>8, <1>9 DEF Next, Worker

\* One batch in the hands of each thread, and a channel for as many.
LEMMA FlightBound ==
  ASSUME TypeOK, FlightInv
  PROVE  BatchesInFlight
<1> DEFINE busy == {w \in Workers : pc[w] \in Working}
<1>1. Threads \in Nat \ {0} /\ Len(chan) \in Nat
  BY ThreadsType DEF TypeOK, ParallelType
<1>2. busy \in SUBSET (1 .. Threads)
  BY <1>1 DEF FlightInv, Working, Workers
<1>3. IsFiniteSet(1 .. Threads) /\ Cardinality(1 .. Threads) = Threads
  BY <1>1, FS_Interval
<1>4. Cardinality(busy) \in Nat /\ Cardinality(busy) <= Threads
  BY <1>1, <1>2, <1>3, FS_Subset, FS_CardinalityType
<1> HIDE DEF busy
<1>5. Len(chan) + Cardinality(busy) + 1 <= 3 * Threads + 1
  BY <1>1, <1>4 DEF FlightInv, Capacity
<1> QED
  BY <1>5 DEF BatchesInFlight, busy

\* What a scan holds in memory follows the number of its threads, however many
\* files there are and however the threads are scheduled.
THEOREM MemoryFollowsThreads == Spec => []BatchesInFlight
BY FlightInit, FlightNext, FlightBound, TypeCorrect, PTL DEF Spec

-----------------------------------------------------------------------------
(* The inductive invariant of a parallel scan.                             *)

\* Of a channel c and what is delivered, d.  The k-th message holds rows of f.
Carries(c, k, f) == c[k].tag = "ok" /\ c[k].rows.file = f

\* The query, or a message before the k-th, ends with row n of file f.
Reaches(c, d, f, k, n) ==
  \/ n = d[f]
  \/ \E j \in DOMAIN c : j < k /\ Carries(c, j, f) /\ c[j].rows.hi = n

\* Rows from lo on continue what is ahead of position k: no gap, no repeat.
Follows(c, d, f, k, lo) ==
  /\ Reaches(c, d, f, k, lo - 1)
  /\ d[f] < lo
  /\ \A j \in DOMAIN c : j < k /\ Carries(c, j, f) => c[j].rows.hi < lo

\* Where a thread has a batch of its file in hand.
Filling == {"rows", "sendFull", "sendLast"}

\* A message is a batch that continues its file, or the error of a file that
\* has one.
MessageInv ==
  \A k \in DOMAIN chan :
    /\ chan[k].tag = "ok" =>
         /\ chan[k].rows.hi <= Last(chan[k].rows.file)
         /\ chan[k].rows.file < next
         /\ Follows(chan, delivered, chan[k].rows.file, k, chan[k].rows.lo)
    /\ chan[k].tag = "err" => End(chan[k].file) # "ok"

\* The batch in hand continues what the thread has sent of its file; a thread
\* about to send the last batch, or an error, has found the file to end that way.
BatchInv(w) ==
  /\ pc[w] \in Filling =>
       /\ run[w].file = cur[w]
       /\ run[w].lo <= run[w].hi + 1
       /\ run[w].hi <= Last(cur[w])
       /\ Follows(chan, delivered, cur[w], Len(chan) + 1, run[w].lo)
  /\ pc[w] = "sendLast" => run[w].hi = Last(cur[w]) /\ End(cur[w]) = "ok"
  /\ pc[w] = "sendErr" => End(cur[w]) # "ok"

\* Nothing of a file exists before its thread opened it.
Untouched(f) ==
  /\ delivered[f] = 0
  /\ \A k \in DOMAIN chan : ~Carries(chan, k, f)

UntouchedInv ==
  /\ \A f \in Files : f >= next => Untouched(f)
  /\ \A w \in Workers : pc[w] = "open" => Untouched(cur[w])

\* A claimed file is in the hands of a thread, wholly handed over, or has its
\* error in the channel.
Accounted(f) ==
  \/ \E w \in Workers : pc[w] \in Working /\ cur[w] = f
  \/ End(f) = "ok" /\ Reaches(chan, delivered, f, Len(chan) + 1, Last(f))
  \/ \E k \in DOMAIN chan : chan[k].tag = "err"

\* A thread leaves only when the files are used up or an error is on its way.
GoneInv ==
  \A w \in Workers :
    pc[w] = "gone" => next > NFiles \/ \E k \in DOMAIN chan : chan[k].tag = "err"

FlowInv ==
  /\ MessageInv
  /\ \A w \in Workers : BatchInv(w)
  /\ UntouchedInv
  /\ \A f \in Files : f < next => Accounted(f)
  /\ GoneInv

-----------------------------------------------------------------------------
(* The inductive invariant of a sequential scan.                           *)

\* Of rows in hand b and what is delivered, d.  File f is among the rows in hand.
InBatch(b, f) == \E i \in DOMAIN b : b[i].file = f

\* File f is read up to row n: the query has them all, or the rows in hand end
\* with it.
ReadUpTo(b, d, f, n) ==
  \/ d[f] = n /\ ~InBatch(b, f)
  \/ \E i \in DOMAIN b : b[i].file = f /\ b[i].hi = n

\* The rows in hand name the files in order, each once, and continue them.
HandInv ==
  /\ \A i, j \in DOMAIN batch : i < j => batch[i].file < batch[j].file
  /\ \A i \in DOMAIN batch :
       /\ batch[i].lo = delivered[batch[i].file] + 1
       /\ batch[i].lo <= batch[i].hi
       /\ batch[i].hi <= Last(batch[i].file)
       /\ batch[i].file < idx \/ (batch[i].file = idx /\ open)

\* Files before the cursor are read to their end, the open one up to got, the
\* rest not at all.
CursorInv ==
  /\ idx <= NFiles + 1
  /\ \A f \in Files : f < idx => End(f) = "ok" /\ ReadUpTo(batch, delivered, f, Last(f))
  /\ open => got <= Last(idx) /\ ReadUpTo(batch, delivered, idx, got)
  /\ \A f \in Files : f > idx \/ (f = idx /\ ~open) => delivered[f] = 0

-----------------------------------------------------------------------------
(* The invariant.                                                          *)

\* Threads and messages belong to a parallel scan, which has a first thread.
ModeInv ==
  /\ scan # "parallel" =>
       next = 1 /\ chan = <<>> /\ \A w \in Workers : pc[w] = "unborn"
  /\ scan = "pending" =>
       /\ idx = 1 /\ ~open /\ batch = <<>>
       /\ \A f \in Files : delivered[f] = 0
  /\ scan = "parallel" => pc[1] # "unborn"

RunInv ==
  query = "running" =>
    /\ connected
    /\ ModeInv
    /\ scan = "sequential" => HandInv /\ CursorInv
    /\ scan = "parallel" => FlowInv

IInv == TypeOK /\ ClaimInv /\ RoomInv /\ RunInv

-----------------------------------------------------------------------------
(* How the order of the rows survives the steps of a parallel scan.        *)

\* The batch of a message is an interval of the rows of one file.
LEMMA OkMessage ==
  ASSUME NEW c \in Seq(Messages), NEW k \in DOMAIN c, c[k].tag = "ok"
  PROVE  /\ c[k].rows \in Interval
         /\ c[k].rows.file \in Files
         /\ c[k].rows.lo \in Nat /\ c[k].rows.hi \in Nat
BY DEF Messages, Interval

\* A new message is behind everything that is ahead of the others.
LEMMA SendBehind ==
  ASSUME NEW c \in Seq(Messages), NEW m \in Messages, NEW d, NEW f,
         NEW k \in Int, k <= Len(c) + 1, NEW n
  PROVE  /\ Reaches(Append(c, m), d, f, k, n) <=> Reaches(c, d, f, k, n)
         /\ Follows(Append(c, m), d, f, k, n) <=> Follows(c, d, f, k, n)
<1> DEFINE s == Append(c, m)
<1>1. /\ \A j \in DOMAIN s : j < k => j \in DOMAIN c /\ s[j] = c[j]
      /\ \A j \in DOMAIN c : j \in DOMAIN s /\ s[j] = c[j]
  OBVIOUS
<1> HIDE DEF s
<1>2. \A i : Reaches(s, d, f, k, i) <=> Reaches(c, d, f, k, i)
  BY <1>1 DEF Reaches, Carries
<1>3. Follows(s, d, f, k, n) <=> Follows(c, d, f, k, n)
  BY <1>1, <1>2 DEF Follows, Carries
<1> QED
  BY <1>2, <1>3 DEF s

\* A file the new message does not carry is continued at the end as before.
LEMMA SendOthers ==
  ASSUME NEW c \in Seq(Messages), NEW m \in Messages, NEW d, NEW f, NEW n,
         ~(m.tag = "ok" /\ m.rows.file = f)
  PROVE  /\ Reaches(c, d, f, Len(c) + 1, n) =>
              Reaches(Append(c, m), d, f, Len(Append(c, m)) + 1, n)
         /\ Follows(c, d, f, Len(c) + 1, n) =>
              Follows(Append(c, m), d, f, Len(Append(c, m)) + 1, n)
<1> DEFINE s == Append(c, m)
<1>1. /\ Len(s) = Len(c) + 1 /\ Len(c) \in Nat /\ s[Len(c) + 1] = m
      /\ DOMAIN s = 1 .. Len(c) + 1
      /\ DOMAIN c = 1 .. Len(c)
      /\ \A j \in DOMAIN c : s[j] = c[j]
  OBVIOUS
<1> HIDE DEF s
<1>2. \A i : Reaches(c, d, f, Len(c) + 1, i) => Reaches(s, d, f, Len(s) + 1, i)
  BY <1>1 DEF Reaches, Carries
<1>3. Follows(c, d, f, Len(c) + 1, n) => Follows(s, d, f, Len(s) + 1, n)
  BY <1>1, <1>2 DEF Follows, Carries
<1> QED
  BY <1>2, <1>3 DEF s

\* Once a batch is sent, the row after it continues its file.
LEMMA SendOwn ==
  ASSUME NEW c \in Seq(Messages), NEW r \in Interval, NEW d \in [Files -> Nat],
         r.lo <= r.hi, Follows(c, d, r.file, Len(c) + 1, r.lo)
  PROVE  /\ Reaches(Append(c, Ok(r)), d, r.file, Len(Append(c, Ok(r))) + 1, r.hi)
         /\ Follows(Append(c, Ok(r)), d, r.file, Len(Append(c, Ok(r))) + 1,
                    r.hi + 1)
<1> DEFINE s == Append(c, Ok(r))
<1>1. /\ Len(s) = Len(c) + 1 /\ Len(c) \in Nat /\ s[Len(c) + 1] = Ok(r)
      /\ DOMAIN s = 1 .. Len(c) + 1
      /\ DOMAIN c = 1 .. Len(c)
      /\ \A j \in DOMAIN c : s[j] = c[j]
  OBVIOUS
<1>2. r.file \in Files /\ r.lo \in Nat /\ r.hi \in Nat /\ d[r.file] \in Nat
  BY DEF Interval
<1>3. \A j \in DOMAIN c : Carries(c, j, r.file) => c[j].rows.hi \in Nat
  BY OkMessage DEF Carries
<1> HIDE DEF s
<1>4. Reaches(s, d, r.file, Len(s) + 1, r.hi)
  BY <1>1 DEF Reaches, Carries, Ok
<1>5. \A j \in DOMAIN s : Carries(s, j, r.file) => s[j].rows.hi < r.hi + 1
  <2> SUFFICES ASSUME NEW j \in DOMAIN s, Carries(s, j, r.file)
               PROVE  s[j].rows.hi < r.hi + 1
    OBVIOUS
  <2>1. CASE j \in DOMAIN c
    <3>1. Carries(c, j, r.file) /\ s[j] = c[j] /\ j < Len(c) + 1
      BY <1>1, <2>1 DEF Carries
    <3>2. c[j].rows.hi < r.lo
      BY <2>1, <3>1 DEF Follows
    <3> QED
      BY <1>2, <1>3, <2>1, <3>1, <3>2
  <2>2. CASE j = Len(c) + 1
    BY <1>1, <1>2, <2>2 DEF Ok
  <2> QED
    BY <1>1, <2>1, <2>2
<1>6. d[r.file] < r.hi + 1
  BY <1>2 DEF Follows
<1>7. Reaches(s, d, r.file, Len(s) + 1, (r.hi + 1) - 1)
  BY <1>2, <1>4
<1> QED
  BY <1>4, <1>5, <1>6, <1>7 DEF s, Follows

\* Handing over the first message moves its rows from the channel to the query.
LEMMA HandOver ==
  ASSUME NEW c \in Seq(Messages), c # <<>>, NEW d \in [Files -> Nat],
         NEW r \in Interval, c[1] = Ok(r), r.lo <= r.hi, d[r.file] < r.lo,
         NEW e, e = [d EXCEPT ![r.file] = r.hi],
         NEW f \in Files, NEW k \in Nat \ {0}, NEW n
  PROVE  /\ n # d[f] \/ f # r.file =>
              (Reaches(c, d, f, k + 1, n) => Reaches(Tail(c), e, f, k, n))
         /\ Follows(c, d, f, k + 1, n) /\ n \in Nat => Follows(Tail(c), e, f, k, n)
<1> DEFINE t == Tail(c)
<1>1. /\ \A j \in DOMAIN t : j + 1 \in DOMAIN c /\ t[j] = c[j + 1] /\ j \in Nat
      /\ \A j \in DOMAIN c : j = 1 \/ (j - 1 \in DOMAIN t /\ t[j - 1] = c[j])
      /\ 1 \in DOMAIN c /\ DOMAIN c \subseteq Nat
  OBVIOUS
<1>2. r.file \in Files /\ r.lo \in Nat /\ r.hi \in Nat /\ d[r.file] \in Nat
      /\ d[f] \in Nat
  BY DEF Interval
<1>3. e[r.file] = r.hi /\ (f # r.file => e[f] = d[f])
  BY <1>2
<1>4. Carries(c, 1, f) <=> f = r.file
  BY DEF Carries, Ok
<1>5. \A j \in DOMAIN c : Carries(c, j, f) => c[j].rows.hi \in Nat
  BY OkMessage DEF Carries
<1> HIDE DEF t
<1>6. ASSUME NEW i, i # d[f] \/ f # r.file, Reaches(c, d, f, k + 1, i)
      PROVE  Reaches(t, e, f, k, i)
  <2>1. CASE i = d[f]
    BY <1>3, <1>6, <2>1 DEF Reaches
  <2>2. ASSUME NEW j \in DOMAIN c, j < k + 1, Carries(c, j, f), c[j].rows.hi = i
        PROVE  Reaches(t, e, f, k, i)
    <3>1. CASE j = 1
      BY <1>3, <1>4, <2>2, <3>1 DEF Reaches, Ok
    <3>2. CASE j # 1
      <4>1. j - 1 \in DOMAIN t /\ t[j - 1] = c[j] /\ j - 1 < k
        BY <1>1, <2>2, <3>2
      <4> QED
        BY <2>2, <4>1 DEF Reaches, Carries
    <3> QED
      BY <3>1, <3>2
  <2> QED
    BY <1>6, <2>1, <2>2 DEF Reaches
<1>7. ASSUME Follows(c, d, f, k + 1, n), n \in Nat
      PROVE  Follows(t, e, f, k, n)
  <2>1. f = r.file => r.hi < n
    BY <1>1, <1>4, <1>7 DEF Follows, Ok
  <2>2. e[f] < n
    BY <1>3, <1>7, <2>1 DEF Follows
  <2>3. Reaches(t, e, f, k, n - 1)
    <3>1. n - 1 # d[f] \/ f # r.file
      BY <1>2, <1>7, <2>1
    <3>2. Reaches(c, d, f, k + 1, n - 1)
      BY <1>7 DEF Follows
    <3> QED
      BY <1>6, <3>1, <3>2
  <2>4. \A j \in DOMAIN t : j < k /\ Carries(t, j, f) => t[j].rows.hi < n
    BY <1>1, <1>7 DEF Follows, Carries
  <2> QED
    BY <2>2, <2>3, <2>4 DEF Follows
<1> QED
  BY <1>6, <1>7 DEF t

-----------------------------------------------------------------------------
(* A parallel scan keeps its invariant.                                    *)

\* A step of thread w, seen from the other threads.
OnlyMoves(w) ==
  /\ UNCHANGED <<corpus, delivered>>
  /\ \A v \in Workers :
       v # w => pc'[v] = pc[v] /\ cur'[v] = cur[v] /\ run'[v] = run[v]

\* A thread that sends nothing and claims nothing.
LEMMA FlowQuiet ==
  ASSUME TypeOK, FlowInv, NEW w \in Workers, OnlyMoves(w),
         UNCHANGED <<next, cur, chan>>,
         BatchInv(w)',
         pc'[w] \notin {"open", "gone"},
         pc[w] \in Working,
         \/ pc'[w] \in Working
         \/ End(cur[w]) = "ok"
            /\ Reaches(chan, delivered, cur[w], Len(chan) + 1, Last(cur[w]))
  PROVE  FlowInv'
<1> USE DEF OnlyMoves
<1>1. Workers' = Workers /\ Files' = Files
  BY DEF Workers, Files
<1>2. \A f : Last(f)' = Last(f) /\ End(f)' = End(f)
  BY DEF Last, End
<1>3. MessageInv'
  BY <1>2 DEF FlowInv, MessageInv
<1>4. ASSUME NEW v \in Workers
      PROVE  BatchInv(v)'
  <2>1. CASE v = w
    BY <2>1
  <2>2. CASE v # w
    BY <1>2, <2>2 DEF FlowInv, BatchInv
  <2> QED
    BY <2>1, <2>2
<1>5. UntouchedInv'
  BY <1>1 DEF FlowInv, UntouchedInv, Untouched
<1>6. ASSUME NEW f \in Files, f < next
      PROVE  Accounted(f)'
  <2>1. Accounted(f)
    BY <1>6 DEF FlowInv
  <2>2. CASE f = cur[w]
    BY <1>1, <1>2, <2>2 DEF Accounted
  <2>3. CASE f # cur[w]
    BY <1>1, <1>2, <2>1, <2>3 DEF Accounted
  <2> QED
    BY <2>2, <2>3
<1>7. GoneInv'
  BY <1>1 DEF FlowInv, GoneInv
<1> QED
  BY <1>1, <1>3, <1>4, <1>5, <1>6, <1>7 DEF FlowInv

\* A thread that claims a file finds it untouched.
LEMMA FlowClaim ==
  ASSUME TypeOK, FlowInv, NEW w \in Workers, OnlyMoves(w), Claim(w)
  PROVE  FlowInv'
<1> USE DEF OnlyMoves
<1>1. Workers' = Workers /\ Files' = Files
  BY DEF Workers, Files
<1>2. \A f : Last(f)' = Last(f) /\ End(f)' = End(f)
  BY DEF Last, End
<1>3. next \in Nat \ {0} /\ next' = next + 1 /\ UNCHANGED <<run, chan>>
      /\ pc[w] = "claim" /\ chan \in Seq(Messages)
      /\ NFiles \in Nat
  BY ScanAssumption DEF TypeOK, ParallelType, Claim, ScanAssumption
<1>4. \/ /\ next \in Files /\ ~(next > NFiles) /\ pc'[w] = "open" /\ cur'[w] = next
      \/ /\ next > NFiles /\ pc'[w] = "gone" /\ cur'[w] = cur[w]
  BY <1>3 DEF Claim, Goto, Files, TypeOK, ParallelType
<1>5. MessageInv'
  <2>1. \A k \in DOMAIN chan : chan[k].tag = "ok" => chan[k].rows.file \in Nat
    BY <1>3, OkMessage DEF Files
  <2> QED
    BY <1>2, <1>3, <2>1 DEF FlowInv, MessageInv
<1>6. ASSUME NEW v \in Workers
      PROVE  BatchInv(v)'
  <2>1. CASE v = w
    BY <1>4, <2>1 DEF BatchInv, Filling
  <2>2. CASE v # w
    BY <1>2, <1>3, <2>2 DEF FlowInv, BatchInv
  <2> QED
    BY <2>1, <2>2
<1>7. UntouchedInv'
  <2>1. \A f \in Files : f >= next => Untouched(f)'
    BY <1>3 DEF FlowInv, UntouchedInv, Untouched
  <2>2. \A f \in Files : f >= next' => f >= next
    BY <1>3 DEF Files
  <2>3. ASSUME NEW v \in Workers, pc'[v] = "open"
        PROVE  \/ Untouched(cur[v])' /\ cur'[v] = cur[v]
               \/ v = w
    BY <1>3, <2>3 DEF FlowInv, UntouchedInv, Untouched
  <2>4. pc'[w] = "open" => cur'[w] \in Files /\ cur'[w] >= next
    BY <1>3, <1>4
  <2> QED
    BY <1>1, <2>1, <2>2, <2>3, <2>4 DEF UntouchedInv, Untouched
<1>8. ASSUME NEW f \in Files, f < next'
      PROVE  Accounted(f)'
  <2>1. CASE f = next
    <3>1. pc'[w] \in Working /\ cur'[w] = f
      BY <1>3, <1>4, <2>1 DEF Working, Files
    <3> QED
      BY <1>1, <3>1 DEF Accounted
  <2>2. CASE f # next
    <3>1. Accounted(f)
      BY <1>3, <1>8, <2>2 DEF FlowInv, Files
    <3>2. pc[w] \notin Working
      BY <1>3 DEF Working
    <3> QED
      BY <1>1, <1>2, <1>3, <3>1, <3>2 DEF Accounted
  <2> QED
    BY <2>1, <2>2
<1>9. GoneInv'
  BY <1>1, <1>3, <1>4 DEF FlowInv, GoneInv
<1> QED
  BY <1>1, <1>5, <1>6, <1>7, <1>8, <1>9 DEF FlowInv

\* A thread that puts message m into the channel.
LEMMA FlowSend ==
  ASSUME TypeOK, ClaimInv, FlowInv, NEW w \in Workers, OnlyMoves(w),
         UNCHANGED <<next, cur>>,
         NEW m \in Messages, chan' = Append(chan, m), pc[w] \in Working,
         \/ m.tag = "err" /\ End(m.file) # "ok"
         \/ m = Ok(run[w]) /\ pc[w] \in {"sendFull", "sendLast"},
         BatchInv(w)',
         pc'[w] # "open",
         pc'[w] = "gone" => m.tag = "err",
         \/ pc'[w] \in Working
         \/ m.tag = "err"
         \/ End(cur[w]) = "ok"
            /\ Reaches(chan', delivered, cur[w], Len(chan') + 1, Last(cur[w]))
  PROVE  FlowInv'
<1> USE DEF OnlyMoves
<1>1. Workers' = Workers /\ Files' = Files
  BY DEF Workers, Files
<1>2. \A f : Last(f)' = Last(f) /\ End(f)' = End(f)
  BY DEF Last, End
<1>3. chan \in Seq(Messages) /\ run[w] \in Interval /\ cur \in [Workers -> Files]
      /\ delivered \in [Files -> Nat] /\ next \in Nat
  BY DEF TypeOK, ParallelType, QueryType
<1>4. /\ Len(chan') = Len(chan) + 1 /\ Len(chan) \in Nat
      /\ DOMAIN chan = 1 .. Len(chan) /\ DOMAIN chan' = 1 .. Len(chan) + 1
      /\ \A k \in DOMAIN chan : chan'[k] = chan[k]
      /\ chan'[Len(chan) + 1] = m
  BY <1>3
<1>5. m.tag = "ok" =>
        /\ m.rows = run[w] /\ run[w].file = cur[w]
        /\ run[w].hi <= Last(cur[w]) /\ cur[w] < next
        /\ Follows(chan, delivered, cur[w], Len(chan) + 1, run[w].lo)
  BY DEF Ok, FlowInv, BatchInv, Filling, ClaimInv
<1>6. MessageInv'
  <2> SUFFICES ASSUME NEW k \in DOMAIN chan'
               PROVE  /\ chan'[k].tag = "ok" =>
                           /\ chan'[k].rows.hi <= Last(chan'[k].rows.file)
                           /\ chan'[k].rows.file < next
                           /\ Follows(chan', delivered, chan'[k].rows.file, k,
                                      chan'[k].rows.lo)
                      /\ chan'[k].tag = "err" => End(chan'[k].file) # "ok"
    BY <1>2 DEF MessageInv
  <2>1. CASE k \in DOMAIN chan
    <3>1. k \in Int /\ k <= Len(chan) + 1
      BY <1>4, <2>1
    <3>2. \A f, n : Follows(chan', delivered, f, k, n)
                     <=> Follows(chan, delivered, f, k, n)
      BY <1>3, <3>1, SendBehind
    <3> QED
      BY <1>4, <2>1, <3>2 DEF FlowInv, MessageInv
  <2>2. CASE k = Len(chan) + 1
    <3>1. \A f, n : Follows(chan', delivered, f, k, n)
                     <=> Follows(chan, delivered, f, k, n)
      BY <1>3, <1>4, <2>2, SendBehind
    <3>2. m.tag = "err" => End(m.file) # "ok"
      BY DEF Ok
    <3> QED
      BY <1>4, <1>5, <2>2, <3>1, <3>2
  <2> QED
    BY <1>4, <2>1, <2>2
<1>7. ASSUME NEW f \in Files, m.tag = "ok" => f # cur[w], NEW n
      PROVE  /\ Reaches(chan, delivered, f, Len(chan) + 1, n) =>
                  Reaches(chan', delivered, f, Len(chan') + 1, n)
             /\ Follows(chan, delivered, f, Len(chan) + 1, n) =>
                  Follows(chan', delivered, f, Len(chan') + 1, n)
  <2>1. ~(m.tag = "ok" /\ m.rows.file = f)
    BY <1>5, <1>7
  <2> QED
    BY <1>3, <2>1, SendOthers
<1>8. ASSUME NEW v \in Workers
      PROVE  BatchInv(v)'
  <2>1. CASE v = w
    BY <2>1
  <2>2. CASE v # w
    <3>1. pc[v] \in Filling => cur[v] # cur[w] /\ cur[v] \in Files
      BY <1>3, <2>2 DEF ClaimInv, OneReaderPerFile, Filling, Working
    <3>2. pc[v] \in Filling =>
            Follows(chan', delivered, cur[v], Len(chan') + 1, run[v].lo)
      BY <1>7, <3>1 DEF FlowInv, BatchInv
    <3> QED
      BY <1>2, <2>2, <3>2 DEF FlowInv, BatchInv
  <2> QED
    BY <2>1, <2>2
<1>9. UntouchedInv'
  <2>1. ASSUME NEW f \in Files, Untouched(f), m.tag = "ok" => f # cur[w]
        PROVE  Untouched(f)'
    BY <1>4, <1>5, <2>1 DEF Untouched, Carries
  <2>2. ASSUME NEW f \in Files, f >= next
        PROVE  Untouched(f)'
    <3>1. m.tag = "ok" => f # cur[w]
      BY <1>3, <1>5, <2>2 DEF Files
    <3> QED
      BY <2>1, <2>2, <3>1 DEF FlowInv, UntouchedInv
  <2>3. \A v \in Workers : pc'[v] = "open" => Untouched(cur[v])'
    BY <1>3, <2>1 DEF FlowInv, UntouchedInv, ClaimInv, OneReaderPerFile, Working
  <2> QED
    BY <1>1, <2>2, <2>3 DEF UntouchedInv, Untouched
<1>10. ASSUME NEW f \in Files, f < next
       PROVE  Accounted(f)'
  <2>1. Accounted(f)
    BY <1>10 DEF FlowInv
  <2>2. m.tag = "err" => \E k \in DOMAIN chan' : chan'[k].tag = "err"
    BY <1>4
  <2>3. CASE f = cur[w]
    BY <1>1, <1>2, <2>2, <2>3 DEF Accounted
  <2>4. CASE f # cur[w]
    BY <1>1, <1>2, <1>4, <1>7, <2>1, <2>4 DEF Accounted
  <2> QED
    BY <2>3, <2>4
<1>11. GoneInv'
  BY <1>1, <1>4 DEF FlowInv, GoneInv
<1> QED
  BY <1>1, <1>6, <1>8, <1>9, <1>10, <1>11 DEF FlowInv

\* A thread that works leaves every other file where it is.
LEMMA FlowWork ==
  ASSUME TypeOK, ClaimInv, RoomInv, FlowInv, connected, NEW w \in Workers, Work(w),
         UNCHANGED <<corpus, delivered>>
  PROVE  FlowInv'
<1>1. /\ pc \in [Workers -> Where] /\ cur \in [Workers -> Files]
      /\ run \in [Workers -> Interval] /\ chan \in Seq(Messages)
      /\ corpus \in [Files -> FileKinds] /\ delivered \in [Files -> Nat]
  BY DEF TypeOK, ParallelType, QueryType
<1>2. OnlyMoves(w)
  BY <1>1
  DEF OnlyMoves, Work, Claim, Open, NextRow, Drained, RowFails, SendFull,
      SendLast, SendErr, Goto
<1>3. \A f : Last(f)' = Last(f) /\ End(f)' = End(f)
  BY DEF Last, End
<1>4. cur[w] \in Files /\ run[w] \in Interval
      /\ run[w].lo \in Nat /\ run[w].hi \in Nat /\ Last(cur[w]) \in Nat
  BY <1>1, ScanAssumption DEF Interval, Last, ScanAssumption
<1>5. BatchInv(w)
  BY DEF FlowInv
<1>6. CASE Claim(w)
  BY <1>2, <1>6, FlowClaim
<1>7. CASE Open(w)
  <2>1. pc[w] = "open" /\ UNCHANGED <<next, cur, chan>>
    BY <1>7 DEF Open
  <2>2. CASE End(cur[w]) = "refused"
    <3>1. pc'[w] = "sendErr"
      BY <1>1, <1>7, <2>2 DEF Open, Goto
    <3>2. BatchInv(w)'
      BY <1>3, <2>1, <2>2, <3>1 DEF BatchInv, Filling
    <3> QED
      BY <1>2, <2>1, <3>1, <3>2, FlowQuiet DEF Working
  <2>3. CASE End(cur[w]) # "refused"
    <3>1. pc'[w] = "rows" /\ run'[w] = Rows(cur[w], 1, 0)
      BY <1>1, <1>7, <2>3 DEF Open, Goto
    <3>2. Untouched(cur[w])
      BY <2>1 DEF FlowInv, UntouchedInv
    <3>3. Follows(chan, delivered, cur[w], Len(chan) + 1, 1)
      BY <1>1, <3>2 DEF Untouched, Follows, Reaches
    <3>4. BatchInv(w)'
      BY <1>3, <1>4, <2>1, <3>1, <3>3 DEF BatchInv, Filling, Rows
    <3> QED
      BY <1>2, <2>1, <3>1, <3>4, FlowQuiet DEF Working
  <2> QED
    BY <2>2, <2>3
<1>8. CASE NextRow(w)
  <2>1. pc[w] = "rows" /\ UNCHANGED <<next, cur, chan>> /\ pc'[w] \in {"rows", "sendFull"}
        /\ run'[w] = Rows(cur[w], run[w].lo, run[w].hi + 1)
        /\ run[w].hi < Last(cur[w])
    BY <1>1, <1>8 DEF NextRow, Goto
  <2>2. BatchInv(w)'
    BY <1>3, <1>4, <1>5, <2>1 DEF BatchInv, Filling, Rows
  <2> QED
    BY <1>2, <2>1, <2>2, FlowQuiet DEF Working
<1>9. CASE Drained(w)
  <2>1. pc[w] = "rows" /\ UNCHANGED <<next, cur, run, chan>>
        /\ pc'[w] = (IF Size(run[w]) = 0 THEN "claim" ELSE "sendLast")
        /\ run[w].hi = Last(cur[w]) /\ End(cur[w]) = "ok"
    BY <1>1, <1>9 DEF Drained, Goto
  <2>2. Follows(chan, delivered, cur[w], Len(chan) + 1, run[w].lo)
    BY <1>5, <2>1 DEF BatchInv, Filling
  <2>3. BatchInv(w)'
    BY <1>3, <1>5, <2>1, <2>2 DEF BatchInv, Filling
  <2>4. CASE Size(run[w]) = 0
    <3>1. run[w].lo - 1 = Last(cur[w])
      BY <1>4, <2>1, <2>4 DEF Size
    <3>2. Reaches(chan, delivered, cur[w], Len(chan) + 1, Last(cur[w]))
      BY <2>2, <3>1 DEF Follows
    <3> QED
      BY <1>2, <2>1, <2>3, <2>4, <3>2, FlowQuiet DEF Working
  <2>5. CASE Size(run[w]) # 0
    BY <1>2, <2>1, <2>3, <2>5, FlowQuiet DEF Working
  <2> QED
    BY <2>4, <2>5
<1>10. CASE RowFails(w)
  <2>1. pc[w] = "rows" /\ UNCHANGED <<next, cur, run, chan>>
        /\ pc'[w] = "sendErr" /\ End(cur[w]) # "ok"
    BY <1>1, <1>10 DEF RowFails, Goto
  <2>2. BatchInv(w)'
    BY <1>3, <2>1 DEF BatchInv, Filling
  <2> QED
    BY <1>2, <2>1, <2>2, FlowQuiet DEF Working
<1>11. ASSUME pc[w] \in {"sendFull", "sendLast"}
       PROVE  /\ Ok(run[w]) \in Messages
              /\ run[w].lo <= run[w].hi
              /\ run[w].file = cur[w]
              /\ run[w].hi <= Last(cur[w])
              /\ LET s == Append(chan, Ok(run[w]))
                 IN  /\ Reaches(s, delivered, cur[w], Len(s) + 1, run[w].hi)
                     /\ Follows(s, delivered, cur[w], Len(s) + 1, run[w].hi + 1)
  <2>1. Ok(run[w]) \in Messages
    BY <1>4 DEF Ok, Messages
  <2>2. run[w].lo <= run[w].hi
    BY <1>4, <1>11, ScanAssumption DEF RoomInv, Size, ScanAssumption
  <2>3. run[w].file = cur[w] /\ run[w].hi <= Last(cur[w])
        /\ Follows(chan, delivered, cur[w], Len(chan) + 1, run[w].lo)
    BY <1>5, <1>11 DEF BatchInv, Filling
  <2> QED
    BY <1>1, <1>4, <2>1, <2>2, <2>3, SendOwn
<1>12. CASE SendFull(w)
  <2>1. pc[w] = "sendFull" /\ UNCHANGED <<next, cur>> /\ pc'[w] = "rows"
        /\ chan' = Append(chan, Ok(run[w]))
        /\ run'[w] = Rows(cur[w], run[w].hi + 1, run[w].hi)
    BY <1>1, <1>12 DEF SendFull, Goto
  <2>2. BatchInv(w)'
    BY <1>3, <1>4, <1>11, <2>1 DEF BatchInv, Filling, Rows
  <2> QED
    BY <1>2, <1>11, <2>1, <2>2, FlowSend DEF Working
<1>13. CASE SendLast(w)
  <2>1. pc[w] = "sendLast" /\ UNCHANGED <<next, cur, run>> /\ pc'[w] = "claim"
        /\ chan' = Append(chan, Ok(run[w]))
    BY <1>1, <1>13 DEF SendLast, Goto
  <2>2. BatchInv(w)'
    BY <2>1 DEF BatchInv, Filling
  <2>3. run[w].hi = Last(cur[w]) /\ End(cur[w]) = "ok"
    BY <1>5, <2>1 DEF BatchInv
  <2>4. Reaches(chan', delivered, cur[w], Len(chan') + 1, Last(cur[w]))
    BY <1>11, <2>1, <2>3
  <2> QED
    BY <1>2, <1>11, <2>1, <2>2, <2>3, <2>4, FlowSend DEF Working
<1>14. CASE SendErr(w)
  <2>1. pc[w] = "sendErr" /\ UNCHANGED <<next, cur, run>> /\ pc'[w] = "gone"
        /\ chan' = Append(chan, Err(cur[w]))
    BY <1>1, <1>14 DEF SendErr, Goto
  <2>2. BatchInv(w)'
    BY <2>1 DEF BatchInv, Filling
  <2>3. Err(cur[w]) \in Messages /\ Err(cur[w]).tag = "err"
        /\ End(Err(cur[w]).file) # "ok"
    BY <1>4, <1>5, <2>1 DEF BatchInv, Err, Messages
  <2> QED
    BY <1>2, <2>1, <2>2, <2>3, FlowSend DEF Working
<1> QED
  BY <1>6, <1>7, <1>8, <1>9, <1>10, <1>12, <1>13, <1>14 DEF Work

\* The first message, when it is a batch.
LEMMA FirstBatch ==
  ASSUME TypeOK, RoomInv, FlowInv, ReceiveBatch
  PROVE  \E r \in Interval :
           /\ chan[1] = Ok(r) /\ chan # <<>> /\ chunk' = <<r>>
           /\ r.lo = delivered[r.file] + 1
           /\ r.lo <= r.hi /\ r.hi <= Last(r.file)
           /\ delivered' = [delivered EXCEPT ![r.file] = r.hi]
           /\ query' = "running"
<1> DEFINE r == chan[1].rows
<1>1. chan \in Seq(Messages) /\ chan # <<>> /\ Head(chan) = chan[1]
      /\ 1 \in DOMAIN chan /\ chan[1].tag = "ok"
      /\ delivered \in [Files -> Nat]
  BY DEF TypeOK, ParallelType, QueryType, ReceiveBatch
<1>2. r \in Interval /\ r.file \in Files /\ r.lo \in Nat /\ r.hi \in Nat
  BY <1>1, OkMessage
<1>3. chan[1] = Ok(r)
  BY <1>1 DEF Ok, Messages
<1>4. r.lo = delivered[r.file] + 1 /\ r.hi <= Last(r.file)
  <2>1. r.hi <= Last(r.file)
        /\ Follows(chan, delivered, r.file, 1, r.lo)
    BY <1>1 DEF FlowInv, MessageInv
  <2>2. ~(\E j \in DOMAIN chan : j < 1)
    BY <1>1
  <2>3. r.lo - 1 = delivered[r.file]
    BY <2>1, <2>2 DEF Follows, Reaches
  <2> QED
    BY <1>1, <1>2, <2>1, <2>3
<1>5. Size(r) \in 1 .. VectorSize
  BY <1>1 DEF RoomInv, BatchFits
<1>6. r.lo <= r.hi /\ Size(r) # 0
  BY <1>2, <1>5, ScanAssumption DEF Size, ScanAssumption
<1>7. chunk' = <<r>> /\ query' = "running"
  BY <1>1, <1>6 DEF ReceiveBatch
<1>8. delivered' = [delivered EXCEPT ![r.file] = r.hi]
  <2>1. delivered' = Contract!After(<<r>>)
    BY <1>7 DEF ReceiveBatch
  <2>2. \A i \in DOMAIN <<r>> : i = 1 /\ <<r>>[i] = r
    OBVIOUS
  <2>3. 1 \in DOMAIN <<r>> /\ <<r>>[1] = r
    OBVIOUS
  <2>4. \A f \in Files :
          (\E i \in DOMAIN <<r>> : <<r>>[i].file = f) <=> f = r.file
    BY <2>2, <2>3
  <2>5. (CHOOSE i \in DOMAIN <<r>> : <<r>>[i].file = r.file) = 1
    BY <2>2, <2>3
  <2>6. delivered' = [f \in Files |-> IF f = r.file THEN r.hi ELSE delivered[f]]
    BY <2>1, <2>3, <2>4, <2>5 DEF Contract!After, Contract!Files, Files
  <2> QED
    BY <1>1, <2>6
<1> QED
  BY <1>1, <1>2, <1>3, <1>4, <1>6, <1>7, <1>8

\* The first message of the channel continues what the query has.
LEMMA FlowReceive ==
  ASSUME TypeOK, ClaimInv, RoomInv, FlowInv, ReceiveBatch
  PROVE  FlowInv'
<1>1. PICK r \in Interval :
        /\ chan[1] = Ok(r) /\ chan # <<>>
        /\ r.lo = delivered[r.file] + 1 /\ r.lo <= r.hi /\ r.hi <= Last(r.file)
        /\ delivered' = [delivered EXCEPT ![r.file] = r.hi]
  BY FirstBatch
<1>2. /\ UNCHANGED <<corpus, next, pc, cur, run>> /\ chan' = Tail(chan)
      /\ chan \in Seq(Messages) /\ delivered \in [Files -> Nat]
      /\ cur \in [Workers -> Files] /\ run \in [Workers -> Interval]
      /\ next \in Nat /\ chan[1].tag = "ok"
  <2>1. UNCHANGED <<corpus, next, pc, cur, run>> /\ chan' = Tail(chan)
    BY DEF ReceiveBatch, inputs
  <2>2. /\ chan \in Seq(Messages) /\ delivered \in [Files -> Nat]
        /\ cur \in [Workers -> Files] /\ run \in [Workers -> Interval]
        /\ next \in Nat
    BY DEF TypeOK, ParallelType, QueryType
  <2>3. chan[1].tag = "ok"
    BY <1>1 DEF Ok
  <2> QED
    BY <2>1, <2>2, <2>3
<1>3. Workers' = Workers /\ Files' = Files
      /\ \A f : Last(f)' = Last(f) /\ End(f)' = End(f)
  BY <1>2 DEF Workers, Files, Last, End
<1>4. r.file \in Files /\ r.lo \in Nat /\ r.hi \in Nat /\ delivered[r.file] < r.lo
      /\ r.file < next /\ Last(r.file) \in Nat
  <2>1. 1 \in DOMAIN chan
    BY <1>1, <1>2
  <2>2. r.file < next
    BY <1>1, <2>1 DEF FlowInv, MessageInv, Ok
  <2> QED
    BY <1>1, <1>2, <2>2, ScanAssumption
    DEF Interval, Last, TypeOK, QueryType, ScanAssumption
<1>5. /\ Len(chan) \in Nat \ {0} /\ Len(chan') + 1 = Len(chan) /\ Len(chan') \in Nat
      /\ DOMAIN chan = 1 .. Len(chan)
      /\ \A k \in DOMAIN chan' :
           k \in Nat \ {0} /\ k + 1 \in DOMAIN chan /\ chan'[k] = chan[k + 1]
      /\ \A k \in DOMAIN chan : k = 1 \/ (k - 1 \in DOMAIN chan' /\ chan'[k - 1] = chan[k])
  BY <1>1, <1>2
<1>6. ASSUME NEW f \in Files, NEW k \in Nat \ {0}, NEW n \in Nat,
             Follows(chan, delivered, f, k + 1, n)
      PROVE  Follows(chan', delivered', f, k, n)
  BY <1>1, <1>2, <1>4, <1>6, HandOver
<1>7. ASSUME NEW f \in Files, Reaches(chan, delivered, f, Len(chan) + 1, Last(f))
      PROVE  Reaches(chan', delivered', f, Len(chan') + 1, Last(f))
  <2>1. Last(f) # delivered[f] \/ f # r.file
    BY <1>1, <1>2, <1>4
  <2>2. Len(chan') + 1 \in Nat \ {0} /\ Len(chan) + 1 = (Len(chan') + 1) + 1
    BY <1>5
  <2>3. Reaches(chan, delivered, f, (Len(chan') + 1) + 1, Last(f))
    BY <1>7, <2>2
  <2> QED
    BY <1>1, <1>2, <1>4, <2>1, <2>2, <2>3, HandOver
<1>8. MessageInv'
  <2> SUFFICES ASSUME NEW k \in DOMAIN chan'
               PROVE  /\ chan'[k].tag = "ok" =>
                           /\ chan'[k].rows.hi <= Last(chan'[k].rows.file)
                           /\ chan'[k].rows.file < next
                           /\ Follows(chan', delivered', chan'[k].rows.file, k,
                                      chan'[k].rows.lo)
                      /\ chan'[k].tag = "err" => End(chan'[k].file) # "ok"
    BY <1>2, <1>3 DEF MessageInv
  <2>1. k \in Nat \ {0} /\ k + 1 \in DOMAIN chan /\ chan'[k] = chan[k + 1]
    BY <1>5
  <2>2. chan[k + 1].tag = "ok" =>
          chan[k + 1].rows.file \in Files /\ chan[k + 1].rows.lo \in Nat
    BY <1>2, <2>1, OkMessage
  <2> QED
    BY <1>6, <2>1, <2>2 DEF FlowInv, MessageInv
<1>9. ASSUME NEW w \in Workers
      PROVE  BatchInv(w)'
  <2>1. cur[w] \in Files /\ run[w].lo \in Nat
    BY <1>2 DEF Interval
  <2>2. Len(chan') + 1 \in Nat \ {0} /\ Len(chan) + 1 = (Len(chan') + 1) + 1
    BY <1>5
  <2>3. pc[w] \in Filling =>
          Follows(chan', delivered', cur[w], Len(chan') + 1, run[w].lo)
    BY <1>6, <2>1, <2>2 DEF FlowInv, BatchInv
  <2> QED
    BY <1>2, <1>3, <2>3 DEF FlowInv, BatchInv
<1>10. UntouchedInv'
  <2>1. 1 \in DOMAIN chan /\ Carries(chan, 1, r.file)
    BY <1>1, <1>5 DEF Carries, Ok
  <2>2. ASSUME NEW f \in Files, Untouched(f)
        PROVE  Untouched(f)'
    <3>1. f # r.file
      BY <2>1, <2>2 DEF Untouched
    <3>2. delivered'[f] = 0
      BY <1>1, <1>2, <2>2, <3>1 DEF Untouched
    <3>3. \A k \in DOMAIN chan' : ~Carries(chan', k, f)
      BY <1>5, <2>2 DEF Untouched, Carries
    <3> QED
      BY <3>2, <3>3 DEF Untouched
  <2>3. \A f \in Files : f >= next => Untouched(f)'
    BY <2>2 DEF FlowInv, UntouchedInv
  <2>4. \A w \in Workers : pc[w] = "open" => Untouched(cur[w])'
    BY <1>2, <2>2 DEF FlowInv, UntouchedInv
  <2> QED
    BY <1>2, <1>3, <2>3, <2>4 DEF UntouchedInv, Untouched
<1>11. (\E k \in DOMAIN chan : chan[k].tag = "err") =>
         \E k \in DOMAIN chan' : chan'[k].tag = "err"
  BY <1>2, <1>5
<1>12. ASSUME NEW f \in Files, f < next
       PROVE  Accounted(f)'
  <2>1. Accounted(f)
    BY <1>12 DEF FlowInv
  <2> QED
    BY <1>2, <1>3, <1>7, <1>11, <2>1 DEF Accounted
<1>13. GoneInv'
  BY <1>2, <1>3, <1>11 DEF FlowInv, GoneInv
<1> QED
  BY <1>2, <1>3, <1>8, <1>9, <1>10, <1>12, <1>13 DEF FlowInv

-----------------------------------------------------------------------------
(* A sequential scan keeps its invariant.                                  *)

\* The rows in hand are intervals of files.
LEMMA HandFacts ==
  ASSUME TypeOK
  PROVE  /\ batch \in Seq(Interval) /\ Len(batch) \in Nat
         /\ DOMAIN batch = 1 .. Len(batch)
         /\ \A i \in DOMAIN batch :
              /\ batch[i].file \in Files /\ batch[i].file \in Nat
              /\ batch[i].lo \in Nat /\ batch[i].hi \in Nat
<1>1. batch \in Seq(Interval)
  BY DEF TypeOK, SequentialType
<1>2. \A i \in DOMAIN batch : batch[i] \in Interval
  BY <1>1
<1> QED
  BY <1>1, <1>2 DEF Interval, Files

\* A file that is opened has not been read.
LEMMA HandOpen ==
  ASSUME TypeOK, HandInv, CursorInv, OpenNext
  PROVE  HandInv' /\ CursorInv'
<1>1. /\ UNCHANGED <<corpus, delivered, idx, batch>> /\ open' = TRUE /\ got' = 0
      /\ ~open /\ idx \in Files /\ Files' = Files
  BY ScanAssumption
  DEF OpenNext, inputs, TypeOK, SequentialType, Files, ScanAssumption
<1>2. \A f : Last(f)' = Last(f) /\ End(f)' = End(f)
  BY <1>1 DEF Last, End
<1>3. HandInv'
  BY <1>1, <1>2 DEF HandInv
<1>4. delivered[idx] = 0 /\ ~InBatch(batch, idx) /\ Last(idx) \in Nat
  BY <1>1, ScanAssumption
  DEF HandInv, CursorInv, InBatch, Last, Files, TypeOK, QueryType, ScanAssumption
<1>5. got' <= Last(idx) /\ ReadUpTo(batch, delivered, idx, got')
  BY <1>1, <1>4 DEF ReadUpTo
<1> QED
  BY <1>1, <1>2, <1>3, <1>5 DEF CursorInv

\* A row that is pulled continues the rows in hand.
LEMMA HandPull ==
  ASSUME TypeOK, HandInv, CursorInv, PullRow
  PROVE  HandInv' /\ CursorInv'
<1>1. /\ UNCHANGED <<corpus, delivered, idx, open>> /\ open /\ got' = got + 1
      /\ batch' = Push(batch, idx, got + 1) /\ got < Last(idx)
      /\ idx \in Files /\ idx \in Nat /\ got \in Nat /\ batch \in Seq(Interval)
      /\ Last(idx) \in Nat /\ Files' = Files /\ delivered \in [Files -> Nat]
  BY ScanAssumption
  DEF PullRow, inputs, TypeOK, QueryType, SequentialType, Files, Last,
      ScanAssumption
<1>2. \A f : Last(f)' = Last(f) /\ End(f)' = End(f)
  BY <1>1 DEF Last, End
<1>3. \A i \in DOMAIN batch :
        batch[i].file \in Nat /\ batch[i].lo \in Nat /\ batch[i].hi \in Nat
  BY HandFacts
<1>4. ReadUpTo(batch, delivered, idx, got)
  BY <1>1 DEF CursorInv
<1> DEFINE n == Len(batch)
\* What the pushed row leaves of the intervals before it.
<1>5. \/ /\ ~InBatch(batch, idx) /\ delivered[idx] = got
         /\ DOMAIN batch' = 1 .. n + 1 /\ DOMAIN batch = 1 .. n /\ n \in Nat
         /\ \A i \in 1 .. n : batch'[i] = batch[i]
         /\ batch'[n + 1] = Rows(idx, got + 1, got + 1)
      \/ /\ n \in DOMAIN batch /\ batch[n].file = idx /\ batch[n].hi = got
         /\ DOMAIN batch' = DOMAIN batch /\ DOMAIN batch = 1 .. n /\ n \in Nat
         /\ \A i \in DOMAIN batch : i # n => batch'[i] = batch[i]
         /\ batch'[n] = Rows(idx, batch[n].lo, got + 1)
  <2>1. CASE InBatch(batch, idx)
    <3>1. PICK i \in DOMAIN batch : batch[i].file = idx /\ batch[i].hi = got
      BY <1>4, <2>1 DEF ReadUpTo
    <3>2. n \in DOMAIN batch /\ n \in Nat /\ i <= n /\ DOMAIN batch = 1 .. n
          /\ batch # <<>> /\ i \in Nat
      BY <1>1, <3>1
    <3>3. batch[n].file <= idx
      <4>1. batch[n].file \in Nat
        BY <1>3, <3>2
      <4>2. batch[n].file < idx \/ batch[n].file = idx
        BY <3>2 DEF HandInv
      <4> QED
        BY <1>1, <4>1, <4>2
    <3>4. i = n
      <4> SUFFICES ASSUME i < n
                   PROVE  FALSE
        BY <3>2
      <4>1. batch[i].file < batch[n].file
        BY <3>1, <3>2 DEF HandInv
      <4>2. batch[n].file \in Nat /\ batch[i].file \in Nat
        BY <1>3, <3>1, <3>2
      <4> QED
        BY <3>1, <3>3, <4>1, <4>2
    <3>5. batch' = [batch EXCEPT ![n] = Rows(idx, batch[n].lo, got + 1)]
      BY <1>1, <3>1, <3>2, <3>4 DEF Push
    <3> QED
      BY <3>1, <3>2, <3>4, <3>5
  <2>2. CASE ~InBatch(batch, idx)
    <3>1. delivered[idx] = got
      BY <1>4, <2>2 DEF ReadUpTo, InBatch
    <3>2. batch # <<>> => n \in DOMAIN batch
      BY <1>1
    <3>3. batch' = Append(batch, Rows(idx, got + 1, got + 1))
      BY <1>1, <2>2, <3>2 DEF Push, InBatch
    <3> QED
      BY <1>1, <2>2, <3>1, <3>3
  <2> QED
    BY <2>1, <2>2
<1> HIDE DEF n
<1>6. /\ \A i \in DOMAIN batch :
           batch[i].file # idx => i \in DOMAIN batch' /\ batch'[i] = batch[i]
      /\ \A i \in DOMAIN batch' :
           batch'[i].file # idx => i \in DOMAIN batch /\ batch'[i] = batch[i]
  <2>1. CASE InBatch(batch, idx)
    BY <1>5, <2>1 DEF Rows
  <2>2. CASE ~InBatch(batch, idx)
    <3>1. /\ DOMAIN batch' = 1 .. n + 1 /\ DOMAIN batch = 1 .. n /\ n \in Nat
          /\ \A i \in 1 .. n : batch'[i] = batch[i]
          /\ batch'[n + 1].file = idx
      BY <1>5, <2>2 DEF Rows, InBatch
    <3>2. \A i \in 1 .. n + 1 : i \in 1 .. n \/ i = n + 1
      BY <3>1
    <3> QED
      BY <3>1, <3>2
  <2> QED
    BY <2>1, <2>2
<1>7. HandInv'
  <2>1. ASSUME NEW i \in DOMAIN batch'
        PROVE  /\ batch'[i].lo = delivered[batch'[i].file] + 1
               /\ batch'[i].lo <= batch'[i].hi
               /\ batch'[i].hi <= Last(batch'[i].file)
               /\ batch'[i].file < idx \/ batch'[i].file = idx
    <3>1. CASE batch'[i].file # idx
      <4>1. i \in DOMAIN batch /\ batch'[i] = batch[i]
        BY <1>6, <3>1
      <4> QED
        BY <4>1 DEF HandInv
    <3>2. CASE batch'[i].file = idx
      <4>1. CASE InBatch(batch, idx)
        <5>1. n \in DOMAIN batch /\ batch[n].file = idx /\ n \in Nat
              /\ batch'[n] = Rows(idx, batch[n].lo, got + 1) /\ i \in DOMAIN batch
              /\ batch[n].hi = got /\ \A j \in DOMAIN batch : j \in Nat /\ j <= n
          BY <1>5, <4>1
        <5>2. i # n => batch'[i] = batch[i]
          BY <1>5, <4>1
        <5>3. i = n
          BY <1>1, <3>2, <5>1, <5>2 DEF HandInv
        <5>4. batch[n].lo = delivered[idx] + 1 /\ batch[n].lo <= batch[n].hi
          BY <5>1 DEF HandInv
        <5> QED
          BY <1>1, <1>3, <5>1, <5>3, <5>4 DEF Rows
      <4>2. CASE ~InBatch(batch, idx)
        <5>1. i \notin DOMAIN batch
          BY <1>5, <3>2, <4>2 DEF InBatch
        <5>2. batch'[i] = Rows(idx, got + 1, got + 1) /\ delivered[idx] = got
          BY <1>5, <4>2, <5>1
        <5> QED
          BY <1>1, <5>2 DEF Rows
      <4> QED
        BY <4>1, <4>2
    <3> QED
      BY <3>1, <3>2
  <2>2. ASSUME NEW i \in DOMAIN batch', NEW j \in DOMAIN batch', i < j
        PROVE  batch'[i].file < batch'[j].file
    <3>1. CASE InBatch(batch, idx)
      <4>1. \A k \in DOMAIN batch' : k \in DOMAIN batch /\ batch'[k].file = batch[k].file
        BY <1>5, <3>1 DEF Rows
      <4> QED
        BY <2>2, <4>1 DEF HandInv
    <3>2. CASE ~InBatch(batch, idx)
      <4>1. \A k \in DOMAIN batch : batch[k].file < idx /\ batch'[k] = batch[k]
        BY <1>5, <3>2 DEF InBatch, HandInv
      <4>2. i \in DOMAIN batch /\ (j \in DOMAIN batch \/ batch'[j].file = idx)
        BY <1>5, <2>2, <3>2 DEF Rows
      <4> QED
        BY <2>2, <4>1, <4>2 DEF HandInv
    <3> QED
      BY <3>1, <3>2
  <2> QED
    BY <1>1, <1>2, <2>1, <2>2 DEF HandInv
<1>8. ReadUpTo(batch', delivered', idx, got + 1)
  <2>1. \E i \in DOMAIN batch' : batch'[i].file = idx /\ batch'[i].hi = got + 1
    <3>1. CASE InBatch(batch, idx)
      BY <1>5, <3>1 DEF Rows
    <3>2. CASE ~InBatch(batch, idx)
      BY <1>5, <3>2 DEF Rows
    <3> QED
      BY <3>1, <3>2
  <2> QED
    BY <2>1 DEF ReadUpTo
<1>9. ASSUME NEW f \in Files, f < idx, ReadUpTo(batch, delivered, f, Last(f))
      PROVE  ReadUpTo(batch', delivered', f, Last(f))
  <2>1. f # idx
    BY <1>1, <1>9
  <2> QED
    BY <1>1, <1>6, <1>9, <2>1 DEF ReadUpTo, InBatch
<1>10. got' <= Last(idx)
  BY <1>1
<1> QED
  BY <1>1, <1>2, <1>7, <1>8, <1>9, <1>10 DEF CursorInv

\* A file that ends is read to its last row.
LEMMA HandEnds ==
  ASSUME TypeOK, HandInv, CursorInv, FileEnds
  PROVE  HandInv' /\ CursorInv'
<1>1. /\ UNCHANGED <<corpus, delivered, got, batch>> /\ open /\ ~open'
      /\ idx' = idx + 1 /\ got = Last(idx) /\ End(idx) = "ok"
      /\ idx \in Files /\ idx \in Nat /\ NFiles \in Nat /\ Files' = Files
  BY ScanAssumption
  DEF FileEnds, inputs, TypeOK, SequentialType, Files, ScanAssumption
<1>2. \A f : Last(f)' = Last(f) /\ End(f)' = End(f)
  BY <1>1 DEF Last, End
<1>3. \A i \in DOMAIN batch : batch[i].file \in Nat
  BY HandFacts
<1>4. HandInv'
  BY <1>1, <1>2, <1>3 DEF HandInv
<1>6. ASSUME NEW f \in Files, f < idx'
      PROVE  End(f) = "ok" /\ ReadUpTo(batch, delivered, f, Last(f))
  BY <1>1, <1>6 DEF CursorInv, Files
<1>7. \A f \in Files : f > idx' \/ f = idx' => delivered[f] = 0
  BY <1>1 DEF CursorInv, Files
<1>8. idx' <= NFiles + 1
  BY <1>1 DEF Files
<1>9. ASSUME NEW f \in Files, f < idx'
      PROVE  End(f)' = "ok" /\ ReadUpTo(batch', delivered', f, Last(f))
  BY <1>1, <1>2, <1>6, <1>9
<1> QED
  BY <1>1, <1>2, <1>4, <1>7, <1>8, <1>9 DEF CursorInv

\* What is delivered once the rows in hand are returned.
LEMMA AfterHand ==
  ASSUME TypeOK, HandInv
  PROVE  \A f \in Files :
           /\ ~InBatch(batch, f) => Contract!After(batch)[f] = delivered[f]
           /\ \A i \in DOMAIN batch :
                batch[i].file = f => Contract!After(batch)[f] = batch[i].hi
<1>2. \A i, j \in DOMAIN batch : batch[i].file = batch[j].file => i = j
  BY HandFacts DEF HandInv
<1> SUFFICES ASSUME NEW f \in Files
             PROVE  /\ ~InBatch(batch, f) => Contract!After(batch)[f] = delivered[f]
                    /\ \A i \in DOMAIN batch :
                         batch[i].file = f => Contract!After(batch)[f] = batch[i].hi
  OBVIOUS
<1>3. ~InBatch(batch, f) => Contract!After(batch)[f] = delivered[f]
  BY DEF Contract!After, Contract!Files, Files, InBatch
<1>4. ASSUME NEW i \in DOMAIN batch, batch[i].file = f
      PROVE  Contract!After(batch)[f] = batch[i].hi
  <2>1. (CHOOSE j \in DOMAIN batch : batch[j].file = f) = i
    BY <1>2, <1>4
  <2>2. \E j \in DOMAIN batch : batch[j].file = f
    BY <1>4
  <2> QED
    BY <2>1, <2>2 DEF Contract!After, Contract!Files, Files
<1> QED
  BY <1>3, <1>4

\* The rows in hand become rows of the query.
LEMMA HandReturn ==
  ASSUME TypeOK, HandInv, CursorInv, ReturnBatch
  PROVE  HandInv' /\ CursorInv'
<1>1. /\ UNCHANGED <<corpus, idx, open, got>> /\ batch' = <<>>
      /\ delivered' = Contract!After(batch) /\ Files' = Files
      /\ open => idx \in Files
  BY DEF ReturnBatch, inputs, Files, TypeOK, SequentialType
<1>2. \A f : Last(f)' = Last(f) /\ End(f)' = End(f)
  BY <1>1 DEF Last, End
<1>3. HandInv'
  BY <1>1 DEF HandInv
<1>4. ASSUME NEW f \in Files, NEW m, ReadUpTo(batch, delivered, f, m)
      PROVE  ReadUpTo(batch', delivered', f, m)
  <2>1. delivered'[f] = m
    BY <1>1, <1>4, AfterHand DEF ReadUpTo
  <2> QED
    BY <1>1, <2>1 DEF ReadUpTo, InBatch
<1>5. ASSUME NEW f \in Files, f > idx \/ (f = idx /\ ~open)
      PROVE  delivered'[f] = 0
  <2>1. ~InBatch(batch, f)
    BY <1>5, HandFacts DEF HandInv, InBatch, TypeOK, SequentialType
  <2> QED
    BY <1>1, <1>5, <2>1, AfterHand DEF CursorInv
<1>6. ASSUME NEW f \in Files, f < idx
      PROVE  End(f)' = "ok" /\ ReadUpTo(batch', delivered', f, Last(f))
  <2>1. ReadUpTo(batch, delivered, f, Last(f)) /\ End(f) = "ok"
    BY <1>6 DEF CursorInv
  <2>2. \A m : m = Last(f) => ReadUpTo(batch', delivered', f, m)
    BY <1>4, <2>1
  <2> QED
    BY <1>2, <2>1, <2>2 DEF ReadUpTo, InBatch
<1>7. open => got <= Last(idx) /\ ReadUpTo(batch', delivered', idx, got)
  BY <1>1, <1>4 DEF CursorInv
<1> QED
  BY <1>1, <1>2, <1>3, <1>5, <1>6, <1>7 DEF CursorInv

-----------------------------------------------------------------------------
(* The invariant holds.                                                    *)

\* Before the first call nothing is claimed, read or sent.
LEMMA RunInit == Init => RunInv
<1> SUFFICES ASSUME Init
             PROVE  connected /\ ModeInv /\ scan = "pending"
  BY DEF RunInv
<1>1. \A f \in Files : delivered[f] = 0
  BY DEF Init, Contract!Init, Contract!Files, Files
<1> QED
  BY <1>1 DEF Init, ModeInv

\* A parallel scan starts with nothing claimed.
LEMMA FlowStart ==
  ASSUME TypeOK, ModeInv, StartParallel
  PROVE  FlowInv' /\ pc'[1] # "unborn"
<1>1. /\ UNCHANGED <<delivered, next, chan>> /\ next = 1 /\ chan = <<>>
      /\ \A w \in Workers : pc'[w] = (IF w <= Threads THEN "claim" ELSE "unborn")
      /\ \A f \in Files : delivered[f] = 0
      /\ Workers' = Workers /\ Files' = Files
  BY DEF StartParallel, ModeInv, Workers, Files
<1>2. MessageInv' /\ GoneInv'
  BY <1>1 DEF MessageInv, GoneInv
<1>3. \A w \in Workers : BatchInv(w)'
  BY <1>1 DEF BatchInv, Filling
<1>4. UntouchedInv'
  BY <1>1 DEF UntouchedInv, Untouched
<1>5. \A f \in Files : ~(f < 1)
  BY DEF Files
<1>6. pc'[1] = "claim"
  <2>1. 1 \in Workers
    BY ScanAssumption DEF Workers, MinOf, ScanAssumption
  <2>2. 1 <= Threads
    BY ThreadsType
  <2> QED
    BY <1>1, <2>1, <2>2
<1> QED
  BY <1>1, <1>2, <1>3, <1>4, <1>5, <1>6 DEF FlowInv

\* A query that is over does not run again.
LEMMA RunningBefore ==
  ASSUME [Next]_vars, query' = "running"
  PROVE  query = "running"
BY DEF Next, StartSequential, StartParallel, Sequential, OpenNext, OpenFails,
       PullRow, FileEnds, PullFails, ReturnBatch, FailQuery, Pulling, Worker,
       Receive, Receiving, ReceiveBatch, ReceiveError, Disconnected, StopQuery,
       DropReceiver, Over, vars

\* Every step of a running query keeps the invariant.
LEMMA RunNext ==
  TypeOK /\ ClaimInv /\ RoomInv /\ RunInv /\ [Next]_vars => RunInv'
<1> SUFFICES ASSUME TypeOK, ClaimInv, RoomInv, RunInv, [Next]_vars,
                    query' = "running"
             PROVE  RunInv'
  BY DEF RunInv
<1> USE DEF inputs, seqVars, parVars
<1>1. query = "running"
  BY RunningBefore
<1>2. connected /\ ModeInv
  BY <1>1 DEF RunInv
<1>3. Workers' = Workers /\ Files' = Files
  BY DEF Workers, Files
<1>4. CASE StartSequential
  <2>1. /\ scan' = "sequential" /\ scan = "pending"
        /\ UNCHANGED <<corpus, delivered, idx, open, got, batch, next, pc, chan,
                       connected>>
    BY <1>4 DEF StartSequential
  <2>2. /\ idx = 1 /\ ~open /\ batch = <<>>
        /\ \A f \in Files : delivered[f] = 0
        /\ next = 1 /\ chan = <<>> /\ \A w \in Workers : pc[w] = "unborn"
    BY <1>2, <2>1 DEF ModeInv
  <2>3. HandInv'
    BY <2>1, <2>2 DEF HandInv
  <2>4. CursorInv'
    <3>1. NFiles \in Nat /\ \A f \in Files : ~(f < 1)
      BY ScanAssumption DEF Files, ScanAssumption
    <3> QED
      BY <1>3, <2>1, <2>2, <3>1 DEF CursorInv
  <2>5. ModeInv'
    BY <1>3, <2>1, <2>2 DEF ModeInv
  <2> QED
    BY <1>2, <2>1, <2>3, <2>4, <2>5 DEF RunInv
<1>5. CASE StartParallel
  <2>1. FlowInv' /\ pc'[1] # "unborn"
    BY <1>2, <1>5, FlowStart
  <2> QED
    BY <1>2, <1>5, <2>1 DEF StartParallel, RunInv, ModeInv
<1>6. CASE Sequential
  <2>1. /\ scan = "sequential" /\ UNCHANGED <<scan, next, pc, chan, connected>>
    BY <1>6
    DEF Sequential, OpenNext, OpenFails, PullRow, FileEnds, PullFails,
        ReturnBatch, FailQuery, Pulling
  <2>2. HandInv /\ CursorInv
    BY <1>1, <2>1 DEF RunInv
  <2>3. HandInv' /\ CursorInv'
    <3>1. ~OpenFails /\ ~PullFails
      BY DEF OpenFails, PullFails, FailQuery
    <3> QED
      BY <1>6, <2>2, <3>1, HandOpen, HandPull, HandEnds, HandReturn DEF Sequential
  <2>4. ModeInv'
    BY <1>2, <1>3, <2>1 DEF ModeInv
  <2> QED
    BY <1>2, <2>1, <2>3, <2>4 DEF RunInv
<1>7. ASSUME NEW w \in Workers, Worker(w)
      PROVE  RunInv'
  <2>1. Work(w) /\ UNCHANGED <<corpus, delivered, scan>>
    BY <1>7 DEF Worker
  <2>2. pc[w] # "unborn"
    BY <2>1
    DEF Work, Claim, Open, NextRow, Drained, RowFails, SendFull, SendLast,
        SendErr
  <2>3. scan = "parallel"
    BY <1>2, <2>2 DEF ModeInv
  <2>4. FlowInv'
    BY <1>1, <1>2, <2>1, <2>3, FlowWork DEF RunInv
  <2>5. connected' = connected
    BY <2>1
    DEF Work, Claim, Open, NextRow, Drained, RowFails, SendFull, SendLast,
        SendErr
  <2>6. pc'[1] # "unborn"
    <3>1. pc[1] # "unborn" /\ pc \in [Workers -> Where] /\ 1 \in Workers
      BY <1>2, <2>3, ScanAssumption
      DEF ModeInv, TypeOK, ParallelType, Workers, MinOf, ScanAssumption
    <3>2. \E p : p # "unborn" /\ pc' = [pc EXCEPT ![w] = p]
      BY <2>1
      DEF Work, Claim, Open, NextRow, Drained, RowFails, SendFull, SendLast,
          SendErr, Goto
    <3> QED
      BY <3>1, <3>2
  <2> QED
    BY <1>2, <2>1, <2>3, <2>4, <2>5, <2>6 DEF RunInv, ModeInv
<1>8. CASE Receive
  <2>1. ReceiveBatch /\ scan = "parallel"
    BY <1>8 DEF Receive, ReceiveError, Disconnected, ReceiveBatch, Receiving
  <2>2. FlowInv'
    BY <1>1, <2>1, FlowReceive DEF RunInv
  <2> QED
    BY <1>2, <2>1, <2>2 DEF ReceiveBatch, RunInv, ModeInv
<1>9. CASE StopQuery \/ DropReceiver \/ Over
  BY <1>1, <1>9 DEF StopQuery, DropReceiver, Over
<1>10. CASE UNCHANGED vars
  <2>1. UNCHANGED <<corpus, delivered, query, scan, idx, open, got, batch, next,
                    pc, cur, run, chan, connected>>
    BY <1>10 DEF vars
  <2>2. \A f : Last(f)' = Last(f) /\ End(f)' = End(f)
    BY <2>1 DEF Last, End
  <2>3. ModeInv'
    BY <1>2, <1>3, <2>1 DEF ModeInv
  <2>4. HandInv /\ CursorInv => HandInv' /\ CursorInv'
    BY <1>3, <2>1, <2>2 DEF HandInv, CursorInv
  <2>5. FlowInv => FlowInv'
    BY <1>3, <2>1, <2>2
    DEF FlowInv, MessageInv, BatchInv, UntouchedInv, Untouched, Accounted, GoneInv
  <2> QED
    BY <1>1, <1>2, <2>1, <2>3, <2>4, <2>5 DEF RunInv
<1> QED
  BY <1>4, <1>5, <1>6, <1>7, <1>8, <1>9, <1>10 DEF Next

\* The rows of every file are where the invariant says, in every reachable state.
LEMMA InvHolds == Spec => []IInv
<1>1. Init => ClaimInv /\ RoomInv /\ RunInv
  BY RunInit DEF Init, ClaimInv, OneReaderPerFile, Working, RoomInv, BatchFits
<1>2. TypeOK /\ ClaimInv /\ [Next]_vars => ClaimInv'
  BY ClaimNext
<1>3. TypeOK /\ RoomInv /\ [Next]_vars => RoomInv'
  BY RoomNext
<1>4. TypeOK /\ ClaimInv /\ RoomInv /\ RunInv /\ [Next]_vars => RunInv'
  BY RunNext
<1>5. TypeOK /\ ClaimInv /\ RoomInv /\ RunInv <=> IInv
  BY DEF IInv
<1> QED
  BY <1>1, <1>2, <1>3, <1>4, <1>5, TypeCorrect, PTL DEF Spec

-----------------------------------------------------------------------------
(* The steps of the contract.                                              *)

\* A batch that is received is a chunk of the contract.
LEMMA BatchIsDelivered ==
  ASSUME IInv, query = "running", ReceiveBatch
  PROVE  Contract!Deliver
<1>1. FlowInv /\ TypeOK /\ RoomInv
  BY DEF IInv, RunInv, ReceiveBatch, Receiving
<1>2. PICK r \in Interval :
        /\ chunk' = <<r>> /\ r.lo = delivered[r.file] + 1
        /\ r.lo <= r.hi /\ r.hi <= Last(r.file)
        /\ query' = "running"
  BY <1>1, FirstBatch
<1>3. r.lo \in Nat /\ r.hi \in Nat /\ Last(r.file) \in Nat
      /\ Contract!Interval = Interval
  BY <1>1, ScanAssumption
  DEF Interval, Contract!Interval, Contract!Files, Files, Last, TypeOK, QueryType,
      ScanAssumption
<1>4. chunk' \in Seq(Contract!Interval)
  BY <1>2, <1>3
<1>5. /\ chunk' # <<>>
      /\ \A i \in DOMAIN chunk' : i = 1 /\ chunk'[i] = r
  BY <1>2
<1>6. Contract!Continues(chunk')
  BY <1>2, <1>3, <1>5 DEF Contract!Continues, Last
<1> QED
  BY <1>2, <1>4, <1>6 DEF ReceiveBatch, inputs, Contract!Deliver

\* So are the rows in hand of a sequential scan.
LEMMA HandIsDelivered ==
  ASSUME IInv, query = "running", ReturnBatch, batch # <<>>
  PROVE  Contract!Deliver
<1>1. TypeOK /\ HandInv /\ CursorInv
  BY DEF IInv, RunInv, ReturnBatch
<1>2. /\ chunk' = batch /\ delivered' = Contract!After(batch) /\ query' = query
      /\ corpus' = corpus
  BY DEF ReturnBatch, inputs
<1>3. Contract!Interval = Interval
  BY DEF Interval, Contract!Interval, Contract!Files, Files
<1>4. \A f \in Files : Last(f) \in Nat
  BY <1>1, ScanAssumption DEF Last, TypeOK, QueryType, ScanAssumption
<1>5. \A i, j \in DOMAIN batch : batch[i].file = batch[j].file => i = j
  BY <1>1, HandFacts DEF HandInv
<1>6. \A i \in DOMAIN batch :
        /\ batch[i].lo = delivered[batch[i].file] + 1
        /\ batch[i].hi \in batch[i].lo .. corpus[batch[i].file].rows
  BY <1>1, <1>4, HandFacts DEF HandInv, Last
<1>7. Contract!Continues(batch)
  BY <1>5, <1>6 DEF Contract!Continues
<1> QED
  BY <1>1, <1>2, <1>3, <1>7, HandFacts DEF Contract!Deliver

\* A sequential scan that has nothing in hand has read every file.
LEMMA EmptyHandIsTheEnd ==
  ASSUME IInv, query = "running", ReturnBatch, batch = <<>>
  PROVE  Contract!Finish
<1>1. TypeOK /\ HandInv /\ CursorInv
  BY DEF IInv, RunInv, ReturnBatch
<1>2. VectorSize \in Nat \ {0} /\ NFiles \in Nat
  BY ScanAssumption DEF ScanAssumption
<1>3. Pulled = 0
  BY DEF Pulled
<1>4. ~open /\ idx > NFiles
  BY <1>2, <1>3 DEF ReturnBatch
<1>5. ASSUME NEW f \in Files
      PROVE  End(f) = "ok" /\ delivered[f] = Last(f)
  <2>1. f < idx
    BY <1>1, <1>2, <1>4 DEF Files, TypeOK, SequentialType
  <2>2. End(f) = "ok" /\ ReadUpTo(batch, delivered, f, Last(f))
    BY <1>1, <2>1 DEF CursorInv
  <2> QED
    BY <2>2 DEF ReadUpTo
<1>6. delivered' = delivered
  <2>1. delivered' = Contract!After(<<>>)
    BY DEF ReturnBatch
  <2>2. delivered' = [f \in Files |-> delivered[f]]
    BY <2>1 DEF Contract!After, Contract!Files, Files
  <2> QED
    BY <1>1, <2>2 DEF TypeOK, QueryType
<1>7. \A f \in Contract!Files :
        Contract!Readable(f) /\ delivered[f] = corpus[f].rows
  BY <1>5 DEF Contract!Readable, Contract!Files, Files, End, Last
<1> QED
  BY <1>6, <1>7 DEF ReturnBatch, inputs, Contract!Finish

\* So has a parallel scan when every thread has left.
LEMMA DisconnectedIsTheEnd ==
  ASSUME IInv, Disconnected
  PROVE  Contract!Finish
<1>1. TypeOK /\ FlowInv /\ ModeInv /\ scan = "parallel" /\ chan = <<>>
      /\ \A w \in Workers : pc[w] \in {"unborn", "gone"}
  BY DEF IInv, RunInv, Disconnected, Receiving
<1>2. pc[1] = "gone" /\ 1 \in Workers
  BY <1>1, ScanAssumption DEF ModeInv, Workers, MinOf, ScanAssumption
<1>3. next > NFiles /\ next \in Nat /\ NFiles \in Nat
  BY <1>1, <1>2, ScanAssumption
  DEF FlowInv, GoneInv, TypeOK, ParallelType, ScanAssumption
<1>4. ASSUME NEW f \in Files
      PROVE  End(f) = "ok" /\ delivered[f] = Last(f)
  <2>1. Accounted(f)
    BY <1>1, <1>3 DEF FlowInv, Files
  <2>2. End(f) = "ok" /\ Reaches(chan, delivered, f, Len(chan) + 1, Last(f))
    BY <1>1, <2>1 DEF Accounted, Working
  <2> QED
    BY <1>1, <2>2 DEF Reaches
<1>5. \A f \in Contract!Files :
        Contract!Readable(f) /\ delivered[f] = corpus[f].rows
  BY <1>4 DEF Contract!Readable, Contract!Files, Files, End, Last
<1> QED
  BY <1>5 DEF Disconnected, Receiving, inputs, Contract!Finish

\* An error is reported for a file that has one.
LEMMA ErrorIsAFailure ==
  ASSUME IInv, OpenFails \/ PullFails \/ ReceiveError
  PROVE  Contract!Fail
<1>1. \E f \in Files : End(f) # "ok"
  <2>1. CASE OpenFails
    <3>1. idx \in Files
      BY <2>1, ScanAssumption
      DEF OpenFails, IInv, TypeOK, SequentialType, Files, ScanAssumption
    <3> QED
      BY <2>1, <3>1 DEF OpenFails
  <2>2. CASE PullFails
    BY <2>2 DEF PullFails, IInv, TypeOK, SequentialType
  <2>3. CASE ReceiveError
    <3>1. FlowInv /\ chan \in Seq(Messages) /\ chan # <<>>
          /\ Head(chan).tag = "err"
      BY <2>3 DEF ReceiveError, Receiving, IInv, RunInv, TypeOK, ParallelType
    <3>2. 1 \in DOMAIN chan /\ chan[1].tag = "err" /\ chan[1] \in Messages
      BY <3>1
    <3>3. chan[1].file \in Files
      BY <3>2 DEF Messages
    <3>4. End(chan[1].file) # "ok"
      BY <3>1, <3>2 DEF FlowInv, MessageInv
    <3> QED
      BY <3>3, <3>4
  <2> QED
    BY <2>1, <2>2, <2>3
<1>2. \E f \in Contract!Files : ~Contract!Readable(f)
  BY <1>1 DEF Contract!Files, Contract!Readable, Files, End
<1>3. /\ query = "running" /\ query' = "failed"
      /\ UNCHANGED <<corpus, delivered, chunk>>
  BY DEF OpenFails, PullFails, FailQuery, Pulling, ReceiveError, Receiving, inputs
<1> QED
  BY <1>2, <1>3 DEF Contract!Fail

\* Every step of a scan is a step of the contract or nothing to it.
LEMMA Simulation ==
  IInv /\ [Next]_vars => [Contract!Next]_(Contract!vars)
<1> SUFFICES ASSUME IInv, [Next]_vars
             PROVE  Contract!Next \/ UNCHANGED <<corpus, delivered, chunk, query>>
  BY DEF Contract!vars
<1> USE DEF inputs
<1>1. CASE StartSequential \/ StartParallel \/ DropReceiver \/ Over
           \/ UNCHANGED vars
  BY <1>1 DEF StartSequential, StartParallel, DropReceiver, Over, vars
<1>2. CASE Sequential
  <2>1. CASE OpenNext \/ PullRow \/ FileEnds
    BY <2>1 DEF OpenNext, PullRow, FileEnds
  <2>2. CASE OpenFails \/ PullFails
    BY <2>2, ErrorIsAFailure DEF Contract!Next
  <2>3. CASE ReturnBatch
    <3>1. query = "running"
      BY <2>3 DEF ReturnBatch
    <3> QED
      BY <2>3, <3>1, HandIsDelivered, EmptyHandIsTheEnd DEF Contract!Next
  <2> QED
    BY <1>2, <2>1, <2>2, <2>3 DEF Sequential
<1>3. CASE \E w \in Workers : Worker(w)
  BY <1>3 DEF Worker
<1>4. CASE Receive
  <2>1. CASE ReceiveBatch
    <3>1. query = "running"
      BY <2>1 DEF ReceiveBatch, Receiving
    <3> QED
      BY <2>1, <3>1, BatchIsDelivered DEF Contract!Next
  <2>2. CASE ReceiveError
    BY <2>2, ErrorIsAFailure DEF Contract!Next
  <2>3. CASE Disconnected
    BY <2>3, DisconnectedIsTheEnd DEF Contract!Next
  <2> QED
    BY <1>4, <2>1, <2>2, <2>3 DEF Receive
<1>5. CASE StopQuery
  BY <1>5 DEF StopQuery, Contract!Next, Contract!Stop
<1> QED
  BY <1>1, <1>2, <1>3, <1>4, <1>5 DEF Next

\* Scan keeps the promise of ScanContract, sequential or parallel: every chunk
\* continues the files it touches without a gap or a repeat, the scan ends only
\* when every row of every file has been handed over, and fails only for a file
\* that cannot be read to its end.
THEOREM ScanImplements == Spec => Implements
<1>1. Init => Contract!Init
  BY DEF Init
<1>2. IInv /\ [Next]_vars => [Contract!Next]_(Contract!vars)
  BY Simulation
<1> QED
  BY <1>1, <1>2, InvHolds, PTL DEF Spec, Implements, Contract!Spec
=============================================================================
