------------------------------ MODULE Batching ------------------------------
(***************************************************************************)
(* middleware/batching.go: BatchingDecorator.                              *)
(*                                                                         *)
(* Callers put a request on a bounded queue and wait for its result; one   *)
(* batchProcessor goroutine collects batches, runs the agent once per      *)
(* request in parallel, and sends each result on the request's own         *)
(* channel; Shutdown closes a channel, waits for the processor and closes  *)
(* the queue.  Every caller makes one request.                             *)
(***************************************************************************)
EXTENDS Integers, Sequences, FiniteSets

CONSTANTS
    Callers,
    Deadlined,       \* the callers whose context can be cancelled
    MaxBatchSize, MaxQueueSize

\* Positive sizes, as in DefaultBatchingConfig: NewBatchingDecorator takes them as they
\* are, and a queue of size 0 would be another kind of channel.
BatchingAssumption ==
    IsFiniteSet(Callers) /\ MaxBatchSize \in Nat \ {0} /\ MaxQueueSize \in Nat \ {0}

VARIABLES
    queue, queueClosed, shutdownClosed,
    pc,           \* per caller: at the first select of Process, the second, or returned
    outcome,      \* per caller: what Process returned
    resultChan,   \* per request: its buffered result
    bp,           \* where batchProcessor is
    draining,     \* it is in processPendingBatches
    last,         \* and met an empty queue there: it returns after this batch
    batch,
    results,      \* the agent's results of the running batch
    runs,         \* history: how often the agent ran each request
    sd,           \* where Shutdown is
    early,        \* history: the requests accepted before close(shutdown)
    totalRequests, totalBatches, successfulBatches, failedBatches, partialBatches,
    minBatchSize, maxBatchSize    \* 0 for the nil pointer

callerVars == <<pc, outcome>>
batchVars == <<batch, results, runs>>
metricVars == <<totalRequests, totalBatches, successfulBatches, failedBatches,
                partialBatches, minBatchSize, maxBatchSize>>
chanVars == <<queueClosed, shutdownClosed, sd>>
vars == <<queue, chanVars, callerVars, resultChan, bp, draining, last, batchVars,
          early, metricVars>>

TypeOK ==
    /\ queue \in Seq(Callers) /\ Len(queue) <= MaxQueueSize
    /\ queueClosed \in BOOLEAN /\ shutdownClosed \in BOOLEAN
    /\ pc \in [Callers -> {"enqueue", "waiting", "returned"}]
    /\ outcome \in [Callers -> {"none", "ok", "err", "cancelled", "shutdown", "panic"}]
    /\ resultChan \in [Callers -> {"empty", "ok", "err"}]
    /\ bp \in {"top", "collect", "fill", "drain", "run", "record", "exited"}
    /\ draining \in BOOLEAN /\ last \in BOOLEAN
    /\ batch \in Seq(Callers) /\ Len(batch) <= MaxBatchSize
    /\ results \in [Callers -> {"none", "ok", "err"}]
    /\ runs \in [Callers -> 0 .. 1]
    /\ sd \in {"idle", "waiting", "done"}
    /\ early \subseteq Callers
    /\ totalRequests \in Nat /\ totalBatches \in Nat /\ successfulBatches \in Nat
    /\ failedBatches \in Nat /\ partialBatches \in Nat
    /\ minBatchSize \in Nat /\ maxBatchSize \in Nat

Init ==
    /\ queue = <<>> /\ queueClosed = FALSE /\ shutdownClosed = FALSE
    /\ pc = [c \in Callers |-> "enqueue"] /\ outcome = [c \in Callers |-> "none"]
    /\ resultChan = [c \in Callers |-> "empty"]
    /\ bp = "top" /\ draining = FALSE /\ last = FALSE /\ batch = <<>>
    /\ results = [c \in Callers |-> "none"] /\ runs = [c \in Callers |-> 0]
    /\ sd = "idle" /\ early = {}
    /\ totalRequests = 0 /\ totalBatches = 0 /\ successfulBatches = 0
    /\ failedBatches = 0 /\ partialBatches = 0
    /\ minBatchSize = 0 /\ maxBatchSize = 0

InBatch == {batch[i] : i \in DOMAIN batch}
Queued == {queue[i] : i \in DOMAIN queue}

-----------------------------------------------------------------------------
(* Process. *)

return(c, o) ==
    /\ pc' = [pc EXCEPT ![c] = "returned"]
    /\ outcome' = [outcome EXCEPT ![c] = o]

\* Every ready case of the select may be taken, also after close(shutdown).
Enqueue(c) ==
    /\ pc[c] = "enqueue" /\ ~queueClosed /\ Len(queue) < MaxQueueSize
    /\ queue' = Append(queue, c)
    /\ pc' = [pc EXCEPT ![c] = "waiting"]
    /\ early' = IF shutdownClosed THEN early ELSE early \cup {c}
    /\ UNCHANGED <<chanVars, outcome, resultChan, bp, draining, last, batchVars, metricVars>>

\* A send case on a closed channel panics when the select picks it.
EnqueueOnClosed(c) ==
    /\ pc[c] = "enqueue" /\ queueClosed
    /\ return(c, "panic")
    /\ UNCHANGED <<queue, chanVars, resultChan, bp, draining, last, batchVars, early, metricVars>>

\* ctx.Done at either select: the request stays in the queue or the batch.
Cancel(c) ==
    /\ pc[c] \in {"enqueue", "waiting"} /\ c \in Deadlined
    /\ return(c, "cancelled")
    /\ UNCHANGED <<queue, chanVars, resultChan, bp, draining, last, batchVars, early, metricVars>>

TurnedAway(c) ==
    /\ pc[c] = "enqueue" /\ shutdownClosed
    /\ return(c, "shutdown")
    /\ UNCHANGED <<queue, chanVars, resultChan, bp, draining, last, batchVars, early, metricVars>>

ReceiveResult(c) ==
    /\ pc[c] = "waiting" /\ resultChan[c] # "empty"
    /\ return(c, resultChan[c])
    /\ UNCHANGED <<queue, chanVars, resultChan, bp, draining, last, batchVars, early, metricVars>>

-----------------------------------------------------------------------------
(* batchProcessor. *)

LoopTop ==
    /\ bp = "top"
    /\ bp' = IF shutdownClosed THEN "drain" ELSE "collect"
    /\ draining' = shutdownClosed
    /\ UNCHANGED <<queue, chanVars, callerVars, resultChan, last, batchVars, early, metricVars>>

\* Fault: the request at the head is copied and not removed.
receive_Copied == batch' = Append(batch, Head(queue)) /\ UNCHANGED queue

receive == batch' = Append(batch, Head(queue)) /\ queue' = Tail(queue)

\* Fault: a batch may grow one request too large.
Collect_Overfull ==
    /\ bp \in {"collect", "fill"} /\ queue # <<>>
    /\ receive
    /\ bp' = IF Len(batch) < MaxBatchSize THEN "fill" ELSE "run"
    /\ UNCHANGED <<chanVars, callerVars, resultChan, draining, last, results, runs,
                   early, metricVars>>

\* collectBatch: a first request, then more until the batch is full.
Collect ==
    /\ bp \in {"collect", "fill"} /\ queue # <<>>
    /\ receive
    /\ bp' = IF Len(batch) + 1 < MaxBatchSize THEN "fill" ELSE "run"
    /\ UNCHANGED <<chanVars, callerVars, resultChan, draining, last, results, runs,
                   early, metricVars>>

\* Fault: the deadline sends the processor back to the top, batch forgotten.
CollectTimeout_Forgets ==
    /\ bp = "fill"
    /\ bp' = "top" /\ batch' = <<>>
    /\ UNCHANGED <<queue, chanVars, callerVars, resultChan, draining, last, results, runs,
                   early, metricVars>>

CollectTimeout ==
    /\ bp = "fill"
    /\ bp' = "run"
    /\ UNCHANGED <<queue, chanVars, callerVars, resultChan, draining, last, batchVars,
                   early, metricVars>>

\* Fault: the wait for a first request does not watch the shutdown channel.
CollectShutdown_Deaf ==
    /\ bp = "fill" /\ shutdownClosed
    /\ bp' = "run"
    /\ UNCHANGED <<queue, chanVars, callerVars, resultChan, draining, last, batchVars,
                   early, metricVars>>

CollectShutdown ==
    /\ bp \in {"collect", "fill"} /\ shutdownClosed
    /\ bp' = IF bp = "collect" THEN "top" ELSE "run"
    /\ UNCHANGED <<queue, chanVars, callerVars, resultChan, draining, last, batchVars,
                   early, metricVars>>

\* processPendingBatches: drain without blocking; an empty queue ends it, after
\* the batch at hand has been processed.
Drain ==
    /\ bp = "drain" /\ queue # <<>>
    /\ receive
    /\ bp' = IF Len(batch) + 1 < MaxBatchSize THEN "drain" ELSE "run"
    /\ UNCHANGED <<chanVars, callerVars, resultChan, draining, last, results, runs,
                   early, metricVars>>

\* Fault: an empty queue ends the drain at once, the batch at hand included.
DrainEmpty_Drops ==
    /\ bp = "drain" /\ queue = <<>>
    /\ last' = TRUE
    /\ bp' = "exited"
    /\ UNCHANGED <<queue, chanVars, callerVars, resultChan, draining, batchVars,
                   early, metricVars>>

DrainEmpty ==
    /\ bp = "drain" /\ queue = <<>>
    /\ last' = TRUE
    /\ bp' = IF batch = <<>> THEN "exited" ELSE "run"
    /\ UNCHANGED <<queue, chanVars, callerVars, resultChan, draining, batchVars,
                   early, metricVars>>

\* One goroutine of processBatch; the agent gets context.Background().
AgentReturns(c, r) ==
    /\ bp = "run" /\ c \in InBatch /\ results[c] = "none"
    /\ results' = [results EXCEPT ![c] = r]
    /\ runs' = [runs EXCEPT ![c] = @ + 1]
    /\ UNCHANGED <<queue, chanVars, callerVars, resultChan, bp, draining, last, batch,
                   early, metricVars>>

\* After wg.Wait: every result is sent; the channels are buffered, so a caller
\* that has left does not block the processor.
Deliver ==
    /\ bp = "run" /\ \A c \in InBatch : results[c] # "none"
    /\ resultChan' = [c \in Callers |-> IF c \in InBatch THEN results[c] ELSE resultChan[c]]
    /\ bp' = "record"
    /\ UNCHANGED <<queue, chanVars, callerVars, draining, last, batchVars, early, metricVars>>

\* Which of the three batch counters RecordBatch increments.
outcomeCounter(successes, failures) ==
    <<IF failures = 0 THEN 1 ELSE 0,
      IF failures > 0 /\ successes = 0 THEN 1 ELSE 0,
      IF failures > 0 /\ successes > 0 THEN 1 ELSE 0>>

RecordBatch ==
    LET n == Len(batch)
        failures == Cardinality({i \in DOMAIN batch : results[batch[i]] = "err"})
        counted == outcomeCounter(n - failures, failures)
    IN /\ bp = "record"
       /\ totalRequests' = totalRequests + n
       /\ totalBatches' = totalBatches + 1
       /\ successfulBatches' = successfulBatches + counted[1]
       /\ failedBatches' = failedBatches + counted[2]
       /\ partialBatches' = partialBatches + counted[3]
       /\ minBatchSize' = IF minBatchSize = 0 \/ n < minBatchSize THEN n ELSE minBatchSize
       /\ maxBatchSize' = IF n > maxBatchSize THEN n ELSE maxBatchSize
       /\ batch' = <<>>
       /\ bp' = IF ~draining THEN "top" ELSE IF last THEN "exited" ELSE "drain"
       /\ UNCHANGED <<queue, chanVars, callerVars, resultChan, draining, last, results,
                      runs, early>>

-----------------------------------------------------------------------------
(* Shutdown, called once. *)

ShutdownBegin ==
    /\ sd = "idle"
    /\ shutdownClosed' = TRUE /\ sd' = "waiting"
    /\ UNCHANGED <<queue, queueClosed, callerVars, resultChan, bp, draining, last,
                   batchVars, early, metricVars>>

\* wg.Wait returns once batchProcessor has.
ShutdownEnd ==
    /\ sd = "waiting" /\ bp = "exited"
    /\ queueClosed' = TRUE /\ sd' = "done"
    /\ UNCHANGED <<queue, shutdownClosed, callerVars, resultChan, bp, draining, last,
                   batchVars, early, metricVars>>

Caller(c) == \/ Enqueue(c) \/ EnqueueOnClosed(c) \/ Cancel(c) \/ TurnedAway(c)
             \/ ReceiveResult(c)

Processor ==
    \/ LoopTop \/ Collect \/ CollectTimeout \/ CollectShutdown \/ Drain \/ DrainEmpty
    \/ Deliver \/ RecordBatch

Next ==
    \/ \E c \in Callers : Caller(c) \/ AgentReturns(c, "ok") \/ AgentReturns(c, "err")
    \/ Processor
    \/ ShutdownBegin \/ ShutdownEnd

Spec == Init /\ [][Next]_vars

\* Goroutines that can run do run; the agent returns; nobody has to call
\* Shutdown or cancel a context.
FairSpec ==
    /\ Spec
    /\ WF_vars(Processor)
    /\ WF_vars(ShutdownEnd)
    /\ \A c \in Callers :
         /\ WF_vars(Enqueue(c)) /\ WF_vars(ReceiveResult(c))
         /\ WF_vars(AgentReturns(c, "ok") \/ AgentReturns(c, "err"))

-----------------------------------------------------------------------------
(* Properties. *)

\* A request is in one place: while its caller waits without a result it is
\* queued or in the batch, never both, never twice; and the agent runs it at
\* most once (queue, collectBatch, processPendingBatches).
RequestsNotLostOrDuplicated ==
    /\ \A c \in Callers :
         pc[c] = "waiting" /\ resultChan[c] = "empty" => c \in Queued \cup InBatch
    /\ Queued \cap InBatch = {}
    /\ Cardinality(Queued) = Len(queue) /\ Cardinality(InBatch) = Len(batch)
    /\ \A c \in Queued : runs[c] = 0

\* What Process returns is the result of the agent's run of that very request.
OwnResult ==
    \A c \in Callers :
        outcome[c] \in {"ok", "err"} => runs[c] = 1 /\ outcome[c] = results[c]

\* Between batches the metrics account for every request that was run: each
\* batch is counted once as successful, failed or partial, the successes and
\* failures agree with that, and no batch is larger than MaxBatchSize.
MetricsAccountForRuns ==
    bp \in {"top", "exited"} =>
      LET ran == {c \in Callers : runs[c] = 1}
          failed == {c \in ran : results[c] = "err"}
      IN /\ totalRequests = Cardinality(ran)
         /\ totalBatches = successfulBatches + failedBatches + partialBatches
         /\ failedBatches + partialBatches <= Cardinality(failed)
         /\ successfulBatches + partialBatches <= Cardinality(ran \ failed)
         /\ (failed # {}) => failedBatches + partialBatches > 0
         /\ totalBatches > 0 => /\ 1 <= minBatchSize /\ minBatchSize <= maxBatchSize
                                /\ maxBatchSize <= MaxBatchSize

\* "Shutdown gracefully shuts down the batching middleware", "Process any
\* remaining requests": every accepted request is answered.
GracefulShutdown ==
    \A c \in Callers : pc[c] = "waiting" ~> pc[c] = "returned"
=============================================================================
