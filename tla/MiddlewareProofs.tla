-------------------------- MODULE MiddlewareProofs --------------------------
(***************************************************************************)
(* Proofs about batching, the load balancer and the health checker, for    *)
(* every number of backends, requests and callers, every threshold and     *)
(* every size: no request is lost in a batch, run twice or answered with   *)
(* the result of another, and the metrics of batching account for every    *)
(* run; with failover a request fails only after it tried every backend or *)
(* when none was healthy; the checks counted as under way are those under  *)
(* way.  A name that components have in common is declared once: each      *)
(* theorem is about one of them.                                           *)
(***************************************************************************)
EXTENDS Batching, FiniteSetTheorems, TLAPS

-----------------------------------------------------------------------------
(* Batching. *)

Elements(s) == {s[i] : i \in DOMAIN s}
OnceEach(s) == \A i, j \in DOMAIN s : s[i] = s[j] => i = j

\* The requests whose batch RecordBatch has counted, and those that failed.
Counted == {c \in Callers : runs[c] = 1} \ InBatch
CountedFailed == {c \in Counted : results[c] = "err"}

\* Where the processor is tells what its batch holds.
BatchHeld ==
    /\ bp \in {"fill", "run", "record"} => batch # <<>>
    /\ bp \in {"top", "collect", "exited"} => batch = <<>>
    /\ bp \in {"collect", "fill", "drain"} => Len(batch) < MaxBatchSize

\* A request is in one place.
OnePlace == OnceEach(queue) /\ OnceEach(batch) /\ Queued \cap InBatch = {}

\* How far each request has come: not accepted, queued, in the batch before, in and
\* after its run, answered, returned.
Progress ==
    \A c \in Callers :
        /\ runs[c] = 1 <=> results[c] # "none"
        /\ pc[c] = "enqueue" => c \notin Queued \cup InBatch /\ runs[c] = 0
        /\ c \in Queued => runs[c] = 0
        /\ c \in InBatch /\ bp \notin {"run", "record"} => runs[c] = 0
        /\ c \in InBatch /\ bp = "record" => runs[c] = 1 /\ resultChan[c] # "empty"
        /\ c \in InBatch /\ bp # "record" => resultChan[c] = "empty"
        /\ resultChan[c] # "empty" => runs[c] = 1 /\ resultChan[c] = results[c]
        /\ outcome[c] \in {"ok", "err"} => outcome[c] = resultChan[c]
        /\ pc[c] = "waiting" /\ resultChan[c] = "empty" => c \in Queued \cup InBatch

\* The metrics account for the requests of the batches counted so far.
Metrics ==
    /\ totalRequests = Cardinality(Counted)
    /\ totalBatches = successfulBatches + failedBatches + partialBatches
    /\ failedBatches + partialBatches <= Cardinality(CountedFailed)
    /\ successfulBatches + partialBatches <= Cardinality(Counted \ CountedFailed)
    /\ CountedFailed # {} => failedBatches + partialBatches > 0
    /\ IF totalBatches = 0 THEN minBatchSize = 0 /\ maxBatchSize = 0
       ELSE 1 <= minBatchSize /\ minBatchSize <= maxBatchSize /\ maxBatchSize <= MaxBatchSize

\* The inductive invariant.
BatchingInv == TypeOK /\ BatchHeld /\ OnePlace /\ Progress /\ Metrics
-----------------------------------------------------------------------------
(* Sequences without repetition. *)

\* append and the send on the queue.
LEMMA AppendElements ==
    ASSUME NEW S, NEW s \in Seq(S), NEW e \in S
    PROVE  /\ Append(s, e) \in Seq(S) /\ Len(Append(s, e)) = Len(s) + 1
           /\ Append(s, e) # <<>>
           /\ Elements(Append(s, e)) = Elements(s) \cup {e}
           /\ OnceEach(s) /\ e \notin Elements(s) => OnceEach(Append(s, e))
<1>1. /\ Append(s, e) \in Seq(S) /\ Len(Append(s, e)) = Len(s) + 1 /\ Len(s) \in Nat
      /\ DOMAIN s = 1 .. Len(s) /\ DOMAIN Append(s, e) = 1 .. Len(s) + 1
      /\ \A i \in 1 .. Len(s) : Append(s, e)[i] = s[i]
      /\ Append(s, e)[Len(s) + 1] = e
  OBVIOUS
<1>2. Elements(Append(s, e)) = Elements(s) \cup {e}
  <2>1. ASSUME NEW x \in Elements(Append(s, e)) PROVE x \in Elements(s) \cup {e}
    BY <1>1 DEF Elements
  <2>2. ASSUME NEW x \in Elements(s) PROVE x \in Elements(Append(s, e))
    <3>1. PICK i \in 1 .. Len(s) : x = s[i]
      BY <1>1 DEF Elements
    <3>2. i \in DOMAIN Append(s, e) /\ x = Append(s, e)[i]
      BY <1>1, <3>1
    <3>3. QED
      BY <3>2 DEF Elements
  <2>3. e \in Elements(Append(s, e))
    BY <1>1 DEF Elements
  <2>4. QED
    BY <2>1, <2>2, <2>3
<1>3. OnceEach(s) /\ e \notin Elements(s) => OnceEach(Append(s, e))
  BY <1>1 DEF Elements, OnceEach
<1>4. QED
  BY <1>1, <1>2, <1>3

\* The receive from the queue.
LEMMA TailElements ==
    ASSUME NEW S, NEW s \in Seq(S), s # <<>>, OnceEach(s)
    PROVE  /\ Head(s) \in S /\ Head(s) \in Elements(s)
           /\ Tail(s) \in Seq(S) /\ Len(Tail(s)) = Len(s) - 1 /\ Len(s) \in Nat \ {0}
           /\ Elements(Tail(s)) = Elements(s) \ {Head(s)}
           /\ OnceEach(Tail(s))
<1>1. /\ Tail(s) \in Seq(S) /\ Len(Tail(s)) = Len(s) - 1 /\ Len(s) \in Nat \ {0}
      /\ DOMAIN s = 1 .. Len(s) /\ DOMAIN Tail(s) = 1 .. Len(s) - 1
      /\ \A i \in 1 .. Len(s) - 1 : Tail(s)[i] = s[i + 1]
      /\ Head(s) = s[1] /\ Head(s) \in S
  OBVIOUS
<1>2. Head(s) \in Elements(s)
  BY <1>1 DEF Elements
<1>3. Elements(Tail(s)) = Elements(s) \ {Head(s)}
  <2>1. ASSUME NEW x \in Elements(Tail(s)) PROVE x \in Elements(s) \ {Head(s)}
    <3>1. PICK i \in 1 .. Len(s) - 1 : x = s[i + 1]
      BY <1>1 DEF Elements
    <3>2. i + 1 \in DOMAIN s /\ 1 \in DOMAIN s /\ i + 1 # 1
      BY <1>1
    <3>3. QED
      BY <1>1, <3>1, <3>2 DEF Elements, OnceEach
  <2>2. ASSUME NEW x \in Elements(s) \ {Head(s)} PROVE x \in Elements(Tail(s))
    <3>1. PICK i \in 1 .. Len(s) : x = s[i] /\ i # 1
      BY <1>1 DEF Elements
    <3>2. i - 1 \in DOMAIN Tail(s) /\ x = Tail(s)[i - 1]
      BY <1>1, <3>1
    <3>3. QED
      BY Zenon, <3>2 DEF Elements
  <2>3. QED
    BY <2>1, <2>2
<1>4. OnceEach(Tail(s))
  <2>1. ASSUME NEW i \in DOMAIN Tail(s), NEW j \in DOMAIN Tail(s), Tail(s)[i] = Tail(s)[j]
        PROVE  i = j
    <3>1. i + 1 \in DOMAIN s /\ j + 1 \in DOMAIN s /\ s[i + 1] = s[j + 1]
      BY <1>1, <2>1
    <3>2. i + 1 = j + 1
      BY <3>1 DEF OnceEach
    <3>3. QED
      BY <1>1, <3>2
  <2>2. QED
    BY <2>1 DEF OnceEach
<1>5. QED
  BY <1>1, <1>2, <1>3, <1>4

\* A sequence without repetition has as many elements as its length, and the same
\* holds of the elements in any set (the failures that processBatch counts).
LEMMA OnceEachCount ==
    ASSUME NEW S, NEW s \in Seq(S), OnceEach(s), NEW T
    PROVE  /\ IsFiniteSet(Elements(s)) /\ Cardinality(Elements(s)) = Len(s)
           /\ Cardinality({i \in DOMAIN s : s[i] \in T}) = Cardinality(Elements(s) \cap T)
<1>1. /\ DOMAIN s = 1 .. Len(s) /\ Len(s) \in Nat
      /\ IsFiniteSet(1 .. Len(s)) /\ Cardinality(1 .. Len(s)) = Len(s)
  <2>1. DOMAIN s = 1 .. Len(s) /\ Len(s) \in Nat
    OBVIOUS
  <2>2. /\ IsFiniteSet(1 .. Len(s))
        /\ Cardinality(1 .. Len(s)) = IF 1 > Len(s) THEN 0 ELSE Len(s) - 1 + 1
    BY <2>1, FS_Interval
  <2>3. QED
    BY <2>1, <2>2
<1> DEFINE D == DOMAIN s
           DT == {i \in DOMAIN s : s[i] \in T}
           f == [i \in D |-> s[i]]
           g == [i \in DT |-> s[i]]
<1>2. f \in Bijection(D, Elements(s))
  BY DEF Bijection, Injection, Surjection, IsInjective, Elements, OnceEach
<1>3. IsFiniteSet(Elements(s)) /\ Cardinality(Elements(s)) = Len(s)
  BY <1>1, <1>2, FS_Bijection DEF ExistsBijection
<1>4. IsFiniteSet(DT)
  BY <1>1, FS_Subset
<1>5. g \in Bijection(DT, Elements(s) \cap T)
  BY DEF Bijection, Injection, Surjection, IsInjective, Elements, OnceEach
<1>6. Cardinality(DT) = Cardinality(Elements(s) \cap T)
  BY <1>4, <1>5, FS_Bijection DEF ExistsBijection
<1>7. QED
  BY <1>3, <1>6

-----------------------------------------------------------------------------
(* The invariant. *)

\* A decorator that was just made meets the invariant: nothing queued, run or counted.
LEMMA BatchingInit == ASSUME BatchingAssumption, Init PROVE BatchingInv
<1>1. Queued = {} /\ InBatch = {} /\ Counted = {} /\ CountedFailed = {}
  BY DEF Init, Queued, InBatch, Counted, CountedFailed
<1>2. TypeOK
  <2>1. <<>> \in Seq(Callers) /\ Len(<<>>) = 0
    OBVIOUS
  <2>2. /\ queue \in Seq(Callers) /\ Len(queue) <= MaxQueueSize
        /\ batch \in Seq(Callers) /\ Len(batch) <= MaxBatchSize
    BY <2>1 DEF Init, BatchingAssumption
  <2>3. queueClosed \in BOOLEAN /\ shutdownClosed \in BOOLEAN
        /\ draining \in BOOLEAN /\ last \in BOOLEAN
    BY Zenon DEF Init
  <2>4. runs \in [Callers -> 0 .. 1] /\ early \subseteq Callers
    BY DEF Init
  <2>5. /\ pc \in [Callers -> {"enqueue", "waiting", "returned"}]
        /\ outcome \in [Callers -> {"none", "ok", "err", "cancelled", "shutdown", "panic"}]
        /\ resultChan \in [Callers -> {"empty", "ok", "err"}]
        /\ results \in [Callers -> {"none", "ok", "err"}]
    BY DEF Init
  <2>6. /\ bp \in {"top", "collect", "fill", "drain", "run", "record", "exited"}
        /\ sd \in {"idle", "waiting", "done"}
    BY DEF Init
  <2>7. /\ totalRequests \in Nat /\ totalBatches \in Nat /\ successfulBatches \in Nat
        /\ failedBatches \in Nat /\ partialBatches \in Nat
        /\ minBatchSize \in Nat /\ maxBatchSize \in Nat
    BY DEF Init
  <2>8. QED
    BY <2>2, <2>3, <2>4, <2>5, <2>6, <2>7 DEF TypeOK
<1>3. BatchHeld
  BY DEF Init, BatchHeld, BatchingAssumption
<1>4. OnePlace
  BY <1>1 DEF Init, OnePlace, OnceEach
<1>5. Progress
  BY <1>1 DEF Init, Progress
<1>6. Metrics
  <2>1. Cardinality(Counted) = 0 /\ Cardinality(CountedFailed) = 0
        /\ Cardinality(Counted \ CountedFailed) = 0
    BY <1>1, FS_EmptySet
  <2>2. /\ totalRequests = 0 /\ totalBatches = 0 /\ successfulBatches = 0
        /\ failedBatches = 0 /\ partialBatches = 0 /\ minBatchSize = 0 /\ maxBatchSize = 0
    BY DEF Init
  <2>3. QED
    BY <1>1, <2>1, <2>2 DEF Metrics
<1>7. QED
  BY <1>2, <1>3, <1>4, <1>5, <1>6 DEF BatchingInv

\* A step that counts no batch and changes the results of no counted request leaves
\* the metrics right.
LEMMA MetricsKept ==
    ASSUME Metrics, UNCHANGED metricVars, Counted' = Counted,
           \A c \in Counted : results'[c] = results[c]
    PROVE  Metrics'
<1>1. CountedFailed' = CountedFailed
  BY DEF CountedFailed
<1>2. QED
  BY <1>1 DEF Metrics, metricVars

\* The receive of collectBatch and of processPendingBatches moves a request.
LEMMA ReceiveMoves ==
    ASSUME BatchingAssumption, TypeOK, OnePlace, Progress, queue # <<>>, receive
    PROVE  \E h \in Queued :
             /\ h \in Callers /\ h \notin InBatch /\ runs[h] = 0
             /\ Queued' = Queued \ {h} /\ InBatch' = InBatch \cup {h}
             /\ OnceEach(queue') /\ OnceEach(batch')
             /\ queue' \in Seq(Callers) /\ Len(queue') <= MaxQueueSize
             /\ batch' \in Seq(Callers) /\ Len(batch') = Len(batch) + 1 /\ batch' # <<>>
<1>1. queue \in Seq(Callers) /\ batch \in Seq(Callers) /\ OnceEach(queue) /\ OnceEach(batch)
  BY DEF TypeOK, OnePlace
<1>2. Queued = Elements(queue) /\ InBatch = Elements(batch)
      /\ Queued' = Elements(queue') /\ InBatch' = Elements(batch')
  BY DEF Queued, InBatch, Elements
<1> DEFINE h == Head(queue)
<1>3. /\ h \in Callers /\ h \in Elements(queue)
      /\ queue' \in Seq(Callers) /\ Len(queue') = Len(queue) - 1 /\ Len(queue) \in Nat \ {0}
      /\ Elements(queue') = Elements(queue) \ {h} /\ OnceEach(queue')
  BY <1>1, TailElements DEF receive
<1>4. h \notin InBatch /\ runs[h] = 0
  BY <1>2, <1>3 DEF OnePlace, Progress
<1>5. /\ batch' \in Seq(Callers) /\ Len(batch') = Len(batch) + 1 /\ batch' # <<>>
      /\ Elements(batch') = Elements(batch) \cup {h}
      /\ OnceEach(batch')
  BY <1>1, <1>2, <1>3, <1>4, AppendElements DEF receive
<1>6. Len(queue') <= MaxQueueSize
  BY <1>3 DEF TypeOK, BatchingAssumption
<1>7. QED
  BY <1>2, <1>3, <1>4, <1>5, <1>6

\* A batch that is counted: its requests join the counted ones.
LEMMA BatchCounted ==
    ASSUME BatchingAssumption, BatchingInv, RecordBatch
    PROVE  Metrics' /\ Counted' = Counted \cup InBatch
<1>1. /\ batch \in Seq(Callers) /\ OnceEach(batch) /\ InBatch = Elements(batch)
      /\ Len(batch) \in 1 .. MaxBatchSize
  BY DEF BatchingInv, TypeOK, OnePlace, InBatch, Elements, RecordBatch, BatchHeld
<1> DEFINE Err == {c \in Callers : results[c] = "err"}
           n == Len(batch)
           failures == Cardinality({i \in DOMAIN batch : results[batch[i]] = "err"})
<1>2. IsFiniteSet(InBatch) /\ Cardinality(InBatch) = n
      /\ failures = Cardinality(InBatch \cap Err)
  <2>1. {i \in DOMAIN batch : results[batch[i]] = "err"} = {i \in DOMAIN batch : batch[i] \in Err}
    BY <1>1
  <2>2. QED
    BY Zenon, <1>1, <2>1, OnceEachCount
<1>3. /\ InBatch' = {} /\ \A c \in InBatch : c \in Callers /\ runs[c] = 1
      /\ runs' = runs /\ results' = results
  <2>1. bp = "record" /\ batch' = <<>> /\ runs' = runs /\ results' = results
    BY DEF RecordBatch
  <2>2. \A c \in InBatch : c \in Callers
    BY <1>1 DEF InBatch
  <2>3. QED
    BY <2>1, <2>2 DEF BatchingInv, Progress, InBatch
<1>4. Counted' = Counted \cup InBatch /\ Counted \cap InBatch = {}
  BY <1>3 DEF Counted
<1>5. /\ CountedFailed' = CountedFailed \cup (InBatch \cap Err)
      /\ CountedFailed \cap (InBatch \cap Err) = {}
      /\ Counted' \ CountedFailed' = (Counted \ CountedFailed) \cup (InBatch \ Err)
      /\ (Counted \ CountedFailed) \cap (InBatch \ Err) = {}
  BY <1>3, <1>4 DEF CountedFailed, Counted
<1>6. /\ IsFiniteSet(Counted) /\ IsFiniteSet(CountedFailed)
      /\ IsFiniteSet(Counted \ CountedFailed)
  BY FS_Subset DEF Counted, CountedFailed, BatchingAssumption
<1>7. /\ IsFiniteSet(InBatch \cap Err) /\ IsFiniteSet(InBatch \ Err)
      /\ Cardinality(InBatch \ Err) = n - failures
      /\ failures \in Nat /\ failures <= n
  <2>1. /\ IsFiniteSet(InBatch \cap Err) /\ IsFiniteSet(InBatch \ Err)
        /\ Cardinality(InBatch \cap Err) <= Cardinality(InBatch)
        /\ Cardinality(InBatch \ Err) = Cardinality(InBatch) - Cardinality(InBatch \cap Err)
    BY Zenon, <1>2, FS_Intersection, FS_Difference
  <2>2. Cardinality(InBatch \cap Err) \in Nat
    BY <2>1, FS_CardinalityType
  <2>3. QED
    BY <1>2, <2>1, <2>2
<1>8. /\ Cardinality(Counted') = Cardinality(Counted) + n
      /\ Cardinality(CountedFailed') = Cardinality(CountedFailed) + failures
      /\ Cardinality(Counted' \ CountedFailed')
           = Cardinality(Counted \ CountedFailed) + (n - failures)
      /\ Cardinality(Counted) \in Nat /\ Cardinality(CountedFailed) \in Nat
      /\ Cardinality(Counted \ CountedFailed) \in Nat
  <2>1. ASSUME NEW A, NEW B, IsFiniteSet(A), IsFiniteSet(B), A \cap B = {}
        PROVE  Cardinality(A \cup B) = Cardinality(A) + Cardinality(B)
    <3>1. Cardinality(A \cup B) = Cardinality(A) + Cardinality(B) - 0
      BY <2>1, FS_Union, FS_EmptySet
    <3>2. Cardinality(A) \in Nat /\ Cardinality(B) \in Nat
      BY <2>1, FS_CardinalityType
    <3>3. QED
      BY <3>1, <3>2
  <2>2. Cardinality(Counted \cup InBatch) = Cardinality(Counted) + n
    BY <1>2, <1>4, <1>6, <2>1
  <2>3. Cardinality(CountedFailed \cup (InBatch \cap Err))
          = Cardinality(CountedFailed) + failures
    BY <1>2, <1>5, <1>6, <1>7, <2>1
  <2>4. Cardinality((Counted \ CountedFailed) \cup (InBatch \ Err))
          = Cardinality(Counted \ CountedFailed) + (n - failures)
    BY <1>5, <1>6, <1>7, <2>1
  <2>5. QED
    BY Zenon, <1>4, <1>5, <1>6, <2>2, <2>3, <2>4, FS_CardinalityType
<1>9. failures = 0 => InBatch \cap Err = {}
  BY Zenon, <1>2, <1>7, FS_EmptySet
<1> HIDE DEF failures, n
<1>10. /\ totalRequests' = totalRequests + n /\ totalBatches' = totalBatches + 1
       /\ successfulBatches' = successfulBatches + (IF failures = 0 THEN 1 ELSE 0)
       /\ failedBatches' = failedBatches + (IF failures > 0 /\ n - failures = 0 THEN 1 ELSE 0)
       /\ partialBatches' = partialBatches + (IF failures > 0 /\ n - failures > 0 THEN 1 ELSE 0)
       /\ minBatchSize' = IF minBatchSize = 0 \/ n < minBatchSize THEN n ELSE minBatchSize
       /\ maxBatchSize' = IF n > maxBatchSize THEN n ELSE maxBatchSize
  BY DEF RecordBatch, outcomeCounter, failures, n
<1>11. /\ totalRequests \in Nat /\ totalBatches \in Nat /\ successfulBatches \in Nat
       /\ failedBatches \in Nat /\ partialBatches \in Nat
       /\ minBatchSize \in Nat /\ maxBatchSize \in Nat /\ n \in 1 .. MaxBatchSize
       /\ MaxBatchSize \in Nat
  BY <1>1 DEF BatchingInv, TypeOK, n, BatchingAssumption
<1>12. Metrics
  BY DEF BatchingInv
<1>13. CountedFailed' # {} => failedBatches' + partialBatches' > 0
  BY <1>5, <1>7, <1>9, <1>10, <1>11, <1>12 DEF Metrics
<1>14. Metrics'
  BY <1>7, <1>8, <1>10, <1>11, <1>12, <1>13 DEF Metrics
<1>15. QED
  BY <1>4, <1>14

\* A caller that returns keeps the invariant if it returns no result or its own.
LEMMA ReturnKeeps ==
    ASSUME BatchingInv, NEW c \in Callers, pc[c] \in {"enqueue", "waiting"},
           NEW o \in {"ok", "err", "cancelled", "shutdown", "panic"}, return(c, o),
           o \in {"ok", "err"} => o = resultChan[c],
           UNCHANGED <<queue, chanVars, resultChan, bp, draining, last, batchVars, early,
                       metricVars>>
    PROVE  BatchingInv'
<1>1. TypeOK /\ BatchHeld /\ OnePlace /\ Progress /\ Metrics
  BY DEF BatchingInv
<1>2. /\ queue' = queue /\ batch' = batch /\ bp' = bp /\ runs' = runs /\ results' = results
      /\ resultChan' = resultChan /\ Queued' = Queued /\ InBatch' = InBatch
  BY DEF batchVars, Queued, InBatch
<1>3. pc' \in [Callers -> {"enqueue", "waiting", "returned"}]
      /\ outcome' \in [Callers -> {"none", "ok", "err", "cancelled", "shutdown", "panic"}]
  BY <1>1 DEF TypeOK, return
<1>4. TypeOK'
  BY <1>1, <1>3 DEF TypeOK, chanVars, batchVars, metricVars
<1>5. BatchHeld' /\ OnePlace'
  BY <1>1, <1>2 DEF BatchHeld, OnePlace, OnceEach
<1>6. Progress'
  <2>1. ASSUME NEW d \in Callers
        PROVE  /\ pc'[d] = "enqueue" => pc[d] = "enqueue"
               /\ pc'[d] = "waiting" => pc[d] = "waiting"
               /\ outcome'[d] \in {"ok", "err"} => outcome'[d] = resultChan[d]
    BY <1>1 DEF return, TypeOK, Progress
  <2>2. QED
    BY <1>1, <1>2, <2>1 DEF Progress
<1>7. Metrics'
  BY <1>1, <1>2, MetricsKept DEF Counted
<1>8. QED
  BY <1>4, <1>5, <1>6, <1>7 DEF BatchingInv

\* A request taken from the queue into a batch that has room.
LEMMA ReceiveKeeps ==
    ASSUME BatchingAssumption, BatchingInv, queue # <<>>, receive,
           bp \in {"collect", "fill", "drain"},
           bp' \in {"fill", "drain", "run"},
           bp' \in {"fill", "drain"} => Len(batch) + 1 < MaxBatchSize,
           UNCHANGED <<chanVars, callerVars, resultChan, draining, last, results, runs,
                       early, metricVars>>
    PROVE  BatchingInv'
<1>1. TypeOK /\ BatchHeld /\ OnePlace /\ Progress /\ Metrics
  BY DEF BatchingInv
<1>2. PICK h \in Queued :
        /\ h \in Callers /\ h \notin InBatch /\ runs[h] = 0
        /\ Queued' = Queued \ {h} /\ InBatch' = InBatch \cup {h}
        /\ OnceEach(queue') /\ OnceEach(batch')
        /\ queue' \in Seq(Callers) /\ Len(queue') <= MaxQueueSize
        /\ batch' \in Seq(Callers) /\ Len(batch') = Len(batch) + 1 /\ batch' # <<>>
  BY <1>1, ReceiveMoves
<1>3. Len(batch) \in Nat /\ Len(batch) < MaxBatchSize /\ MaxBatchSize \in Nat
  BY <1>1 DEF BatchHeld, TypeOK, BatchingAssumption
<1>4. TypeOK'
  <2>1. Len(batch') <= MaxBatchSize
    BY <1>2, <1>3
  <2>2. bp' \in {"top", "collect", "fill", "drain", "run", "record", "exited"}
    OBVIOUS
  <2>3. QED
    BY <1>1, <1>2, <2>1, <2>2 DEF TypeOK, chanVars, callerVars, metricVars
<1>5. BatchHeld'
  BY <1>2, <1>3 DEF BatchHeld
<1>6. OnePlace'
  BY <1>1, <1>2 DEF OnePlace
<1>7. Progress'
  BY <1>1, <1>2 DEF Progress, callerVars
<1>8. Metrics'
  <2>1. Counted' = Counted
    BY <1>2 DEF Counted
  <2>2. QED
    BY <1>1, <2>1, MetricsKept
<1>9. QED
  BY <1>4, <1>5, <1>6, <1>7, <1>8 DEF BatchingInv

\* The processor moves on with the batch it holds.
LEMMA ProcessorMoves ==
    ASSUME BatchingInv, bp' \in {"top", "collect", "drain", "run", "exited"},
           bp \notin {"run", "record"},
           bp' = "run" => batch # <<>>,
           bp' \in {"top", "collect", "exited"} => batch = <<>>,
           bp' \in {"collect", "drain"} => Len(batch) < MaxBatchSize,
           draining' \in BOOLEAN, last' \in BOOLEAN,
           UNCHANGED <<queue, chanVars, callerVars, resultChan, batchVars, early, metricVars>>
    PROVE  BatchingInv'
<1>1. TypeOK /\ BatchHeld /\ OnePlace /\ Progress /\ Metrics
  BY DEF BatchingInv
<1>2. /\ queue' = queue /\ batch' = batch /\ runs' = runs /\ results' = results
      /\ resultChan' = resultChan /\ pc' = pc /\ outcome' = outcome
      /\ Queued' = Queued /\ InBatch' = InBatch
  BY DEF batchVars, callerVars, Queued, InBatch
<1>3. TypeOK'
  BY <1>1, <1>2 DEF TypeOK, chanVars, metricVars
<1>4. BatchHeld' /\ OnePlace'
  BY <1>1, <1>2 DEF BatchHeld, OnePlace, OnceEach
<1>5. Progress'
  BY <1>1, <1>2 DEF Progress
<1>6. Metrics'
  BY <1>1, <1>2, MetricsKept DEF Counted
<1>7. QED
  BY <1>3, <1>4, <1>5, <1>6 DEF BatchingInv

\* Every step of a caller, of the processor, of the agent and of Shutdown.
LEMMA BatchingStep == ASSUME BatchingAssumption, BatchingInv, [Next]_vars PROVE BatchingInv'
<1>1. TypeOK /\ BatchHeld /\ OnePlace /\ Progress /\ Metrics
  BY DEF BatchingInv
<1>2. Len(batch) \in Nat /\ MaxBatchSize \in Nat \ {0} /\ (batch = <<>> => Len(batch) = 0)
  BY <1>1 DEF TypeOK, BatchingAssumption
<1>3. ASSUME NEW c \in Callers, Enqueue(c) PROVE BatchingInv'
  <2>1. /\ c \notin Queued \cup InBatch /\ runs[c] = 0 /\ pc[c] = "enqueue"
        /\ queue \in Seq(Callers) /\ OnceEach(queue)
    BY <1>1, <1>3 DEF Enqueue, Progress, TypeOK, OnePlace
  <2>2. /\ queue' \in Seq(Callers) /\ Len(queue') = Len(queue) + 1
        /\ Queued' = Queued \cup {c} /\ OnceEach(queue')
    BY <1>3, <2>1, AppendElements DEF Enqueue, Queued, Elements
  <2>3. /\ batch' = batch /\ bp' = bp /\ runs' = runs /\ results' = results
        /\ resultChan' = resultChan /\ InBatch' = InBatch /\ outcome' = outcome
    BY <1>3 DEF Enqueue, batchVars, InBatch
  <2>4. TypeOK'
    <3>1. Len(queue') <= MaxQueueSize
      BY <1>3, <2>1, <2>2 DEF Enqueue, BatchingAssumption
    <3>2. pc' \in [Callers -> {"enqueue", "waiting", "returned"}] /\ early' \subseteq Callers
      BY <1>1, <1>3 DEF Enqueue, TypeOK
    <3>3. QED
      BY <1>1, <1>3, <2>2, <3>1, <3>2 DEF Enqueue, TypeOK, chanVars, batchVars, metricVars
  <2>5. BatchHeld'
    BY <1>1, <2>3 DEF BatchHeld
  <2>6. OnePlace'
    BY <1>1, <2>1, <2>2, <2>3 DEF OnePlace, OnceEach
  <2>7. Progress'
    <3>1. \A d \in Callers : pc'[d] = IF d = c THEN "waiting" ELSE pc[d]
      BY <1>1, <1>3 DEF Enqueue, TypeOK
    <3>2. QED
      BY <1>1, <2>1, <2>2, <2>3, <3>1 DEF Progress
  <2>8. Metrics'
    BY <1>1, <1>3, <2>3, MetricsKept DEF Enqueue, Counted
  <2>9. QED
    BY <2>4, <2>5, <2>6, <2>7, <2>8 DEF BatchingInv
<1>4. ASSUME NEW c \in Callers,
             EnqueueOnClosed(c) \/ Cancel(c) \/ TurnedAway(c)
      PROVE  BatchingInv'
  BY <1>4, ReturnKeeps DEF EnqueueOnClosed, Cancel, TurnedAway
<1>5. ASSUME NEW c \in Callers, ReceiveResult(c) PROVE BatchingInv'
  <2>1. resultChan[c] \in {"ok", "err"}
    BY <1>1, <1>5 DEF ReceiveResult, TypeOK
  <2>2. QED
    BY <1>5, <2>1, ReturnKeeps DEF ReceiveResult
<1>6. ASSUME NEW c \in Callers, NEW r \in {"ok", "err"}, AgentReturns(c, r)
      PROVE  BatchingInv'
  <2>1. /\ queue' = queue /\ batch' = batch /\ bp' = bp /\ resultChan' = resultChan
        /\ pc' = pc /\ outcome' = outcome /\ Queued' = Queued /\ InBatch' = InBatch
        /\ bp = "run" /\ c \in InBatch /\ results[c] = "none"
    BY <1>6 DEF AgentReturns, callerVars, Queued, InBatch
  <2>2. /\ runs[c] = 0 /\ resultChan[c] = "empty" /\ c \notin Queued /\ pc[c] # "enqueue"
    BY <1>1, <2>1 DEF Progress, TypeOK, OnePlace
  <2>3. /\ \A d \in Callers : runs'[d] = IF d = c THEN 1 ELSE runs[d]
        /\ \A d \in Callers : results'[d] = IF d = c THEN r ELSE results[d]
        /\ runs' \in [Callers -> 0 .. 1] /\ results' \in [Callers -> {"none", "ok", "err"}]
    BY <1>1, <1>6, <2>2 DEF AgentReturns, TypeOK
  <2>4. TypeOK'
    BY <1>1, <1>6, <2>1, <2>3 DEF AgentReturns, TypeOK, chanVars, metricVars
  <2>5. BatchHeld' /\ OnePlace'
    BY <1>1, <2>1 DEF BatchHeld, OnePlace, OnceEach
  <2>6. Progress'
    BY <1>1, <2>1, <2>2, <2>3 DEF Progress
  <2>7. Metrics'
    <3>1. Counted' = Counted /\ c \notin Counted
      BY <2>1, <2>3 DEF Counted
    <3>2. \A d \in Counted : results'[d] = results[d]
      BY <2>3, <3>1 DEF Counted
    <3>3. QED
      BY <1>1, <1>6, <3>1, <3>2, MetricsKept DEF AgentReturns
  <2>8. QED
    BY <2>4, <2>5, <2>6, <2>7 DEF BatchingInv
<1>7. CASE LoopTop
  BY <1>1, <1>2, <1>7, ProcessorMoves DEF LoopTop, BatchHeld, TypeOK
<1>8. CASE Collect
  BY <1>8, ReceiveKeeps DEF Collect
<1>9. CASE CollectTimeout
  BY <1>1, <1>9, ProcessorMoves DEF CollectTimeout, BatchHeld, TypeOK
<1>10. CASE CollectShutdown
  BY <1>1, <1>10, ProcessorMoves DEF CollectShutdown, BatchHeld, TypeOK
<1>11. CASE Drain
  BY <1>11, ReceiveKeeps DEF Drain
<1>12. CASE DrainEmpty
  BY <1>1, <1>12, ProcessorMoves DEF DrainEmpty, BatchHeld, TypeOK
<1>13. CASE Deliver
  <2>1. /\ queue' = queue /\ batch' = batch /\ runs' = runs /\ results' = results
        /\ pc' = pc /\ outcome' = outcome /\ Queued' = Queued /\ InBatch' = InBatch
        /\ bp = "run" /\ bp' = "record"
    BY <1>13 DEF Deliver, callerVars, batchVars, Queued, InBatch
  <2>2. \A c \in Callers : resultChan'[c] = IF c \in InBatch THEN results[c] ELSE resultChan[c]
    BY <1>13 DEF Deliver
  <2>3. \A c \in InBatch : results[c] # "none"
    BY <1>13 DEF Deliver
  <2>4. TypeOK'
    <3>1. resultChan' \in [Callers -> {"empty", "ok", "err"}]
      BY <1>1, <1>13, <2>3 DEF Deliver, TypeOK
    <3>2. QED
      BY <1>1, <1>13, <2>1, <3>1 DEF Deliver, TypeOK, chanVars, metricVars
  <2>5. BatchHeld' /\ OnePlace'
    BY <1>1, <2>1 DEF BatchHeld, OnePlace, OnceEach
  <2>6. Progress'
    BY <1>1, <2>1, <2>2, <2>3 DEF Progress, OnePlace, TypeOK
  <2>7. Metrics'
    BY <1>1, <1>13, <2>1, MetricsKept DEF Deliver, Counted
  <2>8. QED
    BY <2>4, <2>5, <2>6, <2>7 DEF BatchingInv
<1>14. CASE RecordBatch
  <2>1. /\ queue' = queue /\ runs' = runs /\ results' = results /\ resultChan' = resultChan
        /\ pc' = pc /\ outcome' = outcome /\ Queued' = Queued
        /\ bp = "record" /\ bp' \in {"top", "drain", "exited"} /\ batch' = <<>>
        /\ InBatch' = {}
    BY <1>14 DEF RecordBatch, callerVars, Queued, InBatch
  <2>2. Metrics'
    BY <1>14, BatchCounted
  <2>3. TypeOK'
    <3>1. batch' \in Seq(Callers) /\ Len(batch') <= MaxBatchSize
      BY <1>2, <2>1
    <3> DEFINE n == Len(batch)
               failures == Cardinality({i \in DOMAIN batch : results[batch[i]] = "err"})
               counted == outcomeCounter(n - failures, failures)
    <3>2. PICK s \in {0, 1}, f \in {0, 1}, q \in {0, 1} : counted = <<s, f, q>>
      BY DEF outcomeCounter
    <3>3. /\ totalRequests' = totalRequests + n /\ totalBatches' = totalBatches + 1
          /\ successfulBatches' = successfulBatches + s
          /\ failedBatches' = failedBatches + f
          /\ partialBatches' = partialBatches + q
          /\ minBatchSize' = n \/ minBatchSize' = minBatchSize
          /\ maxBatchSize' = n \/ maxBatchSize' = maxBatchSize
      BY <1>14, <3>2 DEF RecordBatch
    <3>4. /\ totalRequests' \in Nat /\ totalBatches' \in Nat /\ successfulBatches' \in Nat
          /\ failedBatches' \in Nat /\ partialBatches' \in Nat
          /\ minBatchSize' \in Nat /\ maxBatchSize' \in Nat
      <4>1. /\ totalRequests \in Nat /\ totalBatches \in Nat /\ successfulBatches \in Nat
            /\ failedBatches \in Nat /\ partialBatches \in Nat
            /\ minBatchSize \in Nat /\ maxBatchSize \in Nat /\ n \in Nat
        BY <1>1, <1>2 DEF TypeOK
      <4> HIDE DEF n
      <4>2. QED
        BY <3>3, <4>1
    <3>5. QED
      BY <1>1, <1>14, <2>1, <3>1, <3>4 DEF RecordBatch, TypeOK, chanVars
  <2>4. BatchHeld'
    BY <1>2, <2>1 DEF BatchHeld
  <2>5. OnePlace'
    BY <1>1, <2>1 DEF OnePlace, OnceEach
  <2>6. Progress'
    BY <1>1, <2>1 DEF Progress, TypeOK
  <2>7. QED
    BY <2>2, <2>3, <2>4, <2>5, <2>6 DEF BatchingInv
<1>15. CASE ShutdownBegin \/ ShutdownEnd \/ UNCHANGED vars
  <2>1. UNCHANGED <<queue, callerVars, resultChan, bp, draining, last, batchVars, early,
                    metricVars>>
    BY <1>15 DEF ShutdownBegin, ShutdownEnd, vars
  <2>2. TypeOK'
    BY Zenon, <1>1, <1>15, <2>1
       DEF ShutdownBegin, ShutdownEnd, vars, chanVars, TypeOK, callerVars, batchVars, metricVars
  <2>3. Queued' = Queued /\ InBatch' = InBatch
    BY <2>1 DEF batchVars, Queued, InBatch
  <2>4. BatchHeld' /\ OnePlace' /\ Progress'
    BY Zenon, <1>1, <2>1, <2>3
       DEF BatchHeld, OnePlace, OnceEach, Progress, callerVars, batchVars
  <2>5. Metrics'
    BY <1>1, <2>1, <2>3, MetricsKept DEF Counted, batchVars
  <2>6. QED
    BY <2>2, <2>4, <2>5 DEF BatchingInv
<1>16. QED
  BY <1>3, <1>4, <1>5, <1>6, <1>7, <1>8, <1>9, <1>10, <1>11, <1>12, <1>13, <1>14, <1>15
     DEF Next, Caller, Processor

-----------------------------------------------------------------------------
(* What the invariant says of the requests, the results and the metrics. *)

\* What the invariant says in the terms of the runs.
LEMMA BatchingProperties ==
    ASSUME BatchingAssumption, BatchingInv
    PROVE  RequestsNotLostOrDuplicated /\ OwnResult /\ MetricsAccountForRuns
<1>1. TypeOK /\ BatchHeld /\ OnePlace /\ Progress /\ Metrics
  BY DEF BatchingInv
<1>2. Cardinality(Queued) = Len(queue) /\ Cardinality(InBatch) = Len(batch)
  BY Zenon, <1>1, OnceEachCount DEF TypeOK, OnePlace, Queued, InBatch, Elements
<1>3. \A c \in Queued : c \in Callers
  BY <1>1 DEF TypeOK, Queued
<1>4. RequestsNotLostOrDuplicated
  BY <1>1, <1>2, <1>3 DEF RequestsNotLostOrDuplicated, OnePlace, Progress
<1>5. OwnResult
  BY <1>1 DEF OwnResult, Progress, TypeOK
<1>6. MetricsAccountForRuns
  <2>1. SUFFICES ASSUME bp \in {"top", "exited"} PROVE MetricsAccountForRuns
    BY DEF MetricsAccountForRuns
  <2>2. InBatch = {}
    BY <1>1, <2>1 DEF BatchHeld, InBatch
  <2>3. Counted = {c \in Callers : runs[c] = 1}
    BY <2>2 DEF Counted
  <2>4. CountedFailed = {c \in {d \in Callers : runs[d] = 1} : results[c] = "err"}
    BY <2>3 DEF CountedFailed
  <2>5. Metrics /\ totalBatches \in Nat
    BY <1>1 DEF TypeOK
  <2>6. QED
    BY <2>3, <2>4, <2>5 DEF MetricsAccountForRuns, Metrics
<1>7. QED
  BY <1>4, <1>5, <1>6

\* A request that waits is queued or in the batch, in one place only, and is run at
\* most once (collectBatch, processPendingBatches, also across Shutdown).
THEOREM NothingLost ==
    ASSUME BatchingAssumption PROVE Spec => []RequestsNotLostOrDuplicated
<1>1. Init => BatchingInv
  BY BatchingInit
<1>2. BatchingInv /\ [Next]_vars => BatchingInv'
  BY BatchingStep
<1>3. BatchingInv => RequestsNotLostOrDuplicated
  BY BatchingProperties
<1>4. QED
  BY <1>1, <1>2, <1>3, PTL DEF Spec

\* Process returns the result of the one run of its own request.
THEOREM ResultsOwn == ASSUME BatchingAssumption PROVE Spec => []OwnResult
<1>1. Init => BatchingInv
  BY BatchingInit
<1>2. BatchingInv /\ [Next]_vars => BatchingInv'
  BY BatchingStep
<1>3. BatchingInv => OwnResult
  BY BatchingProperties
<1>4. QED
  BY <1>1, <1>2, <1>3, PTL DEF Spec

\* Between batches RecordBatch has accounted for every request that was run.
THEOREM RunsCounted == ASSUME BatchingAssumption PROVE Spec => []MetricsAccountForRuns
<1>1. Init => BatchingInv
  BY BatchingInit
<1>2. BatchingInv /\ [Next]_vars => BatchingInv'
  BY BatchingStep
<1>3. BatchingInv => MetricsAccountForRuns
  BY BatchingProperties
<1>4. QED
  BY <1>1, <1>2, <1>3, PTL DEF Spec

-----------------------------------------------------------------------------
(* The load balancer and the health checker. *)

CONSTANTS Requests, N, Weight, Configs, FailureThreshold, MaxDrift,
          LivenessFailureThreshold, ReadinessFailureThreshold, StartupFailureThreshold

VARIABLES Strategy, EnableFailover, up, Healthy, ActiveConnections, TotalFailures,
          consecutiveFailures, currentIndex, target, attempted, checking, StartupEnabled,
          agentUp, processOK, isAlive, isReady, startupComplete, underway, healthy, attempts,
          stopped

I == INSTANCE Infrastructure

\* Infrastructure has its own copy of the operators on finite sets, which are the same: what
\* the library says of them holds for the copy too.
LEMMA SameSizes ==
    ASSUME NEW S PROVE (I!IsFiniteSet(S) <=> IsFiniteSet(S)) /\ I!Cardinality(S) = Cardinality(S)
<1>1. I!IsFiniteSet(S) <=> IsFiniteSet(S)
  BY Zenon DEF IsFiniteSet, I!IsFiniteSet
<1>2. I!Cardinality(S) = Cardinality(S)
  BY Zenon DEF Cardinality, I!Cardinality, IsFiniteSet, I!IsFiniteSet
<1>3. QED
  BY Zenon, <1>1, <1>2

\* The size of a finite set is a number.
LEMMA SizeType == ASSUME NEW S, I!IsFiniteSet(S) PROVE I!Cardinality(S) \in Nat
  BY SameSizes, FS_CardinalityType

\* The empty set is the one of size 0.
LEMMA EmptySize ==
    /\ I!Cardinality({}) = 0
    /\ \A S : I!IsFiniteSet(S) => (I!Cardinality(S) = 0 <=> S = {})
  BY SameSizes, FS_EmptySet

\* A singleton has size 1.
LEMMA SingletonSize == \A x : I!IsFiniteSet({x}) /\ I!Cardinality({x}) = 1
  BY Zenon, SameSizes, FS_Singleton

\* A new element adds 1 to the size.
LEMMA AddSize ==
    ASSUME NEW S, NEW x, I!IsFiniteSet(S)
    PROVE  /\ I!IsFiniteSet(S \cup {x})
           /\ I!Cardinality(S \cup {x})
                = IF x \in S THEN I!Cardinality(S) ELSE I!Cardinality(S) + 1
  BY SameSizes, FS_AddElement

\* A subset is no larger, and of the same size only if it is the whole.
LEMMA SubsetSize ==
    ASSUME NEW S, I!IsFiniteSet(S), NEW T \in SUBSET S
    PROVE  /\ I!IsFiniteSet(T) /\ I!Cardinality(T) <= I!Cardinality(S)
           /\ I!Cardinality(S) = I!Cardinality(T) => S = T
  BY SameSizes, FS_Subset

\* The size of an interval of integers.
LEMMA IntervalSize ==
    ASSUME NEW a \in Int, NEW b \in Int
    PROVE  /\ I!IsFiniteSet(a .. b)
           /\ I!Cardinality(a .. b) = IF a > b THEN 0 ELSE b - a + 1
  BY SameSizes, FS_Interval

-----------------------------------------------------------------------------
(* The load balancer. *)

\* What selectBackend returns is a healthy backend, whatever the strategy.
LEMMA SelectsHealthy ==
    ASSUME NEW s \in I!selectBackend PROVE s.backend \in I!Backends /\ Healthy[s.backend]
<1>1. \A t \in I!selectRoundRobin : t.backend \in I!healthyBackends
  BY DEF I!selectRoundRobin
<1>2. \A t \in I!selectLeastConnections : t.backend \in I!healthyBackends
  BY DEF I!selectLeastConnections
<1>3. \A b \in I!firstHealthy : b \in I!healthyBackends
  BY DEF I!firstHealthy
<1>4. \A t \in I!selectWeightedRoundRobin : t.backend \in I!healthyBackends
  BY <1>3 DEF I!selectWeightedRoundRobin
<1>5. \A t \in I!selectRandom : t.backend \in I!healthyBackends
  BY DEF I!selectRandom
<1>6. s.backend \in I!healthyBackends
  BY <1>1, <1>2, <1>3, <1>4, <1>5 DEF I!selectBackend
<1>7. QED
  BY <1>6 DEF I!healthyBackends

\* The backends, counted.
LEMMA AllAttempted ==
    ASSUME I!BalancerAssumption, NEW A \in SUBSET I!Backends
    PROVE  /\ I!IsFiniteSet(I!Backends) /\ I!Cardinality(I!Backends) = N
           /\ I!Cardinality(A) \in Nat
           /\ I!Cardinality(A) >= N => A = I!Backends
<1>1. I!IsFiniteSet(I!Backends) /\ I!Cardinality(I!Backends) = N /\ N \in Nat
  <2>1. N \in Nat /\ N > 0 /\ 0 \in Int /\ N - 1 \in Int
    BY DEF I!BalancerAssumption
  <2>2. /\ I!IsFiniteSet(0 .. N - 1)
        /\ I!Cardinality(0 .. N - 1) = IF 0 > N - 1 THEN 0 ELSE (N - 1) - 0 + 1
    BY <2>1, IntervalSize
  <2>3. QED
    BY <2>1, <2>2 DEF I!Backends
<1>2. I!IsFiniteSet(A) /\ I!Cardinality(A) <= N /\ (I!Cardinality(A) = N => A = I!Backends)
  BY <1>1, SubsetSize
<1>3. I!Cardinality(A) \in Nat
  BY <1>2, SizeType
<1>4. QED
  BY <1>1, <1>2, <1>3

\* The requests that are calling a backend.
LEMMA ConnectedBounds ==
    ASSUME I!BalancerAssumption, NEW b
    PROVE  /\ I!connected(b) \in Nat /\ I!Cardinality(Requests) \in Nat
           /\ I!connected(b) <= I!Cardinality(Requests)
           /\ \A r \in Requests : /\ pc[r] # "calling" => I!connected(b) < I!Cardinality(Requests)
                                  /\ pc[r] = "calling" /\ target[r] = b => I!connected(b) > 0
<1> DEFINE C == {q \in Requests : target[q] = b /\ pc[q] = "calling"}
<1>1. I!IsFiniteSet(Requests) /\ C \in SUBSET Requests
  BY DEF I!BalancerAssumption
<1>2. /\ I!IsFiniteSet(C) /\ I!Cardinality(C) <= I!Cardinality(Requests)
      /\ I!Cardinality(C) = I!Cardinality(Requests) => C = Requests
  BY <1>1, SubsetSize
<1>3. I!Cardinality(C) \in Nat /\ I!Cardinality(Requests) \in Nat
  BY <1>1, <1>2, SizeType
<1>4. I!Cardinality(C) = 0 <=> C = {}
  BY <1>2, EmptySize
<1>5. ASSUME NEW r \in Requests, pc[r] # "calling"
      PROVE  I!Cardinality(C) < I!Cardinality(Requests)
  BY <1>2, <1>3, <1>5
<1>6. ASSUME NEW r \in Requests, pc[r] = "calling", target[r] = b
      PROVE  I!Cardinality(C) > 0
  BY <1>3, <1>4, <1>6
<1>7. QED
  BY <1>2, <1>3, <1>5, <1>6 DEF I!connected

\* What a lost update may leave in ActiveConnections stays within MaxDrift.
LEMMA ConnectionsRange ==
    ASSUME I!BalancerAssumption, I!BalancerTypeOK, NEW r \in Requests, NEW d \in {1, -1},
           d = 1 => pc[r] = "connect", d = -1 => pc[r] = "calling",
           I!setConnections(r, target[r], d)
    PROVE  ActiveConnections' \in [I!Backends -> -MaxDrift .. MaxDrift + I!Cardinality(Requests)]
<1> DEFINE b == target[r]
           k == I!connected(b)
           c == I!Cardinality(Requests)
<1>1. /\ k \in Nat /\ c \in Nat
      /\ d = 1 => k < c
      /\ d = -1 => k > 0 /\ k <= c
  BY ConnectedBounds
<1>2. /\ b \in I!Backends /\ ActiveConnections[b] \in Int
      /\ MaxDrift \in Nat /\ I!drift \in 0 .. MaxDrift
  BY DEF I!BalancerTypeOK, I!BalancerAssumption, I!drift
<1>3. PICK n : /\ n \in I!updated(ActiveConnections[b], d, I!others(r, b, {"connect", "calling"}))
               /\ n - (k + d) \in -I!drift .. I!drift
               /\ ActiveConnections' = [ActiveConnections EXCEPT ![b] = n]
  BY Zenon DEF I!setConnections
<1>4. n \in Int
  BY <1>2, <1>3 DEF I!updated
<1>5. n \in -MaxDrift .. MaxDrift + c
  <2> HIDE DEF k, c
  <2> QED
    BY <1>1, <1>2, <1>3, <1>4
<1>6. QED
  BY <1>2, <1>3, <1>5 DEF I!BalancerTypeOK

\* A balancer that was just made has its types.
LEMMA BalancerInitType == ASSUME I!BalancerAssumption, I!BalancerInit PROVE I!BalancerTypeOK
<1>1. I!Cardinality(Requests) \in Nat
  BY SizeType DEF I!BalancerAssumption
<1>2. 0 \in I!Backends /\ 0 \in -MaxDrift .. MaxDrift + I!Cardinality(Requests)
  BY <1>1 DEF I!BalancerAssumption, I!Backends
<1>3. QED
  BY <1>1, <1>2 DEF I!BalancerInit, I!BalancerAssumption, I!BalancerTypeOK

\* A counter of failures stays below its cap.
LEMMA CappedRange ==
    ASSUME I!BalancerAssumption, NEW n \in Nat PROVE I!Capped(n) \in 0 .. FailureThreshold
  BY DEF I!Capped, I!BalancerAssumption

\* A counter after an update that may be lost.
LEMMA UpdatedRange == ASSUME NEW n \in Nat, NEW raced PROVE I!updated(n, 1, raced) \subseteq Nat
  BY DEF I!updated

\* Every step of a request, of the health checks and of the backends keeps the types, the
\* drift of ActiveConnections included.
LEMMA BalancerStep ==
    ASSUME I!BalancerAssumption, I!BalancerTypeOK, [I!BalancerNext]_(I!balancerVars)
    PROVE  I!BalancerTypeOK'
<1>1. 0 \in I!Backends
  BY DEF I!Backends, I!BalancerAssumption
<1>2. ASSUME NEW r \in Requests, NEW o \in {"idle", "failed"}, I!finish(r, o)
      PROVE  /\ pc' \in [Requests -> {"idle", "select", "connect", "calling", "tally", "failed"}]
             /\ target' \in [Requests -> I!Backends]
             /\ attempted' \in [Requests -> SUBSET I!Backends]
  BY <1>1, <1>2 DEF I!finish, I!BalancerTypeOK
<1>3. ASSUME NEW r \in Requests, NEW at \in {"select", "calling", "tally"}, I!continue(r, at)
      PROVE  /\ pc' \in [Requests -> {"idle", "select", "connect", "calling", "tally", "failed"}]
             /\ target' \in [Requests -> I!Backends]
             /\ attempted' \in [Requests -> SUBSET I!Backends]
  BY <1>3 DEF I!continue, I!BalancerTypeOK
<1>4. ASSUME NEW r \in Requests, I!Start(r) \/ I!NoneHealthy(r) PROVE I!BalancerTypeOK'
  BY <1>2, <1>3, <1>4
     DEF I!Start, I!NoneHealthy, I!BalancerTypeOK, I!config, I!backendVars, I!checkVars
<1>5. ASSUME NEW r \in Requests, I!SelectAttempted(r) PROVE I!BalancerTypeOK'
  BY <1>2, <1>5 DEF I!SelectAttempted, I!BalancerTypeOK, I!config, I!backendVars,
                      I!checkVars, I!requestVars
<1>6. ASSUME NEW r \in Requests, I!Select(r) PROVE I!BalancerTypeOK'
  <2>1. PICK s \in I!selectBackend :
           /\ attempted' = [attempted EXCEPT ![r] = @ \cup {s.backend}]
           /\ target' = [target EXCEPT ![r] = s.backend]
           /\ pc' = [pc EXCEPT ![r] = "connect"]
           /\ UNCHANGED <<I!config, up, I!backendVars, I!checkVars>>
    BY Zenon, <1>6 DEF I!Select
  <2>2. s.backend \in I!Backends
    BY SelectsHealthy
  <2>3. QED
    BY <2>1, <2>2 DEF I!BalancerTypeOK, I!config, I!backendVars, I!checkVars
<1>7. ASSUME NEW r \in Requests, I!Connect(r) PROVE I!BalancerTypeOK'
  <2>1. ActiveConnections' \in [I!Backends -> -MaxDrift .. MaxDrift + I!Cardinality(Requests)]
    BY <1>7, ConnectionsRange DEF I!Connect
  <2>2. QED
    BY SMTT(30), <1>3, <1>7, <2>1 DEF I!Connect, I!BalancerTypeOK, I!config, I!checkVars
<1>8. ASSUME NEW r \in Requests, I!Disconnect(r) PROVE I!BalancerTypeOK'
  <2>1. ActiveConnections' \in [I!Backends -> -MaxDrift .. MaxDrift + I!Cardinality(Requests)]
    <3>1. pc[r] = "calling" /\ I!setConnections(r, target[r], -1)
      BY Zenon, <1>8 DEF I!Disconnect
    <3>2. -1 \in {1, -1} /\ -1 # 1
      OBVIOUS
    <3>3. QED
      BY Zenon, <3>1, <3>2, ConnectionsRange
  <2>2. QED
    BY <1>2, <1>3, <1>8, <2>1 DEF I!Disconnect, I!BalancerTypeOK, I!config, I!checkVars
<1>9. ASSUME NEW r \in Requests, I!Tally(r) PROVE I!BalancerTypeOK'
  <2>1. target[r] \in I!Backends /\ TotalFailures[target[r]] \in Nat
    BY DEF I!BalancerTypeOK, I!BalancerAssumption
  <2>2. PICK n \in Nat :
           /\ TotalFailures' = [TotalFailures EXCEPT ![target[r]] = I!Capped(n)]
           /\ Healthy' = [Healthy EXCEPT ![target[r]] = @ /\ n < FailureThreshold]
    BY Zenon, <1>9, <2>1, UpdatedRange DEF I!Tally
  <2>3. /\ TotalFailures' \in [I!Backends -> 0 .. FailureThreshold]
        /\ Healthy' \in [I!Backends -> BOOLEAN]
    BY <2>1, <2>2, CappedRange DEF I!BalancerTypeOK
  <2>4. QED
    BY <1>2, <1>3, <1>9, <2>3 DEF I!Tally, I!BalancerTypeOK, I!config, I!checkVars
<1>10. checking \in I!Backends /\ I!nextCheck \in I!Backends
  BY DEF I!nextCheck, I!Backends, I!BalancerTypeOK, I!BalancerAssumption
<1>11. CASE I!CheckPasses
  BY <1>10, <1>11 DEF I!CheckPasses, I!BalancerTypeOK, I!BalancerAssumption, I!config, I!requestVars
<1>12. CASE I!CheckFails
  <2>1. /\ TotalFailures[checking] \in Nat /\ consecutiveFailures[checking] + 1 \in Nat
    BY <1>10 DEF I!BalancerTypeOK, I!BalancerAssumption
  <2>2. PICK n \in Nat : TotalFailures' = [TotalFailures EXCEPT ![checking] = I!Capped(n)]
    BY Zenon, <1>12, <2>1, UpdatedRange DEF I!CheckFails
  <2>3. /\ TotalFailures' \in [I!Backends -> 0 .. FailureThreshold]
        /\ consecutiveFailures' \in [I!Backends -> 0 .. FailureThreshold]
    BY <1>10, <1>12, <2>1, <2>2, CappedRange DEF I!CheckFails, I!BalancerTypeOK
  <2>4. Healthy' \in [I!Backends -> BOOLEAN]
    BY <1>10, <1>12 DEF I!CheckFails, I!BalancerTypeOK
  <2>5. QED
    BY <1>10, <1>12, <2>3, <2>4 DEF I!CheckFails, I!BalancerTypeOK, I!config, I!requestVars
<1>13. CASE I!BackendChanges
  BY <1>13 DEF I!BackendChanges, I!BalancerTypeOK, I!config, I!backendVars, I!requestVars, I!checkVars
<1>14. CASE UNCHANGED I!balancerVars
  BY <1>14 DEF I!balancerVars, I!BalancerTypeOK, I!config, I!backendVars, I!requestVars, I!checkVars
<1>15. QED
  BY <1>4, <1>5, <1>6, <1>7, <1>8, <1>9, <1>11, <1>12, <1>13, <1>14
     DEF I!BalancerNext, I!Process, I!performHealthChecks

\* The failures of one step.
LEMMA FailureExplained ==
    ASSUME I!BalancerAssumption, I!BalancerTypeOK, [I!BalancerNext]_(I!balancerVars)
    PROVE  I!FailureStep
<1>1. SUFFICES ASSUME NEW r \in Requests, pc[r] # "failed", pc'[r] = "failed", EnableFailover
               PROVE  attempted[r] = I!Backends \/ \A b \in I!Backends : ~Healthy[b]
  BY Zenon DEF I!FailureStep
<1>2. \/ I!NoneHealthy(r)
      \/ I!SelectAttempted(r) /\ I!finish(r, "failed")
      \/ I!Tally(r) /\ I!finish(r, "failed")
  <2>1. ASSUME NEW q \in Requests, NEW at, at # "failed", I!continue(q, at) PROVE FALSE
    BY <1>1, <2>1 DEF I!continue, I!BalancerTypeOK
  <2>2. ASSUME NEW q \in Requests, NEW o, I!finish(q, o) PROVE q = r /\ o = "failed"
    BY <1>1, <2>2 DEF I!finish, I!BalancerTypeOK
  <2>3. ASSUME pc' = pc PROVE FALSE
    BY <1>1, <2>3
  <2>4. PICK q \in Requests : I!Start(q) \/ I!Process(q)
    BY Zenon, <2>3 DEF I!BalancerNext, I!performHealthChecks, I!CheckPasses, I!CheckFails, I!BackendChanges,
                I!balancerVars, I!requestVars
  <2>5. CASE I!Start(q)
    BY Zenon, <2>1, <2>5 DEF I!Start
  <2>6. CASE I!NoneHealthy(q)
    <3>1. I!finish(q, "failed")
      BY Zenon, <2>6 DEF I!NoneHealthy
    <3>2. QED
      BY Zenon, <2>2, <2>6, <3>1
  <2>7. CASE I!SelectAttempted(q)
    <3>1. I!finish(q, "failed")
      BY Zenon, <2>3, <2>7 DEF I!SelectAttempted, I!requestVars
    <3>2. QED
      BY Zenon, <2>2, <2>7, <3>1
  <2>8. CASE I!Select(q)
    BY <1>1, <2>8 DEF I!Select, I!BalancerTypeOK
  <2>9. CASE I!Connect(q)
    BY Zenon, <2>1, <2>9 DEF I!Connect
  <2>10. CASE I!Disconnect(q)
    <3>1. I!finish(q, "idle") \/ I!continue(q, "tally")
      BY Zenon, <2>10 DEF I!Disconnect
    <3>2. QED
      BY Zenon, <2>1, <2>2, <3>1
  <2>11. CASE I!Tally(q)
    <3>1. I!finish(q, "failed")
      BY Zenon, <2>1, <2>11 DEF I!Tally
    <3>2. QED
      BY Zenon, <2>2, <2>11, <3>1
  <2>12. QED
    BY Zenon, <2>4, <2>5, <2>6, <2>7, <2>8, <2>9, <2>10, <2>11 DEF I!Process
<1>3. CASE I!NoneHealthy(r)
  BY <1>3 DEF I!NoneHealthy, I!healthyBackends
<1>4. attempted[r] \in SUBSET I!Backends /\ N \in Nat
  BY DEF I!BalancerTypeOK, I!BalancerAssumption
<1>5. CASE I!SelectAttempted(r) /\ I!finish(r, "failed")
  <2>1. pc[r] = "select"
    BY <1>5 DEF I!SelectAttempted
  <2>2. I!Cardinality(attempted[r]) >= N
    BY SMTT(30), <1>1, <1>5, <2>1 DEF I!SelectAttempted, I!requestVars
  <2>3. QED
    BY <1>4, <2>2, AllAttempted
<1>6. CASE I!Tally(r) /\ I!finish(r, "failed")
  <2>1. ~I!failover(r)
    BY SMTT(30), <1>1, <1>6 DEF I!Tally, I!continue, I!BalancerTypeOK
  <2>2. I!Cardinality(attempted[r]) \in Nat /\ ~(I!Cardinality(attempted[r]) < N)
    BY <1>1, <1>4, <2>1, AllAttempted DEF I!failover
  <2>3. I!Cardinality(attempted[r]) >= N
    BY <1>4, <2>2
  <2>4. QED
    BY <1>4, <2>3, AllAttempted
<1>7. QED
  BY Zenon, <1>2, <1>3, <1>5, <1>6

\* With failover a request fails only after it tried every backend or when no backend
\* was healthy, for every number of backends and every strategy.
THEOREM FailuresExplained ==
    ASSUME I!BalancerAssumption PROVE I!BalancerSpec => [][I!FailureStep]_(I!balancerVars)
<1>1. I!BalancerInit => I!BalancerTypeOK
  BY BalancerInitType
<1>2. I!BalancerTypeOK /\ [I!BalancerNext]_(I!balancerVars) => I!BalancerTypeOK'
  BY BalancerStep
<1>3. I!BalancerTypeOK /\ [I!BalancerNext]_(I!balancerVars) => [I!FailureStep]_(I!balancerVars)
  BY FailureExplained
<1>4. QED
  BY <1>1, <1>2, <1>3, PTL DEF I!BalancerSpec

-----------------------------------------------------------------------------
(* The health checker. *)

\* 1 when process p is at one of the control points Q.
At(p, Q) == IF pc[p] \in Q THEN 1 ELSE 0

\* What the metrics count as under way is what is under way: every check that was
\* counted as started is counted once as a success or as a failure, although a
\* startup check is also a readiness check and all of them run at the same time.
ChecksCounted ==
    /\ underway["liveness"] = At("liveness", {"calling"})
    /\ underway["readiness"] = At("readiness", {"calling", "refused"})
                               + At("startup", {"calling", "refused"})
                               + At("user", {"calling", "refused"})
    /\ underway["startup"] = At("startup", {"calling", "refused", "checked"})

HealthInv == I!HealthTypeOK /\ ChecksCounted

\* The counts of ChecksCounted are in the range of the type invariant.
LEMMA UnderwayRange ==
    ASSUME NEW u, u = [q \in I!Probes |-> u[q]],
           u["liveness"] \in 0 .. 1, u["readiness"] \in 0 .. 3, u["startup"] \in 0 .. 1
    PROVE  u \in [I!Probes -> 0 .. I!Cardinality(I!Procs)]
<1>1. I!IsFiniteSet({"liveness"}) /\ I!Cardinality({"liveness"}) = 1
  BY Zenon, SingletonSize
<1>2. /\ I!IsFiniteSet({"liveness"} \cup {"readiness"})
      /\ I!Cardinality({"liveness"} \cup {"readiness"}) = 2
  BY <1>1, AddSize
<1>3. /\ I!IsFiniteSet(({"liveness"} \cup {"readiness"}) \cup {"startup"})
      /\ I!Cardinality(({"liveness"} \cup {"readiness"}) \cup {"startup"}) = 3
  BY <1>2, AddSize
<1>4. I!Cardinality((({"liveness"} \cup {"readiness"}) \cup {"startup"}) \cup {"user"}) = 4
  BY <1>3, AddSize
<1>5. I!Procs = (({"liveness"} \cup {"readiness"}) \cup {"startup"}) \cup {"user"}
  BY DEF I!Procs, I!Probes
<1>6. \A q \in I!Probes : u[q] \in 0 .. I!Cardinality(I!Procs)
  BY <1>4, <1>5 DEF I!Probes
<1>7. QED
  BY <1>6

\* A checker that was just made has no check under way.
LEMMA HealthInitInv == ASSUME I!HealthAssumption, I!HealthInit PROVE HealthInv
<1>1. /\ "liveness" \in I!Probes /\ "readiness" \in I!Probes /\ "startup" \in I!Probes
      /\ "liveness" \in I!Procs /\ "readiness" \in I!Procs /\ "startup" \in I!Procs /\ "user" \in I!Procs
  BY DEF I!Probes, I!Procs
<1>2. ChecksCounted
  BY <1>1 DEF I!HealthInit, ChecksCounted, At
<1>3. underway \in [I!Probes -> 0 .. I!Cardinality(I!Procs)]
  BY <1>1, UnderwayRange DEF I!HealthInit
<1>4. {StartupEnabled, agentUp, processOK, isAlive, isReady, startupComplete, stopped}
         \subseteq BOOLEAN
  BY Zenon DEF I!HealthInit
<1>5. QED
  BY <1>2, <1>3, <1>4 DEF I!HealthInit, HealthInv, I!HealthTypeOK, I!HealthAssumption, I!Threshold

\* A process that ends, or a check that is done and put away, is not between the start of a
\* check and its result.
LEMMA SameAt ==
    ASSUME \A q \in I!Procs : \/ pc'[q] = pc[q]
                              \/ q # "startup" /\ pc[q] = "checked" /\ pc'[q] = "idle"
                              \/ pc[q] = "idle" /\ pc'[q] = "exited"
    PROVE  /\ At("liveness", {"calling"})' = At("liveness", {"calling"})
           /\ At("startup", {"calling", "refused", "checked"})'
                = At("startup", {"calling", "refused", "checked"})
           /\ \A q \in I!Procs : At(q, {"calling", "refused"})' = At(q, {"calling", "refused"})
<1>1. "liveness" \in I!Procs /\ "startup" \in I!Procs
  BY DEF I!Probes, I!Procs
<1>2. \A q \in I!Procs : At(q, {"calling", "refused"})' = At(q, {"calling", "refused"})
  BY DEF At
<1>3. At("liveness", {"calling"})' = At("liveness", {"calling"})
  BY <1>1 DEF At
<1>4. At("startup", {"calling", "refused", "checked"})'
        = At("startup", {"calling", "refused", "checked"})
  BY <1>1 DEF At
<1>5. QED
  BY Zenon, <1>2, <1>3, <1>4

\* Steps that only move a process and set verdicts: none of them between the start of
\* a check and its result.
LEMMA VerdictStep ==
    ASSUME I!HealthAssumption, HealthInv, UNCHANGED <<I!counters, attempts>>,
           {StartupEnabled', agentUp', processOK', isAlive', isReady', startupComplete',
            stopped'} \subseteq BOOLEAN,
           healthy' \in [I!Procs -> BOOLEAN],
           \/ pc' = pc
           \/ \E p \in I!Procs : /\ pc' = [pc EXCEPT ![p] = "idle"] /\ pc[p] = "checked"
                               /\ p # "startup"
           \/ \E p \in I!Procs : pc' = [pc EXCEPT ![p] = "exited"] /\ pc[p] = "idle"
    PROVE  HealthInv'
<1>1. I!HealthTypeOK /\ ChecksCounted /\ underway' = underway
      /\ consecutiveFailures' = consecutiveFailures /\ attempts' = attempts
  BY DEF HealthInv, I!counters
<1>2. pc' \in [I!Procs -> {"idle", "calling", "refused", "checked", "exited"}]
  BY <1>1 DEF I!HealthTypeOK
<1>3. I!HealthTypeOK'
  BY <1>1, <1>2 DEF I!HealthTypeOK, I!Threshold
<1>4. \A q \in I!Procs : \/ pc'[q] = pc[q]
                         \/ q # "startup" /\ pc[q] = "checked" /\ pc'[q] = "idle"
                         \/ pc[q] = "idle" /\ pc'[q] = "exited"
  <2> SUFFICES ASSUME NEW q \in I!Procs
               PROVE  \/ pc'[q] = pc[q]
                      \/ q # "startup" /\ pc[q] = "checked" /\ pc'[q] = "idle"
                      \/ pc[q] = "idle" /\ pc'[q] = "exited"
    OBVIOUS
  <2>1. pc \in [I!Procs -> {"idle", "calling", "refused", "checked", "exited"}]
    BY <1>1 DEF I!HealthTypeOK
  <2>2. CASE pc' = pc
    BY Zenon, <2>2
  <2>3. CASE \E p \in I!Procs : /\ pc' = [pc EXCEPT ![p] = "idle"] /\ pc[p] = "checked"
                                /\ p # "startup"
    BY <2>1, <2>3
  <2>4. CASE \E p \in I!Procs : pc' = [pc EXCEPT ![p] = "exited"] /\ pc[p] = "idle"
    BY SMTT(30), <2>1, <2>4
  <2>5. QED
    BY Zenon, <2>2, <2>3, <2>4
<1>5. ChecksCounted'
  <2>1. "readiness" \in I!Procs /\ "startup" \in I!Procs /\ "user" \in I!Procs
    BY DEF I!Probes, I!Procs
  <2>2. QED
    BY <1>1, <1>4, <2>1, SameAt DEF ChecksCounted
<1>6. QED
  BY <1>3, <1>5 DEF HealthInv

\* Every step of the probes, of a caller and of Stop keeps the counts of checks under way true.
LEMMA HealthStep ==
    ASSUME I!HealthAssumption, HealthInv, [I!HealthNext]_(I!healthVars) PROVE HealthInv'
<1>1. I!HealthTypeOK /\ ChecksCounted
  BY DEF HealthInv
<1>2. /\ "liveness" \in I!Probes /\ "readiness" \in I!Probes /\ "startup" \in I!Probes
      /\ "liveness" \in I!Procs /\ "readiness" \in I!Procs /\ "startup" \in I!Procs /\ "user" \in I!Procs
  BY DEF I!Probes, I!Procs
<1>3. /\ StartupEnabled \in BOOLEAN /\ agentUp \in BOOLEAN /\ processOK \in BOOLEAN
      /\ isAlive \in BOOLEAN /\ isReady \in BOOLEAN /\ startupComplete \in BOOLEAN
      /\ stopped \in BOOLEAN /\ healthy \in [I!Procs -> BOOLEAN]
      /\ pc \in [I!Procs -> {"idle", "calling", "refused", "checked", "exited"}]
      /\ attempts \in 0 .. StartupFailureThreshold
  BY <1>1 DEF I!HealthTypeOK
<1>4. /\ underway["liveness"] \in Nat /\ underway["readiness"] \in Nat
      /\ underway["startup"] \in Nat
  BY <1>1 DEF ChecksCounted, At
\* A result: the failures in a row stay below their cap.
<1>5. ASSUME NEW P, NEW ok \in BOOLEAN, I!track(P, ok)
      PROVE  /\ \A p \in I!Probes : consecutiveFailures'[p] \in 0 .. I!Threshold(p)
             /\ underway' = [q \in I!Probes |-> underway'[q]]
             /\ \A q \in I!Probes : underway'[q] = IF q \in P THEN underway[q] - 1 ELSE underway[q]
  <2>1. \A p \in I!Probes : I!Threshold(p) \in Nat /\ consecutiveFailures[p] \in 0 .. I!Threshold(p)
    BY <1>1 DEF I!HealthTypeOK, I!HealthAssumption, I!Threshold
  <2>2. QED
    BY <1>5, <2>1 DEF I!track
<1>6. ASSUME NEW p \in I!Provers, I!CheckReadiness(p) PROVE HealthInv'
  <2>1. PICK at \in {"calling", "refused"} : pc' = [pc EXCEPT ![p] = at]
    BY Zenon, <1>6 DEF I!CheckReadiness
  <2>2. /\ p \in I!Procs /\ p # "liveness" /\ pc[p] = "idle"
        /\ p = "readiness" \/ p = "startup" \/ p = "user"
        /\ pc' \in [I!Procs -> {"idle", "calling", "refused", "checked", "exited"}]
        /\ \A q \in I!Procs : pc'[q] = IF q = p THEN at ELSE pc[q]
    BY <1>3, <1>6, <2>1 DEF I!CheckReadiness, I!Provers, I!Procs, I!Probes
  <2>3. /\ underway'["liveness"] = underway["liveness"]
        /\ underway'["readiness"] = underway["readiness"] + 1
        /\ underway'["startup"] = IF p = "startup" THEN underway["startup"] + 1
                                                  ELSE underway["startup"]
        /\ underway' = [q \in I!Probes |-> underway'[q]]
    BY <1>2, <1>6, <2>2 DEF I!CheckReadiness
  <2>4. ChecksCounted'
    BY <1>1, <1>2, <2>2, <2>3 DEF ChecksCounted, At
  <2>5. underway' \in [I!Probes -> 0 .. I!Cardinality(I!Procs)]
    BY <2>3, <2>4, UnderwayRange DEF ChecksCounted, At
  <2>6. attempts' \in 0 .. StartupFailureThreshold
    BY <1>3, <1>6 DEF I!CheckReadiness, I!mayAttempt, I!HealthAssumption
  <2>7. I!HealthTypeOK'
    BY Zenon, <1>1, <1>6, <2>2, <2>5, <2>6
       DEF I!CheckReadiness, I!HealthTypeOK, I!Threshold, I!environment, I!verdicts
  <2>8. QED
    BY <2>4, <2>7 DEF HealthInv
<1>7. ASSUME NEW p \in I!Provers, I!ReadinessResult(p) PROVE HealthInv'
  <2>1. /\ p \in I!Procs /\ p # "liveness" /\ pc[p] \in {"calling", "refused"}
        /\ p = "readiness" \/ p = "startup" \/ p = "user"
        /\ pc' \in [I!Procs -> {"idle", "calling", "refused", "checked", "exited"}]
        /\ \A q \in I!Procs : pc'[q] = IF q = p THEN "checked" ELSE pc[q]
        /\ healthy' \in [I!Procs -> BOOLEAN] /\ healthy'[p] \in BOOLEAN
    BY Zenon, <1>3, <1>7 DEF I!ReadinessResult, I!Provers, I!Procs, I!Probes
  <2>2. I!track({"readiness"}, healthy'[p])
    BY <1>7 DEF I!ReadinessResult
  <2>3. /\ \A q \in I!Probes : consecutiveFailures'[q] \in 0 .. I!Threshold(q)
        /\ underway' = [q \in I!Probes |-> underway'[q]]
        /\ \A q \in I!Probes : underway'[q] = IF q \in {"readiness"} THEN underway[q] - 1
                                                                   ELSE underway[q]
    BY <1>5, <2>1, <2>2
  <2>4. ChecksCounted'
    BY <1>1, <1>2, <2>1, <2>3 DEF ChecksCounted, At
  <2>5. underway' \in [I!Probes -> 0 .. I!Cardinality(I!Procs)]
    BY SMTT(30), <2>3, <2>4, UnderwayRange DEF ChecksCounted, At
  <2>6. I!HealthTypeOK'
    BY <1>3, <1>7, <2>1, <2>3, <2>5
       DEF I!ReadinessResult, I!HealthTypeOK, I!Threshold, I!environment, I!verdicts
  <2>7. QED
    BY <2>4, <2>6 DEF HealthInv
<1>8. CASE I!StartupVerdict
  <2>1. /\ pc["startup"] = "checked"
        /\ pc' \in [I!Procs -> {"idle", "calling", "refused", "checked", "exited"}]
        /\ pc'["startup"] \in {"idle", "exited"}
        /\ \A q \in I!Procs : q # "startup" => pc'[q] = pc[q]
        /\ startupComplete' \in BOOLEAN /\ healthy["startup"] \in BOOLEAN
    BY <1>2, <1>3, <1>8 DEF I!StartupVerdict
  <2>2. I!track({"startup"}, healthy["startup"])
    BY <1>8 DEF I!StartupVerdict
  <2>3. /\ \A q \in I!Probes : consecutiveFailures'[q] \in 0 .. I!Threshold(q)
        /\ underway' = [q \in I!Probes |-> underway'[q]]
        /\ \A q \in I!Probes : underway'[q] = IF q \in {"startup"} THEN underway[q] - 1
                                                                 ELSE underway[q]
    BY <1>5, <2>1, <2>2
  <2>4. ChecksCounted'
    BY <1>1, <1>2, <2>1, <2>3 DEF ChecksCounted, At
  <2>5. underway' \in [I!Probes -> 0 .. I!Cardinality(I!Procs)]
    BY SMTT(30), <2>3, <2>4, UnderwayRange DEF ChecksCounted, At
  <2>6. I!HealthTypeOK'
    BY SMTT(30), <1>3, <1>8, <2>1, <2>3, <2>5
       DEF I!StartupVerdict, I!HealthTypeOK, I!Threshold, I!environment
  <2>7. QED
    BY <2>4, <2>6 DEF HealthInv
<1>9. CASE I!CheckLiveness
  <2>1. /\ pc["liveness"] = "idle"
        /\ pc' \in [I!Procs -> {"idle", "calling", "refused", "checked", "exited"}]
        /\ \A q \in I!Procs : pc'[q] = IF q = "liveness" THEN "calling" ELSE pc[q]
    BY <1>2, <1>3, <1>9 DEF I!CheckLiveness
  <2>2. /\ underway' = [q \in I!Probes |-> underway'[q]]
        /\ \A q \in I!Probes : underway'[q] = IF q = "liveness" THEN underway[q] + 1 ELSE underway[q]
    BY Zenon, <1>1, <1>2, <1>9 DEF I!CheckLiveness, I!HealthTypeOK
  <2>3. ChecksCounted'
    BY <1>1, <1>2, <2>1, <2>2 DEF ChecksCounted, At
  <2>4. underway' \in [I!Probes -> 0 .. I!Cardinality(I!Procs)]
    BY SMTT(30), <2>2, <2>3, UnderwayRange DEF ChecksCounted, At
  <2>5. I!HealthTypeOK'
    BY <1>1, <1>9, <2>1, <2>4
       DEF I!CheckLiveness, I!HealthTypeOK, I!Threshold, I!environment, I!verdicts
  <2>6. QED
    BY <2>3, <2>5 DEF HealthInv
<1>10. CASE I!LivenessResult
  <2>1. /\ pc["liveness"] = "calling"
        /\ pc' \in [I!Procs -> {"idle", "calling", "refused", "checked", "exited"}]
        /\ \A q \in I!Procs : pc'[q] = IF q = "liveness" THEN "checked" ELSE pc[q]
        /\ healthy' \in [I!Procs -> BOOLEAN]
    BY <1>2, <1>3, <1>10 DEF I!LivenessResult
  <2>2. I!track({"liveness"}, processOK)
    BY <1>10 DEF I!LivenessResult
  <2>3. /\ \A q \in I!Probes : consecutiveFailures'[q] \in 0 .. I!Threshold(q)
        /\ underway' = [q \in I!Probes |-> underway'[q]]
        /\ \A q \in I!Probes : underway'[q] = IF q \in {"liveness"} THEN underway[q] - 1
                                                                  ELSE underway[q]
    BY <1>3, <1>5, <2>2
  <2>4. ChecksCounted'
    BY <1>1, <1>2, <2>1, <2>3 DEF ChecksCounted, At
  <2>5. underway' \in [I!Probes -> 0 .. I!Cardinality(I!Procs)]
    BY SMTT(30), <2>3, <2>4, UnderwayRange DEF ChecksCounted, At
  <2>6. I!HealthTypeOK'
    BY <1>3, <1>10, <2>1, <2>3, <2>5
       DEF I!LivenessResult, I!HealthTypeOK, I!Threshold, I!environment, I!verdicts
  <2>7. QED
    BY <2>4, <2>6 DEF HealthInv
<1>11. CASE I!ReadinessVerdict
  <2>1. isReady' \in BOOLEAN
    BY Zenon, <1>2, <1>3, <1>11 DEF I!ReadinessVerdict, I!readyVerdict
  <2>2. QED
    BY Zenon, <1>2, <1>3, <1>11, <2>1, VerdictStep DEF I!ReadinessVerdict, I!environment
<1>12. CASE I!LivenessVerdict
  <2>1. isAlive' \in BOOLEAN
    BY Zenon, <1>2, <1>3, <1>12 DEF I!LivenessVerdict
  <2>2. QED
    BY Zenon, <1>2, <1>3, <1>12, <2>1, VerdictStep DEF I!LivenessVerdict, I!environment
<1>13. CASE I!UserReturns
  BY Zenon, <1>2, <1>3, <1>13, VerdictStep DEF I!UserReturns, I!environment, I!verdicts
<1>14. CASE I!StartupGivesUp
  BY Zenon, <1>2, <1>3, <1>14, VerdictStep DEF I!StartupGivesUp, I!environment, I!verdicts
<1>15. ASSUME NEW p \in I!Procs, I!LoopExits(p) PROVE HealthInv'
  BY Zenon, <1>3, <1>15, VerdictStep DEF I!LoopExits, I!environment, I!verdicts
<1>16. CASE I!Stop
  BY <1>3, <1>16, VerdictStep DEF I!Stop, I!environment, I!verdicts
<1>17. CASE I!AgentChanges
  BY Zenon, <1>3, <1>17, VerdictStep DEF I!AgentChanges, I!verdicts
<1>18. CASE UNCHANGED I!healthVars
  BY <1>3, <1>18, VerdictStep DEF I!healthVars, I!environment, I!verdicts
<1>19. "readiness" \in I!Provers /\ "startup" \in I!Provers /\ "user" \in I!Provers
  BY DEF I!Provers
<1>20. QED
  BY <1>2, <1>6, <1>7, <1>8, <1>9, <1>10, <1>11, <1>12, <1>13, <1>14, <1>15, <1>16, <1>17,
     <1>18, <1>19 DEF I!HealthNext, I!LivenessLoop, I!ReadinessLoop, I!StartupLoop, I!User

\* Every health check is counted once as a success or a failure, for every setting of
\* the thresholds and every interleaving of the loops and the user.
THEOREM HealthChecksCounted == ASSUME I!HealthAssumption PROVE I!HealthSpec => []ChecksCounted
<1>1. I!HealthInit => HealthInv
  BY HealthInitInv
<1>2. HealthInv /\ [I!HealthNext]_(I!healthVars) => HealthInv'
  BY HealthStep
<1>3. HealthInv => ChecksCounted
  BY DEF HealthInv
<1>4. QED
  BY <1>1, <1>2, <1>3, PTL DEF I!HealthSpec

=============================================================================
