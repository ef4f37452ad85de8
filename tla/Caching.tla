------------------------------- MODULE Caching ------------------------------
(***************************************************************************)
(* middleware/caching.go: CachingDecorator over MemoryCacheStore.          *)
(*                                                                         *)
(* The store is a list of entries, newest first (lruList; the map only     *)
(* indexes it).  Process looks the key up, calls the agent on a miss       *)
(* without any lock, and stores the response; Invalidate deletes an entry  *)
(* or flushes the store.  Set and Delete, and the reading and the writing  *)
(* of the size metric, are separate critical sections.  A response is told *)
(* apart by the number of invalidations of its key that preceded it.       *)
(***************************************************************************)
EXTENDS Integers, Sequences, FiniteSets, Functions

CONSTANTS
    Callers,           \* goroutines calling Process and Invalidate
    Keys,
    MaxCacheSize, DefaultTTL,
    CleanupInterval,   \* 100 in the code
    MaxCalls,          \* bound on the number of calls
    MaxTime            \* bound on the clock

VARIABLES
    entries,         \* <<[key, response, expiresAt, raced], ...>>, newest first
    cleanupCounter,
    now,
    pc, key, response,   \* per caller: local state of Process and Invalidate
    size,            \* per caller: the size it read for UpdateSize or to count a flush
    dirty,           \* history, per caller: its key was invalidated since its lookup
    epoch,           \* history, per key: how often it has been invalidated
    calls,           \* history: calls begun
    hits, misses, evictions, invalidations, currentSize

storeVars == <<entries, cleanupCounter>>
localVars == <<pc, key, response, size>>
histVars == <<dirty, epoch, calls>>
metricVars == <<hits, misses, evictions, invalidations, currentSize>>
vars == <<storeVars, now, localVars, histVars, metricVars>>

Cached == {e.key : e \in Range(entries)}
EntryOf(k) == entries[CHOOSE i \in DOMAIN entries : entries[i].key = k]
isExpired(e) == now > e.expiresAt
Without(s, k) == SelectSeq(s, LAMBDA e : e.key # k)

TypeOK ==
    /\ \A i \in DOMAIN entries :
         entries[i] \in [key : Keys, response : 0 .. epoch[entries[i].key],
                         expiresAt : 0 .. now + DefaultTTL, raced : BOOLEAN]
    /\ cleanupCounter \in Nat /\ now \in 0 .. MaxTime
    /\ epoch \in [Keys -> 0 .. MaxCalls]
    /\ pc \in [Callers -> {"idle", "calling", "storing", "flushing", "sizing", "reporting"}]
    /\ key \in [Callers -> Keys] /\ response \in [Callers -> 0 .. MaxCalls]
    /\ size \in [Callers -> 0 .. MaxCacheSize]
    /\ hits \in Nat /\ misses \in Nat /\ evictions \in Nat /\ invalidations \in Nat
    /\ currentSize \in 0 .. MaxCacheSize

Init ==
    /\ entries = <<>> /\ cleanupCounter = 0 /\ now = 0
    /\ pc = [c \in Callers |-> "idle"]
    /\ key \in [Callers -> Keys]   \* means nothing before Miss
    /\ response = [c \in Callers |-> 0] /\ size = [c \in Callers |-> 0]
    /\ dirty = [c \in Callers |-> FALSE] /\ epoch = [k \in Keys |-> 0]
    /\ calls = 0
    /\ hits = 0 /\ misses = 0 /\ evictions = 0 /\ invalidations = 0 /\ currentSize = 0

begin(c) == pc[c] = "idle" /\ calls < MaxCalls /\ calls' = calls + 1

-----------------------------------------------------------------------------
(* Process. *)

\* What Get reports; an expired entry is a miss and stays where it is.
found(k) == k \in Cached /\ ~isExpired(EntryOf(k))

\* Get under the read lock: it does not move the entry in the list.
Hit(c, k) ==
    /\ begin(c)
    /\ found(k)
    /\ hits' = hits + 1
    /\ UNCHANGED <<storeVars, now, localVars, dirty, epoch,
                   misses, evictions, invalidations, currentSize>>

Miss(c, k) ==
    /\ begin(c)
    /\ ~found(k)
    /\ misses' = misses + 1
    /\ pc' = [pc EXCEPT ![c] = "calling"]
    /\ key' = [key EXCEPT ![c] = k]
    /\ response' = [response EXCEPT ![c] = epoch[k]]
    /\ dirty' = [dirty EXCEPT ![c] = FALSE]
    /\ UNCHANGED <<storeVars, now, size, epoch,
                   hits, evictions, invalidations, currentSize>>

\* The answer is from some moment between the call and its return.
AgentAnswers(c) ==
    /\ pc[c] = "calling"
    /\ \E v \in response[c] .. epoch[key[c]] : response' = [response EXCEPT ![c] = v]
    /\ pc' = [pc EXCEPT ![c] = "storing"]
    /\ UNCHANGED <<storeVars, now, key, size, histVars, metricVars>>

AgentFails(c) ==
    /\ pc[c] = "calling"
    /\ pc' = [pc EXCEPT ![c] = "idle"]
    /\ UNCHANGED <<storeVars, now, key, response, size, histVars, metricVars>>

\* Fault: the older entry for the key stays in the list.
removeStale_Kept(k) == entries

\* Set, first step: drop the older entry for this key.
removeStale(k) == Without(entries, k)

\* cleanupExpiredLocked, on every CleanupInterval-th write.
cleanupExpired(s) ==
    IF (cleanupCounter + 1) % CleanupInterval = 0
    THEN SelectSeq(s, LAMBDA e : ~isExpired(e)) ELSE s

\* Fault: the room for the new entry is not made (> in place of >=).
mustEvict_Late(s) == Len(s) > MaxCacheSize

mustEvict(s) == Len(s) >= MaxCacheSize

\* The back of the list.
evict(s) == SubSeq(s, 1, Len(s) - 1)

Set(c) ==
    LET kept == cleanupExpired(removeStale(key[c]))
        new == [key |-> key[c], response |-> response[c],
                expiresAt |-> now + DefaultTTL, raced |-> dirty[c]]
    IN /\ pc[c] = "storing"
       /\ cleanupCounter' = cleanupCounter + 1
       /\ entries' = <<new>> \o (IF mustEvict(kept) THEN evict(kept) ELSE kept)
       /\ evictions' = IF mustEvict(kept) THEN evictions + 1 ELSE evictions
       /\ pc' = [pc EXCEPT ![c] = "sizing"]
       /\ UNCHANGED <<now, key, response, size, dirty, epoch, calls,
                      hits, misses, invalidations, currentSize>>

\* c.metrics.UpdateSize(int64(c.store.Size())): two critical sections, also at
\* the end of Invalidate.
ReadSize(c) ==
    /\ pc[c] = "sizing"
    /\ size' = [size EXCEPT ![c] = Len(entries)]
    /\ pc' = [pc EXCEPT ![c] = "reporting"]
    /\ UNCHANGED <<storeVars, now, key, response, histVars, metricVars>>

UpdateSize(c) ==
    /\ pc[c] = "reporting"
    /\ currentSize' = size[c]
    /\ pc' = [pc EXCEPT ![c] = "idle"]
    /\ UNCHANGED <<storeVars, now, key, response, size, histVars,
                   hits, misses, evictions, invalidations>>

-----------------------------------------------------------------------------
(* Invalidate. *)

invalidated(ks) ==
    /\ dirty' = [c \in Callers |-> dirty[c] \/ (pc[c] \in {"calling", "storing"} /\ key[c] \in ks)]
    /\ epoch' = [k \in Keys |-> IF k \in ks THEN epoch[k] + 1 ELSE epoch[k]]

\* Fault: Delete only removes entries that have expired.
Delete_ExpiredOnly(c, k) ==
    /\ begin(c)
    /\ entries' = SelectSeq(entries, LAMBDA e : e.key # k \/ ~isExpired(e))
    /\ invalidations' = invalidations + 1
    /\ invalidated({k})
    /\ pc' = [pc EXCEPT ![c] = "sizing"]
    /\ UNCHANGED <<cleanupCounter, now, key, response, size,
                   hits, misses, evictions, currentSize>>

\* Invalidate(message).
Delete(c, k) ==
    /\ begin(c)
    /\ entries' = Without(entries, k)
    /\ invalidations' = invalidations + 1
    /\ invalidated({k})
    /\ pc' = [pc EXCEPT ![c] = "sizing"]
    /\ UNCHANGED <<cleanupCounter, now, key, response, size,
                   hits, misses, evictions, currentSize>>

\* Invalidate(nil): the count is read before the flush.
CountEntries(c) ==
    /\ begin(c)
    /\ size' = [size EXCEPT ![c] = Len(entries)]
    /\ pc' = [pc EXCEPT ![c] = "flushing"]
    /\ UNCHANGED <<storeVars, now, key, response, dirty, epoch, metricVars>>

Flush(c) ==
    /\ pc[c] = "flushing"
    /\ entries' = <<>>
    /\ invalidations' = invalidations + size[c]
    /\ invalidated(Keys)
    /\ pc' = [pc EXCEPT ![c] = "sizing"]
    /\ UNCHANGED <<cleanupCounter, now, key, response, size, calls,
                   hits, misses, evictions, currentSize>>

-----------------------------------------------------------------------------
Tick ==
    /\ now < MaxTime
    /\ now' = now + 1
    /\ UNCHANGED <<storeVars, localVars, histVars, metricVars>>

Next ==
    \/ \E c \in Callers, k \in Keys : Hit(c, k) \/ Miss(c, k) \/ Delete(c, k)
    \/ \E c \in Callers :
         \/ AgentAnswers(c) \/ AgentFails(c) \/ Set(c) \/ ReadSize(c) \/ UpdateSize(c)
         \/ CountEntries(c) \/ Flush(c)
    \/ Tick

Spec == Init /\ [][Next]_vars

-----------------------------------------------------------------------------
(* Properties. *)

\* The store never holds two entries for a key nor more than MaxCacheSize, with
\* any number of concurrent misses for the same key (Set).
StoreBounded ==
    /\ Len(entries) <= MaxCacheSize
    /\ Cardinality(Cached) = Len(entries)

\* Invalidation works up to the race it cannot see: a response from before the
\* last invalidation of its key is only in the store if the call that put it
\* there was running when the key was invalidated.
StaleOnlyFromRace ==
    \A i \in DOMAIN entries :
        entries[i].response < epoch[entries[i].key] => entries[i].raced

=============================================================================
