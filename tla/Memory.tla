------------------------------- MODULE Memory -------------------------------
(***************************************************************************)
(* What agents remember: the session memories of memory/ and the tiers of  *)
(* patterns/memory.go. Each part has an Init and a Next of its own; a      *)
(* variable that parts have in common by name is declared with the first   *)
(* of them.                                                                *)
(***************************************************************************)
EXTENDS Integers, Sequences, FiniteSets, SequencesExt, FiniteSetsExt

-----------------------------------------------------------------------------
(***************************************************************************)
(* memory/: the stores of session messages (EphemeralMemory, RedisMemory,  *)
(* VectorMemory over MemoryVectorStore, HierarchyMemory, EndlessMemory)    *)
(* and memory/strategies: what a strategy selects from one of them.        *)
(* An entry is numbered by the order in which it reached the store.  Each  *)
(* operation of a store is atomic (its mutex, one Redis command); a Store  *)
(* and a Select take several.                                              *)
(***************************************************************************)

CONSTANTS
    Backends,
    Sessions,
    Messages,        \* [text, rank, imp, own, tags, sim]: imp of the metadata, own of the
                     \* message, sim its similarity to the query; rank orders the texts
    Callers,
    MaxSize, TTL, MinImportance, MinRecent, Threshold, Window,
    Limits,          \* of Retrieve and of Select
    MaxStores, MaxTime

DefaultImportance == 5

VARIABLES
    backend,
    tagForm,         \* the Go type the callers give tags: []string or []interface{}
    now,             \* seconds
    store,           \* the entries held
    expiry,          \* per session: when its Redis key expires, 0 for never
    pending,         \* per caller: the Store under way
    selecting,       \* the Select under way
    accepted,        \* the entries whose Store returned without error
    cleared,         \* per session: entries numbered up to this were cleared
    expired,         \* per session: or went with the key when it expired
    count            \* entries numbered so far

sessionVars == <<backend, tagForm, now, store, expiry, pending, selecting, accepted, cleared, expired, count>>

Idle == [op |-> "none"]

SessionTypeOK ==
    /\ backend \in Backends /\ tagForm \in {"strings", "any"} /\ now \in 0 .. MaxTime
    /\ \A e \in store : e.session \in Sessions /\ e.msg \in Messages /\ e.n \in 1 .. count
    /\ expiry \in [Sessions -> 0 .. MaxTime + TTL] 
    /\ cleared \in [Sessions -> 0 .. MaxStores] /\ expired \in [Sessions -> 0 .. MaxStores]

SessionInit ==
    /\ backend \in Backends /\ now = 0
    /\ tagForm \in {"strings", "any"} /\ (backend # "hierarchy" => tagForm = "any")
    /\ store = {} /\ expiry = [s \in Sessions |-> 0]
    /\ pending = [c \in Callers |-> Idle] /\ selecting = Idle
    /\ accepted = {} /\ cleared = [s \in Sessions |-> 0]
    /\ expired = [s \in Sessions |-> 0] /\ count = 0

of(s) == {e \in store : e.session = s}

-----------------------------------------------------------------------------
(* Retrieve. *)

\* The options of the reads: each filter alone, and all of them together.
Options ==
    {o \in [limit : Limits, from : {0, 1}, importance : {0, DefaultImportance}, tags : {{}, {"t"}},
            query : BOOLEAN] :
       Cardinality({f \in {1, 2, 3, 4} : <<o.from = 0, o.importance = 0, o.tags = {}, ~o.query>>[f]})
         \in {0, 3}}
Plain(limit) == [limit |-> limit, from |-> 0, importance |-> 0, tags |-> {}, query |-> FALSE]

\* The filters that EphemeralMemory, RedisMemory and MemoryVectorStore share.
matches(e, opts) ==
    /\ e.at >= opts.from
    /\ e.msg.imp >= opts.importance
    /\ opts.tags # {} => opts.tags \cap e.msg.tags # {}

\* HierarchyMemory reads tags only as []interface{}.
matchesFilters(e, opts) ==
    /\ e.msg.imp >= opts.importance
    /\ opts.tags # {} => tagForm = "any" /\ opts.tags \cap e.msg.tags # {}
    /\ e.at >= opts.from

prefix(q, limit) == SubSeq(q, 1, Min({limit, Len(q)}))
above(a, b, key(_)) == \E i \in DOMAIN key(a) :
    key(a)[i] > key(b)[i] /\ \A j \in 1 .. i - 1 : key(a)[j] = key(b)[j]
ranked(S, key(_)) == SetToSortSeq(S, LAMBDA a, b : above(a, b, key))

\* The storage is read backwards.
ephemeralRetrieve(s, opts) ==
    prefix(ranked({e \in of(s) : matches(e, opts)}, LAMBDA e : <<e.n>>), opts.limit)

\* A sorted set read backwards: members of equal score in reverse lexical order.
redisRetrieve(s, opts) ==
    prefix(ranked({e \in of(s) : matches(e, opts)}, LAMBDA e : <<e.at, e.msg.rank>>), opts.limit)

\* Sorted by score or by time; the sort of a short slice keeps the order of equals.
Search(s, opts) ==
    prefix(ranked({e \in of(s) : matches(e, opts)}, LAMBDA e : <<e.msg.sim, -e.n>>), opts.limit)

\* Fault: the entries are sorted from the oldest on.
GetRecent_Oldest(s, opts) ==
    prefix(ranked({e \in of(s) : matches(e, opts)}, LAMBDA e : <<-e.at, -e.n>>), opts.limit)

GetRecent(s, opts) ==
    prefix(ranked({e \in of(s) : matches(e, opts)}, LAMBDA e : <<e.at, -e.n>>), opts.limit)

vectorRetrieve(s, opts) == IF opts.query THEN Search(s, opts) ELSE GetRecent(s, opts)

\* The hierarchy, modelled in MemoryTiers, gives its best 3 * limit entries of
\* whatever session; those of the session are picked from them.
hierarchyBest(k) ==
    LET recent == prefix(ranked(store, LAMBDA e : <<e.n>>), k)
        important == prefix(ranked({e \in store : e.msg.imp >= MinImportance},
                                   LAMBDA e : <<e.msg.imp, e.n>>), k)
    IN prefix(ranked(ToSet(recent) \cup ToSet(important), LAMBDA e : <<e.msg.imp, e.n>>), k)

hierarchyRetrieve(s, opts) ==
    LET mine == SelectSeq(hierarchyBest(3 * opts.limit),
                          LAMBDA e : e.session = s /\ matchesFilters(e, opts))
    IN prefix(mine, Max({1, opts.limit}))

\* The client is given the query and the limit, never the other options.
endlessRetrieve(s, opts) == prefix(ranked(of(s), LAMBDA e : <<e.n>>), opts.limit)

Retrieve(s, opts) ==
    CASE backend = "ephemeral" -> ephemeralRetrieve(s, opts)
      [] backend = "redis" -> redisRetrieve(s, opts)
      [] backend = "vector" -> vectorRetrieve(s, opts)
      [] backend = "hierarchy" -> hierarchyRetrieve(s, opts)
      [] OTHER -> endlessRetrieve(s, opts)

\* Summarize speaks of the messages it retrieves, or says that there are none.
ephemeralSummarize(s) == ephemeralRetrieve(s, Plain(100)) # <<>>
redisSummarize(s) == redisRetrieve(s, Plain(100)) # <<>>
vectorSummarize(s) == vectorRetrieve(s, Plain(100)) # <<>>
hierarchySummarize(s) == hierarchyRetrieve(s, Plain(1000)) # <<>>
Summarize(s) ==
    CASE backend = "ephemeral" -> ephemeralSummarize(s)
      [] backend = "redis" -> redisSummarize(s)
      [] backend = "vector" -> vectorSummarize(s)
      [] backend = "hierarchy" -> hierarchySummarize(s)
      [] OTHER -> TRUE

-----------------------------------------------------------------------------
(* Store and Clear. *)

entry(s, m, at) == [n |-> count + 1, session |-> s, msg |-> m, at |-> at]
answers(c) == pending' = [pending EXCEPT ![c] = Idle]
numbered == count < MaxStores /\ count' = count + 1

\* EphemeralMemory.Store: the oldest message goes when there are too many.
ephemeralStore(s, m) ==
    LET S == of(s) \cup {entry(s, m, now)}
        oldest == {e \in S : Cardinality(S) > MaxSize /\ \A x \in S : e.n <= x.n}
    IN store' = ((store \ of(s)) \cup S) \ oldest

\* The hierarchy may forget, at any Store, what is not important enough.
hierarchyStore(s, m) ==
    \E gone \in SUBSET {e \in store : e.msg.imp < MinImportance} :
      store' = (store \ gone) \cup {entry(s, m, now)}

endlessStore(s, m) == store' = store \cup {entry(s, m, now)}

StoreAtOnce(c, s, m) ==
    /\ pending[c] = Idle /\ numbered
    /\ \/ backend = "ephemeral" /\ ephemeralStore(s, m)
       \/ backend = "hierarchy" /\ hierarchyStore(s, m)
       \/ backend = "endless" /\ endlessStore(s, m)
    /\ accepted' = accepted \cup {entry(s, m, now)}
    /\ UNCHANGED <<backend, tagForm, now, expiry, pending, selecting, cleared, expired>>

\* VectorMemory.Store embeds the text, takes the time, then adds the entry.
vectorEmbed(c, s, m) ==
    /\ backend = "vector" /\ pending[c] = Idle /\ count < MaxStores
    /\ pending' = [pending EXCEPT ![c] = [op |-> "add", session |-> s, msg |-> m, at |-> now]]
    /\ UNCHANGED <<backend, tagForm, now, store, expiry, selecting, accepted, cleared, expired, count>>

vectorAdd(c) ==
    /\ pending[c].op = "add" /\ numbered
    /\ LET e == entry(pending[c].session, pending[c].msg, pending[c].at)
       IN store' = store \cup {e} /\ accepted' = accepted \cup {e}
    /\ answers(c)
    /\ UNCHANGED <<backend, tagForm, now, expiry, selecting, cleared, expired>>

\* RedisMemory.Store: ZADD moves a member that is there already, and keeps the
\* key's expiry; then EXPIRE, of a key that may have gone in the meantime.  Either
\* command may fail.
serializedSame(e, s, m) == e.session = s /\ e.msg = m

redisAdd(c, s, m) ==
    /\ backend = "redis" /\ pending[c] = Idle /\ numbered
    /\ store' = {e \in store : ~serializedSame(e, s, m)} \cup {entry(s, m, now)}
    /\ IF TTL > 0
       THEN pending' = [pending EXCEPT ![c] = [op |-> "expire", session |-> s, entry |-> entry(s, m, now)]]
            /\ UNCHANGED accepted
       ELSE accepted' = accepted \cup {entry(s, m, now)} /\ UNCHANGED pending
    /\ UNCHANGED <<backend, tagForm, now, expiry, selecting, cleared, expired>>

redisExpire(c) ==
    /\ pending[c].op = "expire" /\ answers(c)
    /\ \/ /\ expiry' = IF of(pending[c].session) = {} THEN expiry
                       ELSE [expiry EXCEPT ![pending[c].session] = now + TTL]
          /\ accepted' = accepted \cup {pending[c].entry}
       \/ UNCHANGED <<expiry, accepted>>
    /\ UNCHANGED <<backend, tagForm, now, store, selecting, cleared, expired, count>>

\* Time passes; a key that has expired is gone with its messages.
Tick ==
    /\ now < MaxTime /\ now' = now + 1
    /\ LET over == {s \in Sessions : expiry[s] > 0 /\ expiry[s] <= now + 1}
       IN store' = {e \in store : e.session \notin over}
          /\ expiry' = [s \in Sessions |-> IF s \in over THEN 0 ELSE expiry[s]]
          /\ expired' = [s \in Sessions |-> IF s \in over THEN count ELSE expired[s]]
    /\ UNCHANGED <<backend, tagForm, pending, selecting, accepted, cleared, count>>

Clear(s) ==
    /\ of(s) # {}
    /\ store' = store \ of(s)
    /\ expiry' = [expiry EXCEPT ![s] = 0] /\ cleared' = [cleared EXCEPT ![s] = count]
    /\ UNCHANGED <<backend, tagForm, now, pending, selecting, accepted, expired, count>>

-----------------------------------------------------------------------------
(* The strategies. *)

\* RedisMemory and EndlessMemory give messages back without their own metadata.
calculateImportance(e) ==
    IF backend \in {"redis", "endless"} THEN DefaultImportance ELSE e.msg.own

windowSelect(s, limit) == Retrieve(s, Plain(Min({Window, limit})))

\* Fault: the older messages are chosen whatever their importance.
importanceSelect_Any(s, limit) ==
    LET all == Retrieve(s, Plain(3 * limit))
        recent == prefix(all, MinRecent)
        rest == ranked({i \in DOMAIN all : i > MinRecent},
                       LAMBDA i : <<calculateImportance(all[i]), -i>>)
        budget == Max({0, limit - Len(recent)})
    IN [i \in DOMAIN prefix(rest, budget) |-> all[rest[i]]] \o recent

\* The newest MinRecent always; then the most important of the others, a message
\* below the threshold never; the bonus for recency breaks ties.
importanceSelect(s, limit) ==
    LET all == Retrieve(s, Plain(3 * limit))
        recent == prefix(all, MinRecent)
        rest == ranked({i \in DOMAIN all : i > MinRecent
                                           /\ calculateImportance(all[i]) >= Threshold},
                       LAMBDA i : <<calculateImportance(all[i]), -i>>)
        budget == Max({0, limit - Len(recent)})
    IN [i \in DOMAIN prefix(rest, budget) |-> all[rest[i]]] \o recent

\* SummarizationStrategy retrieves, then asks for the summary, which may fail; the
\* caller's limit matters only then.
Select(s) ==
    /\ selecting = Idle
    /\ selecting' = [op |-> "summarize", session |-> s, picks |-> Retrieve(s, Plain(Window))]
    /\ UNCHANGED <<backend, tagForm, now, store, expiry, pending, accepted, cleared, expired, count>>

SelectSummary(limit) ==
    /\ selecting.op = "summarize"
    /\ LET selects(summary, picks) ==
             selecting' = [op |-> "selected", session |-> selecting.session, limit |-> limit,
                           summary |-> summary, picks |-> Reverse(picks)]
       IN \/ selects(FALSE, prefix(selecting.picks, limit))
          \/ /\ selecting.picks # <<>> /\ Summarize(selecting.session)
             /\ selects(TRUE, prefix(selecting.picks, Max({0, limit - 1})))
    /\ UNCHANGED <<backend, tagForm, now, store, expiry, pending, accepted, cleared, expired, count>>

SelectReturns ==
    /\ selecting.op = "selected" /\ selecting' = Idle
    /\ UNCHANGED <<backend, tagForm, now, store, expiry, pending, accepted, cleared, expired, count>>

SessionNext ==
    \/ Tick \/ SelectReturns
    \/ \E s \in Sessions : Clear(s) \/ Select(s)
    \/ \E limit \in Limits : SelectSummary(limit)
    \/ \E c \in Callers :
         \/ \E s \in Sessions, m \in Messages :
              StoreAtOnce(c, s, m) \/ vectorEmbed(c, s, m) \/ redisAdd(c, s, m)
         \/ vectorAdd(c) \/ redisExpire(c)

SessionSpec == SessionInit /\ [][SessionNext]_sessionVars
-----------------------------------------------------------------------------

\* Whatever the options, Retrieve gives messages of that session that nobody has
\* cleared, each once and none beyond the limit; every store but the hierarchy,
\* which looks at 3 * limit entries of all sessions, and the Endless client, which
\* never sees the filters, leaves a matching message out only for one at least as
\* late that fills the limit, or as similar when there is a query.  (A Select under
\* way changes nothing that Retrieve reads.)
RetrievesNewest ==
    \A s \in Sessions, o \in IF selecting = Idle THEN Options ELSE {} :
      LET got == Retrieve(s, o)
      IN /\ \A i \in DOMAIN got : got[i].session = s /\ got[i].n > cleared[s]
         /\ IsInjective(got)
         /\ Len(got) <= o.limit
         /\ backend \in {"ephemeral", "redis", "vector"} =>
              \A e \in of(s) : matches(e, o) /\ e \notin ToSet(got) =>
                /\ Len(got) = o.limit
                /\ \A i \in DOMAIN got :
                     IF o.query /\ backend = "vector" THEN got[i].msg.sim >= e.msg.sim
                     ELSE got[i].at >= e.at

\* A message whose Store succeeded is held until its session is cleared: the
\* EphemeralMemory gives it up only for MaxSize later ones, Redis only when the key
\* expired or when the same message was stored again, which then takes its place,
\* and the hierarchy only when it is not important enough.
AcceptedIsKept ==
    /\ backend = "ephemeral" => \A s \in Sessions : Cardinality(of(s)) <= MaxSize
    /\ \A e \in accepted \ store :
         \/ e.n <= Max({cleared[e.session], expired[e.session]})
         \/ /\ backend = "ephemeral"
            /\ Cardinality({x \in accepted : x.session = e.session /\ x.n > e.n}) >= MaxSize
         \/ backend = "redis" /\ \E x \in store : serializedSame(x, e.session, e.msg) /\ x.n > e.n
         \/ backend = "hierarchy" /\ e.msg.imp < MinImportance

\* A selection is drawn from its session; it stays within the limit, but for the
\* MinRecent newest messages that the importance strategy always takes and the
\* summary that the summarization strategy adds; an older message is selected only
\* if it is important enough; and the messages after a summary run from the oldest
\* to the newest.
SelectionSound ==
    /\ \A s \in Sessions, limit \in IF selecting = Idle THEN Limits ELSE {} :
         /\ Len(windowSelect(s, limit)) <= Min({Window, limit})
         /\ LET p == importanceSelect(s, limit)
            IN /\ IsInjective(p) /\ \A i \in DOMAIN p : p[i].session = s
               /\ Len(p) <= Max({limit, MinRecent})
               /\ \A i \in DOMAIN p :
                    i <= Len(p) - MinRecent => calculateImportance(p[i]) >= Threshold
    /\ selecting.op = "selected" =>
         LET p == selecting.picks
         IN /\ Len(p) + (IF selecting.summary THEN 1 ELSE 0) <= Max({1, selecting.limit})
            /\ \A i \in DOMAIN p : p[i].session = selecting.session
            /\ backend # "hierarchy" => \A i, j \in DOMAIN p : i < j => p[i].at <= p[j].at

-----------------------------------------------------------------------------
(***************************************************************************)
(* patterns/memory.go: a MemoryHierarchy of a working, a short-term and a  *)
(* long-term memory that share their entries.  Each tier's operation holds *)
(* that tier's lock; Store, Delete and Retrieve of the hierarchy go from   *)
(* tier to tier without one, so one of each may run at the same time.      *)
(* An entry is named by the order in which it was created; the clock       *)
(* counts the moments at which entries are created and looked up.          *)
(***************************************************************************)

CONSTANTS
    Importance,      \* of the entries to be stored, in order
    LongMinImportance,   \* of the long-term memory
    WorkingCap, ShortCap, ShortTTL,
    Limit,           \* limit of Retrieve
    MaxClock

Entries == DOMAIN Importance

VARIABLES
    clock,
    working,         \* sequence of entries
    short,           \* the short-term memory: its order shows only in ties
    long,
    created,         \* per entry: when it was created, 0 before
    accessed,        \* per entry: lastAccessed, 0 when never
    storing,         \* the entry being stored and the tiers to do
    deleting,        \* the entry being deleted and the tiers to do
    finding,         \* Retrieve under way: the tiers to do and what they gave
    found,           \* what the last Retrieve returned
    stored,          \* entries whose Store returned
    doomed,          \* entries a Delete of which began
    deleted,         \* entries a Delete of which began after that, and returned
    gone             \* deleted, when the Retrieve under way began

tiers == <<working, short, long>>
tiersVars == <<clock, tiers, created, accessed, storing, deleting, finding, found, stored, doomed,
          deleted, gone>>

NoTier == [entry |-> 0, todo |-> <<>>, late |-> FALSE]
NoFind == [entry |-> {}, todo |-> <<>>]
AllTiers == <<"working", "short_term", "long_term">>
recency(e) == IF accessed[e] > 0 THEN accessed[e] ELSE created[e]

TiersTypeOK ==
    /\ clock \in 0 .. MaxClock /\ ToSet(working) \subseteq Entries
    /\ short \subseteq Entries /\ long \subseteq Entries
    /\ created \in [Entries -> 0 .. MaxClock] /\ accessed \in [Entries -> 0 .. MaxClock]

TiersInit ==
    /\ clock = 0 /\ working = <<>> /\ short = {} /\ long = {}
    /\ created = [e \in Entries |-> 0] /\ accessed = [e \in Entries |-> 0]
    /\ storing = NoTier /\ deleting = NoTier /\ finding = NoFind /\ found = <<>>
    /\ stored = {} /\ doomed = {} /\ deleted = {} /\ gone = {}

tick == clock < MaxClock /\ clock' = clock + 1
unexpired(S) == {e \in S : clock - created[e] < ShortTTL}

-----------------------------------------------------------------------------
(* The operations of one tier. *)

WorkingStore(e) ==
    LET w == Append(working, e) IN working' = IF Len(w) > WorkingCap THEN Tail(w) ELSE w

\* The expired entries go, then one that was not used for the longest time; the
\* new entry may be that one.
ShortStore(e) ==
    LET s == unexpired(short) \cup {e}
        oldest == {d \in s : \A x \in s : recency(d) <= recency(x)}
    IN IF Cardinality(s) > ShortCap THEN \E d \in oldest : short' = s \ {d} ELSE short' = s

\* Fault: an entry of just the least importance is not kept.
LongStore_Strict(e) == long' = IF Importance[e] <= LongMinImportance THEN long ELSE long \cup {e}

LongStore(e) == long' = IF Importance[e] < LongMinImportance THEN long ELSE long \cup {e}

WorkingRetrieve == ToSet(SubSeq(working, Max({1, Len(working) - Limit + 1}), Len(working)))

\* The most recent ones that have not expired; an entry's age decides.
ShortRetrieve ==
    {R \in SUBSET unexpired(short) :
       /\ Cardinality(R) = Min({Limit, Cardinality(unexpired(short))})
       /\ \A r \in R, x \in unexpired(short) \ R : created[r] >= created[x]}

\* The best scores, the entries in M containing the query: a match weighs more
\* than any importance; ages, far below a year, break ties.
score(e, M) == <<(IF e \in M THEN 50 ELSE 0) + 3 * Importance[e], created[e]>>
better(a, b) == a[1] > b[1] \/ (a[1] = b[1] /\ a[2] >= b[2])
LongRetrieve(M) ==
    {R \in SUBSET long : /\ Cardinality(R) = Min({Limit, Cardinality(long)})
                         /\ \A r \in R, x \in long \ R : better(score(r, M), score(x, M))}

-----------------------------------------------------------------------------
(* The operations of the hierarchy. *)

\* Store makes the entry and goes to the first tier.
Store ==
    /\ storing = NoTier /\ \E e \in Entries : created[e] = 0
    /\ tick
    /\ LET e == CHOOSE x \in Entries : created[x] = 0 /\ \A y \in 1 .. x - 1 : created[y] > 0
       IN created' = [created EXCEPT ![e] = clock + 1]
          /\ storing' = [NoTier EXCEPT !.entry = e, !.todo = AllTiers]
    /\ UNCHANGED <<tiers, accessed, deleting, finding, found, stored, doomed, deleted, gone>>

StoreTier ==
    /\ storing.todo # <<>>
    /\ LET e == storing.entry
       IN CASE Head(storing.todo) = "working" -> WorkingStore(e) /\ UNCHANGED <<short, long>>
            [] Head(storing.todo) = "short_term" -> ShortStore(e) /\ UNCHANGED <<working, long>>
            [] OTHER -> LongStore(e) /\ UNCHANGED <<working, short>>
    /\ IF Len(storing.todo) = 1
       THEN storing' = NoTier /\ stored' = stored \cup {storing.entry}
       ELSE storing' = [storing EXCEPT !.todo = Tail(@)] /\ UNCHANGED stored
    /\ UNCHANGED <<clock, created, accessed, deleting, finding, found, doomed, deleted, gone>>

\* Delete of an entry whose identifier the caller has seen.
Delete(e) ==
    /\ deleting = NoTier /\ e \in stored \cup ToSet(working) \cup short \cup long
    /\ deleting' = [entry |-> e, todo |-> AllTiers, late |-> e \in stored]
    /\ doomed' = doomed \cup {e}
    /\ UNCHANGED <<clock, tiers, created, accessed, storing, finding, found, stored, deleted, gone>>

DeleteTier ==
    /\ deleting.todo # <<>>
    /\ LET e == deleting.entry
           t == Head(deleting.todo)
       IN /\ working' = IF t = "working" THEN SelectSeq(working, LAMBDA x : x # e) ELSE working
          /\ short' = IF t = "short_term" THEN short \ {e} ELSE short
          /\ long' = IF t = "long_term" THEN long \ {e} ELSE long
    /\ IF Len(deleting.todo) = 1
       THEN deleting' = NoTier /\ deleted' = deleted \cup {e \in {deleting.entry} : deleting.late}
       ELSE deleting' = [deleting EXCEPT !.todo = Tail(@)] /\ UNCHANGED deleted
    /\ UNCHANGED <<clock, created, accessed, storing, finding, found, stored, doomed, gone>>

RetrieveEntries ==
    /\ finding.todo = <<>> /\ tick
    /\ finding' = [entry |-> {}, todo |-> AllTiers] /\ gone' = deleted
    /\ UNCHANGED <<tiers, created, accessed, storing, deleting, found, stored, doomed, deleted>>

\* Two tiers mark what they return as used, now.
RetrieveTier ==
    /\ finding.todo # <<>>
    /\ \E R \in CASE Head(finding.todo) = "working" -> {WorkingRetrieve}
                  [] Head(finding.todo) = "short_term" -> ShortRetrieve
                  [] OTHER -> UNION {LongRetrieve(M) : M \in SUBSET long} :
         /\ finding' = [entry |-> finding.entry \cup R, todo |-> Tail(finding.todo)]
         /\ accessed' = [e \in Entries |->
                           IF e \in R /\ Head(finding.todo) # "working" THEN clock ELSE accessed[e]]
         /\ found' = IF Len(finding.todo) > 1 THEN found
                     ELSE LET best == SetToSortSeq(finding.entry \cup R, LAMBDA a, b :
                                        better(<<Importance[a], created[a]>>,
                                               <<Importance[b], created[b]>>))
                          IN SubSeq(best, 1, Min({Limit, Len(best)}))
    /\ short' = IF Head(finding.todo) = "short_term" THEN unexpired(short) ELSE short
    /\ UNCHANGED <<clock, working, long, created, storing, deleting, stored, doomed, deleted, gone>>

ClearWorking ==
    /\ working # <<>> /\ working' = <<>>
    /\ UNCHANGED <<clock, short, long, created, accessed, storing, deleting, finding, found,
                   stored, doomed, deleted, gone>>

Step == StoreTier \/ DeleteTier \/ RetrieveTier
TiersNext == Store \/ RetrieveEntries \/ ClearWorking \/ Step \/ \E e \in Entries : Delete(e)
TiersSpec == TiersInit /\ [][TiersNext]_tiersVars
-----------------------------------------------------------------------------

\* The tiers stay within their bounds; the long-term memory holds every important
\* entry that was stored and that nobody set out to delete; what was deleted after
\* its Store had returned is in no tier, whatever runs meanwhile, and no Retrieve
\* that began later returns it; and what a Retrieve returns is at most Limit
\* entries in the order of importance and age, each once.
TiersCoherent ==
    /\ Len(working) <= WorkingCap /\ Cardinality(short) <= ShortCap
    /\ \A e \in stored : Importance[e] >= LongMinImportance =>
         e \in long \cup doomed
    /\ \A e \in deleted : e \notin ToSet(working) \cup short \cup long
    /\ finding.todo = <<>> => ToSet(found) \cap gone = {}
    /\ Len(found) <= Limit
    /\ \A i, j \in DOMAIN found : i < j =>
         /\ found[i] # found[j] /\ Importance[found[i]] >= Importance[found[j]]
=============================================================================
