-------------------------- MODULE CheckpointStores --------------------------
(***************************************************************************)
(* checkpointing: the four storage backends below CheckpointManager, used  *)
(* by several hosts at once.  MemoryStorage works under one lock; S3 puts, *)
(* gets and deletes whole objects; LocalStorage and NFSStorage take several *)
(* file operations for one call, which others interleave with.             *)
(*                                                                         *)
(* Checkpoints are numbered by their timestamps; their ids are fresh, so   *)
(* one host saves each.  Reading a directory with its files is one step.   *)
(***************************************************************************)
EXTENDS Integers, Sequences, FiniteSets, SequencesExt

CONSTANTS
    Backends,        \* of "memory", "local", "nfs", "s3"
    N,               \* checkpoints
    SessionOf,       \* checkpoint -> session
    Parent,          \* checkpoint -> checkpoint, or 0
    Migrations,      \* the checkpoints that carry a MigrationContext
    Callers,
    KeepLast,        \* PruneOldCheckpoints' keepLast
    MaxDepth,
    MaxCalls         \* bound: calls of Delete, DeleteSession and PruneOldCheckpoints

VARIABLES
    backend, retain, \* the backend; RetainMigrationCheckpoints
    file,            \* checkpoint -> "absent", "torn", "whole"
    temps, dirs,     \* the checkpoints with a .tmp file; the sessions with a directory
    index,           \* MemoryStorage's sessionCheckpoints
    modified,        \* S3's LastModified: checkpoint -> the order it was put in, or 0
    call,            \* per caller: the call it is in
    tried,           \* the checkpoints a Save was called for
    calls,
    saved,           \* history: the checkpoints whose Save returned without an error
    dropped          \* history: those Delete or DeleteSession was called for since

vars == <<backend, retain, file, temps, dirs, index, modified, call, tried, calls, saved, dropped>>
Ids == 1 .. N
Sessions == {SessionOf[i] : i \in Ids}
Of(s) == {i \in Ids : SessionOf[i] = s}
Idle == [op |-> "idle", id |-> 0, left |-> <<>>]
Files == {"local", "nfs"}

TypeOK ==
    /\ backend \in Backends /\ retain \in BOOLEAN /\ file \in [Ids -> {"absent", "torn", "whole"}]
    /\ temps \subseteq Ids /\ dirs \subseteq Sessions /\ index \in [Sessions -> Seq(Ids)]
    /\ modified \in [Ids -> 0 .. N]
    /\ \A c \in Callers : call[c].id \in 0 .. N /\ call[c].left \in Seq(Ids)
    /\ tried \subseteq Ids /\ saved \subseteq tried /\ dropped \subseteq Ids /\ calls \in 0 .. MaxCalls

Init ==
    /\ backend \in Backends /\ retain \in BOOLEAN
    /\ file = [i \in Ids |-> "absent"] /\ temps = {} /\ dirs = {}
    /\ index = [s \in Sessions |-> <<>>] /\ modified = [i \in Ids |-> 0]
    /\ call = [c \in Callers |-> Idle] /\ tried = {} /\ calls = 0 /\ saved = {} /\ dropped = {}

At(c, op) == call[c].op = op
Goes(c, op, i, left) == call' = [call EXCEPT ![c] = [op |-> op, id |-> i, left |-> left]]
Done(c) == Goes(c, "idle", 0, <<>>)

-----------------------------------------------------------------------------
(* Reading. *)

\* Fault: the oldest first.
byTimestamp_Oldest(S) == SetToSortSeq(S, <)

byTimestamp(S) == SetToSortSeq(S, >)

stored(s) == {i \in Of(s) : file[i] = "whole"}

MemoryList(s) == SelectSeq(index[s], LAMBDA i : file[i] = "whole")
\* A file that is not whole is skipped.
LocalList(s) == IF s \in dirs THEN byTimestamp(stored(s)) ELSE <<>>
NFSList(s) == IF s \in dirs THEN byTimestamp(stored(s)) ELSE <<>>
S3List(s) == SetToSortSeq(stored(s), LAMBDA i, j : modified[i] > modified[j])

ListCheckpoints(s) ==
    CASE backend = "memory" -> MemoryList(s) [] backend = "local" -> LocalList(s)
      [] backend = "nfs" -> NFSList(s) [] backend = "s3" -> S3List(s)

\* 0 for nil, -1 for an error.
MemoryLoad(i) == IF file[i] = "whole" THEN i ELSE 0
LocalLoad(i) == CASE file[i] = "absent" -> 0 [] file[i] = "torn" -> -1 [] OTHER -> i
NFSLoad(i) == CASE file[i] = "absent" -> 0 [] file[i] = "torn" -> -1 [] OTHER -> i
S3Load(i) == IF file[i] = "whole" THEN i ELSE 0

LoadCheckpoint(i) ==
    CASE backend = "memory" -> MemoryLoad(i) [] backend = "local" -> LocalLoad(i)
      [] backend = "nfs" -> NFSLoad(i) [] backend = "s3" -> S3Load(i)

GetLatest(s) == IF ListCheckpoints(s) = <<>> THEN 0 ELSE ListCheckpoints(s)[1]

\* <<-1>> for an error.
RECURSIVE GetCheckpointHistory(_, _)
GetCheckpointHistory(i, maxDepth) ==
    IF maxDepth = 0 \/ LoadCheckpoint(i) = 0 THEN <<>>
    ELSE IF LoadCheckpoint(i) = -1 THEN <<-1>>
    ELSE IF Parent[i] = 0 THEN <<i>>
    ELSE LET rest == GetCheckpointHistory(Parent[i], maxDepth - 1)
         IN IF rest = <<-1>> THEN rest ELSE <<i>> \o rest

\* Oldest first, up to the step; a checkpoint's step is its number here.
ReplayFromCheckpoint(i, upToStep) ==
    LET oldest == Reverse(GetCheckpointHistory(i, MaxDepth))
        beyond == {k \in DOMAIN oldest : oldest[k] > upToStep}
    IN IF beyond = {} THEN oldest
       ELSE SubSeq(oldest, 1, (CHOOSE k \in beyond : \A l \in beyond : k <= l) - 1)

-----------------------------------------------------------------------------
(* Saving. *)

Acked(i) == saved' = saved \cup {i}
Places == <<backend, retain>>

MemorySave(c, i) ==
    LET s == SessionOf[i]
    IN /\ backend = "memory" /\ Acked(i)
       /\ file' = [file EXCEPT ![i] = "whole"]
       /\ index' = [index EXCEPT ![s] = SortSeq(Append(@, i), >)]
       /\ UNCHANGED <<call, modified, temps, dirs>>

S3Save(c, i) ==
    /\ backend = "s3"
    /\ UNCHANGED <<call, index, temps, dirs>>
    /\ \/ /\ file' = [file EXCEPT ![i] = "whole"] /\ Acked(i)
          /\ modified' = [modified EXCEPT ![i] = Cardinality(tried) + 1]
       \/ UNCHANGED <<file, modified, saved>>

MkdirAll(c, i) ==
    /\ backend \in Files
    /\ dirs' = dirs \cup {SessionOf[i]} /\ Goes(c, "write", i, <<>>)
    /\ UNCHANGED <<file, index, modified, temps, saved>>

Save(c, i) ==
    /\ At(c, "idle") /\ i \notin tried
    /\ tried' = tried \cup {i}
    /\ MemorySave(c, i) \/ S3Save(c, i) \/ MkdirAll(c, i)
    /\ UNCHANGED <<Places, calls, dropped>>

\* os.WriteFile opens and truncates, then writes; the directory may be gone.
LocalSave(c) ==
    LET i == call[c].id
    IN /\ backend = "local"
       /\ \/ /\ At(c, "write") /\ SessionOf[i] \in dirs
             /\ file' = [file EXCEPT ![i] = "torn"] /\ Goes(c, "finish", i, <<>>) /\ UNCHANGED saved
          \/ At(c, "write") /\ Done(c) /\ UNCHANGED <<file, saved>>
          \/ /\ At(c, "finish")
             /\ file' = [file EXCEPT ![i] = IF @ = "torn" THEN "whole" ELSE @]
             /\ Acked(i) /\ Done(c)
          \/ At(c, "finish") /\ Done(c) /\ UNCHANGED <<file, saved>>
       /\ UNCHANGED <<Places, temps, dirs, index, modified, tried, calls, dropped>>

\* A temporary file, then a rename.
NFSSave(c) ==
    LET i == call[c].id
    IN /\ backend = "nfs"
       /\ \/ /\ At(c, "write") /\ SessionOf[i] \in dirs
             /\ temps' = temps \cup {i} /\ Goes(c, "finish", i, <<>>) /\ UNCHANGED <<file, saved>>
          \/ At(c, "write") /\ Done(c) /\ UNCHANGED <<file, temps, saved>>
          \/ /\ At(c, "finish") /\ file' = [file EXCEPT ![i] = "whole"]
             /\ temps' = temps \ {i} /\ Acked(i) /\ Done(c)
          \/ At(c, "finish") /\ temps' = temps \ {i} /\ Done(c) /\ UNCHANGED <<file, saved>>
       /\ UNCHANGED <<Places, dirs, index, modified, tried, calls, dropped>>

-----------------------------------------------------------------------------
(* Deleting. *)

Unlinked(S) ==
    /\ file' = [i \in Ids |-> IF i \in S THEN "absent" ELSE file[i]]
    /\ index' = [s \in Sessions |-> SelectSeq(index[s], LAMBDA i : i \notin S)]

There == {i \in Ids : file[i] # "absent"}
Called(dropping) ==
    /\ calls < MaxCalls /\ calls' = calls + 1
    /\ dropped' = dropped \cup dropping

Others == <<Places, temps, modified, tried, saved>>

MemoryDelete(i) == backend = "memory" /\ Unlinked({i})
\* Load, then DeleteObject, which answers as well when the object is gone.
S3Delete(i) == backend = "s3" /\ (Unlinked({i}) \/ UNCHANGED <<file, index>>)

Delete(c, i) ==
    /\ At(c, "idle") /\ Called({i} \cap There)
    /\ \/ (MemoryDelete(i) \/ S3Delete(i)) /\ UNCHANGED call
       \/ backend \in Files /\ file[i] # "absent" /\ Goes(c, "remove", i, <<>>) /\ UNCHANGED <<file, index>>
       \/ backend \in Files /\ file[i] = "absent" /\ UNCHANGED <<call, file, index>>
    /\ UNCHANGED <<Others, dirs>>

\* Found by os.Stat; os.Remove fails when another caller has removed it.
LocalDelete(c) ==
    /\ backend = "local" /\ At(c, "remove")
    /\ Unlinked({call[c].id}) /\ Done(c)
    /\ UNCHANGED <<Others, dirs, calls, dropped>>

NFSDelete(c) ==
    /\ backend = "nfs" /\ At(c, "remove")
    /\ Unlinked({call[c].id}) /\ Done(c)
    /\ UNCHANGED <<Others, dirs, calls, dropped>>

MemoryDeleteSession(s) == backend = "memory" /\ Unlinked(Of(s)) /\ UNCHANGED call

DeleteSession(c, s) ==
    LET entries == Of(s) \cap There
    IN /\ At(c, "idle") /\ Called(entries)
       /\ \/ MemoryDeleteSession(s)
          \/ /\ backend # "memory" /\ UNCHANGED <<file, index>>
             /\ IF s \in dirs \/ entries # {}
                THEN Goes(c, "removeAll", CHOOSE i \in Of(s) : TRUE, byTimestamp(entries))
                ELSE UNCHANGED call
       /\ UNCHANGED <<Others, dirs>>

\* The objects that were listed, in one batch, which may fail.
S3DeleteSession(c) ==
    /\ backend = "s3" /\ At(c, "removeAll") /\ Done(c)
    /\ Unlinked(Range(call[c].left)) \/ UNCHANGED <<file, index>>
    /\ UNCHANGED <<Others, dirs, calls, dropped>>

\* The files that were there, then the directory if nothing is in it.
RemoveEntries(c) ==
    LET left == call[c].left  s == SessionOf[call[c].id]
    IN /\ At(c, "removeAll")
       /\ IF left # <<>>
          THEN Unlinked({left[1]}) /\ Goes(c, "removeAll", call[c].id, Tail(left)) /\ UNCHANGED dirs
          ELSE /\ dirs' = IF \E i \in Of(s) : file[i] # "absent" \/ i \in temps THEN dirs ELSE dirs \ {s}
               /\ Done(c) /\ UNCHANGED <<file, index>>
       /\ UNCHANGED <<Others, calls, dropped>>

LocalDeleteSession(c) == backend = "local" /\ RemoveEntries(c)
NFSDeleteSession(c) == backend = "nfs" /\ RemoveEntries(c)

\* Fault: the policy is not looked at.
pruned_Migrations(list) == SubSeq(list, KeepLast + 1, Len(list))

\* IsMigrationCheckpoint, without a TTL.
pruned(list) ==
    SelectSeq(SubSeq(list, KeepLast + 1, Len(list)), LAMBDA i : ~(retain /\ i \in Migrations))

PruneOldCheckpoints(c, s) ==
    LET list == ListCheckpoints(s)
    IN /\ At(c, "idle") /\ Len(list) > KeepLast /\ Called({})
       /\ Goes(c, "prune", 0, pruned(list))
       /\ UNCHANGED <<Others, file, index, dirs>>

\* Storage.Delete of one, by a call of its own; its error is passed over.
PruneNext(c) ==
    LET left == call[c].left
    IN /\ At(c, "prune")
       /\ IF left = <<>> THEN Done(c) /\ UNCHANGED <<file, index>>
          ELSE /\ Goes(c, "prune", 0, Tail(left))
               /\ Unlinked({left[1]}) \/ (backend # "memory" /\ UNCHANGED <<file, index>>)
       /\ UNCHANGED <<Others, dirs, calls, dropped>>

\* The host of a caller goes down in a call; memory goes down with its host.
Crash(c) ==
    /\ backend # "memory" /\ ~At(c, "idle") /\ Done(c)
    /\ UNCHANGED <<Others, file, index, dirs, calls, dropped>>

-----------------------------------------------------------------------------
FileSteps(c) == LocalSave(c) \/ NFSSave(c) \/ LocalDelete(c) \/ NFSDelete(c)
                \/ LocalDeleteSession(c) \/ NFSDeleteSession(c) \/ S3DeleteSession(c) \/ PruneNext(c)

Next ==
    \E c \in Callers :
      \/ \E i \in Ids : Save(c, i) \/ Delete(c, i)
      \/ \E s \in Sessions : DeleteSession(c, s) \/ PruneOldCheckpoints(c, s)
      \/ FileSteps(c) \/ Crash(c)

Spec == Init /\ [][Next]_vars

-----------------------------------------------------------------------------
(* Properties. *)

recent(i, j) == IF backend = "s3" THEN modified[i] > modified[j] ELSE i > j

\* A checkpoint whose Save succeeded is found by Load and by ListCheckpoints
\* until Delete or DeleteSession is called for it.  One that pruning took has
\* at least KeepLast more recent ones of its session that were saved, and
\* carries no migration context when those are retained.
KeptUntilDeleted ==
    \A i \in saved \ dropped :
      LET s == SessionOf[i]
      IN \/ LoadCheckpoint(i) = i /\ i \in Range(ListCheckpoints(s))
         \/ /\ Cardinality({j \in Of(s) \cap tried : recent(j, i)}) >= KeepLast
            /\ ~(retain /\ i \in Migrations)

\* The listing is most recent first, its head is GetLatest, and a reader of
\* the shared backends (NFSStorage, S3Storage) and of MemoryStorage is never
\* given part of a checkpoint.
ListedInOrder ==
    /\ \A s \in Sessions :
         LET list == ListCheckpoints(s)
         IN /\ \A k, l \in DOMAIN list : k < l => recent(list[k], list[l])
            /\ GetLatest(s) # 0 => \A i \in stored(s) : ~recent(i, GetLatest(s))
    /\ backend # "local" => \A i \in Ids : LoadCheckpoint(i) # -1

\* A replay goes forward in steps, never beyond the step asked for, and misses
\* no ancestor that follows one it replayed.
ReplaysForward ==
    \A i \in Ids, u \in Ids :
      LET r == ReplayFromCheckpoint(i, u)
      IN (\A k \in DOMAIN r : r[k] # -1) =>
           /\ \A k \in DOMAIN r : r[k] <= u
           /\ \A k \in 1 .. Len(r) - 1 : Parent[r[k + 1]] = r[k]

=============================================================================
