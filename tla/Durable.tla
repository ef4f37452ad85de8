------------------------------ MODULE Durable ------------------------------
(***************************************************************************)
(* checkpointing/: DurableAgent over CheckpointManager over a storage      *)
(* backend, for one session (sessions share nothing but the storage).      *)
(*                                                                         *)
(* DurableAgent has no lock: its calls come one after the other.  A crash  *)
(* loses the agent and the manager, and the storage too when it is         *)
(* MemoryStorage.  A file torn by a crash is skipped by ListCheckpoints,   *)
(* so it is a save that failed.  The message history is kept as the number *)
(* of inputs in it.                                                        *)
(***************************************************************************)
EXTENDS Integers

CONSTANTS
    Configs,             \* pairs of a storage backend and autoResume to choose from
    Interval,            \* checkpointInterval, positive
    MaxSteps, MaxCheckpoints, MaxTime,  \* bounds
    MaxCount             \* message_count is not told apart beyond this

DurableAssumption ==
    /\ Interval \in Nat \ {0}
    /\ MaxSteps \in Nat /\ MaxCheckpoints \in Nat /\ MaxTime \in Nat /\ MaxCount \in Nat \ {0}

VARIABLES
    backend,             \* "memory", "local", "nfs" or "s3"
    autoResume,
    session,             \* the maps of DurableAgent at the session
    manager,             \* the maps of CheckpointManager at the session
    store,               \* the checkpoints held, by their order of creation
    created, now,        \* checkpoints created so far; the clock, in seconds
    unsaved,             \* exchanges since the session was saved or restored
    travelled, faulty    \* restored behind the last checkpoint; storage has failed

vars == <<backend, autoResume, session, manager, store, created, now, unsaved, travelled, faulty>>

None == 0

\* Written through JSON, where an int comes back as a float64.
Serialised == {"local", "nfs", "s3"}
\* Listed by stamps of whole seconds: RFC3339 in ToMap, LastModified in S3.
Coarse == {"local", "s3"}

\* state["message_count"]: its value and its Go type.
Count == [n : 0 .. MaxCount, type : {"absent", "int", "float64"}]
NoCount == [n |-> 0, type |-> "absent"]

\* shared: State is the very map the session still writes to.  branch (history):
\* made after the session went back behind an earlier checkpoint.
Checkpoint == [step : 0 .. MaxSteps, inputs : 0 .. MaxSteps, count : Count, shared : BOOLEAN,
               stamp : 0 .. MaxTime, parent : 0 .. MaxCheckpoints, migration : BOOLEAN, branch : BOOLEAN]

TypeOK ==
    /\ \E c \in Configs : backend = c[1] /\ autoResume = c[2]
    /\ session \in [live : BOOLEAN, resumed : BOOLEAN, steps : 0 .. MaxSteps,
                    inputs : 0 .. MaxSteps, count : Count]
    /\ manager \in [steps : 0 .. MaxSteps, last : 0 .. MaxCheckpoints]
    /\ DOMAIN store \subseteq 1 .. created /\ \A i \in DOMAIN store : store[i] \in Checkpoint
    /\ created \in 0 .. MaxCheckpoints /\ now \in 0 .. MaxTime /\ unsaved \in 0 .. MaxSteps
    /\ travelled \in BOOLEAN /\ faulty \in BOOLEAN

NewSession == [live |-> FALSE, resumed |-> FALSE, steps |-> 0, inputs |-> 0, count |-> NoCount]
NewManager == [steps |-> 0, last |-> None]

Init ==
    /\ \E c \in Configs : backend = c[1] /\ autoResume = c[2]
    /\ session = NewSession /\ manager = NewManager
    /\ store = << >> /\ created = 0 /\ now = 0
    /\ unsaved = 0 /\ travelled = FALSE /\ faulty = FALSE

-----------------------------------------------------------------------------
(* Storage. *)

\* What ListCheckpoints may put first: equal stamps come in any order.
newestIn(S) ==
    {i \in S : \A j \in S : IF backend \in Coarse THEN store[j].stamp <= store[i].stamp ELSE j <= i}
latest == newestIn(DOMAIN store)

\* What Load and ListCheckpoints return for checkpoint i.
loaded(i) ==
    IF backend \in Serialised /\ store[i].count.type = "int"
    THEN [store[i] EXCEPT !.count.type = "float64"]
    ELSE store[i]

without(S) == [i \in DOMAIN store \ S |-> store[i]]
unshared(s) == [i \in DOMAIN s |-> [s[i] EXCEPT !.shared = FALSE]]

-----------------------------------------------------------------------------
(* Pieces of the handlers.  A work record carries what one call changes. *)

Work == [session |-> session, manager |-> manager, store |-> store, created |-> created,
         unsaved |-> unsaved, travelled |-> travelled, faulty |-> faulty]

Becomes(w) ==
    /\ session' = w.session /\ manager' = w.manager /\ store' = w.store /\ created' = w.created
    /\ unsaved' = w.unsaved /\ travelled' = w.travelled /\ faulty' = w.faulty
    /\ UNCHANGED <<backend, autoResume, now>>

\* Fault: the message history is left as it was.
restored_KeepsMessages(w, i) ==
    LET c == loaded(i) IN
    [w EXCEPT !.session = [live |-> TRUE, resumed |-> w.session.resumed, steps |-> c.step,
                           inputs |-> w.session.inputs, count |-> c.count],
              !.store = unshared(w.store), !.unsaved = 0,
              !.travelled = c.step < w.manager.steps]

restored(w, i) ==
    LET c == loaded(i) IN
    [w EXCEPT !.session = [live |-> TRUE, resumed |-> w.session.resumed, steps |-> c.step,
                           inputs |-> c.inputs, count |-> c.count],
              !.store = unshared(w.store), !.unsaved = 0,
              !.travelled = c.step < w.manager.steps]

\* Resume: readable says whether the storage answers.
Resume(w, i, readable) ==
    IF i = None \/ ~readable THEN [w EXCEPT !.faulty = w.faulty \/ ~readable] ELSE restored(w, i)

\* Fault: one step late.
ShouldCheckpoint_Late(w) == w.session.steps - w.manager.steps > Interval

ShouldCheckpoint(w) == w.session.steps - w.manager.steps >= Interval

CreateCheckpoint(w, migration, saves) ==
    IF ~saves THEN [w EXCEPT !.faulty = TRUE]
    ELSE LET i == w.created + 1
             c == [step |-> w.session.steps, inputs |-> w.session.inputs,
                   count |-> w.session.count, stamp |-> now, migration |-> migration, branch |-> w.travelled,
                   shared |-> backend = "memory" /\ w.session.live, parent |-> w.manager.last]
         IN [w EXCEPT !.store = [j \in DOMAIN w.store \cup {i} |-> IF j = i THEN c ELSE w.store[j]],
                      !.manager = [steps |-> w.session.steps, last |-> i],
                      !.created = i, !.unsaved = 0, !.travelled = FALSE]

\* updateState: the assertion .(int) fails on a float64 and counting starts over.
updateState(w) ==
    LET n == IF w.session.count.type = "int" THEN w.session.count.n + 1 ELSE 1
        c == [n |-> IF n > MaxCount THEN MaxCount ELSE n, type |-> "int"] IN
    [w EXCEPT !.session.count = c,
              !.store = [i \in DOMAIN w.store |->
                           IF w.store[i].shared THEN [w.store[i] EXCEPT !.count = c] ELSE w.store[i]]]

\* Process before the agent is called: auto-resume from checkpoint i, then the
\* session is made if need be, the step counted and the message recorded.
begun(i, readable) ==
    LET w == IF autoResume /\ ~session.resumed
             THEN [Resume(Work, i, readable) EXCEPT !.session.resumed = TRUE] ELSE Work
    IN [w EXCEPT !.session.live = TRUE, !.session.steps = @ + 1, !.session.inputs = @ + 1,
                 !.session.count = IF w.session.live THEN @ ELSE NoCount]

\* The checkpoint GetLatest may answer with.
Latest == IF DOMAIN store = {} THEN {None} ELSE latest

-----------------------------------------------------------------------------
(* The calls. *)

ProcessSucceeds(i, readable, saves) ==
    LET w == begun(i, readable)
        u == updateState([w EXCEPT !.unsaved = @ + 1])
    IN /\ i \in Latest /\ w.session.steps <= MaxSteps
       /\ IF ShouldCheckpoint(u)
          THEN created < MaxCheckpoints /\ Becomes(CreateCheckpoint(u, FALSE, saves))
          ELSE saves /\ Becomes(u)

\* The agent fails: back to the latest checkpoint, if the storage has one.
ProcessFails(i, j, readable) ==
    LET w == begun(i, readable) IN
    /\ {i, j} \subseteq Latest /\ w.session.steps <= MaxSteps
    /\ Becomes(Resume(w, j, readable))

Checkpointed(migration, saves) ==
    /\ created < MaxCheckpoints
    /\ Becomes(CreateCheckpoint(Work, migration, saves))

\* Resume called with an id, or with the latest one.
Resumed(i) == Becomes(Resume(Work, i, TRUE))

ResumeMigrated(i) == Becomes([restored(Work, i) EXCEPT !.session.resumed = TRUE])

\* A map of the caller's, without the key message_count.
SetState ==
    Becomes([Work EXCEPT !.session.live = TRUE, !.session.count = NoCount, !.store = unshared(store)])

\* A session that loses its steps is behind the manager's record of them.
ResetSession ==
    Becomes([Work EXCEPT !.session = NewSession, !.store = unshared(store), !.unsaved = 0,
                         !.travelled = manager.steps > 0])

DeleteCheckpoints ==
    Becomes([Work EXCEPT !.session = NewSession, !.manager = NewManager, !.store = << >>,
                         !.unsaved = 0, !.travelled = FALSE])

DeleteCheckpoint(i) == Becomes([Work EXCEPT !.store = without({i})])

\* PruneOldCheckpoints keeps the first keep checkpoints of the listing (one of
\* the possible orders) and, under the policy, those made at a migration.
PruneOldCheckpoints(kept, retainMigrations) ==
    /\ \A i \in kept : \A j \in DOMAIN store \ kept : i \in newestIn({i, j})
    /\ Becomes([Work EXCEPT !.store =
                  without({i \in DOMAIN store \ kept : ~(retainMigrations /\ store[i].migration)})])

\* The process dies and a new one opens the same storage.
Crash ==
    Becomes([Work EXCEPT !.session = NewSession, !.manager = NewManager,
                         !.store = IF backend = "memory" THEN << >> ELSE store,
                         !.unsaved = 0, !.travelled = FALSE])

Tick ==
    /\ now < MaxTime
    /\ now' = now + 1
    /\ UNCHANGED <<backend, autoResume, session, manager, store, created, unsaved, travelled, faulty>>

Next ==
    \/ \E i \in Latest, readable, saves \in BOOLEAN : ProcessSucceeds(i, readable, saves)
    \/ \E i, j \in Latest, readable \in BOOLEAN : ProcessFails(i, j, readable)
    \/ \E migration, saves \in BOOLEAN : Checkpointed(migration, saves)
    \/ \E i \in DOMAIN store : Resumed(i) \/ ResumeMigrated(i) \/ DeleteCheckpoint(i)
    \/ \E kept \in SUBSET DOMAIN store, retain \in BOOLEAN : PruneOldCheckpoints(kept, retain)
    \/ SetState \/ ResetSession \/ DeleteCheckpoints \/ Crash \/ Tick

Spec == Init /\ [][Next]_vars

-----------------------------------------------------------------------------
(* Properties. *)

\* The step number of the session is the number of inputs in its history, and
\* every checkpoint pairs the two the same way, through failures, rollbacks,
\* resumptions, crashes and restarts.
HistoryMatchesStep ==
    /\ session.inputs = session.steps
    /\ \A i \in DOMAIN store : store[i].inputs = store[i].step

\* While the storage works and the session was not taken behind its last
\* checkpoint, fewer than Interval exchanges would be lost by a crash.
LossBounded == ~faulty /\ ~travelled => unsaved < Interval

\* A value of Configs: files, resumed by their user only.
LocalManual == {<<"local", FALSE>>}

\* checkpointInterval: "Checkpoint every N steps".
CheckpointsEveryN == ~faulty => unsaved < Interval

\* Along parent links step numbers never grow, unless a session went back in
\* between: ReplayFromCheckpoint, which stops at the first step beyond upToStep,
\* replays every checkpoint up to it.
ReplayOrdered ==
    \A i \in DOMAIN store : LET p == store[i].parent IN
        /\ p < i
        /\ p \in DOMAIN store /\ ~store[i].branch => store[p].step <= store[i].step

\* A session restores what it was.
CheckpointsSound == HistoryMatchesStep /\ ReplayOrdered /\ LossBounded
=============================================================================
