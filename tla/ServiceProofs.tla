-------------------------- MODULE ServiceProofs -----------------------------
(***************************************************************************)
(* Proofs about durable execution, budgets, the routing by complexity and  *)
(* tasks, each for every value of the component's constants.  A name that  *)
(* components have in common is declared once: each theorem is about one   *)
(* of them.                                                                *)
(***************************************************************************)
EXTENDS Durable, Sequences, TLAPS

-----------------------------------------------------------------------------
(* Durable execution. *)

\* What holds between the parts of a work record, and of the state: a session and its
\* checkpoints pair a step with as many inputs, the manager remembers the step of the
\* last checkpoint, and a session that has not gone back is ahead of it by the
\* exchanges that are not saved at least.
SessionOK(w) ==
    /\ w.session \in [live : BOOLEAN, resumed : BOOLEAN, steps : 0 .. MaxSteps,
                      inputs : 0 .. MaxSteps, count : Count]
    /\ w.session.inputs = w.session.steps
    /\ w.manager \in [steps : 0 .. MaxSteps, last : 0 .. w.created]
    /\ w.created \in 0 .. MaxCheckpoints
    /\ w.unsaved \in 0 .. w.session.steps
    /\ w.travelled \in BOOLEAN /\ w.faulty \in BOOLEAN
    /\ ~w.travelled => w.unsaved <= w.session.steps - w.manager.steps

StoreOK(w) ==
    /\ DOMAIN w.store \subseteq 1 .. w.created
    /\ \A i \in DOMAIN w.store :
         /\ w.store[i] \in Checkpoint
         /\ w.store[i].inputs = w.store[i].step
         /\ w.store[i].parent < i
         /\ w.store[i].parent \in DOMAIN w.store /\ ~w.store[i].branch
              => w.store[w.store[i].parent].step <= w.store[i].step
    /\ w.manager.last \in DOMAIN w.store => w.store[w.manager.last].step = w.manager.steps

LossOK(w) == ~w.faulty /\ ~w.travelled => w.unsaved < Interval

WorkOK(w) ==
    /\ DOMAIN w = {"session", "manager", "store", "created", "unsaved", "travelled", "faulty"}
    /\ SessionOK(w) /\ StoreOK(w) /\ LossOK(w)

DurableInv == TypeOK /\ WorkOK(Work)

\* A state reached by a call is as good as the work record it ends with.
LEMMA BecomesOK ==
    ASSUME DurableAssumption, DurableInv, NEW w, WorkOK(w), Becomes(w) PROVE DurableInv'
<1>1. Work' = [session |-> w.session, manager |-> w.manager, store |-> w.store,
                 created |-> w.created, unsaved |-> w.unsaved, travelled |-> w.travelled,
                 faulty |-> w.faulty]
  BY DEF Becomes, Work
<1>2. WorkOK(Work)'
  <2>1. SessionOK(Work)'
    BY <1>1 DEF WorkOK, SessionOK
  <2>2. StoreOK(Work)'
    BY <1>1 DEF WorkOK, StoreOK
  <2>3. QED
    BY <1>1, <2>1, <2>2 DEF WorkOK, LossOK
<1>3. TypeOK'
  BY DEF Becomes, TypeOK, DurableInv, WorkOK, SessionOK, StoreOK, DurableAssumption
<1>4. QED
  BY <1>2, <1>3 DEF DurableInv

\* Checkpoints that keep their step, inputs and parent keep the store in order.
Alike(t, s) ==
    /\ DOMAIN t = DOMAIN s
    /\ \A j \in DOMAIN s : /\ t[j] \in Checkpoint
                           /\ t[j].step = s[j].step /\ t[j].inputs = s[j].inputs
                           /\ t[j].parent = s[j].parent /\ t[j].branch = s[j].branch

\* A store alike a sound one is sound: only counts and stamps differ.
LEMMA AlikeOK ==
    ASSUME NEW w, NEW r, StoreOK(w), Alike(r.store, w.store), r.manager = w.manager,
           r.created = w.created
    PROVE  StoreOK(r)
  BY DEF StoreOK, Alike

\* Going back to a checkpoint.
LEMMA RestoredOK ==
    ASSUME DurableAssumption, DurableInv, NEW w, WorkOK(w), NEW i \in DOMAIN store
    PROVE  WorkOK(restored(w, i)) /\ restored(w, i).created = w.created
<1>1. /\ loaded(i) \in Checkpoint /\ loaded(i).inputs = loaded(i).step
  BY DEF DurableInv, WorkOK, StoreOK, Work, loaded, Checkpoint, Count
<1> DEFINE c == loaded(i)
           s == [live |-> TRUE, resumed |-> w.session.resumed, steps |-> c.step,
                 inputs |-> c.inputs, count |-> c.count]
           u == unshared(w.store)
           r == restored(w, i)
<1>2. /\ r.session = s /\ r.store = u /\ r.unsaved = 0
      /\ r.travelled = (c.step < w.manager.steps)
      /\ r.manager = w.manager /\ r.created = w.created /\ r.faulty = w.faulty
      /\ DOMAIN r = DOMAIN w
  BY DEF restored, WorkOK
<1>3. Alike(u, w.store)
  BY Zenon DEF Alike, unshared, WorkOK, StoreOK, Checkpoint
<1> HIDE DEF r, u, c
<1>4. SessionOK(r)
  <2>1. s \in [live : BOOLEAN, resumed : BOOLEAN, steps : 0 .. MaxSteps, inputs : 0 .. MaxSteps,
               count : Count]
    BY <1>1 DEF SessionOK, WorkOK, Checkpoint, c
  <2>2. r.travelled \in BOOLEAN
    <3>1. r.travelled = (c.step < w.manager.steps)
      BY <1>2
    <3>2. QED
      BY <3>1
  <2>3. ~r.travelled => r.session.steps >= r.manager.steps
    <3>1. r.travelled = (c.step < w.manager.steps)
      BY <1>2
    <3>2. ~r.travelled => ~(c.step < w.manager.steps)
      BY Zenon, <3>1
    <3>3. QED
      BY <1>1, <1>2, <3>2 DEF SessionOK, WorkOK, Checkpoint, c
  <2>4. QED
    BY <1>1, <1>2, <2>1, <2>2, <2>3 DEF SessionOK, WorkOK, Checkpoint, c
<1>5. StoreOK(r)
  BY <1>2, <1>3, AlikeOK DEF WorkOK
<1>6. LossOK(r)
  BY <1>2 DEF LossOK, DurableAssumption
<1>7. QED
  BY <1>2, <1>4, <1>5, <1>6 DEF WorkOK, r

\* Resume, from a latest checkpoint, from an unreadable one or from none, keeps the work sound.
LEMMA ResumeOK ==
    ASSUME DurableAssumption, DurableInv, NEW w, WorkOK(w), NEW i \in Latest,
           NEW readable \in BOOLEAN
    PROVE  WorkOK(Resume(w, i, readable)) /\ Resume(w, i, readable).created = w.created
<1>1. CASE i = None \/ ~readable
  <2> DEFINE r == [w EXCEPT !.faulty = w.faulty \/ ~readable]
  <2>1. /\ r.session = w.session /\ r.store = w.store /\ r.unsaved = w.unsaved
        /\ r.travelled = w.travelled /\ r.manager = w.manager /\ r.created = w.created
        /\ r.faulty \in BOOLEAN /\ (~r.faulty => ~w.faulty) /\ DOMAIN r = DOMAIN w
    BY DEF WorkOK, SessionOK
  <2> HIDE DEF r
  <2>2. WorkOK(r)
    BY <2>1 DEF WorkOK, SessionOK, StoreOK, LossOK
  <2>3. QED
    BY <1>1, <2>1, <2>2 DEF Resume, r
<1>2. CASE ~(i = None \/ ~readable)
  <2>1. i \in DOMAIN store
    BY <1>2 DEF Latest, latest, newestIn
  <2>2. QED
    BY <1>2, <2>1, RestoredOK DEF Resume
<1>3. QED
  BY <1>1, <1>2

\* Process up to the call of the agent: the step is counted and its input recorded, not
\* yet an exchange.
LEMMA BegunOK ==
    ASSUME DurableAssumption, DurableInv, NEW i \in Latest, NEW readable \in BOOLEAN,
           begun(i, readable).session.steps <= MaxSteps
    PROVE  /\ WorkOK(begun(i, readable)) /\ begun(i, readable).created = created
           /\ ~begun(i, readable).travelled =>
                begun(i, readable).unsaved + 1
                  <= begun(i, readable).session.steps - begun(i, readable).manager.steps
           /\ begun(i, readable).unsaved + 1 <= begun(i, readable).session.steps
<1> DEFINE w == IF autoResume /\ ~session.resumed
                THEN [Resume(Work, i, readable) EXCEPT !.session.resumed = TRUE] ELSE Work
           b == begun(i, readable)
<1>1. WorkOK(w) /\ w.created = created
  <2> DEFINE v == Resume(Work, i, readable)
             r == [v EXCEPT !.session.resumed = TRUE]
  <2>1. WorkOK(v) /\ v.created = created
    BY ResumeOK DEF DurableInv, Work
  <2>2. /\ r.session = [v.session EXCEPT !.resumed = TRUE] /\ r.store = v.store
        /\ r.unsaved = v.unsaved /\ r.travelled = v.travelled /\ r.manager = v.manager
        /\ r.created = v.created /\ r.faulty = v.faulty /\ DOMAIN r = DOMAIN v
    BY <2>1 DEF WorkOK
  <2> HIDE DEF r, v
  <2>3. WorkOK(r)
    BY Zenon, <2>1, <2>2 DEF WorkOK, SessionOK, StoreOK, LossOK
  <2>4. QED
    BY <2>1, <2>2, <2>3 DEF r, v, DurableInv, Work
<1>2. b = [w EXCEPT !.session.live = TRUE, !.session.steps = @ + 1, !.session.inputs = @ + 1,
                    !.session.count = IF w.session.live THEN @ ELSE NoCount]
  BY DEF begun
<1> HIDE DEF w
<1>3. /\ b.session = [live |-> TRUE, resumed |-> w.session.resumed, steps |-> w.session.steps + 1,
                      inputs |-> w.session.inputs + 1,
                      count |-> IF w.session.live THEN w.session.count ELSE NoCount]
      /\ b.store = w.store /\ b.unsaved = w.unsaved /\ b.travelled = w.travelled
      /\ b.manager = w.manager /\ b.created = w.created /\ b.faulty = w.faulty
      /\ DOMAIN b = DOMAIN w
  <2>1. w.session \in [live : BOOLEAN, resumed : BOOLEAN, steps : 0 .. MaxSteps,
                       inputs : 0 .. MaxSteps, count : Count]
        /\ {"session", "store", "unsaved", "travelled", "manager", "created", "faulty"} = DOMAIN w
    BY <1>1 DEF WorkOK, SessionOK
  <2>2. b.session = [w.session EXCEPT !.live = TRUE, !.steps = @ + 1, !.inputs = @ + 1,
                                      !.count = IF w.session.live THEN @ ELSE NoCount]
    BY <1>2, <2>1
  <2>3. b.session = [live |-> TRUE, resumed |-> w.session.resumed, steps |-> w.session.steps + 1,
                     inputs |-> w.session.inputs + 1,
                     count |-> IF w.session.live THEN w.session.count ELSE NoCount]
    BY Zenon, <2>1, <2>2
  <2>4. QED
    BY <1>2, <2>1, <2>3
<1>4. b.session.steps <= MaxSteps
  OBVIOUS
<1> HIDE DEF b
<1>5. SessionOK(b)
  <2>1. NoCount \in Count
    BY DEF NoCount, Count, DurableAssumption
  <2>2. /\ w.session \in [live : BOOLEAN, resumed : BOOLEAN, steps : 0 .. MaxSteps,
                          inputs : 0 .. MaxSteps, count : Count]
        /\ w.session.inputs = w.session.steps
    BY <1>1 DEF WorkOK, SessionOK
  <2>3. /\ b.session \in [live : BOOLEAN, resumed : BOOLEAN, steps : 0 .. MaxSteps,
                          inputs : 0 .. MaxSteps, count : Count]
        /\ b.session.inputs = b.session.steps /\ b.session.steps = w.session.steps + 1
    BY <1>3, <1>4, <2>1, <2>2 DEF DurableAssumption
  <2>4. b.unsaved \in 0 .. b.session.steps
        /\ (~b.travelled => b.unsaved <= b.session.steps - b.manager.steps)
    BY <1>1, <1>3, <2>3 DEF WorkOK, SessionOK, DurableAssumption
  <2>5. QED
    BY <1>1, <1>3, <2>3, <2>4 DEF WorkOK, SessionOK
<1>6. StoreOK(b) /\ LossOK(b)
  BY <1>1, <1>3 DEF WorkOK, StoreOK, LossOK
<1>7. /\ b.unsaved + 1 <= b.session.steps
      /\ ~b.travelled => b.unsaved + 1 <= b.session.steps - b.manager.steps
  BY <1>1, <1>3 DEF WorkOK, SessionOK, DurableAssumption
<1>8. QED
  BY <1>1, <1>3, <1>5, <1>6, <1>7 DEF WorkOK, b

\* The part of WorkOK that holds between an exchange and the checkpoint it may call for.
Unchecked(w) ==
    /\ DOMAIN w = {"session", "manager", "store", "created", "unsaved", "travelled", "faulty"}
    /\ SessionOK(w) /\ StoreOK(w)

\* An exchange: the agent has answered and updateState has counted the message, in the
\* checkpoints that share the map too.
LEMMA ExchangedOK ==
    ASSUME DurableAssumption, NEW w, Unchecked(w), w.unsaved + 1 <= w.session.steps,
           ~w.travelled => w.unsaved + 1 <= w.session.steps - w.manager.steps
    PROVE  LET u == updateState([w EXCEPT !.unsaved = @ + 1])
           IN /\ Unchecked(u) /\ u.session.steps = w.session.steps /\ u.manager = w.manager
              /\ u.created = w.created
<1> DEFINE v == [w EXCEPT !.unsaved = @ + 1]
           u == updateState(v)
           n == IF v.session.count.type = "int" THEN v.session.count.n + 1 ELSE 1
           c == [n |-> IF n > MaxCount THEN MaxCount ELSE n, type |-> "int"]
<1>1. /\ DOMAIN v = DOMAIN w /\ v.session = w.session /\ v.store = w.store /\ v.manager = w.manager
      /\ v.unsaved = w.unsaved + 1 /\ v.travelled = w.travelled /\ v.faulty = w.faulty
      /\ v.created = w.created
  BY DEF Unchecked
<1>2. u = [v EXCEPT !.session.count = c,
                    !.store = [i \in DOMAIN v.store |->
                       IF v.store[i].shared THEN [v.store[i] EXCEPT !.count = c] ELSE v.store[i]]]
  BY DEF updateState
<1> HIDE DEF v, u
<1>3. c \in Count
  BY <1>1 DEF Unchecked, SessionOK, Count, DurableAssumption
<1> HIDE DEF c
<1>4. /\ u.session = [w.session EXCEPT !.count = c]
      /\ u.store = [i \in DOMAIN w.store |->
                       IF w.store[i].shared THEN [w.store[i] EXCEPT !.count = c] ELSE w.store[i]]
      /\ u.manager = w.manager /\ u.unsaved = w.unsaved + 1 /\ u.travelled = w.travelled
      /\ u.faulty = w.faulty /\ u.created = w.created /\ DOMAIN u = DOMAIN w
  BY Zenon, <1>1, <1>2 DEF Unchecked
<1>5. SessionOK(u)
  BY <1>3, <1>4 DEF Unchecked, SessionOK
<1>6. Alike(u.store, w.store)
  BY <1>3, <1>4 DEF Alike, Unchecked, StoreOK, Checkpoint
<1>7. StoreOK(u)
  BY <1>4, <1>6, AlikeOK DEF Unchecked
<1>8. u.session.steps = w.session.steps
  BY <1>4 DEF Unchecked, SessionOK
<1>9. QED
  BY <1>4, <1>5, <1>7, <1>8 DEF Unchecked, u, v

\* A checkpoint follows the manager's last one, at a step that is not lower unless the
\* session has gone back.
LEMMA CreateOK ==
    ASSUME DurableAssumption, DurableInv, NEW w, Unchecked(w), w.created < MaxCheckpoints,
           NEW migration \in BOOLEAN, NEW saves \in BOOLEAN
    PROVE  WorkOK(CreateCheckpoint(w, migration, saves))
<1> DEFINE r == CreateCheckpoint(w, migration, saves)
<1>1. CASE ~saves
  <2>1. r = [w EXCEPT !.faulty = TRUE]
    BY <1>1 DEF CreateCheckpoint
  <2> HIDE DEF r
  <2>2. /\ r.session = w.session /\ r.store = w.store /\ r.unsaved = w.unsaved
        /\ r.travelled = w.travelled /\ r.manager = w.manager /\ r.created = w.created
        /\ r.faulty = TRUE /\ DOMAIN r = DOMAIN w
    BY <2>1 DEF Unchecked
  <2>3. QED
    BY Zenon, <2>2 DEF Unchecked, WorkOK, SessionOK, StoreOK, LossOK, r
<1>2. CASE saves
  <2> DEFINE i == w.created + 1
             c == [step |-> w.session.steps, inputs |-> w.session.inputs,
                   count |-> w.session.count, stamp |-> now, migration |-> migration,
                   branch |-> w.travelled, shared |-> backend = "memory" /\ w.session.live,
                   parent |-> w.manager.last]
  <2>1. /\ r.store = [j \in DOMAIN w.store \cup {i} |-> IF j = i THEN c ELSE w.store[j]]
        /\ r.manager = [steps |-> w.session.steps, last |-> i] /\ r.session = w.session
        /\ r.created = i /\ r.unsaved = 0 /\ r.travelled = FALSE /\ r.faulty = w.faulty
        /\ DOMAIN r = DOMAIN w
    BY <1>2 DEF CreateCheckpoint, Unchecked
  <2>2. c \in Checkpoint
    <3>1. (backend = "memory" /\ w.session.live) \in BOOLEAN
      OBVIOUS
    <3>2. QED
      BY <3>1 DEF Unchecked, SessionOK, Checkpoint, DurableInv, TypeOK, DurableAssumption
  <2>3. /\ c.step = w.session.steps /\ c.inputs = w.session.inputs /\ c.parent = w.manager.last
        /\ c.branch = w.travelled
    OBVIOUS
  <2> HIDE DEF r, c
  <2>4. SessionOK(r)
    <3>1. w.session.steps \in Nat /\ w.created \in Nat
      BY DEF Unchecked, SessionOK, DurableAssumption
    <3>2. r.created \in 0 .. MaxCheckpoints /\ r.unsaved = 0
      BY <2>1, <3>1 DEF DurableAssumption
    <3>3. r.session.steps = r.manager.steps
      BY <2>1
    <3>4. r.travelled \in BOOLEAN
      BY Zenon, <2>1
    <3>5. r.manager \in [steps : 0 .. MaxSteps, last : 0 .. r.created]
      BY <2>1 DEF Unchecked, SessionOK
    <3>6. QED
      BY <2>1, <3>1, <3>2, <3>3, <3>4, <3>5 DEF Unchecked, SessionOK
  <2>5. StoreOK(r)
    <3>1. i \in Nat /\ i \notin DOMAIN w.store /\ DOMAIN r.store = DOMAIN w.store \cup {i}
      BY <2>1 DEF Unchecked, SessionOK, StoreOK
    <3>2. r.store[i] = c /\ \A j \in DOMAIN w.store : r.store[j] = w.store[j]
      BY <2>1, <3>1
    <3>3. w.manager.last # i /\ w.manager.last < i
      BY DEF Unchecked, SessionOK
    <3>4. ~w.travelled => w.manager.steps <= w.session.steps
      BY DEF Unchecked, SessionOK, DurableAssumption
    <3>5. /\ c.inputs = c.step /\ c.parent < i
          /\ c.parent \in DOMAIN r.store /\ ~c.branch => r.store[c.parent].step <= c.step
      BY <2>3, <3>1, <3>2, <3>3, <3>4 DEF Unchecked, SessionOK, StoreOK
    <3>6. \A j \in DOMAIN w.store : w.store[j].parent # i
      BY DEF Unchecked, SessionOK, StoreOK, Checkpoint
    <3>7. \A j \in DOMAIN r.store :
            /\ r.store[j] \in Checkpoint
            /\ r.store[j].inputs = r.store[j].step
            /\ r.store[j].parent < j
            /\ r.store[j].parent \in DOMAIN r.store /\ ~r.store[j].branch
                 => r.store[r.store[j].parent].step <= r.store[j].step
      BY <2>2, <3>1, <3>2, <3>5, <3>6 DEF Unchecked, StoreOK
    <3>8. DOMAIN r.store \subseteq 1 .. r.created
      BY <2>1, <3>1 DEF Unchecked, SessionOK, StoreOK
    <3>9. r.store[r.manager.last].step = r.manager.steps
      BY <2>1, <2>3, <3>2
    <3>10. QED
      BY <3>7, <3>8, <3>9 DEF StoreOK
  <2>6. LossOK(r)
    BY <2>1 DEF LossOK, DurableAssumption
  <2>7. QED
    BY <2>1, <2>4, <2>5, <2>6 DEF WorkOK, Unchecked, r
<1>3. QED
  BY <1>1, <1>2

\* The invariant is inductive.
LEMMA DurableStep ==
    ASSUME DurableAssumption, DurableInv, [Next]_vars PROVE DurableInv'
<1> USE DEF DurableInv
<1> DEFINE W == Work
<1>1. /\ WorkOK(W) /\ DOMAIN W = {"session", "manager", "store", "created", "unsaved",
                                   "travelled", "faulty"}
      /\ W.session = session /\ W.manager = manager /\ W.store = store /\ W.created = created
      /\ W.unsaved = unsaved /\ W.travelled = travelled /\ W.faulty = faulty
  BY DEF Work
<1>2. \A r : WorkOK(r) /\ Becomes(r) => DurableInv'
  BY BecomesOK
<1>3. ASSUME NEW i \in Latest, NEW readable \in BOOLEAN, NEW saves \in BOOLEAN,
             ProcessSucceeds(i, readable, saves)
      PROVE  DurableInv'
  <2> DEFINE w == begun(i, readable)
             u == updateState([w EXCEPT !.unsaved = @ + 1])
  <2>1. w.session.steps <= MaxSteps
    BY <1>3 DEF ProcessSucceeds
  <2>2. /\ Unchecked(w) /\ w.unsaved + 1 <= w.session.steps /\ w.created = created
        /\ ~w.travelled => w.unsaved + 1 <= w.session.steps - w.manager.steps
    BY <2>1, BegunOK DEF WorkOK, Unchecked
  <2>3. Unchecked(u) /\ u.created = created
    BY <2>2, ExchangedOK
  <2>4. CASE ShouldCheckpoint(u)
    <3>1. created < MaxCheckpoints /\ Becomes(CreateCheckpoint(u, FALSE, saves))
      BY Zenon, <1>3, <2>4 DEF ProcessSucceeds
    <3>2. WorkOK(CreateCheckpoint(u, FALSE, saves))
      BY Zenon, <2>3, <3>1, CreateOK
    <3>3. QED
      BY Zenon, <1>2, <3>1, <3>2
  <2>5. CASE ~ShouldCheckpoint(u)
    <3>1. Becomes(u)
      BY <1>3, <2>5 DEF ProcessSucceeds
    <3>2. LossOK(u)
      <4> HIDE DEF u
      <4>1. QED
        BY <2>3, <2>5 DEF Unchecked, SessionOK, LossOK, ShouldCheckpoint, DurableAssumption
    <3>3. WorkOK(u)
      BY <2>3, <3>2 DEF Unchecked, WorkOK
    <3>4. QED
      BY <1>2, <3>1, <3>3
  <2>6. QED
    BY <2>4, <2>5
<1>4. ASSUME NEW i \in Latest, NEW j \in Latest, NEW readable \in BOOLEAN,
             ProcessFails(i, j, readable)
      PROVE  DurableInv'
  <2> DEFINE w == begun(i, readable)
  <2>1. w.session.steps <= MaxSteps /\ Becomes(Resume(w, j, readable))
    BY <1>4 DEF ProcessFails
  <2>2. WorkOK(w)
    BY <2>1, BegunOK
  <2>3. WorkOK(Resume(w, j, readable))
    BY <2>2, ResumeOK
  <2>4. QED
    BY <1>2, <2>1, <2>3
<1>5. ASSUME NEW migration \in BOOLEAN, NEW saves \in BOOLEAN, Checkpointed(migration, saves)
      PROVE  DurableInv'
  <2>1. created < MaxCheckpoints /\ Becomes(CreateCheckpoint(W, migration, saves))
    BY <1>5 DEF Checkpointed
  <2>2. Unchecked(W)
    BY <1>1 DEF WorkOK, Unchecked
  <2>3. WorkOK(CreateCheckpoint(W, migration, saves))
    BY <1>1, <2>1, <2>2, CreateOK
  <2>4. QED
    BY <1>2, <2>1, <2>3
<1>6. ASSUME NEW i \in DOMAIN store, Resumed(i) PROVE DurableInv'
  <2>1. Becomes(restored(W, i))
    <3>1. i # None
      BY DEF TypeOK, None
    <3>2. QED
      BY <1>6, <3>1 DEF Resumed, Resume
  <2>2. QED
    BY <1>2, <2>1, RestoredOK
<1>7. ASSUME NEW i \in DOMAIN store, ResumeMigrated(i) PROVE DurableInv'
  <2> DEFINE v == restored(W, i)
             r == [v EXCEPT !.session.resumed = TRUE]
  <2>1. WorkOK(v)
    BY RestoredOK
  <2>2. Becomes(r)
    BY <1>7 DEF ResumeMigrated
  <2> HIDE DEF v
  <2>3. /\ r.session = [v.session EXCEPT !.resumed = TRUE] /\ r.store = v.store
        /\ r.unsaved = v.unsaved /\ r.travelled = v.travelled /\ r.manager = v.manager
        /\ r.created = v.created /\ r.faulty = v.faulty /\ DOMAIN r = DOMAIN v
    BY <2>1 DEF WorkOK
  <2> HIDE DEF r
  <2>4. WorkOK(r)
    BY Zenon, <2>1, <2>3 DEF WorkOK, SessionOK, StoreOK, LossOK
  <2>5. QED
    BY <1>2, <2>2, <2>4
<1>8. ASSUME NEW S, Becomes([W EXCEPT !.store = without(S)]) PROVE DurableInv'
  <2> DEFINE r == [W EXCEPT !.store = without(S)]
  <2>1. /\ r.session = session /\ r.store = without(S) /\ r.unsaved = unsaved
        /\ r.travelled = travelled /\ r.manager = manager /\ r.created = created
        /\ r.faulty = faulty /\ DOMAIN r = DOMAIN W
    BY <1>1
  <2> HIDE DEF r
  <2>2. StoreOK(r)
    BY <1>1, <2>1 DEF WorkOK, StoreOK, without
  <2>3. WorkOK(r)
    BY <1>1, <2>1, <2>2 DEF WorkOK, SessionOK, LossOK
  <2>4. QED
    BY <1>2, <1>8, <2>3 DEF r
<1>9. Alike(unshared(store), store)
  BY Zenon DEF Alike, unshared, TypeOK, Checkpoint
<1>10. NewSession \in [live : BOOLEAN, resumed : BOOLEAN, steps : 0 .. MaxSteps,
                         inputs : 0 .. MaxSteps, count : Count]
       /\ NoCount \in Count
  BY DEF NewSession, NoCount, Count, DurableAssumption
<1>11. ASSUME SetState PROVE DurableInv'
  <2> DEFINE r == [W EXCEPT !.session.live = TRUE, !.session.count = NoCount,
                            !.store = unshared(store)]
  <2>1. Becomes(r)
    BY <1>11 DEF SetState
  <2>2. /\ r.session = [session EXCEPT !.live = TRUE, !.count = NoCount]
        /\ r.store = unshared(store) /\ r.unsaved = unsaved /\ r.travelled = travelled
        /\ r.manager = manager /\ r.created = created /\ r.faulty = faulty /\ DOMAIN r = DOMAIN W
    BY <1>1
  <2> HIDE DEF r
  <2>3. StoreOK(r)
    BY <1>1, <1>9, <2>2, AlikeOK DEF WorkOK
  <2>4. SessionOK(r) /\ LossOK(r)
    BY Zenon, <1>1, <1>10, <2>2 DEF WorkOK, SessionOK, LossOK
  <2>5. QED
    BY <1>1, <1>2, <2>1, <2>2, <2>3, <2>4 DEF WorkOK
<1>12. ASSUME ResetSession PROVE DurableInv'
  <2> DEFINE r == [W EXCEPT !.session = NewSession, !.store = unshared(store), !.unsaved = 0,
                            !.travelled = manager.steps > 0]
  <2>1. Becomes(r)
    BY <1>12 DEF ResetSession
  <2>2. /\ r.session = NewSession /\ r.store = unshared(store) /\ r.unsaved = 0
        /\ r.travelled = (manager.steps > 0)
        /\ r.manager = manager /\ r.created = created /\ r.faulty = faulty /\ DOMAIN r = DOMAIN W
    BY <1>1
  <2> HIDE DEF r
  <2>3. StoreOK(r)
    BY <1>1, <1>9, <2>2, AlikeOK DEF WorkOK
  <2>4. SessionOK(r)
    <3>1. r.travelled = (manager.steps > 0)
      BY <2>2
    <3>2. r.travelled \in BOOLEAN
      BY <3>1
    <3>3. ~r.travelled => ~(manager.steps > 0)
      BY Zenon, <3>1
    <3>4. QED
      BY <1>1, <1>10, <2>2, <3>2, <3>3
      DEF WorkOK, SessionOK, NewSession, DurableAssumption
  <2>5. LossOK(r)
    BY <2>2 DEF LossOK, DurableAssumption
  <2>6. QED
    BY <1>1, <1>2, <2>1, <2>2, <2>3, <2>4, <2>5 DEF WorkOK
<1>13. ASSUME NEW s, s = << >> \/ s = store,
              Becomes([W EXCEPT !.session = NewSession, !.manager = NewManager, !.store = s,
                                  !.unsaved = 0, !.travelled = FALSE])
       PROVE  DurableInv'
  <2> DEFINE r == [W EXCEPT !.session = NewSession, !.manager = NewManager, !.store = s,
                            !.unsaved = 0, !.travelled = FALSE]
  <2>1. /\ r.session = NewSession /\ r.manager = NewManager /\ r.store = s /\ r.unsaved = 0
        /\ r.travelled = FALSE /\ r.created = created /\ r.faulty = faulty /\ DOMAIN r = DOMAIN W
    BY <1>1
  <2> HIDE DEF r
  <2>2. StoreOK(r)
    <3>1. r.manager.last = 0 /\ 0 \notin DOMAIN r.store
      BY <1>13, <2>1 DEF NewManager, None, TypeOK
    <3>2. QED
      BY <1>1, <1>13, <2>1, <3>1 DEF WorkOK, StoreOK
  <2>3. SessionOK(r)
    <3>1. r.manager \in [steps : 0 .. MaxSteps, last : 0 .. r.created]
      BY <2>1 DEF NewManager, None, TypeOK, DurableAssumption
    <3>2. r.travelled \in BOOLEAN
      BY Zenon, <2>1
    <3>3. QED
      BY <1>1, <1>10, <2>1, <3>1, <3>2
      DEF WorkOK, SessionOK, NewSession, NewManager, DurableAssumption
  <2>4. LossOK(r)
    BY <2>1 DEF LossOK, DurableAssumption
  <2>5. QED
    BY Zenon, <1>1, <1>2, <1>13, <2>1, <2>2, <2>3, <2>4 DEF WorkOK, r
<1>14. ASSUME Tick PROVE DurableInv'
  <2>1. W' = W /\ TypeOK'
    BY <1>14 DEF Tick, Work, TypeOK, DurableAssumption
  <2>2. QED
    BY <1>1, <2>1
<1>15. ASSUME UNCHANGED vars PROVE DurableInv'
  <2>1. W' = W /\ TypeOK'
    BY <1>15 DEF vars, Work, TypeOK
  <2>2. QED
    BY <1>1, <2>1
<1>16. QED
  BY Zenon, <1>3, <1>4, <1>5, <1>6, <1>7, <1>8, <1>11, <1>12, <1>13, <1>14, <1>15
  DEF Next, DeleteCheckpoint, PruneOldCheckpoints, DeleteCheckpoints, Crash

\* A new agent over an empty storage meets the invariant.
LEMMA DurableInit == ASSUME DurableAssumption, Init PROVE DurableInv
<1>1. /\ session \in [live : BOOLEAN, resumed : BOOLEAN, steps : 0 .. MaxSteps,
                      inputs : 0 .. MaxSteps, count : Count]
      /\ session.steps = 0 /\ session.inputs = 0
  BY DEF Init, NewSession, NoCount, Count, DurableAssumption
<1>2. /\ manager \in [steps : 0 .. MaxSteps, last : 0 .. 0] /\ manager.steps = 0
      /\ 0 \in 0 .. MaxCheckpoints
  BY DEF Init, NewManager, None, DurableAssumption
<1>3. DOMAIN store = {} /\ created = 0 /\ unsaved = 0 /\ now = 0
  BY DEF Init
<1>4. travelled \in BOOLEAN /\ faulty \in BOOLEAN
  BY Zenon DEF Init
<1>5. TypeOK
  BY <1>1, <1>2, <1>3, <1>4 DEF Init, TypeOK, DurableAssumption
<1>6. SessionOK(Work)
  BY <1>1, <1>2, <1>3, <1>4 DEF Work, SessionOK
<1>7. StoreOK(Work)
  BY <1>3 DEF Work, StoreOK
<1>8. LossOK(Work)
  BY <1>3 DEF Work, LossOK, DurableAssumption
<1>9. QED
  BY <1>5, <1>6, <1>7, <1>8 DEF DurableInv, WorkOK, Work

\* For every interval, backend and bound, through failed exchanges, failed saves, rollbacks,
\* resumptions, deletions, pruning and crashes: a session and its checkpoints pair a step
\* with as many inputs; along parent links steps do not grow unless the session went back;
\* and fewer than Interval exchanges would be lost by a crash while the storage works and
\* the session has not gone back (DurableAgent over CheckpointManager).
THEOREM DurableSound == ASSUME DurableAssumption PROVE Spec => []CheckpointsSound
<1>1. Init => DurableInv
  BY DurableInit
<1>2. DurableInv /\ [Next]_vars => DurableInv'
  BY DurableStep
<1>3. DurableInv => CheckpointsSound
  BY DEF DurableInv, WorkOK, SessionOK, StoreOK, LossOK, Work, CheckpointsSound,
         HistoryMatchesStep, ReplayOrdered, LossBounded
<1>4. QED
  BY <1>1, <1>2, <1>3, PTL DEF Spec

-----------------------------------------------------------------------------
(* Budgets, and the routing by complexity. *)

CONSTANTS Callers, Sessions, NoSession, AgentOf, Limit, Thresholds, Costs, MaxCalls, Price,
          NewPrices, Tokens, CostSessions, MaxCosts, Attempts

VARIABLES pc, attempt, wrappers, action, calls, cost, spent, warned, used, logged, detector,
          method, query, maxAttempts, complexity, failedModels, answer, pricing, costs

U == INSTANCE Budget

\* Whatever the budgets, thresholds, prices and interleavings, a threshold that was passed is
\* warned of once (BudgetWarning.checkWarnings, under its mutex).
THEOREM ThresholdsWarnedOnce == U!BudgetSpec => []U!WarnedOnce
<1>1. U!BudgetInit => U!WarnedOnce
  BY DEF U!BudgetInit, U!WarnedOnce
<1>2. U!WarnedOnce /\ [U!BudgetNext]_(U!budgetVars) => U!WarnedOnce'
  <2> SUFFICES ASSUME U!WarnedOnce, [U!BudgetNext]_(U!budgetVars) PROVE U!WarnedOnce'
    OBVIOUS
  <2>1. CASE UNCHANGED <<warned, logged>>
    BY <2>1 DEF U!WarnedOnce
  <2>2. ASSUME NEW c \in Callers, U!CheckWarnings(c) PROVE U!WarnedOnce'
    <3>1. U!dueWarnings(c) \cap warned = {}
      BY DEF U!dueWarnings
    <3>2. QED
      BY <2>2, <3>1 DEF U!CheckWarnings, U!WarnedOnce
  <2>3. QED
    BY <2>1, <2>2 DEF U!BudgetNext, U!budgetVars, U!Call, U!CheckBudget, U!AgentAnswers,
                      U!AgentFails, U!RecordByWarning, U!RecordByLimiter
<1>3. QED
  BY <1>1, <1>2, PTL DEF U!BudgetSpec

\* The models that failed are the first ones to try, in order, and no more than allowed.
Tried ==
    LET order == U!fallbackModels(complexity)
    IN /\ attempt \in 0 .. Len(order) /\ attempt <= maxAttempts
       /\ failedModels \in Seq(U!Roles) /\ Len(failedModels) = attempt
       /\ \A i \in 1 .. attempt : failedModels[i] = order[i]

RoutingInv ==
    /\ method \in {"complete", "fallback"} /\ maxAttempts \in Nat
    /\ pc \in {"idle", "detect"} => complexity = U!Unset /\ attempt = 0 /\ failedModels = << >>
    /\ pc \in {"try", "returned", "failed"} => complexity \in U!Complexities
    /\ pc \in {"idle", "detect", "try", "returned", "failed"}
    /\ method = "fallback" /\ complexity # U!Unset => Tried
    /\ method = "complete" /\ pc \in {"try", "returned"} => failedModels = << >>
    /\ method = "complete" /\ pc = "failed" => Len(failedModels) = 1
    /\ pc = "returned" =>
         /\ answer.complexity = complexity
         /\ method = "complete" => answer.model = U!GetModelForComplexity(complexity)
         /\ method = "fallback" => /\ answer.attempt = attempt + 1 /\ answer.attempt <= maxAttempts
                                   /\ attempt < Len(U!fallbackModels(complexity))
                                   /\ answer.model = U!fallbackModels(complexity)[attempt + 1]
    /\ pc = "failed" /\ method = "fallback" => U!given

\* The empty complexity is none of those a detector returns.
LEMMA UnsetApart == U!Unset \notin U!Complexities
  BY DEF U!Unset, U!Complexities

\* The models to try: from the one the complexity calls for down to the cheapest.
LEMMA FallbackOrder ==
    ASSUME NEW x \in U!Complexities
    PROVE  LET order == U!fallbackModels(x)
           IN /\ order \in Seq(U!Roles) /\ Len(order) = U!Rank[U!GetModelForComplexity(x)]
              /\ Len(order) \in 1 .. 3
              /\ \A i \in 1 .. Len(order) : order[i] \in U!Roles
                                            /\ U!Rank[order[i]] = Len(order) + 1 - i
<1>1. CASE x = "complex"
  <2>1. /\ U!fallbackModels(x) = <<"expensive", "medium", "cheap">>
        /\ U!GetModelForComplexity(x) = "expensive"
    BY <1>1 DEF U!fallbackModels, U!GetModelForComplexity
  <2>2. QED
    BY <2>1 DEF U!Roles, U!Rank
<1>2. CASE x = "medium"
  <2>1. /\ U!fallbackModels(x) = <<"medium", "cheap">> /\ U!GetModelForComplexity(x) = "medium"
    BY <1>2 DEF U!fallbackModels, U!GetModelForComplexity
  <2>2. QED
    BY <2>1 DEF U!Roles, U!Rank
<1>3. CASE x = "simple"
  <2>1. U!fallbackModels(x) = <<"cheap">> /\ U!GetModelForComplexity(x) = "cheap"
    BY <1>3 DEF U!fallbackModels, U!GetModelForComplexity
  <2>2. QED
    BY <2>1 DEF U!Roles, U!Rank
<1>4. QED
  BY Zenon, <1>1, <1>2, <1>3 DEF U!Complexities

\* The three models are ranked by what they cost, from 1 to 3.
LEMMA Ranks ==
    /\ \A r \in U!Roles : U!Rank[r] \in Nat /\ 1 <= U!Rank[r] /\ U!Rank[r] <= 3
    /\ \A q, r \in U!Roles : U!Rank[q] = U!Rank[r] => q = r
<1>1. U!Rank["cheap"] = 1 /\ U!Rank["medium"] = 2 /\ U!Rank["expensive"] = 3
  BY DEF U!Rank
<1>2. QED
  BY <1>1 DEF U!Roles

\* What Append leaves of a sequence, element by element.
LEMMA AppendOne ==
    ASSUME NEW S, NEW s \in Seq(S), NEW e \in S
    PROVE  /\ Append(s, e) \in Seq(S) /\ Len(Append(s, e)) = Len(s) + 1
           /\ Append(s, e)[Len(s) + 1] = e
           /\ \A i \in 1 .. Len(s) : Append(s, e)[i] = s[i]
  OBVIOUS

\* Every step of Complete and CompleteWithFallback keeps the failed models the first of the
\* order, and the answer that of the model tried last.
LEMMA RoutingStep ==
    ASSUME U!RoutingAssumption, RoutingInv, [U!RoutingNext]_(U!routingVars) PROVE RoutingInv'
<1>1. CASE U!CallModel
  BY <1>1 DEF RoutingInv, U!CallModel, Tried, U!given
<1>2. CASE U!Detect
  <2>1. /\ complexity' \in U!Complexities /\ complexity = U!Unset /\ attempt = 0 /\ failedModels = << >>
        /\ maxAttempts \in Nat /\ pc' = "try" /\ method \in {"complete", "fallback"}
        /\ UNCHANGED <<attempt, failedModels, maxAttempts, method>>
    BY <1>2 DEF RoutingInv, U!Detect, U!HeuristicDetect, U!LLMDetect, U!Complexities
  <2>2. Len(U!fallbackModels(complexity')) \in 1 .. 3
    BY <2>1, FallbackOrder
  <2>3. Tried'
    <3>1. << >> \in Seq(U!Roles) /\ Len(<< >>) = 0
      OBVIOUS
    <3>2. attempt' = 0 /\ failedModels' = << >> /\ 0 <= maxAttempts' /\ 1 .. 0 = {}
      BY <2>1
    <3>3. 0 \in 0 .. Len(U!fallbackModels(complexity'))
      BY <2>2
    <3>4. QED
      BY <3>1, <3>2, <3>3 DEF Tried
  <2>4. QED
    BY <2>1, <2>3, UnsetApart DEF RoutingInv
<1>3. CASE U!Complete
  <2> DEFINE model == U!GetModelForComplexity(complexity)
  <2>1. /\ method = "complete" /\ pc = "try" /\ maxAttempts \in Nat
        /\ complexity \in U!Complexities /\ failedModels = << >>
        /\ UNCHANGED <<method, maxAttempts, complexity>>
    BY <1>3 DEF RoutingInv, U!Complete
  <2>2. CASE U!Answers(model, 0)
    BY <2>1, <2>2 DEF RoutingInv, U!Answers
  <2>3. CASE pc' = "failed" /\ failedModels' = <<model>>
    <3>1. Len(<<model>>) = 1
      OBVIOUS
    <3>2. QED
      BY <2>1, <2>3, <3>1 DEF RoutingInv
  <2>4. QED
    BY <1>3, <2>2, <2>3 DEF U!Complete
<1>4. CASE U!CompleteWithFallback
  <2> DEFINE order == U!fallbackModels(complexity)
             next == order[attempt + 1]
  <2>1. /\ complexity \in U!Complexities /\ Tried /\ pc = "try" /\ method = "fallback"
        /\ maxAttempts \in Nat /\ UNCHANGED <<method, maxAttempts, complexity>>
    BY <1>4, UnsetApart DEF RoutingInv, U!CompleteWithFallback
  <2>2. /\ order \in Seq(U!Roles) /\ Len(order) \in Nat
        /\ \A i \in 1 .. Len(order) : order[i] \in U!Roles
    BY <2>1, FallbackOrder
  <2>3. /\ attempt \in Nat /\ attempt <= Len(order) /\ attempt <= maxAttempts
        /\ failedModels \in Seq(U!Roles) /\ Len(failedModels) = attempt
        /\ \A i \in 1 .. attempt : failedModels[i] = order[i]
    BY <2>1, <2>2 DEF Tried
  <2>4. CASE U!given
    BY <1>4, <2>1, <2>4 DEF RoutingInv, U!CompleteWithFallback, U!given, Tried
  <2>5. CASE ~U!given
    <3>1. attempt < Len(order) /\ attempt < maxAttempts
      BY <2>1, <2>2, <2>3, <2>5 DEF U!given
    <3>2. next \in U!Roles
      BY <2>2, <2>3, <3>1
    <3>3. CASE U!Answers(next, attempt + 1)
      <4>1. /\ pc' = "returned" /\ UNCHANGED <<attempt, failedModels>> /\ answer'.model = next
            /\ answer'.complexity = complexity /\ answer'.attempt = attempt + 1
        BY <3>3 DEF U!Answers
      <4>2. Tried'
        BY <2>1, <4>1 DEF Tried
      <4>3. QED
        BY <2>1, <2>3, <3>1, <4>1, <4>2 DEF RoutingInv
    <3>4. CASE /\ failedModels' = Append(failedModels, next) /\ attempt' = attempt + 1
               /\ UNCHANGED <<pc, answer>>
      <4> HIDE DEF next, order
      <4>1. /\ failedModels' \in Seq(U!Roles) /\ Len(failedModels') = attempt + 1
            /\ failedModels'[attempt + 1] = next
            /\ \A i \in 1 .. attempt : failedModels'[i] = failedModels[i]
        BY <2>3, <3>2, <3>4, AppendOne
      <4>2. /\ attempt' \in 0 .. Len(order) /\ attempt' <= maxAttempts
            /\ \A i \in 1 .. attempt + 1 : failedModels'[i] = order[i]
        <5>1. attempt' \in 0 .. Len(order) /\ attempt' <= maxAttempts
          BY <2>1, <2>2, <2>3, <3>1, <3>4
        <5>2. \A i \in 1 .. attempt + 1 : i \in 1 .. attempt \/ i = attempt + 1
          BY <2>3
        <5>3. QED
          BY Zenon, <2>3, <4>1, <5>1, <5>2 DEF next
      <4>3. Tried'
        BY <2>1, <3>4, <4>1, <4>2 DEF Tried, order
      <4>4. QED
        BY Zenon, <2>1, <3>4, <4>3 DEF RoutingInv
    <3>5. QED
      BY <1>4, <2>5, <3>3, <3>4 DEF U!CompleteWithFallback
  <2>6. QED
    BY <2>4, <2>5
<1>5. CASE UNCHANGED U!optimizer
  BY <1>5 DEF RoutingInv, U!optimizer, Tried, U!given
<1>6. QED
  BY Zenon, <1>1, <1>2, <1>3, <1>4, <1>5 DEF U!RoutingNext, U!routingVars, U!UpdatePricing, U!RecordCost,
                                      U!optimizer

\* For every bound on attempts, detector and query: the model that answers is never dearer
\* than the complexity calls for, every one between was tried and failed, no more than
\* maxAttempts were tried, and a call fails only when all it may try have failed
\* (ModelOptimizer.Complete and CompleteWithFallback).
THEOREM ModelsRouted == ASSUME U!RoutingAssumption PROVE U!RoutingSpec => []U!RoutedSound
<1>1. U!RoutingInit => RoutingInv
  BY Zenon DEF U!RoutingInit, RoutingInv, U!RoutingAssumption
<1>2. RoutingInv /\ [U!RoutingNext]_(U!routingVars) => RoutingInv'
  BY RoutingStep
<1>3. RoutingInv => U!RoutedSound
  <2> SUFFICES ASSUME RoutingInv, complexity # U!Unset PROVE U!RoutedSound
    BY DEF U!RoutedSound
  <2> DEFINE order == U!fallbackModels(complexity)
             wanted == U!Rank[U!GetModelForComplexity(complexity)]
             limit == IF method = "complete" THEN 1 ELSE maxAttempts
  <2>1. complexity \in U!Complexities /\ pc \in {"try", "returned", "failed"}
    BY DEF RoutingInv
  <2>2. /\ Len(order) = wanted /\ wanted \in Nat /\ 1 <= wanted
        /\ \A i \in 1 .. wanted : order[i] \in U!Roles /\ U!Rank[order[i]] = wanted + 1 - i
    <3>1. /\ Len(order) = wanted /\ Len(order) \in 1 .. 3
          /\ \A i \in 1 .. Len(order) : order[i] \in U!Roles
                                        /\ U!Rank[order[i]] = Len(order) + 1 - i
      BY <2>1, FallbackOrder
    <3> HIDE DEF order, wanted
    <3>2. QED
      BY <3>1
  <2> HIDE DEF order, wanted
  <2>3. CASE method = "complete"
    <3>1. Len(<< >>) = 0
      OBVIOUS
    <3>2. limit = 1 /\ (pc # "failed" => Len(failedModels) = 0)
          /\ (pc = "failed" => Len(failedModels) = 1)
      BY <2>1, <2>3, <3>1 DEF RoutingInv
    <3>3. pc = "returned" => U!Rank[answer.model] = wanted /\ answer.complexity = complexity
      BY <2>3 DEF RoutingInv, wanted
    <3>4. /\ Len(failedModels) + (IF pc = "returned" THEN 1 ELSE 0) <= limit
          /\ pc = "returned" => U!Rank[answer.model] = wanted - Len(failedModels)
          /\ pc = "failed" => Len(failedModels) = limit
      <4> HIDE DEF limit
      <4>1. CASE pc = "failed"
        <5>1. pc # "returned"
          BY <4>1
        <5>2. Len(failedModels) = 1 /\ limit = 1
          BY <3>2, <4>1
        <5>3. QED
          BY <5>1, <5>2
      <4>2. CASE pc # "failed"
        BY <2>2, <3>2, <3>3, <4>2
      <4>3. QED
        BY <4>1, <4>2
    <3>5. QED
      BY <2>3, <3>3, <3>4 DEF U!RoutedSound, wanted
  <2>4. CASE method = "fallback"
    <3>1. /\ attempt \in 0 .. wanted /\ attempt <= maxAttempts /\ maxAttempts \in Nat
          /\ Len(failedModels) = attempt /\ limit = maxAttempts /\ failedModels \in Seq(U!Roles)
          /\ \A i \in 1 .. attempt : failedModels[i] = order[i]
      BY <2>2, <2>4 DEF RoutingInv, Tried, order
    <3>2. ASSUME pc = "returned"
          PROVE  /\ U!Rank[answer.model] = wanted - Len(failedModels)
                 /\ answer.complexity = complexity /\ answer.attempt = Len(failedModels) + 1
                 /\ Len(failedModels) + 1 <= limit
      <4>1. /\ answer.model = order[attempt + 1] /\ attempt < wanted
            /\ answer.complexity = complexity /\ answer.attempt = attempt + 1
            /\ answer.attempt <= maxAttempts
        BY <2>2, <2>4, <3>2 DEF RoutingInv, order
      <4>2. QED
        BY <2>2, <3>1, <4>1
    <3>3. ASSUME pc = "failed", Len(failedModels) # limit
          PROVE  U!Range(failedModels) = {r \in U!Roles : U!Rank[r] <= wanted}
      <4>1. attempt = wanted
        BY <2>2, <2>4, <3>1, <3>3 DEF RoutingInv, U!given, order
      <4>2. DOMAIN failedModels = 1 .. wanted
        BY <3>1, <4>1
      <4>3. U!Range(failedModels) = {order[i] : i \in 1 .. wanted}
        BY <3>1, <4>1, <4>2 DEF U!Range
      <4>4. \A r \in U!Roles : U!Rank[r] <= wanted => \E i \in 1 .. wanted : order[i] = r
        <5> SUFFICES ASSUME NEW r \in U!Roles, U!Rank[r] <= wanted
                     PROVE  \E i \in 1 .. wanted : order[i] = r
          OBVIOUS
        <5>1. /\ U!Rank[r] \in Nat /\ 1 <= U!Rank[r]
              /\ \A q \in U!Roles : U!Rank[q] = U!Rank[r] => q = r
          BY Ranks
        <5>2. wanted + 1 - U!Rank[r] \in 1 .. wanted
          BY <2>2, <5>1
        <5>3. order[wanted + 1 - U!Rank[r]] = r
          BY <2>2, <5>1, <5>2
        <5>4. QED
          BY <5>2, <5>3
      <4>5. \A i \in 1 .. wanted : order[i] \in U!Roles /\ U!Rank[order[i]] <= wanted
        BY <2>2
      <4>6. QED
        BY <4>3, <4>4, <4>5
    <3>4. QED
      BY <2>1, <2>2, <2>4, <3>1, <3>2, <3>3 DEF U!RoutedSound, wanted
  <2>5. QED
    BY <2>3, <2>4 DEF RoutingInv
<1>4. QED
  BY <1>1, <1>2, <1>3, PTL DEF U!RoutingSpec

-----------------------------------------------------------------------------
(* Tasks. *)

CONSTANTS Retries, MaxIterations, Priorities, MaxGoals, MaxRuns, MaxTurns, Limits

VARIABLES timeout, completed, result, ctx, execCtx, outcome, goals, iterationCount,
          isRunning, goal, results, runs, hasPrompt, maxHistory, history, stopped, log, sent, turn

T == INSTANCE StatefulAgents

Contexts == {"live", "deadline", "canceled"}

\* What an execution has done when it is at pc: none has called the agent before it
\* starts, and one that is to try again has an attempt left.
Execution(c) ==
    /\ outcome[c] = "none" <=> pc[c] # "done"
    /\ pc[c] = "start" => attempt[c] = 0
    /\ pc[c] = "backoff" => attempt[c] <= Retries
    /\ execCtx[c] = "deadline" => timeout \/ ctx[c] = "deadline"
    /\ outcome[c] = "failed" => attempt[c] = Retries + 1
    /\ outcome[c] = "timeout" => timeout \/ ctx[c] = "deadline"
    /\ outcome[c] = "refused" => attempt[c] = 0

TaskTypes ==
    /\ result \in Callers \cup {"none"}
    /\ pc \in [Callers -> {"start", "agent", "failed", "backoff", "done"}]
    /\ attempt \in [Callers -> 0 .. Retries + 1]
    /\ ctx \in [Callers -> Contexts] /\ execCtx \in [Callers -> Contexts]
    /\ outcome \in [Callers -> {"none", "refused", "ok", "timeout", "failed", "cancelled"}]

TaskInv ==
    /\ TaskTypes /\ \A c \in Callers : Execution(c)
    /\ completed <=> \E c \in Callers : outcome[c] \notin {"none", "refused"}
    /\ result # "none" => outcome[result] = "ok"
    /\ (\E c \in Callers : outcome[c] = "ok") => result # "none"

\* Every step of an execution keeps the task's fields true to what was returned.
LEMMA TaskStep == ASSUME T!TaskAssumption, TaskInv, [T!TaskNext]_(T!taskVars) PROVE TaskInv'
<1> USE DEF T!TaskAssumption, TaskTypes, Contexts
<1>1. TaskTypes /\ \A c \in Callers : Execution(c)
  BY DEF TaskInv
<1>2. ASSUME NEW c \in Callers, NEW d \in Callers, d # c, timeout' = timeout,
             pc'[d] = pc[d], attempt'[d] = attempt[d], ctx'[d] = ctx[d], execCtx'[d] = execCtx[d],
             outcome'[d] = outcome[d]
      PROVE  Execution(d)'
  BY <1>1, <1>2 DEF Execution
<1>3. ASSUME NEW c \in Callers, T!callAgent(c), UNCHANGED <<T!task, ctx, outcome>>,
             pc[c] \in {"start", "backoff"}
      PROVE  TaskInv'
  <2>1. /\ UNCHANGED <<timeout, completed, result, ctx, outcome>>
        /\ pc' = [pc EXCEPT ![c] = "agent"] /\ attempt' = [attempt EXCEPT ![c] = attempt[c] + 1]
        /\ execCtx' = [execCtx EXCEPT ![c] = ctx[c]]
    BY <1>3 DEF T!callAgent, T!task
  <2>2. attempt[c] + 1 \in 0 .. Retries + 1
    BY <1>1, <1>3 DEF Execution
  <2>3. TaskTypes'
    BY <1>1, <2>1, <2>2
  <2>4. Execution(c)'
    BY <1>1, <1>3, <2>1 DEF Execution
  <2>5. \A d \in Callers : Execution(d)'
    BY <1>1, <1>2, <2>1, <2>4
  <2>6. QED
    BY <2>1, <2>3, <2>5 DEF TaskInv
<1>4. ASSUME NEW c \in Callers, NEW o \in {"ok", "timeout", "failed", "cancelled"}, pc[c] # "done",
             completed' = TRUE, T!return(c, o), result' = IF o = "ok" THEN c ELSE result,
             UNCHANGED <<timeout, attempt, ctx, execCtx>>,
             o = "failed" => attempt[c] = Retries + 1,
             o = "timeout" => timeout \/ ctx[c] = "deadline"
      PROVE  TaskInv'
  <2>1. pc' = [pc EXCEPT ![c] = "done"] /\ outcome' = [outcome EXCEPT ![c] = o]
    BY <1>4 DEF T!return
  <2>2. TaskTypes'
    BY <1>1, <1>4, <2>1
  <2>3. Execution(c)'
    BY <1>1, <1>4, <2>1 DEF Execution
  <2>4. \A d \in Callers : Execution(d)'
    BY <1>1, <1>2, <1>4, <2>1, <2>3
  <2>5. outcome'[c] = o /\ \A d \in Callers : d # c => outcome'[d] = outcome[d]
    BY <1>1, <2>1
  <2>6. outcome[c] = "none"
    BY <1>1, <1>4 DEF Execution
  <2>7. (completed <=> \E d \in Callers : outcome[d] \notin {"none", "refused"})'
    BY <1>4, <2>5
  <2>8. (result # "none" => outcome[result] = "ok")'
    BY <1>1, <1>4, <2>5, <2>6 DEF TaskInv
  <2>9. ((\E d \in Callers : outcome[d] = "ok") => result # "none")'
    BY <1>1, <1>4, <2>5 DEF TaskInv
  <2>10. QED
    BY <2>2, <2>4, <2>7, <2>8, <2>9 DEF TaskInv
<1>5. ASSUME NEW c \in Callers, T!Execute(c) PROVE TaskInv'
  <2>1. CASE completed
    <3>1. /\ UNCHANGED <<timeout, completed, result, ctx, attempt, execCtx>> /\ pc[c] = "start"
          /\ pc' = [pc EXCEPT ![c] = "done"] /\ outcome' = [outcome EXCEPT ![c] = "refused"]
      BY <1>5, <2>1 DEF T!Execute, T!return, T!task
    <3>2. TaskTypes'
      BY <1>1, <3>1
    <3>3. Execution(c)'
      BY <1>1, <3>1 DEF Execution
    <3>4. \A d \in Callers : Execution(d)'
      BY <1>1, <1>2, <3>1, <3>3
    <3>5. outcome'[c] = "refused" /\ \A d \in Callers : d # c => outcome'[d] = outcome[d]
      BY <1>1, <3>1
    <3>6. outcome[c] = "none"
      BY <1>1, <3>1 DEF Execution
    <3>7. (completed <=> \E d \in Callers : outcome[d] \notin {"none", "refused"})'
      BY <3>1, <3>5, <3>6 DEF TaskInv
    <3>8. (result # "none" => outcome[result] = "ok")'
      BY <1>1, <3>1, <3>5, <3>6 DEF TaskInv
    <3>9. ((\E d \in Callers : outcome[d] = "ok") => result # "none")'
      BY <3>1, <3>5 DEF TaskInv
    <3>10. QED
      BY <3>2, <3>4, <3>7, <3>8, <3>9 DEF TaskInv
  <2>2. CASE ~completed
    BY <1>3, <1>5, <2>2 DEF T!Execute
  <2>3. QED
    BY <2>1, <2>2
<1>6. ASSUME NEW c \in Callers, pc' = [pc EXCEPT ![c] = "failed"] \/ pc' = [pc EXCEPT ![c] = "backoff"],
             pc[c] \in {"agent", "failed"}, pc'[c] = "backoff" => attempt[c] # Retries + 1,
             UNCHANGED <<timeout, completed, result, attempt, ctx, execCtx, outcome>>
      PROVE  TaskInv'
  <2>1. TaskTypes'
    BY <1>1, <1>6
  <2>2. Execution(c)'
    BY <1>1, <1>6 DEF Execution
  <2>3. \A d \in Callers : Execution(d)'
    BY <1>1, <1>2, <1>6, <2>2
  <2>4. QED
    BY <1>6, <2>1, <2>3 DEF TaskInv
<1>7. ASSUME NEW c \in Callers, T!AgentReturns(c) PROVE TaskInv'
  BY Zenon, <1>4, <1>6, <1>7, <1>1 DEF T!AgentReturns
<1>8. ASSUME NEW c \in Callers, T!AttemptFailed(c) PROVE TaskInv'
  <2>1. execCtx[c] = "deadline" => timeout \/ ctx[c] = "deadline"
    BY <1>1 DEF Execution
  <2>2. QED
    BY Zenon, <1>4, <1>6, <1>8, <1>1, <2>1 DEF T!AttemptFailed
<1>9. ASSUME NEW c \in Callers, T!Backoff(c) PROVE TaskInv'
  BY Zenon, <1>3, <1>4, <1>9 DEF T!Backoff
<1>10. ASSUME NEW c \in Callers, NEW e \in Contexts, execCtx' = [execCtx EXCEPT ![c] = e],
              ctx'[c] = ctx[c] \/ ctx[c] = "live", ctx' \in [Callers -> Contexts],
              \A d \in Callers : d # c => ctx'[d] = ctx[d],
              e = "deadline" => timeout \/ ctx'[c] = "deadline",
              UNCHANGED <<timeout, completed, result, pc, attempt, outcome>>
       PROVE  TaskInv'
  <2>1. TaskTypes'
    BY <1>1, <1>10
  <2>2. Execution(c)'
    BY <1>1, <1>10 DEF Execution
  <2>3. \A d \in Callers : Execution(d)'
    BY <1>1, <1>2, <1>10, <2>2
  <2>4. QED
    BY <1>10, <2>1, <2>3 DEF TaskInv
<1>11. ASSUME NEW c \in Callers, T!Expire(c) PROVE TaskInv'
  BY Zenon, <1>1, <1>10, <1>11 DEF T!Expire, T!task
<1>12. ASSUME NEW c \in Callers, NEW e \in {"deadline", "canceled"}, T!CallerEnds(c, e) PROVE TaskInv'
  <2>1. /\ ctx[c] = "live" /\ ctx' = [ctx EXCEPT ![c] = e]
        /\ execCtx' = [execCtx EXCEPT ![c] = IF execCtx[c] = "live" THEN e ELSE execCtx[c]]
        /\ UNCHANGED <<timeout, completed, result, pc, attempt, outcome>>
    BY <1>12 DEF T!CallerEnds, T!task
  <2>2. execCtx[c] = "deadline" => timeout
    BY <1>1, <2>1 DEF Execution
  <2>3. CASE execCtx[c] = "live"
    BY Zenon, <1>1, <1>10, <2>1, <2>3
  <2>4. CASE execCtx[c] # "live"
    BY Zenon, <1>1, <1>10, <2>1, <2>2, <2>4
  <2>5. QED
    BY <2>3, <2>4
<1>13. CASE UNCHANGED T!taskVars
  BY <1>13 DEF T!taskVars, T!task, TaskInv, Execution
<1>14. QED
  BY <1>5, <1>7, <1>8, <1>9, <1>11, <1>12, <1>13 DEF T!TaskNext, T!Step

\* However many goroutines execute a task, with any number of retries: it is marked
\* completed exactly when an execution has returned, a stored result was returned,
\* and none gave up early or ran when it was refused (Execute).
THEOREM TaskCompletedOnce == ASSUME T!TaskAssumption PROVE T!TaskSpec => []T!CompletedOnce
<1>1. T!TaskInit => TaskInv
  BY DEF T!TaskInit, TaskInv, TaskTypes, Execution, Contexts, T!TaskAssumption
<1>2. TaskInv /\ [T!TaskNext]_(T!taskVars) => TaskInv'
  BY TaskStep
<1>3. TaskInv => T!CompletedOnce
  BY DEF TaskInv, Execution, T!CompletedOnce
<1>4. QED
  BY <1>1, <1>2, <1>3, PTL DEF T!TaskSpec

\* A caller that comes after the task was completed never starts an attempt (the
\* check of completed with which Execute begins).
THEOREM TaskNotReused == ASSUME T!TaskAssumption PROVE T!TaskSpec => [][T!NoReuse]_(T!taskVars)
<1>1. T!TaskInit => TaskInv
  BY DEF T!TaskInit, TaskInv, TaskTypes, Execution, Contexts, T!TaskAssumption
<1>2. TaskInv /\ [T!TaskNext]_(T!taskVars) => TaskInv'
  BY TaskStep
<1>3. TaskInv /\ [T!TaskNext]_(T!taskVars) => [T!NoReuse]_(T!taskVars)
  <2> SUFFICES ASSUME TaskInv, [T!TaskNext]_(T!taskVars), NEW d \in Callers, completed, pc[d] = "start"
               PROVE  attempt'[d] = 0
    BY DEF T!NoReuse
  <2>1. attempt[d] = 0 /\ TaskTypes
    BY DEF TaskInv, Execution
  <2>2. ASSUME NEW c \in Callers, T!Step(c) PROVE attempt'[d] = 0
    BY Zenon, <2>1, <2>2 DEF T!Step, T!Execute, T!AgentReturns, T!AttemptFailed, T!Backoff, T!callAgent, TaskTypes
  <2>3. QED
    BY <2>1, <2>2 DEF T!TaskNext, T!Expire, T!CallerEnds, T!taskVars
<1>4. QED
  BY <1>1, <1>2, <1>3, PTL DEF T!TaskSpec

=============================================================================
