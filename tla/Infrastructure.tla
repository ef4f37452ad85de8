--------------------------- MODULE Infrastructure ---------------------------
(***************************************************************************)
(* infrastructure/: the load balancer and the health checker. Each part    *)
(* has an Init and a Next of its own; a variable that parts have in common *)
(* by name is declared with the first of them.                             *)
(***************************************************************************)
EXTENDS Integers, FiniteSets

-----------------------------------------------------------------------------
(***************************************************************************)
(* infrastructure/load_balancer.go: LoadBalancer.                          *)
(*                                                                         *)
(* Process and the health-check loop share the backends' counters without  *)
(* a lock, so of two overlapping updates of a counter one may be lost.  Of *)
(* the counters those that decide something are kept (ActiveConnections,   *)
(* TotalFailures, consecutiveFailures, the last two up to the threshold).  *)
(* A backend that turns unhealthy while it is being selected is one that   *)
(* does so between the selection and the call.                             *)
(***************************************************************************)

CONSTANTS
    Requests,
    N,                \* number of backends, 0 .. N - 1 as in the code
    Weight,           \* per backend
    Configs,          \* the configurations considered: Strategy, EnableFailover
    FailureThreshold,
    MaxDrift          \* bound: by how much lost updates may falsify ActiveConnections

Backends == 0 .. N - 1

\* NewLoadBalancer refuses an empty list of backends.
BalancerAssumption ==
    /\ IsFiniteSet(Requests) /\ N \in Nat \ {0}
    /\ FailureThreshold \in Nat /\ MaxDrift \in Nat

VARIABLES
    Strategy, EnableFailover,      \* the configuration
    up,                            \* per backend: its agent answers
    Healthy, ActiveConnections, TotalFailures, consecutiveFailures,
    currentIndex,
    pc, target, attempted,         \* per request
    checking                       \* the backend the health-check loop is at

config == <<Strategy, EnableFailover>>
backendVars == <<Healthy, ActiveConnections, TotalFailures>>
requestVars == <<pc, target, attempted>>
checkVars == <<consecutiveFailures, checking>>
balancerVars == <<config, up, backendVars, currentIndex, requestVars, checkVars>>

Capped(n) == IF n > FailureThreshold THEN FailureThreshold ELSE n

BalancerTypeOK ==
    /\ \E c \in Configs : Strategy = c[1] /\ EnableFailover = c[2]
    /\ up \in [Backends -> BOOLEAN] /\ Healthy \in [Backends -> BOOLEAN]
    /\ ActiveConnections \in [Backends -> -MaxDrift .. MaxDrift + Cardinality(Requests)]
    /\ TotalFailures \in [Backends -> 0 .. FailureThreshold]
    /\ consecutiveFailures \in [Backends -> 0 .. FailureThreshold]
    /\ pc \in [Requests -> {"idle", "select", "connect", "calling", "tally", "failed"}]
    /\ target \in [Requests -> Backends] /\ attempted \in [Requests -> SUBSET Backends]
    /\ checking \in Backends

BalancerInit ==
    /\ \E c \in Configs : Strategy = c[1] /\ EnableFailover = c[2]
    /\ up \in [Backends -> BOOLEAN]
    /\ Healthy = [b \in Backends |-> TRUE]
    /\ ActiveConnections = [b \in Backends |-> 0]
    /\ TotalFailures = [b \in Backends |-> 0]
    /\ consecutiveFailures = [b \in Backends |-> 0]
    /\ currentIndex = 0
    /\ pc = [r \in Requests |-> "idle"] /\ target = [r \in Requests |-> 0]
    /\ attempted = [r \in Requests |-> {}]
    /\ checking = 0

-----------------------------------------------------------------------------
(* selectBackend: the backends it may return, with the index it leaves. *)

healthyBackends == {b \in Backends : Healthy[b]}

firstHealthy == {b \in healthyBackends : \A c \in healthyBackends : b <= c}

\* The next healthy backend in the rotation.
selectRoundRobin ==
    LET next == {b \in healthyBackends : \E k \in 1 .. N :
                    /\ b = (currentIndex + k) % N
                    /\ \A j \in 1 .. k - 1 : ~Healthy[(currentIndex + j) % N]}
    IN  {[backend |-> b, index |-> b] : b \in next}

\* The first of those with the fewest connections.
selectLeastConnections ==
    LET before(b, c) == \/ ActiveConnections[b] < ActiveConnections[c]
                        \/ ActiveConnections[b] = ActiveConnections[c] /\ b <= c
    IN  {[backend |-> b, index |-> currentIndex] :
            b \in {b \in healthyBackends : \A c \in healthyBackends : before(b, c)}}

\* The length of the weighted list before backend b is appended to it.
weighted[b \in 0 .. N] ==
    IF b = 0 THEN 0 ELSE weighted[b - 1] + (IF Healthy[b - 1] THEN Weight[b - 1] ELSE 0)

selectWeightedRoundRobin ==
    LET i == (currentIndex + 1) % weighted[N]
    IN  IF weighted[N] = 0
        THEN {[backend |-> b, index |-> currentIndex] : b \in firstHealthy}
        ELSE {[backend |-> b, index |-> i] :
                 b \in {b \in healthyBackends : weighted[b] <= i /\ i < weighted[b + 1]}}

selectRandom == {[backend |-> b, index |-> currentIndex] : b \in healthyBackends}

selectBackend ==
    CASE Strategy = "RoundRobin"         -> selectRoundRobin
      [] Strategy = "LeastConnections"   -> selectLeastConnections
      [] Strategy = "WeightedRoundRobin" -> selectWeightedRoundRobin
      [] Strategy = "Random"             -> selectRandom
      [] OTHER -> {[backend |-> b, index |-> currentIndex] : b \in firstHealthy}

-----------------------------------------------------------------------------
(* Process. *)

\* The values n + d may leave in a counter: when another thread is between its
\* own load and store of the counter, one of the two updates may be lost.
updated(n, d, raced) == {n + d} \cup (IF raced THEN {n} ELSE {})

connected(b) == Cardinality({q \in Requests : target[q] = b /\ pc[q] = "calling"})

others(r, b, P) == \E q \in Requests \ {r} : target[q] = b /\ pc[q] \in P

\* Only least connections reads ActiveConnections: elsewhere no drift is followed.
drift == IF Strategy = "LeastConnections" THEN MaxDrift ELSE 0

\* ActiveConnections += d.
setConnections(r, b, d) ==
    \E n \in updated(ActiveConnections[b], d, others(r, b, {"connect", "calling"})) :
        /\ n - (connected(b) + d) \in -drift .. drift
        /\ ActiveConnections' = [ActiveConnections EXCEPT ![b] = n]

\* Process returns: o is "idle" with an answer and "failed" with an error.
finish(r, o) ==
    /\ pc' = [pc EXCEPT ![r] = o]
    /\ target' = [target EXCEPT ![r] = 0]
    /\ attempted' = [attempted EXCEPT ![r] = {}]

continue(r, at) == pc' = [pc EXCEPT ![r] = at] /\ UNCHANGED <<target, attempted>>

Start(r) ==
    /\ pc[r] \in {"idle", "failed"} /\ continue(r, "select")
    /\ UNCHANGED <<config, up, backendVars, currentIndex, checkVars>>

\* "all backends unhealthy".
NoneHealthy(r) ==
    /\ pc[r] = "select" /\ healthyBackends = {} /\ finish(r, "failed")
    /\ UNCHANGED <<config, up, backendVars, currentIndex, checkVars>>

\* An attempted backend: again, or "all backends attempted".
SelectAttempted(r) ==
    \E s \in selectBackend :
        /\ pc[r] = "select" /\ s.backend \in attempted[r]
        /\ currentIndex' = s.index
        /\ IF ~EnableFailover \/ Cardinality(attempted[r]) >= N
           THEN finish(r, "failed") ELSE UNCHANGED requestVars
        /\ UNCHANGED <<config, up, backendVars, checkVars>>

Select(r) ==
    \E s \in selectBackend :
        /\ pc[r] = "select" /\ s.backend \notin attempted[r]
        /\ currentIndex' = s.index
        /\ attempted' = [attempted EXCEPT ![r] = @ \cup {s.backend}]
        /\ target' = [target EXCEPT ![r] = s.backend]
        /\ pc' = [pc EXCEPT ![r] = "connect"]
        /\ UNCHANGED <<config, up, backendVars, checkVars>>

\* ActiveConnections++ and the call.
Connect(r) ==
    /\ pc[r] = "connect"
    /\ setConnections(r, target[r], 1)
    /\ continue(r, "calling")
    /\ UNCHANGED <<config, up, Healthy, TotalFailures, currentIndex, checkVars>>

\* The call returns and ActiveConnections--; the answer is returned, or the
\* failure goes on.
Disconnect(r) ==
    /\ pc[r] = "calling"
    /\ setConnections(r, target[r], -1)
    /\ IF up[target[r]] THEN finish(r, "idle") ELSE continue(r, "tally")
    /\ UNCHANGED <<config, up, Healthy, TotalFailures, currentIndex, checkVars>>

\* Fault: the failover stops one backend early.
failover_Short(r) == EnableFailover /\ Cardinality(attempted[r]) < N - 1

failover(r) == EnableFailover /\ Cardinality(attempted[r]) < N

\* TotalFailures++, the mark, and another backend is tried or the request fails.
Tally(r) ==
    /\ pc[r] = "tally"
    /\ \E n \in updated(TotalFailures[target[r]], 1,
                         others(r, target[r], {"tally"}) \/ checking = target[r]) :
          /\ TotalFailures' = [TotalFailures EXCEPT ![target[r]] = Capped(n)]
          /\ Healthy' = [Healthy EXCEPT ![target[r]] = @ /\ n < FailureThreshold]
    /\ IF failover(r) THEN continue(r, "select") ELSE finish(r, "failed")
    /\ UNCHANGED <<config, up, ActiveConnections, currentIndex, checkVars>>

-----------------------------------------------------------------------------
(* performHealthChecks, one backend after the other, on every tick. *)

nextCheck == (checking + 1) % N

\* Fault: a backend that was marked by requests is not taken back.
CheckPasses_KeepsMark ==
    /\ up[checking]
    /\ Healthy' = [Healthy EXCEPT ![checking] = @ \/ consecutiveFailures[checking] > 0]
    /\ consecutiveFailures' = [consecutiveFailures EXCEPT ![checking] = 0]
    /\ checking' = nextCheck
    /\ UNCHANGED <<config, up, ActiveConnections, TotalFailures, currentIndex, requestVars>>

CheckPasses ==
    /\ up[checking]
    /\ consecutiveFailures' = [consecutiveFailures EXCEPT ![checking] = 0]
    /\ Healthy' = [Healthy EXCEPT ![checking] = TRUE]
    /\ checking' = nextCheck
    /\ UNCHANGED <<config, up, ActiveConnections, TotalFailures, currentIndex, requestVars>>

CheckFails ==
    /\ ~up[checking]
    /\ consecutiveFailures' = [consecutiveFailures EXCEPT ![checking] = Capped(@ + 1)]
    /\ \E n \in updated(TotalFailures[checking], 1,
                         \E q \in Requests : target[q] = checking /\ pc[q] = "tally") :
           TotalFailures' = [TotalFailures EXCEPT ![checking] = Capped(n)]
    /\ Healthy' = [Healthy EXCEPT ![checking] =
                       @ /\ consecutiveFailures'[checking] < FailureThreshold]
    /\ checking' = nextCheck
    /\ UNCHANGED <<config, up, ActiveConnections, currentIndex, requestVars>>

-----------------------------------------------------------------------------
BackendChanges ==
    /\ \E b \in Backends : up' = [up EXCEPT ![b] = ~@]
    /\ UNCHANGED <<config, backendVars, currentIndex, requestVars, checkVars>>

Process(r) ==
    \/ NoneHealthy(r) \/ SelectAttempted(r) \/ Select(r) \/ Connect(r)
    \/ Disconnect(r) \/ Tally(r)

performHealthChecks == CheckPasses \/ CheckFails

BalancerNext ==
    \/ \E r \in Requests : Start(r) \/ Process(r)
    \/ performHealthChecks
    \/ BackendChanges

BalancerSpec == BalancerInit /\ [][BalancerNext]_balancerVars

-----------------------------------------------------------------------------
(* Properties. *)

\* With failover a request fails only after it tried every backend or when no
\* backend was healthy, whatever other requests did to the rotation and the marks.
FailureStep ==
    \A r \in Requests :
        pc[r] # "failed" /\ pc'[r] = "failed" =>
            ~EnableFailover \/ attempted[r] = Backends \/ \A b \in Backends : ~Healthy[b]

-----------------------------------------------------------------------------
(***************************************************************************)
(* infrastructure/health.go: HealthChecker.                                *)
(*                                                                         *)
(* The liveness, readiness and startup loops and a user who calls          *)
(* CheckReadiness share the failure counters under the metrics' lock and   *)
(* the verdicts under the checker's; between a check and the verdict both  *)
(* locks are free.  A counter only compared with a threshold is kept up to *)
(* that threshold; of the three totals per probe their difference is kept, *)
(* the number of checks under way.  The agent goes up and down at will.    *)
(***************************************************************************)

CONSTANTS LivenessFailureThreshold, ReadinessFailureThreshold, StartupFailureThreshold

HealthAssumption ==
    /\ LivenessFailureThreshold \in Nat /\ ReadinessFailureThreshold \in Nat
    /\ StartupFailureThreshold \in Nat

Probes == {"liveness", "readiness", "startup"}
Provers == {"readiness", "startup", "user"}    \* those that run CheckReadiness
Procs == Probes \cup {"user"}

VARIABLES
    StartupEnabled,  \* of the configuration
    agentUp,         \* the agent answers readiness checks
    processOK,       \* CustomCheck holds
    isAlive, isReady, startupComplete,
    underway,        \* per probe: TotalChecks - SuccessfulChecks - FailedChecks
    healthy,         \* per process: where it is, its last result
    attempts,        \* of startupCheck
    stopped          \* stopChan is closed

environment == <<StartupEnabled, agentUp, processOK>>
counters == <<consecutiveFailures, underway>>
verdicts == <<isAlive, isReady, startupComplete>>
healthVars == <<environment, verdicts, counters, pc, healthy, attempts, stopped>>

\* The loops that Start starts.
Loops == {"liveness", "readiness"} \cup (IF StartupEnabled THEN {"startup"} ELSE {})

Threshold(p) == IF p = "liveness" THEN LivenessFailureThreshold
                ELSE ReadinessFailureThreshold

HealthTypeOK ==
    /\ {StartupEnabled, agentUp, processOK, isAlive, isReady, startupComplete,
        stopped} \subseteq BOOLEAN
    /\ \A p \in Probes : consecutiveFailures[p] \in 0 .. Threshold(p)
    /\ underway \in [Probes -> 0 .. Cardinality(Procs)]
    /\ pc \in [Procs -> {"idle", "calling", "refused", "checked", "exited"}]
    /\ healthy \in [Procs -> BOOLEAN]
    /\ attempts \in 0 .. StartupFailureThreshold

HealthInit ==
    /\ StartupEnabled \in BOOLEAN /\ agentUp \in BOOLEAN /\ processOK \in BOOLEAN
    /\ isAlive = TRUE /\ isReady = FALSE /\ startupComplete = FALSE
    /\ consecutiveFailures = [p \in Probes |-> 0]
    /\ underway = [p \in Probes |-> 0]
    /\ pc = [p \in Procs |-> IF p \in Loops \cup {"user"} THEN "idle" ELSE "exited"]
    /\ healthy = [p \in Procs |-> FALSE]
    /\ attempts = 0 /\ stopped = FALSE

\* trackCheckSuccess or trackCheckFailure for each probe in P.
track(P, ok) ==
    /\ underway' = [q \in Probes |-> IF q \in P THEN underway[q] - 1 ELSE underway[q]]
    /\ consecutiveFailures' = [q \in Probes |->
         IF q \notin P THEN consecutiveFailures[q]
         ELSE IF ok THEN 0
         ELSE IF consecutiveFailures[q] < Threshold(q) THEN consecutiveFailures[q] + 1
         ELSE consecutiveFailures[q]]

-----------------------------------------------------------------------------
(* CheckReadiness, by its loop, by startupCheck and by a user. *)

startupPending == StartupEnabled /\ ~startupComplete

\* Fault: one attempt too many.
mayAttempt_OneMore(p) == p = "startup" => attempts <= StartupFailureThreshold

\* The loop condition of startupCheck.
mayAttempt(p) == p = "startup" => attempts < StartupFailureThreshold

\* trackCheckStarted, for CheckStartup also of the readiness check it makes; the
\* check ends here when the startup has not completed.
CheckReadiness(p) ==
    /\ p \in Provers /\ pc[p] = "idle" /\ mayAttempt(p)
    /\ attempts' = IF p = "startup" THEN attempts + 1 ELSE attempts
    /\ underway' = [q \in Probes |-> IF q \in {"readiness", p} THEN underway[q] + 1
                                     ELSE underway[q]]
    /\ pc' = [pc EXCEPT ![p] = IF startupPending THEN "refused" ELSE "calling"]
    /\ UNCHANGED <<environment, verdicts, consecutiveFailures, healthy, stopped>>

ReadinessResult(p) ==
    /\ p \in Provers /\ pc[p] \in {"calling", "refused"}
    /\ healthy' = [healthy EXCEPT ![p] = pc[p] = "calling" /\ agentUp]
    /\ track({"readiness"}, healthy'[p])
    /\ pc' = [pc EXCEPT ![p] = "checked"]
    /\ UNCHANGED <<environment, verdicts, attempts, stopped>>

\* Fault: one success is not enough to be ready again.
readyVerdict_Sticky ==
    IF healthy["readiness"] THEN isReady
    ELSE isReady /\ consecutiveFailures["readiness"] < ReadinessFailureThreshold

\* The loop's verdict, from the counter of this moment.
readyVerdict ==
    IF healthy["readiness"] THEN TRUE
    ELSE isReady /\ consecutiveFailures["readiness"] < ReadinessFailureThreshold

ReadinessVerdict ==
    /\ pc["readiness"] = "checked"
    /\ isReady' = readyVerdict
    /\ pc' = [pc EXCEPT !["readiness"] = "idle"]
    /\ UNCHANGED <<environment, isAlive, startupComplete, counters, healthy, attempts, stopped>>

\* The rest of CheckStartup and of the turn of startupCheck: done, or sleep.
StartupVerdict ==
    /\ pc["startup"] = "checked"
    /\ startupComplete' = (startupComplete \/ healthy["startup"])
    /\ track({"startup"}, healthy["startup"])
    /\ pc' = [pc EXCEPT !["startup"] = IF healthy["startup"] THEN "exited" ELSE "idle"]
    /\ UNCHANGED <<environment, isAlive, isReady, healthy, attempts, stopped>>

\* StartupTimeout has passed or the attempts are used up.
StartupGivesUp ==
    /\ pc["startup"] = "idle"
    /\ pc' = [pc EXCEPT !["startup"] = "exited"]
    /\ UNCHANGED <<environment, verdicts, counters, healthy, attempts, stopped>>

UserReturns ==
    /\ pc["user"] = "checked"
    /\ pc' = [pc EXCEPT !["user"] = "idle"]
    /\ UNCHANGED <<environment, verdicts, counters, healthy, attempts, stopped>>

-----------------------------------------------------------------------------
(* CheckLiveness and its loop. *)

CheckLiveness ==
    /\ pc["liveness"] = "idle"
    /\ underway' = [underway EXCEPT !["liveness"] = @ + 1]
    /\ pc' = [pc EXCEPT !["liveness"] = "calling"]
    /\ UNCHANGED <<environment, verdicts, consecutiveFailures, healthy, attempts, stopped>>

LivenessResult ==
    /\ pc["liveness"] = "calling"
    /\ healthy' = [healthy EXCEPT !["liveness"] = processOK]
    /\ track({"liveness"}, processOK)
    /\ pc' = [pc EXCEPT !["liveness"] = "checked"]
    /\ UNCHANGED <<environment, verdicts, attempts, stopped>>

LivenessVerdict ==
    /\ pc["liveness"] = "checked"
    /\ isAlive' = IF healthy["liveness"] THEN TRUE
                  ELSE isAlive /\ consecutiveFailures["liveness"] < LivenessFailureThreshold
    /\ pc' = [pc EXCEPT !["liveness"] = "idle"]
    /\ UNCHANGED <<environment, isReady, startupComplete, counters, healthy, attempts, stopped>>

-----------------------------------------------------------------------------
Stop ==
    /\ ~stopped /\ stopped' = TRUE
    /\ UNCHANGED <<environment, verdicts, counters, pc, healthy, attempts>>

\* The select of a loop picks stopChan; startupCheck looks at it after an attempt.
LoopExits(p) ==
    /\ p \in Loops /\ pc[p] = "idle" /\ stopped
    /\ p = "startup" => attempts > 0
    /\ pc' = [pc EXCEPT ![p] = "exited"]
    /\ UNCHANGED <<environment, verdicts, counters, healthy, attempts, stopped>>

AgentChanges ==
    /\ \/ agentUp' = ~agentUp /\ UNCHANGED processOK
       \/ processOK' = ~processOK /\ UNCHANGED agentUp
    /\ UNCHANGED <<StartupEnabled, verdicts, counters, pc, healthy, attempts, stopped>>

LivenessLoop == CheckLiveness \/ LivenessResult \/ LivenessVerdict \/ LoopExits("liveness")
ReadinessLoop ==
    \/ CheckReadiness("readiness") \/ ReadinessResult("readiness") \/ ReadinessVerdict
    \/ LoopExits("readiness")
StartupLoop ==
    \/ CheckReadiness("startup") \/ ReadinessResult("startup") \/ StartupVerdict
    \/ StartupGivesUp \/ LoopExits("startup")
User == CheckReadiness("user") \/ ReadinessResult("user") \/ UserReturns

HealthNext == LivenessLoop \/ ReadinessLoop \/ StartupLoop \/ User \/ Stop \/ AgentChanges

HealthSpec == HealthInit /\ [][HealthNext]_healthVars
=============================================================================
