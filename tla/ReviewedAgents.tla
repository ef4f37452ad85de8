--------------------------- MODULE ReviewedAgents ---------------------------
(***************************************************************************)
(* patterns/: the agents whose work is reviewed while it is done, by a     *)
(* critic (ReflectionAgent), by its own plan (PlanningAgent) and by a      *)
(* human (HumanInLoopAgent). Each part has an Init and a Next of its own;  *)
(* a variable that parts have in common by name is declared with the first *)
(* of them.                                                                *)
(***************************************************************************)
EXTENDS Integers, Sequences, SequencesExt, FiniteSetsExt, FiniteSets

-----------------------------------------------------------------------------
(***************************************************************************)
(* patterns/reflection.go: one Process of a ReflectionAgent.  An output is *)
(* the number of generations it took; scores are in tenths, as the critic  *)
(* wrote them: up to 10 on a scale of one, more on a scale of ten.         *)
(***************************************************************************)

CONSTANTS
    MaxIterations,           \* at least 1
    QualityThreshold, ImprovementThreshold,
    Scores                   \* scores a critic may write, in tenths

VARIABLES
    format,         \* critiqueFormat
    pc,             \* "generate", "critique", "done"
    iteration,
    output,         \* the current output
    previousScore,
    history,        \* steps: the output that was judged, its score, the improvement
    cancelled,
    answer          \* what Process returned

reflectionVars == <<format, pc, iteration, output, previousScore, history, cancelled, answer>>

NoAnswer == [reason |-> "none", output |-> 0, final |-> 0, total |-> 0]

ReflectionTypeOK ==
    /\ format \in {"structured", "free_form"} /\ pc \in {"generate", "critique", "done"}
    /\ iteration \in 0 .. MaxIterations /\ output \in 0 .. MaxIterations + 1
    /\ previousScore \in 0 .. 10 /\ Len(history) <= MaxIterations

ReflectionInit ==
    /\ format \in {"structured", "free_form"} /\ pc = "generate" /\ iteration = 0
    /\ output = 0 /\ previousScore = 0 /\ history = <<>> /\ cancelled = FALSE
    /\ answer = NoAnswer

clamp(x) == Max({0, Min({x, 10})})

\* A structured critique is clamped to one; a free-form one above one is taken
\* to be out of ten first.  What is no JSON, or has no score, is free-form, with
\* 0.5 for a missing score.
parseCritique(s) ==
    {clamp(IF s > 10 THEN s \div 10 ELSE s), 5} \cup IF format = "structured" THEN {clamp(s)} ELSE {}

\* Fault: the first output must improve on a score of zero.
checkStopConditions_First(score, improvement, judged) ==
    IF score >= 10 THEN "perfect_score"
    ELSE IF score >= QualityThreshold THEN "quality_threshold_met"
    ELSE IF improvement < ImprovementThreshold THEN "minimal_improvement"
    ELSE ""

\* The reason to stop, or "" to go on.
checkStopConditions(score, improvement, judged) ==
    IF score >= 10 THEN "perfect_score"
    ELSE IF score >= QualityThreshold THEN "quality_threshold_met"
    ELSE IF judged > 1 /\ improvement < ImprovementThreshold THEN "minimal_improvement"
    ELSE ""

formatResult(h, o, reason) ==
    [reason |-> reason, output |-> o, final |-> Last(h).score,
     total |-> Last(h).score - h[1].score]

fail == pc' = "done" /\ answer' = [NoAnswer EXCEPT !.reason = "error"]

\* The generator makes the first output, or refines the last one.
GeneratorReturns ==
    /\ pc = "generate" /\ UNCHANGED <<format, previousScore, history, cancelled>>
    /\ \/ fail /\ UNCHANGED <<iteration, output>>
       \/ /\ output' = output + 1
          /\ IF iteration = MaxIterations
             THEN /\ pc' = "done" /\ UNCHANGED iteration
                  /\ answer' = formatResult(history, output + 1, "max_iterations")
             ELSE pc' = "critique" /\ iteration' = iteration + 1 /\ UNCHANGED answer

\* The top of the loop looks at the context, then asks the critic.
CriticReturns ==
    /\ pc = "critique" /\ UNCHANGED <<format, iteration, output, cancelled>>
    /\ IF cancelled THEN fail /\ UNCHANGED <<previousScore, history>>
       ELSE \/ fail /\ UNCHANGED <<previousScore, history>>
            \/ \E s \in Scores : \E score \in parseCritique(s) :
                 LET h == Append(history, [output |-> output, score |-> score,
                                           improvement |-> score - previousScore])
                     reason == checkStopConditions(score, score - previousScore, Len(h))
                 IN /\ history' = h
                    /\ IF reason # ""
                       THEN /\ pc' = "done" /\ answer' = formatResult(h, output, reason)
                            /\ UNCHANGED previousScore
                       ELSE pc' = "generate" /\ previousScore' = score /\ UNCHANGED answer

Cancel ==
    /\ pc # "done" /\ ~cancelled /\ cancelled' = TRUE
    /\ UNCHANGED <<format, pc, iteration, output, previousScore, history, answer>>

Step == GeneratorReturns \/ CriticReturns
ReflectionNext == Step \/ Cancel
ReflectionSpec == ReflectionInit /\ [][ReflectionNext]_reflectionVars
-----------------------------------------------------------------------------

\* Reflection goes on as long as it pays and no longer: of the outputs judged
\* before the last none met the threshold and each but the first improved on the
\* one before by the threshold; the reason that is reported is true of the last
\* judgement; and the history judges the outputs in the order they were made.
ReflectsWhileItPays ==
    LET n == Len(history)
        pays(i) == i = 1 \/ history[i].score - history[i - 1].score >= ImprovementThreshold
    IN /\ \A i \in 1 .. n : history[i].output = i
       /\ \A i \in 1 .. n : (i < n \/ pc # "done" \/ answer.reason = "max_iterations") =>
            history[i].score < Min({QualityThreshold, 10}) /\ pays(i)
       /\ answer.reason = "minimal_improvement" => n > 1 /\ ~pays(n)
       /\ answer.reason = "quality_threshold_met" => history[n].score >= QualityThreshold
       /\ n > 1 => answer.reason \in {"none", "error"} \/ answer.total = history[n].score - history[1].score

-----------------------------------------------------------------------------
(***************************************************************************)
(* patterns/planning.go: one Process of a PlanningAgent, with the exported *)
(* operations on plans.  parsePlan gives no step a dependency; a plan made *)
(* with CreatePlan may have some, on the positions of other steps.         *)
(***************************************************************************)

CONSTANTS
    MaxSteps,          \* maxSteps
    MaxLines,          \* lines of the Steps section of the model's plan
    Dependencies       \* the dependencies plans may have: functions on positions

VARIABLES
    allowReplanning,
    deps,            \* the dependencies of the steps
    status,          \* the status of every step
    todo,            \* the steps GetNextSteps returned that are still to be run
    executions,      \* how often each step was run
    context,         \* steps whose result is passed on
    asked            \* the model was asked for alternatives

planningVars == <<allowReplanning, pc, deps, status, todo, executions, context, asked, answer>>

Positions == DOMAIN status
completed == {i \in Positions : status[i] = "completed"}
CanExecuteStep(i) == deps[i] \subseteq completed
GetNextSteps == {i \in Positions : status[i] = "pending" /\ CanExecuteStep(i)}
IsPlanComplete == \A i \in Positions : status[i] \in {"completed", "skipped"}
HasPlanFailures == \E i \in Positions : status[i] = "failed"

PlanningTypeOK ==
    /\ allowReplanning \in BOOLEAN /\ pc \in {"create", "loop", "execute", "replan", "done"}
    /\ Len(status) <= MaxSteps
    /\ ToSet(status) \subseteq {"pending", "in_progress", "completed", "failed", "skipped"}
    /\ ToSet(todo) \subseteq Positions /\ context \subseteq Positions /\ asked \in BOOLEAN

PlanningInit ==
    /\ allowReplanning \in BOOLEAN /\ pc = "create" /\ deps \in Dependencies
    /\ status = <<>> /\ todo = <<>> /\ executions = <<>> /\ context = {} /\ asked = FALSE
    /\ answer = "none"

\* Lines after the limit are dropped.
parsePlan(lines) == [i \in 1 .. IF lines < MaxSteps THEN lines ELSE MaxSteps |-> "pending"]

createPlan ==
    /\ pc = "create" /\ UNCHANGED <<allowReplanning, deps, todo, context, asked>>
    /\ \/ pc' = "done" /\ answer' = "error" /\ UNCHANGED <<status, executions>>
       \/ /\ pc' = "loop" /\ UNCHANGED answer
          /\ \E n \in 0 .. MaxLines : status' = parsePlan(n)
          /\ executions' = [i \in DOMAIN status' |-> 0]

\* The top of the loop of executePlan, and what it reports at its end.
Loop ==
    /\ pc = "loop" /\ UNCHANGED <<allowReplanning, deps, status, executions, context, asked>>
    /\ IF IsPlanComplete THEN pc' = "done" /\ answer' = "completed" /\ UNCHANGED todo
       ELSE IF GetNextSteps # {}
       THEN pc' = "execute" /\ todo' = SetToSortSeq(GetNextSteps, <) /\ UNCHANGED answer
       ELSE IF HasPlanFailures /\ allowReplanning THEN pc' = "replan" /\ UNCHANGED <<todo, answer>>
       ELSE /\ pc' = "done" /\ UNCHANGED todo
            /\ answer' = IF HasPlanFailures THEN "failed" ELSE "partial"

\* The next step of the batch is in progress, then its executor returns.
ExecuteStep ==
    /\ pc = "execute" /\ UNCHANGED <<allowReplanning, deps, asked, answer>>
    /\ IF todo = <<>> THEN pc' = "loop" /\ UNCHANGED <<status, todo, executions, context>>
       ELSE LET i == Head(todo)
            IN IF status[i] # "in_progress"
               THEN /\ status' = [status EXCEPT ![i] = "in_progress"]
                    /\ executions' = [executions EXCEPT ![i] = @ + 1]
                    /\ UNCHANGED <<pc, todo, context>>
               ELSE /\ todo' = Tail(todo) /\ UNCHANGED <<pc, executions>>
                    /\ \/ /\ status' = [status EXCEPT ![i] = "completed"]
                          /\ context' = context \cup {i}
                       \/ status' = [status EXCEPT ![i] = "failed"] /\ UNCHANGED context

\* Fault: the failed steps stay failed.
replan_StillFailed ==
    /\ pc = "replan" /\ UNCHANGED <<allowReplanning, deps, status, todo, executions, context>>
    /\ \/ pc' = "done" /\ answer' = "error" /\ UNCHANGED asked
       \/ pc' = "loop" /\ asked' = TRUE /\ UNCHANGED answer

\* The model is asked for alternatives, which are not used: the failed steps are
\* skipped.
replan ==
    /\ pc = "replan" /\ UNCHANGED <<allowReplanning, deps, todo, executions, context>>
    /\ \/ pc' = "done" /\ answer' = "error" /\ UNCHANGED <<status, asked>>
       \/ /\ pc' = "loop" /\ asked' = TRUE /\ UNCHANGED answer
          /\ status' = [i \in Positions |-> IF status[i] = "failed" THEN "skipped" ELSE status[i]]

PlanningNext == createPlan \/ Loop \/ ExecuteStep \/ replan
PlanningSpec == PlanningInit /\ [][PlanningNext]_planningVars
-----------------------------------------------------------------------------

\* A step is run at most once and only after everything it depends on was
\* completed; the results passed on are those of the completed steps; and the
\* report is true: "completed" only when no step failed or the model was asked
\* about the failures, and otherwise a step that did not run waits, directly or
\* not, for one that failed or was skipped, or for a cycle.
PlanTruthful ==
    /\ \A i \in Positions : /\ executions[i] <= 1
                            /\ executions[i] = 1 => deps[i] \subseteq completed
    /\ context = completed
    /\ answer = "completed" => \A i \in Positions : status[i] = "completed" \/ asked
    /\ answer \in {"failed", "partial"} =>
         \A i \in Positions : status[i] = "pending" => deps[i] \ completed # {}

-----------------------------------------------------------------------------
(***************************************************************************)
(* patterns/human_in_loop.go: one Process of a HumanInLoopAgent.           *)
(* Confidences and thresholds are in tenths.                               *)
(***************************************************************************)

CONSTANTS
    Levels          \* confidences and thresholds to try, in tenths

NoConfidence == -1  \* the metadata hold none, or one that is no number

VARIABLES
    configured,      \* ApprovalThreshold of the configuration
    approver,        \* the approval function
    confidence,      \* what the agent put into the metadata
    content,         \* whose content the answer has
    approvals        \* what the approval function said

humanInLoopVars == <<configured, approver, pc, confidence, status, content, approvals>>

Approvers == [kind : {"any"}, reject : {0}, approve : {0}]
             \cup [kind : {"SimpleApprovalFunc"}, reject : {0}, approve : {0, 1}]
             \cup [kind : {"ConfidenceBasedApprovalFunc"}, reject : Levels, approve : Levels]

\* A threshold of zero is taken for one that was not set.
approvalThreshold == IF configured = 0 THEN 8 ELSE configured
extractConfidence == IF confidence = NoConfidence THEN 0 ELSE confidence

HumanInLoopTypeOK ==
    /\ configured \in Levels /\ approver \in Approvers /\ pc \in {"agent", "approval", "done"}
    /\ confidence \in Levels \cup {NoConfidence}
    /\ status \in {"none", "error", "panic", "bypassed", "rejected", "approved",
                   "approved_with_modifications"}
    /\ content \in {"none", "agent", "reviewer", "rejection"}

HumanInLoopInit ==
    /\ configured \in Levels /\ approver \in Approvers /\ pc = "agent"
    /\ confidence = NoConfidence /\ status = "none" /\ content = "none" /\ approvals = "none"

return(s, c) == pc' = "done" /\ status' = s /\ content' = c

\* Fault: an answer without a confidence is passed on.
AgentReturns_NoConfidencePasses ==
    /\ pc = "agent" /\ UNCHANGED <<configured, approver, approvals>>
    /\ \/ return("error", "none") /\ UNCHANGED confidence
       \/ /\ confidence' \in Levels \cup {NoConfidence}
          /\ IF confidence' # NoConfidence /\ confidence' < approvalThreshold
             THEN pc' = "approval" /\ UNCHANGED <<status, content>>
             ELSE return("bypassed", "agent")

AgentReturns ==
    /\ pc = "agent" /\ UNCHANGED <<configured, approver, approvals>>
    /\ \/ return("error", "none") /\ UNCHANGED confidence
       \/ /\ confidence' \in Levels \cup {NoConfidence}
          /\ IF extractConfidence' < approvalThreshold
             THEN pc' = "approval" /\ UNCHANGED <<status, content>>
             ELSE return("bypassed", "agent")

\* What the approval functions of the package answer.
verdicts ==
    CASE approver.kind = "any" -> {"error", "rejected", "approved", "modified", "modifiedWithoutMetadata"}
      [] approver.kind = "SimpleApprovalFunc" -> {IF approver.approve = 1 THEN "approved" ELSE "rejected"}
      [] OTHER -> {IF extractConfidence >= approver.reject /\ extractConfidence >= approver.approve
                   THEN "approved" ELSE "rejected"}

\* A replacement message without metadata is written to all the same.
ApprovalReturns ==
    /\ pc = "approval" /\ UNCHANGED <<configured, approver, confidence>>
    /\ \E v \in verdicts :
         /\ approvals' = v
         /\ CASE v = "error" -> return("error", "none")
              [] v = "rejected" -> return("rejected", "rejection")
              [] v = "approved" -> return("approved", "agent")
              [] v = "modified" -> return("approved_with_modifications", "reviewer")
              [] OTHER -> return("panic", "none")

HumanInLoopNext == AgentReturns \/ ApprovalReturns
HumanInLoopSpec == HumanInLoopInit /\ [][HumanInLoopNext]_humanInLoopVars
-----------------------------------------------------------------------------

\* What the agent wrote reaches the caller only with enough confidence or with
\* the consent of the reviewer; a confidence that is missing or no number, and a
\* threshold of zero, ask for consent rather than do without it.
NothingUnapproved ==
    content = "agent" =>
        \/ confidence # NoConfidence /\ confidence >= approvalThreshold /\ approvals = "none"
        \/ approvals = "approved"
=============================================================================
