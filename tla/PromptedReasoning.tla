------------------------- MODULE PromptedReasoning --------------------------
(***************************************************************************)
(* techniques/reasoning/ and the agents of patterns/ and tools/ that call  *)
(* tools: reasoning without a search, by a vote over samples, by steps,    *)
(* and with tools. Each part has an Init and a Next of its own; a variable *)
(* that parts have in common by name is declared with the first of them.   *)
(***************************************************************************)
EXTENDS Integers, Sequences, FiniteSets, SequencesExt, FiniteSetsExt

-----------------------------------------------------------------------------
(***************************************************************************)
(* techniques/reasoning/self_consistency.go: numSamples goroutines ask the *)
(* agent, the extracted answers are put to the vote, and the artifact of   *)
(* the run is stored.  A response is the answer extracted from it, that    *)
(* answer in lower case, and the length of the response.                   *)
(***************************************************************************)

CONSTANTS
    NumSamples,
    Responses    \* records: text, norm, len

VARIABLES
    votingStrategy,
    verifier,    \* whether a verifier and a memory are attached
    samples,     \* per goroutine: "none", "error" or a response
    pc,          \* "sample", "vote", "store", "done"
    winner,      \* what the vote returned: answer, score and base of the score
    candidates,  \* the artifact's candidates: text and votes
    stored,      \* artifacts in the memory
    answer       \* "none", "error" or "answer"

consistencyVars == <<votingStrategy, verifier, samples, pc, winner, candidates, stored, answer>>

Samples == 1 .. NumSamples
NoVote == [text |-> "", score |-> 0, of |-> 0]
lacking(v) == {i \in Samples : samples[i].text = v}
None == [text |-> "none", norm |-> "none", len |-> 0]
FailedSample == [text |-> "error", norm |-> "error", len |-> 0]

ConsistencyTypeOK ==
    /\ votingStrategy \in {"majority", "weighted", "first"} /\ verifier \in BOOLEAN
    /\ samples \in [Samples -> Responses \cup {None, FailedSample}]
    /\ pc \in {"sample", "vote", "store", "done"} /\ stored \in 0 .. 1
    /\ answer \in {"none", "error", "answer"}

ConsistencyInit ==
    /\ votingStrategy \in {"majority", "weighted", "first"} /\ verifier \in BOOLEAN
    /\ samples = [i \in Samples |-> None] /\ pc = "sample" /\ winner = NoVote
    /\ candidates = {} /\ stored = 0 /\ answer = "none"

\* One goroutine is done; the others are not told of an error.
sampleOnce(i) ==
    /\ pc = "sample" /\ samples[i] = None
    /\ \E r \in Responses \cup {FailedSample} : samples' = [samples EXCEPT ![i] = r]
    /\ UNCHANGED <<votingStrategy, verifier, pc, winner, candidates, stored, answer>>

\* After wg.Wait: one failed sample fails the whole run.
generateSamples ==
    /\ pc = "sample" /\ lacking("none") = {}
    /\ IF lacking("error") # {} THEN pc' = "done" /\ answer' = "error"
       ELSE pc' = "vote" /\ UNCHANGED answer
    /\ UNCHANGED <<votingStrategy, verifier, samples, winner, candidates, stored>>

norms == {samples[i].norm : i \in Samples}
group(n) == {i \in Samples : samples[i].norm = n}
original(n) == samples[Min(group(n))].text
weight(n) == FoldSet(LAMBDA i, w : w + samples[i].len, 0, group(n))
total == FoldSet(LAMBDA i, w : w + samples[i].len, 0, Samples)

\* The map of counts is walked in any order: of equal groups any may win.
voteMajority ==
    {[text |-> original(n), score |-> Cardinality(group(n)), of |-> NumSamples] :
        n \in {m \in norms : \A o \in norms : Cardinality(group(m)) >= Cardinality(group(o))}}

\* A group without weight cannot win; when none has any, the answer is empty.
voteWeighted ==
    IF total = 0 THEN {[text |-> "", score |-> 0, of |-> 0]}
    ELSE {[text |-> original(n), score |-> weight(n), of |-> total] :
             n \in {m \in norms : \A o \in norms : weight(m) >= weight(o)}}

voteFirst == {[text |-> samples[1].text, score |-> 1, of |-> 1]}

votes ==
    CASE votingStrategy = "majority" -> voteMajority
      [] votingStrategy = "weighted" -> voteWeighted
      [] OTHER -> voteFirst

\* Fault: a candidate carries the spelling of the last sample of its group.
tally_LastSpelling ==
    {[text |-> samples[Max(group(n))].text, votes |-> Cardinality(group(n))] : n \in norms}

\* The candidates of the artifact are counted apart from the vote.
tally == {[text |-> original(n), votes |-> Cardinality(group(n))] : n \in norms}

Vote ==
    /\ pc = "vote" /\ winner' \in votes /\ candidates' = tally /\ pc' = "store"
    /\ UNCHANGED <<votingStrategy, verifier, samples, stored, answer>>

\* An error of the verifier or of the memory is dropped.
Store ==
    /\ pc = "store" /\ pc' = "done" /\ answer' = "answer"
    /\ stored' \in IF verifier THEN {0, 1} ELSE {0}
    /\ UNCHANGED <<votingStrategy, verifier, samples, winner, candidates>>

Step == (\E i \in Samples : sampleOnce(i)) \/ generateSamples \/ Vote \/ Store
ConsistencyNext == Step
ConsistencySpec == ConsistencyInit /\ [][ConsistencyNext]_consistencyVars
-----------------------------------------------------------------------------

\* The message and the artifact tell one story although they are counted apart
\* and maps are walked in any order: the consensus answer is the text of a
\* candidate (weights of zero aside), under "majority" the best one, with the votes
\* the score stands for; an answer more than half of the samples gave wins; the
\* candidates share out all the samples; and a run with an answer had no failed
\* sample.
VoteCoherent ==
    /\ answer = "answer" => lacking("error") = {}
    /\ pc \in {"store", "done"} /\ answer # "error" =>
         /\ total > 0 \/ votingStrategy # "weighted" =>
              \E c \in candidates : c.text = winner.text
         /\ votingStrategy = "majority" =>
              /\ \E c \in candidates : c.text = winner.text /\ c.votes = winner.score
              /\ \A c \in candidates : c.votes <= winner.score
              /\ \A n \in norms : 2 * Cardinality(group(n)) > NumSamples => winner.text = original(n)
         /\ MapThenSumSet(LAMBDA c : c.votes, candidates) = NumSamples

-----------------------------------------------------------------------------
(***************************************************************************)
(* techniques/reasoning: chain_of_thought.go ("cot"), least_to_most.go     *)
(* ("ltm") and plan_and_solve.go ("pas").  The model's answer is a list of *)
(* lines, each of a kind; a step is named by the plan it comes from and    *)
(* its line.                                                               *)
(***************************************************************************)

CONSTANTS
    MaxLines,
    MaxSteps     \* maxSteps of "cot", maxSubproblems of "ltm"

Kinds == {"number", "bullet", "plain", "blank"}
Verdicts == {"VALID", "INVALID", "issues"}

VARIABLES
    technique,
    custom,          \* "ltm" with a decomposer of the caller, "pas" with a planner
    compose,         \* composeSolutions of "ltm"; always so for "pas"
    validate, allowReplanning,\* of "pas"
    plans,           \* plans made so far
    steps,
    judged,          \* the steps Validate saw last
    validated,
    verdict,         \* what the model said of the plan
    results,         \* the steps whose results are in
    shown            \* what each call was shown of the results before it

config == <<technique, custom, compose, validate, allowReplanning>>
stepsVars == <<config, pc, plans, steps, judged, validated, verdict, results, shown, answer>>

NoAnswer == <<0, 0>>
Error == <<0, 1>>

StepsTypeOK ==
    /\ technique \in {"cot", "ltm", "pas"} /\ plans \in 0 .. 2
    /\ pc \in {"plan", "validate", "improve", "solve", "done"}
    /\ validated \in BOOLEAN /\ verdict \in Verdicts \cup {"none"}
    /\ Len(steps) <= MaxLines /\ Len(results) <= Len(steps)

StepsInit ==
    /\ technique \in {"cot", "ltm", "pas"}
    /\ custom \in IF technique = "cot" THEN {FALSE} ELSE BOOLEAN
    /\ compose \in IF technique = "ltm" THEN BOOLEAN ELSE {technique = "pas"}
    /\ validate \in IF technique = "pas" THEN BOOLEAN ELSE {FALSE}
    /\ allowReplanning \in IF validate THEN BOOLEAN ELSE {FALSE}
    /\ pc = "plan" /\ plans = 0 /\ steps = <<>> /\ judged = <<>> /\ validated = FALSE
    /\ verdict = "none" /\ results = <<>> /\ shown = <<>> /\ answer = NoAnswer

return(a) == pc' = "done" /\ answer' = a

\* The positions of the lines whose kind is in ks, as steps of plan p.
pick(lines, ks, p) ==
    LET at == SelectSeq([i \in DOMAIN lines |-> i], LAMBDA i : lines[i] \in ks)
    IN [i \in DOMAIN at |-> <<p, at[i]>>]

limitSteps(s) == IF Len(s) > MaxSteps THEN SubSeq(s, 1, MaxSteps) ELSE s

\* Two numbered lines make a numbered list, else two bullets a bulleted one,
\* else every line that is not blank is a step.
extractSteps(lines) ==
    LET numbered == pick(lines, {"number"}, 1)
        bulleted == pick(lines, {"bullet"}, 1)
    IN limitSteps(IF Len(numbered) >= 2 THEN numbered
                  ELSE IF Len(bulleted) >= 2 THEN bulleted
                  ELSE pick(lines, Kinds \ {"blank"}, 1))

\* Only numbered lines count; without any the problem itself is the subproblem.
parseSubproblems(lines) ==
    LET s == limitSteps(pick(lines, {"number"}, 1))
    IN IF s = <<>> THEN <<<<1, 0>>>> ELSE s

Texts == SeqOf(Kinds, MaxLines)

ChainOfThought ==
    /\ technique = "cot" /\ pc = "plan" /\ plans' = 1
    /\ \/ return(Error) /\ UNCHANGED steps
       \/ \E lines \in Texts : steps' = extractSteps(lines) /\ return(<<1, 0>>)
    /\ UNCHANGED <<config, judged, validated, verdict, results, shown>>

\* A decomposer of the caller is cut at the limit, and may return nothing.
decompose ==
    /\ technique = "ltm" /\ pc = "plan" /\ plans' = 1
    /\ \/ return(Error) /\ UNCHANGED steps
       \/ /\ \E lines \in Texts :
               steps' = IF custom THEN limitSteps(pick(lines, Kinds, 1)) ELSE parseSubproblems(lines)
          /\ pc' = "solve" /\ UNCHANGED answer
    /\ UNCHANGED <<config, judged, validated, verdict, results, shown>>

\* Fault: an improved plan is carried out without being judged.
CreatePlan_Unjudged ==
    /\ technique = "pas" /\ pc = "plan" /\ plans' = plans + 1
    /\ \/ return(Error) /\ UNCHANGED steps
       \/ /\ \E lines \in Texts : steps' = pick(lines, Kinds \ {"blank"}, plans + 1)
          /\ pc' = (IF validate /\ plans = 0 THEN "validate" ELSE "solve") /\ UNCHANGED answer
    /\ UNCHANGED <<config, judged, validated, verdict, results, shown>>

\* A planner of the caller makes any plan; the validation flag of a plan starts
\* out false.
CreatePlan ==
    /\ technique = "pas" /\ pc = "plan" /\ plans' = plans + 1
    /\ \/ return(Error) /\ UNCHANGED steps
       \/ /\ \E lines \in Texts : steps' = pick(lines, Kinds \ {"blank"}, plans + 1)
          /\ pc' = (IF validate THEN "validate" ELSE "solve") /\ UNCHANGED answer
    /\ UNCHANGED <<config, judged, validated, verdict, results, shown>>

\* An answer that contains VALID passes, INVALID too.
Validate ==
    /\ pc = "validate" /\ UNCHANGED <<config, plans, steps, results, shown>>
    /\ \/ return(Error) /\ UNCHANGED <<judged, validated, verdict>>
       \/ \E v \in Verdicts :
            /\ verdict' = v /\ validated' = (v \in {"VALID", "INVALID"}) /\ judged' = steps
            /\ pc' = IF ~validated' /\ allowReplanning /\ plans = 1 THEN "improve" ELSE "solve"
            /\ UNCHANGED answer

\* The improved plan the model is asked for is dropped, its error too.
Improve ==
    /\ pc = "improve" /\ pc' = "plan"
    /\ UNCHANGED <<config, plans, steps, judged, validated, verdict, results, shown, answer>>

\* What the prompt for the next step shows of the results so far.
solveSubproblem == IF compose THEN results ELSE <<>>

\* The next step is carried out.
ExecuteStep ==
    /\ pc = "solve" /\ Len(results) < Len(steps)
    /\ \/ return(Error) /\ UNCHANGED results
       \/ results' = Append(results, steps[Len(results) + 1]) /\ UNCHANGED <<pc, answer>>
    /\ shown' = Append(shown, solveSubproblem)
    /\ UNCHANGED <<config, plans, steps, judged, validated, verdict>>

finalSolution == IF results = <<>> THEN <<>> ELSE Last(results)

Answer ==
    /\ pc = "solve" /\ Len(results) = Len(steps) /\ return(finalSolution)
    /\ UNCHANGED <<config, plans, steps, judged, validated, verdict, results, shown>>

StepsNext == ChainOfThought \/ decompose \/ CreatePlan \/ Validate \/ Improve \/ ExecuteStep \/ Answer
StepsSpec == StepsInit /\ [][StepsNext]_stepsVars
-----------------------------------------------------------------------------

\* What is carried out is the plan that was judged, whole and in order: the steps
\* executed are the ones the last validation saw, a plan found wanting is made anew
\* once when that is allowed, each is shown every result before
\* it when results are composed, the answer is the last step's result, an answered
\* run skipped no step, and the limits on steps hold whichever parser found them.
PlanCarriedOut ==
    /\ validate /\ results # <<>> => judged = steps
    /\ validate /\ allowReplanning /\ results # <<>> /\ verdict = "issues" => plans > 1
    /\ IsPrefix(results, steps)
    /\ compose => \A i \in DOMAIN shown : shown[i] = SubSeq(steps, 1, i - 1)
    /\ technique # "cot" /\ answer \notin {NoAnswer, Error} =>
         results = steps /\ (steps # <<>> => answer = Last(steps))
    /\ technique # "pas" => Len(steps) <= MaxSteps
    /\ technique = "ltm" /\ ~custom /\ pc = "solve" => steps # <<>>

-----------------------------------------------------------------------------
(***************************************************************************)
(* patterns/react.go, patterns/reasoning_with_tools.go,                    *)
(* tools/tool_agent.go and patterns/agents_as_tools.go: the three agents   *)
(* that call tools, and the tool that is another agent.  One request runs; *)
(* the model and the tools answer anything.  Texts are abstracted to what  *)
(* the parsers find in them.                                               *)
(***************************************************************************)

CONSTANTS
    InputKey,        \* the tools: from names to the parameter an AgentTool reads,
                     \* or "any" for a tool that takes what it is given
    MaxCalls         \* tool calls in a message to a ToolAgent

Names == DOMAIN InputKey
Other == "other"                   \* a name no tool has
Keys == {"input", "query", "none"}

VARIABLES
    kind,            \* "ReAct", "Reasoning", "ToolAgent"
    tools,           \* names of the registered tools
    calls,           \* the tool call under way, and those that wait: name and key
    step,            \* turns of the loop begun
    toolsUsed, thinkingSteps,\* counters of the trace
    executed,        \* tools whose Execute was called: name, outcome
    delegated,       \* runs of the agents behind AgentTools
    cancelled

toolsVars == <<kind, tools, pc, calls, step, steps, toolsUsed, thinkingSteps, executed, delegated,
          cancelled, answer>>

\* What Execute of tool t, given a parameter named k, may return, and whether
\* it runs an agent: an AgentTool returns a ToolResult whatever happens.
Execute(t, k) ==
    IF InputKey[t] = "any" THEN {<<"ok", 0>>, <<"unsuccessful", 0>>, <<"error", 0>>}
    ELSE IF InputKey[t] # k THEN {<<"unsuccessful", 0>>}
    ELSE {<<"ok", 1>>, <<"unsuccessful", 1>>}

ToolsTypeOK ==
    /\ kind \in {"ReAct", "Reasoning", "ToolAgent"} /\ tools \subseteq Names
    /\ pc \in {"model", "tool", "done"} /\ step \in 0 .. MaxSteps
    /\ \A c \in ToSet(calls) : c \in (Names \cup {Other}) \X Keys
    /\ Len(steps) <= 3 * MaxSteps + MaxCalls

ToolsInit ==
    /\ kind \in {"ReAct", "Reasoning", "ToolAgent"} /\ tools \in SUBSET Names
    /\ kind = "ReAct" => tools # {}
    /\ IF kind = "ToolAgent"
       THEN pc = "tool" /\ calls \in SeqOf((Names \cup {Other}) \X Keys, MaxCalls)
       ELSE pc = "model" /\ calls = <<>>
    /\ step = 0 /\ steps = <<>> /\ toolsUsed = 0 /\ thinkingSteps = 0 /\ executed = <<>>
    /\ delegated = 0 /\ cancelled = FALSE /\ answer = "none"

finishWith(reason) == pc' = "done" /\ answer' = reason /\ UNCHANGED calls
stay == UNCHANGED <<pc, calls, answer>>
note(type, tool, seen) == [type |-> type, tool |-> tool, seen |-> seen]

-----------------------------------------------------------------------------
(* ReActAgent *)

\* The lines of a reply, in order: later lines overwrite earlier ones, and the
\* lines after a final answer are not read.
Lines == {"final"} \cup Names \cup {Other}
parseResponse(lines) ==
    LET read == SelectInSeq(lines, LAMBDA l : l = "final")
        seen == IF read = 0 THEN lines ELSE SubSeq(lines, 1, read - 1)
    IN [final |-> read # 0, action |-> IF seen = <<>> THEN "" ELSE Last(seen)]

\* One turn of Process up to the call of a tool.
ReActModel ==
    /\ kind = "ReAct" /\ pc = "model"
    /\ IF step = MaxSteps THEN finishWith("max_steps") /\ UNCHANGED <<step, steps>>
       ELSE /\ step' = step + 1
            /\ \/ finishWith("error") /\ UNCHANGED steps
               \/ \E lines \in SeqOf(Lines, 2) :
                    LET p == parseResponse(lines)
                    IN IF p.final
                       THEN finishWith("final_answer") /\ steps' = Append(steps, note("final", p.action, ""))
                       ELSE IF p.action = ""
                       THEN finishWith("invalid_action") /\ steps' = Append(steps, note("none", "", ""))
                       ELSE IF p.action \notin tools
                       THEN stay /\ steps' = Append(steps, note("action", p.action, "not found"))
                       ELSE /\ pc' = "tool" /\ calls' = <<<<p.action, "input">>>>
                            /\ UNCHANGED <<steps, answer>>
    /\ UNCHANGED <<kind, tools, toolsUsed, thinkingSteps, executed, delegated, cancelled>>

ReActTool ==
    /\ kind = "ReAct" /\ pc = "tool"
    /\ \E r \in Execute(calls[1][1], calls[1][2]) :
         /\ executed' = Append(executed, <<calls[1][1], r[1]>>) /\ delegated' = delegated + r[2]
         /\ steps' = Append(steps, note("action", calls[1][1], r[1]))
         /\ IF r[1] = "error" THEN finishWith("tool_error")
            ELSE pc' = "model" /\ calls' = <<>> /\ UNCHANGED answer
    /\ UNCHANGED <<kind, tools, step, toolsUsed, thinkingSteps, cancelled>>

-----------------------------------------------------------------------------
(* ReasoningWithToolsAgent *)

thinking(s) == Append(s, note("thinking", "", ""))

\* A reply holds a tool call or not, text besides it or not, a conclusion or not;
\* a conclusion is looked for only where there is no tool call.
ReasoningModel ==
    /\ kind = "Reasoning" /\ pc = "model"
    /\ IF step = MaxSteps THEN finishWith("max_steps") /\ UNCHANGED <<step, steps, thinkingSteps>>
       ELSE IF cancelled THEN finishWith("error") /\ UNCHANGED <<step, steps, thinkingSteps>>
       ELSE /\ step' = step + 1
            /\ \/ finishWith("error") /\ UNCHANGED <<steps, thinkingSteps>>
               \/ \E t \in Names \cup {Other}, k \in Keys, text \in BOOLEAN :
                    IF t \in tools
                    THEN /\ pc' = "tool" /\ calls' = <<<<t, k>>>> /\ UNCHANGED answer
                         /\ steps' = IF text THEN thinking(steps) ELSE steps
                         /\ thinkingSteps' = thinkingSteps + (IF text THEN 1 ELSE 0)
                    ELSE stay /\ steps' = thinking(steps) /\ thinkingSteps' = thinkingSteps + 1
               \/ /\ finishWith("conclusion") /\ steps' = Append(steps, note("conclusion", "", ""))
                  /\ UNCHANGED thinkingSteps
               \/ stay /\ steps' = thinking(steps) /\ thinkingSteps' = thinkingSteps + 1
    /\ UNCHANGED <<kind, tools, toolsUsed, executed, delegated, cancelled>>

\* Fault: an error of the tool is counted as a use of it.
ReasoningTool_CountsErrors ==
    /\ kind = "Reasoning" /\ pc = "tool" /\ pc' = "model" /\ calls' = <<>>
    /\ \E r \in Execute(calls[1][1], calls[1][2]) :
         /\ executed' = Append(executed, <<calls[1][1], r[1]>>) /\ delegated' = delegated + r[2]
         /\ steps' = steps \o <<note("tool_result", calls[1][1], r[1])>>
         /\ toolsUsed' = toolsUsed + 1
    /\ UNCHANGED <<kind, tools, step, thinkingSteps, cancelled, answer>>

\* The call and its result are recorded; of a call that failed only the error is.
ReasoningTool ==
    /\ kind = "Reasoning" /\ pc = "tool" /\ pc' = "model" /\ calls' = <<>>
    /\ \E r \in Execute(calls[1][1], calls[1][2]) :
         /\ executed' = Append(executed, <<calls[1][1], r[1]>>) /\ delegated' = delegated + r[2]
         /\ steps' = IF r[1] = "error" THEN Append(steps, note("tool_result", calls[1][1], r[1]))
                     ELSE steps \o <<note("tool_call", calls[1][1], ""),
                                     note("tool_result", calls[1][1], r[1])>>
         /\ toolsUsed' = toolsUsed + (IF r[1] = "error" THEN 0 ELSE 1)
    /\ UNCHANGED <<kind, tools, step, thinkingSteps, cancelled, answer>>

\* While the model or a tool runs; the tool call under way goes on.
AddTool(t) ==
    /\ kind = "Reasoning" /\ pc # "done" /\ tools' = tools \cup {t}
    /\ UNCHANGED <<kind, pc, calls, step, steps, toolsUsed, thinkingSteps, executed, delegated,
                   cancelled, answer>>

RemoveTool(t) ==
    /\ kind = "Reasoning" /\ pc # "done" /\ tools' = tools \ {t}
    /\ UNCHANGED <<kind, pc, calls, step, steps, toolsUsed, thinkingSteps, executed, delegated,
                   cancelled, answer>>

-----------------------------------------------------------------------------
(* ToolAgent: the calls of the message one after the other; an unknown tool   *)
(* and an error are results like others.                                      *)

ToolAgentTool ==
    /\ kind = "ToolAgent" /\ pc = "tool"
    /\ IF calls = <<>> THEN finishWith("results") /\ UNCHANGED <<steps, executed, delegated>>
       ELSE LET t == Head(calls)[1]
            IN /\ calls' = Tail(calls) /\ UNCHANGED <<pc, answer>>
               /\ IF t \notin tools
                  THEN /\ steps' = Append(steps, note("result", t, "not found"))
                       /\ UNCHANGED <<executed, delegated>>
                  ELSE \E r \in Execute(t, Head(calls)[2]) :
                         /\ executed' = Append(executed, <<t, r[1]>>)
                         /\ delegated' = delegated + r[2]
                         /\ steps' = Append(steps, note("result", t, r[1]))
    /\ UNCHANGED <<kind, tools, step, toolsUsed, thinkingSteps, cancelled>>

Cancel ==
    /\ kind = "Reasoning" /\ pc # "done" /\ ~cancelled /\ cancelled' = TRUE
    /\ UNCHANGED <<kind, tools, pc, calls, step, steps, toolsUsed, thinkingSteps, executed,
                   delegated, answer>>

ToolStep == ReActModel \/ ReActTool \/ ReasoningModel \/ ReasoningTool \/ ToolAgentTool
ToolsNext == ToolStep \/ Cancel \/ \E t \in Names : AddTool(t) \/ RemoveTool(t)
ToolsSpec == ToolsInit /\ [][ToolsNext]_toolsVars
-----------------------------------------------------------------------------

observed == SelectSeq(steps, LAMBDA s : s.type \in {"action", "tool_result", "result"}
                                         /\ s.seen # "not found")
count(type) == Cardinality({i \in DOMAIN steps : steps[i].type = type})

\* The record an agent returns is what happened: every tool that was executed
\* appears in it once, with its own outcome and in order; of a trace, the number of
\* tools used is that of its calls, each followed by its result, and the number of
\* thinking steps is theirs; a final answer or a conclusion is the last step.
\* An agent wrapped as a tool runs at most once for each call of its tool.
StepsTellExecutions ==
    /\ [i \in DOMAIN observed |-> <<observed[i].tool, observed[i].seen>>] = executed
    /\ kind = "Reasoning" =>
         /\ toolsUsed = count("tool_call") /\ thinkingSteps = count("thinking")
         /\ toolsUsed = Cardinality({i \in DOMAIN executed : executed[i][2] # "error"})
         /\ \A i \in DOMAIN steps : steps[i].type = "tool_call" =>
              i < Len(steps) /\ steps[i + 1].type = "tool_result" /\ steps[i + 1].tool = steps[i].tool
    /\ \A i \in DOMAIN steps : steps[i].type \in {"final", "conclusion", "none"} =>
         i = Len(steps) /\ pc = "done"
    /\ kind = "ReAct" => Len(steps) <= step
    /\ delegated <= Cardinality({i \in DOMAIN executed : InputKey[executed[i][1]] # "any"})
=============================================================================
