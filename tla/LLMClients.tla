----------------------------- MODULE LLMClients -----------------------------
(***************************************************************************)
(* adapter/llm: one call of an LLM client, Complete or Stream, at each of  *)
(* the seven providers.  A client turns the conversation and the options   *)
(* into a request; it turns a reply into a message, or hands the pieces of *)
(* a streamed reply over an unbuffered channel from a goroutine of its     *)
(* own.                                                                    *)
(*                                                                         *)
(* The SDKs of OpenAI, Bedrock and Gemini are external: what they make of  *)
(* a piece of the reply is sdkEvent.  A text is its place in the reply.    *)
(***************************************************************************)
EXTENDS Integers, Sequences, FiniteSets, SequencesExt

CONSTANTS
    Providers,     \* of "anthropic", "openai", "compatible", "bedrock", "gemini", "litellm", "ollama"
    MaxMessages,   \* messages of a conversation
    MaxPieces      \* pieces of a reply

VARIABLES
    provider, method,    \* the client and which of Complete and Stream is called
    messages, options,   \* the conversation (roles) and the CallOptions
    request,             \* what was sent
    pc,                  \* "called", "sent", "streaming", "closed", "returned", "failed"
    body, ending, pos,   \* the reply's pieces, how it ends, and how many were read
    held,                \* the chunk the goroutine is sending, in a sequence
    chunks,              \* the chunks the consumer received
    answer,              \* what Complete returned
    cancelled, reading   \* the context is done; the consumer still reads

vars == <<provider, method, messages, options, request, pc, body, ending, pos, held,
          chunks, answer, cancelled, reading>>
asking == <<provider, method, messages, options, request>>
replying == <<body, ending, pos, held, chunks>>

None == -1
Roles == {"system", "user", "agent", "tool"}
\* top_p is sent like the temperature (Ollama's client ignores it); penalty is any Extra.
CallOptions == [temperature : {None, 0, 7}, max : {None, 5}, penalty : {None, 3}]
Pieces == {"text", "other", "garbage", "done"}
Usages == [prompt : {0, 2}, completion : {0, 3}]
NoOptions == [temperature |-> None, max |-> None, penalty |-> None]
NoUsage == [k \in {} |-> 0]
NoRequest == [system |-> <<>>, turns |-> <<>>, options |-> {}]
NoAnswer == [role |-> "none", text |-> <<>>, usage |-> NoUsage, of |-> [prompt |-> 0, completion |-> 0]]

TypeOK ==
    /\ provider \in Providers /\ method \in {"Complete", "Stream"}
    /\ messages \in Seq(Roles) /\ options \in CallOptions
    /\ pc \in {"called", "sent", "streaming", "closed", "returned", "failed"}
    /\ body \in Seq(Pieces) /\ ending \in {"eof", "error"}
    /\ pos \in 0 .. MaxPieces + 1 /\ Len(held) <= 1
    /\ \A i \in DOMAIN chunks : chunks[i].of \in 0 .. MaxPieces
    /\ cancelled \in BOOLEAN /\ reading \in BOOLEAN

Init ==
    /\ provider \in Providers /\ method \in {"Complete", "Stream"}
    /\ messages \in BoundedSeq(Roles, MaxMessages) \ {<<>>} /\ options \in CallOptions
    /\ request = NoRequest /\ pc = "called"
    /\ body = <<>> /\ ending = "eof" /\ pos = 0 /\ held = <<>> /\ chunks = <<>>
    /\ answer = NoAnswer /\ cancelled = FALSE /\ reading = TRUE

-----------------------------------------------------------------------------
(* The request.  A message is sent as its role there and its place here.    *)

indices(ms, P(_)) == SelectSeq([i \in DOMAIN ms |-> i], LAMBDA i : P(ms[i]))
turns(ms, keep, role(_)) ==
    LET kept == indices(ms, LAMBDA r : r \in keep)
    IN [j \in DOMAIN kept |-> [role |-> role(ms[kept[j]]), of |-> kept[j]]]
systems(ms) == indices(ms, LAMBDA r : r = "system")

userOrAssistant(r) == IF r = "user" THEN "user" ELSE "assistant"

\* Only the last system message is sent.
anthropicMessages(ms) ==
    [system |-> IF systems(ms) = <<>> THEN <<>> ELSE <<Last(systems(ms))>>,
     turns |-> turns(ms, Roles \ {"system"}, userOrAssistant)]

bedrockMessages(ms) ==
    [system |-> systems(ms), turns |-> turns(ms, Roles \ {"system"}, userOrAssistant)]

openaiMessages(ms) ==
    [system |-> <<>>, turns |-> turns(ms, Roles, LAMBDA r : IF r = "agent" THEN "assistant" ELSE r)]
compatibleMessages(ms) == openaiMessages(ms)

litellmMessages(ms) ==
    [system |-> <<>>,
     turns |-> turns(ms, Roles, LAMBDA r : IF r \in {"system", "user"} THEN r ELSE "assistant")]

ollamaMessages(ms) == [system |-> <<>>, turns |-> turns(ms, Roles, LAMBDA r : r)]

mapRole(r) == IF r \in {"user", "system"} THEN "user" ELSE "model"

\* A system message is a user's; the session sends the last message as one of the user.
geminiMessages(ms) ==
    LET history == turns(Front(ms), Roles, mapRole)
    IN [system |-> <<>>, turns |-> Append(history, [role |-> "user", of |-> Len(ms)])]

given(o, names) == {<<n, o[n]>> : n \in {m \in names : o[m] # None}}
Common == {"temperature", "max"}

\* max_tokens is always sent.
anthropicOptions(o, how) == given(o, Common \ {"max"}) \cup
                            {<<"max", IF o.max = None THEN 4096 ELSE o.max>>}
bedrockOptions(o, how) == anthropicOptions(o, how)

\* The penalties are options of Complete.
openaiOptions(o, how) ==
    anthropicOptions(o, how) \cup IF how = "Complete" THEN given(o, {"penalty"}) ELSE {}
compatibleOptions(o, how) ==
    given(o, Common) \cup IF how = "Complete" THEN given(o, {"penalty"}) ELSE {}

configureModel(o, how) == given(o, Common)
litellmOptions(o, how) == given(o, Common)

\* ollamaOptions has omitempty on plain numbers: a zero is not sent.
ollamaOptions(o, how) == given(o, {"temperature", "max"}) \ {<<"temperature", 0>>}

requestOf(p, ms, o, how) ==
    LET conversation ==
          CASE p = "anthropic" -> anthropicMessages(ms)
            [] p = "bedrock" -> bedrockMessages(ms)
            [] p = "openai" -> openaiMessages(ms)
            [] p = "compatible" -> compatibleMessages(ms)
            [] p = "litellm" -> litellmMessages(ms)
            [] p = "ollama" -> ollamaMessages(ms)
            [] p = "gemini" -> geminiMessages(ms)
        sent ==
          CASE p = "anthropic" -> anthropicOptions(o, how)
            [] p = "bedrock" -> bedrockOptions(o, how)
            [] p = "openai" -> openaiOptions(o, how)
            [] p = "compatible" -> compatibleOptions(o, how)
            [] p = "litellm" -> litellmOptions(o, how)
            [] p = "ollama" -> ollamaOptions(o, how)
            [] p = "gemini" -> configureModel(o, how)
    IN [system |-> conversation.system, turns |-> conversation.turns, options |-> sent]

\* The request goes out.
Send ==
    /\ pc = "called"
    /\ request' = requestOf(provider, messages, options, method)
    /\ pc' = "sent"
    /\ UNCHANGED <<provider, method, messages, options, replying, answer, cancelled, reading>>

\* Nothing of the request is looked at once there is a reply.
forgotten == request' = NoRequest /\ messages' = <<>> /\ options' = NoOptions

\* makeRequest: no connection, a status other than 200, or the context is done.
makeRequestFails ==
    /\ pc = "sent"
    /\ pc' = "failed" /\ forgotten
    /\ UNCHANGED <<provider, method, replying, answer, cancelled, reading>>

-----------------------------------------------------------------------------
(* Complete: the whole reply is parts (texts and others) and a usage.       *)

texts(b) == indices(b, LAMBDA x : x = "text")

prompts(u) == [prompt_tokens |-> u.prompt, completion_tokens |-> u.completion,
               total_tokens |-> u.prompt + u.completion]

\* The message a reply becomes.
Answers(p, role, text, usage, of) ==
    /\ pc = "sent" /\ method = "Complete" /\ provider = p
    /\ answer' = [role |-> role, text |-> text, usage |-> usage, of |-> of]
    /\ pc' = "returned" /\ forgotten
    /\ UNCHANGED <<provider, method, replying, cancelled, reading>>

replies == BoundedSeq({"text", "other"}, MaxPieces)

AnthropicComplete(b, u) ==
    Answers("anthropic", "agent", texts(b), [input_tokens |-> u.prompt, output_tokens |-> u.completion], u)
BedrockComplete(b, u) ==
    \E usage \in {prompts(u), NoUsage} : Answers("bedrock", "agent", texts(b), usage, u)
GeminiComplete(b, u) ==
    \E usage \in {prompts(u), NoUsage} : Answers("gemini", "agent", texts(b), usage, u)

\* The first choice's content is one text; a reply without choices is an error.
firstChoice(b) == IF texts(b) = <<>> THEN <<>> ELSE <<Head(texts(b))>>
OpenAIComplete(b, u) == b # <<>> /\ Answers("openai", "agent", firstChoice(b), prompts(u), u)
CompatibleComplete(b, u) == b # <<>> /\ Answers("compatible", "agent", firstChoice(b), prompts(u), u)
LiteLLMComplete(b, u) == b # <<>> /\ Answers("litellm", "agent", firstChoice(b), prompts(u), u)

\* The role is the server's; a usage of zeros is left out.
OllamaComplete(b, u) ==
    Answers("ollama", "assistant", firstChoice(b),
            IF u.prompt > 0 \/ u.completion > 0 THEN prompts(u) ELSE NoUsage, u)

Complete ==
    pc = "sent" /\ method = "Complete" /\ \E b \in replies, u \in Usages :
        \/ AnthropicComplete(b, u) \/ BedrockComplete(b, u) \/ GeminiComplete(b, u)
        \/ OpenAIComplete(b, u) \/ CompatibleComplete(b, u) \/ LiteLLMComplete(b, u)
        \/ OllamaComplete(b, u)

\* usage.go: the first of the names that is there, and 0 if none is.
pick(raw, names) ==
    LET there == SelectSeq(names, LAMBDA n : n \in DOMAIN raw)
    IN IF there = <<>> THEN 0 ELSE raw[Head(there)]

UsageFromMessage_NoTotal(raw) ==
    [prompt |-> pick(raw, <<"prompt_tokens", "input_tokens">>),
     completion |-> pick(raw, <<"completion_tokens", "output_tokens">>),
     total |-> pick(raw, <<"total_tokens">>)]

UsageFromMessage(raw) ==
    LET prompt == pick(raw, <<"prompt_tokens", "input_tokens">>)
        completion == pick(raw, <<"completion_tokens", "output_tokens">>)
        total == pick(raw, <<"total_tokens">>)
    IN [prompt |-> prompt, completion |-> completion,
        total |-> IF total = 0 THEN prompt + completion ELSE total]

-----------------------------------------------------------------------------
(* Stream: what the goroutine does with a piece: send a chunk, pass it over, *)
(* report an error and end, or end.                                          *)

anthropicEvent(piece) == IF piece = "text" THEN "send" ELSE "skip"
litellmEvent(piece) ==
    CASE piece = "text" -> "send" [] piece = "done" -> "end" [] OTHER -> "skip"
sdkEvent(piece) ==
    CASE piece = "text" -> "send" [] piece = "other" -> "skip"
      [] piece = "done" -> "end" [] piece = "garbage" -> "report"
openaiEvent(piece) == sdkEvent(piece)
compatibleEvent(piece) == sdkEvent(piece)
bedrockEvent(piece) == sdkEvent(piece)
geminiEvent(piece) == sdkEvent(piece)

\* Every object is a chunk, an empty one too; a failed decode is not reported.
ollamaEvent(piece) == IF piece = "garbage" THEN "end" ELSE "send"

bodies == BoundedSeq(Pieces, MaxPieces)

\* The channel is returned and the goroutine starts.
Open ==
    /\ pc = "sent" /\ method = "Stream"
    /\ body' \in bodies /\ ending' \in {"eof", "error"}
    /\ pc' = "streaming" /\ forgotten
    /\ UNCHANGED <<provider, method, pos, held, chunks, answer, cancelled, reading>>

\* close(messageChan) and the body's.
Closes == pc' = "closed" /\ UNCHANGED <<asking, body, ending, chunks, answer, cancelled, reading>>

Does(what, n) ==
    /\ pos' = n
    /\ \/ what = "end" /\ held' = <<>> /\ Closes
       \/ /\ what # "end"
          /\ held' = CASE what = "send" -> <<[of |-> n, error |-> FALSE]>>
                       [] what = "report" -> <<[of |-> 0, error |-> TRUE]>>
                       [] what = "skip" -> <<>>
          /\ UNCHANGED <<asking, pc, body, ending, chunks, answer, cancelled, reading>>

\* The goroutine reads the next piece, or the end, or an error: the reply's, or the context's.
Read(Event(_)) ==
    /\ pc = "streaming" /\ held = <<>>
    /\ \/ pos < Len(body) /\ Does(Event(body[pos + 1]), pos + 1)
       \/ pos = Len(body) /\ ending = "eof" /\ Does("end", pos)
       \/ /\ (pos = Len(body) /\ ending = "error") \/ cancelled
          /\ Does(IF provider = "ollama" THEN "end" ELSE "report", pos)

last(c) == c.error \/ (provider = "ollama" /\ body[c.of] = "done")

\* The consumer takes the chunk; an error, and Ollama's last object, ends the loop.
Hand ==
    /\ pc = "streaming" /\ held # <<>> /\ reading
    /\ chunks' = Append(chunks, Head(held)) /\ held' = <<>>
    /\ pc' = IF last(Head(held)) THEN "closed" ELSE pc
    /\ UNCHANGED <<asking, body, ending, pos, answer, cancelled, reading>>

\* Ollama's send gives up when the context is done.
GivesUp ==
    /\ pc = "streaming" /\ held # <<>> /\ cancelled
    /\ held' = <<>> /\ UNCHANGED pos /\ Closes

Streams(p, Event(_)) == provider = p /\ (Open \/ Read(Event) \/ Hand)

AnthropicStream == Streams("anthropic", anthropicEvent)
OpenAIStream == Streams("openai", openaiEvent)
CompatibleStream == Streams("compatible", compatibleEvent)
BedrockStream == Streams("bedrock", bedrockEvent)
GeminiStream == Streams("gemini", geminiEvent)
LiteLLMStream == Streams("litellm", litellmEvent)
OllamaStream == Streams("ollama", ollamaEvent) \/ (provider = "ollama" /\ GivesUp)

Stream == AnthropicStream \/ OpenAIStream \/ CompatibleStream \/ BedrockStream
          \/ GeminiStream \/ LiteLLMStream \/ OllamaStream

-----------------------------------------------------------------------------
Cancel ==
    /\ pc \in {"sent", "streaming"} /\ ~cancelled
    /\ cancelled' = TRUE
    /\ UNCHANGED <<asking, pc, replying, answer, reading>>

StopReading ==
    /\ pc = "streaming" /\ reading
    /\ reading' = FALSE
    /\ UNCHANGED <<asking, pc, replying, answer, cancelled>>

Done == pc \in {"closed", "returned", "failed"} /\ UNCHANGED vars
Abandoned == pc = "streaming" /\ held # <<>> /\ ~reading /\ UNCHANGED vars

Next == Send \/ makeRequestFails \/ Complete \/ Stream
        \/ Cancel \/ StopReading \/ Done \/ Abandoned

Spec == Init /\ [][Next]_vars

-----------------------------------------------------------------------------
(* Properties. *)

\* convertMessages of every client: the conversation is asked in its order,
\* with no message twice and none of the user's or the agent's left out, and
\* what the user said is never put in the model's mouth.
ConversationAsked ==
    pc = "sent" =>
      LET asked == [j \in DOMAIN request.turns |-> request.turns[j].of]
      IN /\ \A j, k \in DOMAIN asked : j < k => asked[j] < asked[k]
         /\ \A i \in DOMAIN messages : messages[i] # "system" => i \in Range(asked)
         /\ \A j \in DOMAIN asked : messages[asked[j]] = "user" => request.turns[j].role = "user"
         /\ systems(messages) # <<>> => request.system # <<>> \/ Last(systems(messages)) \in Range(asked)

\* UsageFromMessage reads from every client's answer what the service counted,
\* under either naming, or nothing when the service counted nothing.
UsageIsCounted ==
    pc = "returned" /\ answer.usage # NoUsage =>
      UsageFromMessage(answer.usage) =
        [prompt |-> answer.of.prompt, completion |-> answer.of.completion,
         total |-> answer.of.prompt + answer.of.completion]

sentTexts == SelectSeq([j \in DOMAIN chunks |-> chunks[j].of],
                       LAMBDA n : n # 0 /\ body[n] = "text")
failed == \E j \in DOMAIN chunks : chunks[j].error

\* Stream's goroutines: the consumer gets the texts of the reply in order and
\* none twice; an error is the last thing it gets; and a stream that closes
\* without one has given every text that came before the service's end mark
\* (Ollama's drops what follows a failed decode, and what a done context
\* cuts off, without a word).
StreamIsReply ==
    /\ IsPrefix(sentTexts, texts(body))
    /\ \A j \in DOMAIN chunks : chunks[j].error => j = Len(chunks) /\ pc = "closed"
    /\ pc = "closed" /\ ~failed /\ ~(provider = "ollama" /\ (cancelled \/ ending = "error")) =>
         \A n \in DOMAIN body :
           body[n] = "text" => \/ n \in Range(sentTexts)
                               \/ \E k \in 1 .. n : body[k] \in {"done", "garbage"}

=============================================================================
