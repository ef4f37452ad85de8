------------------------------- MODULE Safety -------------------------------
(***************************************************************************)
(* safety/: the audit log, the anomaly detector, and the guards around an  *)
(* agent. Each part has an Init and a Next of its own; a variable that     *)
(* parts have in common by name is declared with the first of them.        *)
(***************************************************************************)
EXTENDS Integers, Sequences, FiniteSets, SequencesExt, FiniteSetsExt

-----------------------------------------------------------------------------
(***************************************************************************)
(* safety/audit.go: the SecurityAuditLogger, which rotates its file, and   *)
(* the global logger that ConfigureAuditLogger replaces while callers may  *)
(* still hold the old one.  A file is known by its inode: a rename moves   *)
(* the name and not the handle.  Every logger writes to the same path.     *)
(***************************************************************************)

CONSTANTS
    Auditors,
    MaxBytes,
    BackupCount,
    MinSeverity,
    Sizes,           \* lengths an event may have
    MaxEvents, MaxLoggers

VARIABLES
    name,            \* inode of the log file (0) and of each backup, 0 when absent
    content,         \* per inode: the events written to it
    handle,          \* per logger: inode of currentFile, 0 for nil
    closed,          \* per logger: currentFile was closed
    currentBytes,    \* per logger
    global,          \* globalAuditLogger
    held,            \* per caller: the logger it was given, 0 for none
    logged,          \* events Log was called with, in order: [size, severity]
    acked,           \* indexes of the events whose Log returned nil
    torn             \* an open failed, or a replaced logger was used

auditVars == <<name, content, handle, closed, currentBytes, global, held, logged, acked, torn>>

Loggers == DOMAIN handle
Names == 0 .. BackupCount
severity(i) == logged[i].severity

AuditTypeOK ==
    /\ name \in [Names -> 0 .. Len(content)] /\ content \in Seq(Seq(1 .. MaxEvents))
    /\ handle \in Seq(0 .. Len(content)) /\ closed \in [Loggers -> BOOLEAN]
    /\ global \in Loggers /\ held \in [Auditors -> 0 .. MaxLoggers]
    /\ acked \subseteq DOMAIN logged /\ torn \in BOOLEAN

\* NewSecurityAuditLogger opens the file, which is created.
AuditInit ==
    /\ name = [n \in Names |-> IF n = 0 THEN 1 ELSE 0] /\ content = <<<<>>>>
    /\ handle = <<1>> /\ closed = <<FALSE>> /\ currentBytes = <<0>> /\ global = 1
    /\ held = [c \in Auditors |-> 0] /\ logged = <<>> /\ acked = {} /\ torn = FALSE

size(events, q) == FoldSeq(LAMBDA i, s : s + q[i].size, 0, events)

\* openLogFile on the names nm: the inode opened, which may be new, or a failure.
openLogFile(nm) ==
    LET file == IF nm[0] = 0 THEN Len(content) + 1 ELSE nm[0]
    IN {[nm |-> [nm EXCEPT ![0] = file], file |-> file], [nm |-> nm, file |-> 0]}

\* Fault: the renames run from the log file on, so that every file overwrites the next.
renamed_Upwards == [n \in Names |-> IF n = BackupCount THEN name[0] ELSE 0]

\* rotateLogFile: from the oldest backup on, every file takes the next name.
renamed ==
    [n \in Names |-> IF n > 0 /\ name[n - 1] # 0 THEN name[n - 1]
                     ELSE IF n < BackupCount THEN 0 ELSE name[n]]

shouldLog(s) == s >= MinSeverity

\* Log, under the logger's lock: the file is rotated when the event would not fit;
\* without a file the event is dropped, and Log returns nil.
Log(c, ev) ==
    LET l == held[c]
        i == Len(logged) + 1
        log == Append(logged, ev)
        rotates == currentBytes[l] + ev.size > MaxBytes
    IN /\ l # 0 /\ Len(logged) < MaxEvents
       /\ logged' = log
       /\ IF ~shouldLog(ev.severity)
          THEN acked' = acked \cup {i} /\ UNCHANGED <<name, content, handle, closed, currentBytes, torn>>
          ELSE \E o \in IF rotates THEN openLogFile(renamed) ELSE {[nm |-> name, file |-> handle[l]]} :
                 LET files == IF o.file > Len(content) THEN Append(content, <<>>) ELSE content
                     shut == closed[l] /\ ~rotates
                     before == IF rotates /\ o.file # 0 THEN size(files[o.file], log)
                               ELSE currentBytes[l]
                     written == o.file # 0 /\ ~shut
                 IN /\ name' = o.nm /\ torn' = (torn \/ l # global \/ o.file = 0)
                    /\ handle' = [handle EXCEPT ![l] = o.file]
                    /\ closed' = [closed EXCEPT ![l] = shut]
                    /\ content' = IF written THEN [files EXCEPT ![o.file] = Append(@, i)] ELSE files
                    /\ currentBytes' = [currentBytes EXCEPT
                                          ![l] = IF written THEN before + ev.size ELSE before]
                    /\ acked' = IF shut THEN acked ELSE acked \cup {i}
       /\ UNCHANGED <<global, held>>

\* The Log functions choose the severity: LogAccess and LogPermissionCheck by their
\* outcome, LogAnomaly a warning, the failures of validation and of agents an error.
LogAccess(granted) == IF granted THEN 0 ELSE 1
LogPermissionCheck(granted) == IF granted THEN 0 ELSE 1
LogAnomaly == 1
LogValidationFailure == 2
LogPromptInjection == 2
LogAgentExecution(status) == IF status = "failed" THEN 2 ELSE 0
severities == {LogAccess(g) : g \in BOOLEAN} \cup {LogPermissionCheck(g) : g \in BOOLEAN}
    \cup {LogAnomaly, LogValidationFailure, LogPromptInjection}
    \cup {LogAgentExecution(s) : s \in {"started", "completed", "failed"}}

GetAuditLogger(c) ==
    /\ held[c] # global
    /\ held' = [held EXCEPT ![c] = global]
    /\ UNCHANGED <<name, content, handle, closed, currentBytes, global, logged, acked, torn>>

\* ConfigureAuditLogger opens the new logger's file before it closes the old one's.
ConfigureAuditLogger ==
    /\ Len(handle) < MaxLoggers
    /\ \E o \in openLogFile(name) :
         IF o.file = 0
         THEN UNCHANGED <<name, content, handle, closed, currentBytes, global>>
         ELSE LET files == IF o.file > Len(content) THEN Append(content, <<>>) ELSE content
              IN /\ name' = o.nm /\ content' = files
                 /\ handle' = Append(handle, o.file)
                 /\ closed' = Append([closed EXCEPT ![global] = (handle[global] # 0)], FALSE)
                 /\ currentBytes' = Append(currentBytes, size(files[o.file], logged))
                 /\ global' = Len(handle) + 1
    /\ UNCHANGED <<held, logged, acked, torn>>

AuditNext ==
    \/ ConfigureAuditLogger
    \/ \E c \in Auditors :
         GetAuditLogger(c)
         \/ \E s \in Sizes, v \in severities : Log(c, [size |-> s, severity |-> v])

AuditSpec == AuditInit /\ [][AuditNext]_auditVars
-----------------------------------------------------------------------------

\* the events in the files that still have a name, from the oldest backup on
trail ==
    LET file(n) == IF name[n] = 0 THEN <<>> ELSE content[name[n]]
    IN FlattenSeq([k \in 1 .. BackupCount + 1 |-> file(BackupCount + 1 - k)])
wanted == SelectSeq([i \in DOMAIN logged |-> i], LAMBDA i : shouldLog(severity(i)))

\* Whatever was logged and when, an event is written at most once, none below the
\* least severity is and none whose Log failed; while every file could be opened and no replaced logger was
\* used, the backups and the log file hold, in order, the latest of the events
\* logged: what is missing went off the end of BackupCount full files.  A file
\* outgrows MaxBytes only when there are no backups or it holds a single event.
TrailComplete ==
    /\ \A f, g \in DOMAIN content : \A i \in DOMAIN content[f], j \in DOMAIN content[g] :
         content[f][i] = content[g][j] => f = g /\ i = j
    /\ \A f \in DOMAIN content : \A i \in DOMAIN content[f] : shouldLog(severity(content[f][i]))
    /\ \A f \in DOMAIN content : Range(content[f]) \subseteq acked
    /\ ~torn =>
         /\ IsSuffix(trail, wanted)
         /\ trail # wanted => \A n \in Names : name[n] # 0
    /\ BackupCount > 0 /\ ~torn => \A f \in DOMAIN content :
         Len(content[f]) > 1 => size(content[f], logged) <= MaxBytes

-----------------------------------------------------------------------------
(***************************************************************************)
(* safety/anomaly_detection.go: AnomalyDetectionMiddleware around an       *)
(* agent, with the detector that its calls share.  Each Detect function    *)
(* holds the detector's lock; between two of them other calls run.  Time   *)
(* is counted in seconds.  The detector never refuses a call: it only      *)
(* reports.  DetectSizeAnomaly, a z-score over floats, is left out.        *)
(***************************************************************************)

CONSTANTS
    Callers,
    User,            \* per caller: the user its middleware speaks for
    Contents,        \* what a message may say
    Minute,          \* the window of requestTimestamps
    MaxRequests,     \* MaxRequestsPerMinute
    MaxBurst,        \* MaxBurstSize
    MinTotal,        \* calls before a failure rate is judged
    Repeat,          \* equal contents that are repetitive
    Keep,            \* contents remembered
    MaxCalls, MaxTime

Users == Range(User)

VARIABLES
    now, pc,
    failed,          \* per caller: the agent returned an error
    requestTimestamps, failureCounts, successCounts, recentContent,
    reported,        \* events reported: [user, event, at]
    calls,           \* per user: when DetectRateAnomaly saw its requests
    said,            \* per user: the contents DetectContentAnomaly saw
    ends             \* per user: how its calls ended

detector == <<requestTimestamps, failureCounts, successCounts, recentContent>>
history == <<calls, said, ends>>
detectorVars == <<now, pc, content, failed, detector, reported, history>>

DetectorInit ==
    /\ now = 0 /\ pc = [c \in Callers |-> "idle"]
    /\ content = [c \in Callers |-> "none"] /\ failed = [c \in Callers |-> FALSE]
    /\ requestTimestamps = [u \in Users |-> <<>>] /\ recentContent = [u \in Users |-> <<>>]
    /\ failureCounts = [u \in Users |-> 0] /\ successCounts = [u \in Users |-> 0]
    /\ reported = [u \in Users |-> {}]
    /\ calls = [u \in Users |-> <<>>] /\ said = [u \in Users |-> <<>>] /\ ends = [u \in Users |-> <<>>]

DetectorTypeOK ==
    /\ now \in 0 .. MaxTime /\ pc \in [Callers -> {"idle", "rate", "content", "agent", "ended"}]
    /\ \A u \in Users : failureCounts[u] + successCounts[u] = Len(ends[u])

to(c, p) == pc' = [pc EXCEPT ![c] = p]
total == FoldSet(LAMBDA u, n : n + Len(calls[u]), 0, Users)
last(q, n) == SubSeq(q, Max({1, Len(q) - n + 1}), Len(q))

\* The latest finding of a Detect function for the user; "none" when it found nothing.
Report(u, detect, event) ==
    reported' = [reported EXCEPT ![u] = {r \in @ : r[1] # detect} \cup {<<detect, event>>}]

Call(c, m) ==
    /\ pc[c] = "idle" /\ total + Cardinality({d \in Callers : pc[d] = "rate"}) < MaxCalls
    /\ content' = [content EXCEPT ![c] = m] /\ to(c, "rate")
    /\ UNCHANGED <<now, failed, detector, reported, history>>

\* Fault: the window is checked before the new request is added.
DetectRateAnomaly_Before(c) ==
    LET u == User[c]
        cleaned == SelectSeq(requestTimestamps[u], LAMBDA t : now - t <= Minute)
        recent == Cardinality({i \in DOMAIN cleaned : now - cleaned[i] < 1})
    IN /\ pc[c] = "rate" /\ to(c, "content")
       /\ requestTimestamps' = [requestTimestamps EXCEPT ![u] = Append(cleaned, now)]
       /\ Report(u, "rate", IF Len(cleaned) > MaxRequests THEN "high_request_rate"
                            ELSE IF recent > MaxBurst THEN "burst_detected" ELSE "none")
       /\ calls' = [calls EXCEPT ![u] = Append(@, now)]
       /\ UNCHANGED <<now, content, failed, failureCounts, successCounts, recentContent,
                      said, ends>>

DetectRateAnomaly(c) ==
    LET u == User[c]
        cleaned == SelectSeq(Append(requestTimestamps[u], now), LAMBDA t : now - t <= Minute)
        recent == Cardinality({i \in DOMAIN cleaned : now - cleaned[i] < 1})
    IN /\ pc[c] = "rate" /\ to(c, "content")
       /\ requestTimestamps' = [requestTimestamps EXCEPT ![u] = cleaned]
       /\ Report(u, "rate", IF Len(cleaned) > MaxRequests THEN "high_request_rate"
                            ELSE IF recent > MaxBurst THEN "burst_detected" ELSE "none")
       /\ calls' = [calls EXCEPT ![u] = Append(@, now)]
       /\ UNCHANGED <<now, content, failed, failureCounts, successCounts, recentContent,
                      said, ends>>

DetectContentAnomaly(c) ==
    LET u == User[c]
        hashes == last(Append(recentContent[u], content[c]), Keep)
        recent == last(hashes, Repeat)
    IN /\ pc[c] = "content" /\ to(c, "agent")
       /\ recentContent' = [recentContent EXCEPT ![u] = hashes]
       /\ Report(u, "content", IF Len(hashes) >= Repeat /\ Cardinality(Range(recent)) = 1
                               THEN "repetitive_content" ELSE "none")
       /\ said' = [said EXCEPT ![u] = Append(@, content[c])]
       /\ UNCHANGED <<now, content, failed, requestTimestamps, failureCounts, successCounts,
                      calls, ends>>

DetectedReturns(c) ==
    /\ pc[c] = "agent" /\ to(c, "ended")
    /\ \E f \in BOOLEAN : failed' = [failed EXCEPT ![c] = f]
    /\ UNCHANGED <<now, content, detector, reported, history>>

\* A failure rate above one half is reported.
DetectFailureAnomaly(c) ==
    LET u == User[c]
        f == failureCounts[u] + (IF failed[c] THEN 1 ELSE 0)
        s == successCounts[u] + (IF failed[c] THEN 0 ELSE 1)
    IN /\ failureCounts' = [failureCounts EXCEPT ![u] = f]
       /\ successCounts' = [successCounts EXCEPT ![u] = s]
       /\ Report(u, "failure", IF f + s >= MinTotal /\ 2 * f > f + s
                               THEN "repeated_failures" ELSE "none")
       /\ ends' = [ends EXCEPT ![u] = Append(@, failed[c])]

CallEnds(c) ==
    /\ pc[c] = "ended" /\ to(c, "idle")
    /\ DetectFailureAnomaly(c)
    /\ content' = [content EXCEPT ![c] = "none"] /\ failed' = [failed EXCEPT ![c] = FALSE]
    /\ UNCHANGED <<now, requestTimestamps, recentContent, calls, said>>

Tick == now < MaxTime /\ now' = now + 1 /\ UNCHANGED <<pc, content, failed, detector, reported, history>>

DetectedStep(c) == DetectRateAnomaly(c) \/ DetectContentAnomaly(c) \/ DetectedReturns(c) \/ CallEnds(c)
DetectorNext == Tick \/ \E c \in Callers : DetectedStep(c) \/ \E m \in Contents : Call(c, m)
DetectorSpec == DetectorInit /\ [][DetectorNext]_detectorVars
-----------------------------------------------------------------------------

\* What the detector last reported of a user follows from the user's own history,
\* whatever other calls ran in between: too many requests in the minute up to the
\* last one, else too many in its second; the same content Repeat times in a row;
\* more failures than successes over all its calls once there are MinTotal of them.
\* The trimmed lists it keeps never lose what these judgements need.
ReportsFollowHistory ==
    \A u \in Users :
      LET within(w) == {i \in DOMAIN calls[u] : Last(calls[u]) - calls[u][i] <= w}
          lastSaid == last(said[u], Repeat)
          f == Cardinality({i \in DOMAIN ends[u] : ends[u][i]})
          told(detect) == \E r \in reported[u] : r[1] = detect /\ r[2] # "none"
      IN /\ calls[u] # <<>> =>
              /\ <<"rate", "high_request_rate">> \in reported[u] <=>
                   Cardinality(within(Minute)) > MaxRequests
              /\ <<"rate", "burst_detected">> \in reported[u] <=>
                   Cardinality(within(Minute)) <= MaxRequests /\ Cardinality(within(0)) > MaxBurst
         /\ told("content") <=> Len(said[u]) >= Repeat /\ Cardinality(Range(lastSaid)) = 1
         /\ told("failure") <=> Len(ends[u]) >= MinTotal /\ 2 * f > Len(ends[u])
         /\ failureCounts[u] = f

-----------------------------------------------------------------------------
(***************************************************************************)
(* safety/: an agent behind PermissionMiddleware,                          *)
(* InputValidationMiddleware and OutputValidationMiddleware, and the       *)
(* redactor applied to structured data.  A message is the set of the words *)
(* it contains and what the detector and the filter find in it; an output  *)
(* is the JSON object it spells, if any, and what the patterns find in it. *)
(***************************************************************************)

CONSTANTS
    Words,           \* sets of words a message may contain
    Threshold,       \* of the PromptInjectionDetector
    Scores,          \* scores it may compute
    Schema,          \* expected fields and their types
    Required,        \* required fields
    AllowAdditional,
    Data             \* nested data given to the redactor

Roles == {"admin", "user", "readonly", "restricted"}
Permissions == {"read:files", "write:files", "delete:files", "execute:commands", "execute:shell",
                "query:database", "write:database", "use:tools"}

RolePermissions ==
    [admin |-> Permissions,
     user |-> {"read:files", "write:files", "execute:commands", "query:database", "use:tools"},
     readonly |-> {"read:files", "query:database", "use:tools"},
     restricted |-> {"read:files", "use:tools"}]

VARIABLES
    role, custom,    \* the role, or the permissions given instead of it
    strict, autoRedact,
    words, score, valid,\* the message: words, detector's score, filter's verdict
    output,          \* [size, json, secret]: what the agent returned
    answer,
    ran              \* times the agent ran

config == <<role, custom, strict, autoRedact, words, score, valid>>
guardsVars == <<config, output, pc, answer, ran>>

Fields == DOMAIN Schema \cup {"extra"}
JsonKinds == {"string", "integer", "fraction", "bool", "absent"}
NoOutput == [big |-> FALSE, json |-> FALSE, fields |-> [f \in Fields |-> "absent"], secret |-> FALSE]
Outputs == {o \in [big : BOOLEAN, json : {TRUE}, fields : [Fields -> JsonKinds], secret : BOOLEAN] :
              o.fields["extra"] \in {"absent", "string"}}
           \cup {[NoOutput EXCEPT !.secret = s] : s \in BOOLEAN}

GuardsInit ==
    /\ role \in Roles /\ custom \in {{"none"}} \cup (IF role = "user" THEN {{}, {"use:tools"}} ELSE {})
    /\ strict \in BOOLEAN /\ autoRedact \in BOOLEAN
    /\ words \in Words /\ score \in Scores /\ valid \in BOOLEAN
    /\ output = NoOutput /\ pc = "permission" /\ answer = "none" /\ ran = 0

GuardsTypeOK ==
    /\ pc \in {"permission", "input", "agent", "output", "done"} /\ ran \in {0, 1}
    /\ answer \in {"none", "denied", "refused", "failed", "invalid", "ok", "redacted"}

-----------------------------------------------------------------------------
(* Permissions. *)

permissions == IF custom = {"none"} THEN RolePermissions[role] ELSE custom
HasPermission(p) == p \in permissions

says(w) == words \cap w # {}

\* Process asks for these, in order.
fileNeeds ==
    IF ~says({"read file", "write file", "delete file"}) THEN <<>>
    ELSE IF says({"delete", "delete file"}) THEN <<"delete:files">>
    ELSE IF says({"write", "write file"}) THEN <<"write:files">> ELSE <<"read:files">>
commandNeeds ==
    IF ~says({"execute", "run command", "shell"}) THEN <<>>
    ELSE IF says({"shell"}) THEN <<"execute:shell">> ELSE <<"execute:commands">>
databaseNeeds ==
    IF says({"insert", "update", "delete", "delete file", "drop", "alter", "create table"})
    THEN <<"write:database">>
    ELSE IF says({"query", "database", "sql", "select", "from"}) THEN <<"query:database">> ELSE <<>>
needs == <<"use:tools">> \o fileNeeds \o commandNeeds \o databaseNeeds

CheckPermission == \A i \in DOMAIN needs : HasPermission(needs[i])

PermissionProcess ==
    /\ pc = "permission"
    /\ IF CheckPermission THEN pc' = "input" /\ UNCHANGED answer
       ELSE pc' = "done" /\ answer' = "denied"
    /\ UNCHANGED <<config, output, ran>>

-----------------------------------------------------------------------------
(* Validation of the input. *)

Detect == score >= Threshold

\* Findings stop a message only when strict; otherwise they are logged.
InputProcess ==
    /\ pc = "input"
    /\ IF strict /\ (Detect \/ ~valid) THEN pc' = "done" /\ answer' = "refused"
       ELSE pc' = "agent" /\ UNCHANGED answer
    /\ UNCHANGED <<config, output, ran>>

AgentReturns ==
    /\ pc = "agent" /\ ran' = ran + 1
    /\ \/ pc' = "done" /\ answer' = "failed" /\ UNCHANGED output
       \/ pc' = "output" /\ output' \in Outputs /\ UNCHANGED answer
    /\ UNCHANGED config

-----------------------------------------------------------------------------
(* Validation of the output. *)

\* encoding/json makes every number a float64.
getTypeName(kind) == CASE kind \in {"integer", "fraction"} -> "float" [] OTHER -> kind

\* Fault: a field of the wrong type passes when it is not required.
Validate_RequiredOnly(o) ==
    \/ Schema = <<>>
    \/ /\ o.json
       /\ \A f \in Required : o.fields[f] # "absent" /\ getTypeName(o.fields[f]) = Schema[f]
       /\ AllowAdditional \/ o.fields["extra"] = "absent"

Validate(o) ==
    \/ Schema = <<>>
    \/ /\ o.json
       /\ \A f \in Required : o.fields[f] # "absent"
       /\ \A f \in DOMAIN Schema : o.fields[f] # "absent" => getTypeName(o.fields[f]) = Schema[f]
       /\ AllowAdditional \/ o.fields["extra"] = "absent"

OutputProcess ==
    /\ pc = "output" /\ pc' = "done"
    /\ answer' = IF output.big \/ ~Validate(output) THEN "invalid"
                 ELSE IF autoRedact /\ output.secret THEN "redacted" ELSE "ok"
    /\ UNCHANGED <<config, output, ran>>

Step == PermissionProcess \/ InputProcess \/ AgentReturns \/ OutputProcess
GuardsNext == Step
GuardsSpec == GuardsInit /\ [][GuardsNext]_guardsVars
-----------------------------------------------------------------------------
(* The redactor on nested data: a leaf <<"text", s>> or <<"number", 0>>, a  *)
(* <<"list", items>>, or a <<"dict", key |-> value>>.                       *)

sensitiveFields == {"password", "token"}
redactString(s) == IF s = "secret" THEN "REDACTED" ELSE s

RECURSIVE Redact(_)
Redact(d) ==
    CASE d[1] = "text" -> <<"text", redactString(d[2])>>
      [] d[1] = "list" -> <<"list", [i \in DOMAIN d[2] |-> Redact(d[2][i])]>>
      [] d[1] = "dict" -> <<"dict", [k \in DOMAIN d[2] |->
                                       IF k \in sensitiveFields THEN <<"text", "REDACTED">>
                                       ELSE Redact(d[2][k])]>>
      [] OTHER -> d

RECURSIVE HasSensitiveData(_)
HasSensitiveData(d) ==
    CASE d[1] = "text" -> d[2] = "secret"
      [] d[1] = "list" -> \E i \in DOMAIN d[2] : HasSensitiveData(d[2][i])
      [] d[1] = "dict" -> \/ DOMAIN d[2] \cap sensitiveFields # {}
                          \/ \E k \in DOMAIN d[2] : HasSensitiveData(d[2][k])
      [] OTHER -> FALSE

\* reference: the leaves, with whether a sensitive key is above them
RECURSIVE leaves(_, _)
leaves(d, under) ==
    CASE d[1] = "list" -> UNION {leaves(d[2][i], under) : i \in DOMAIN d[2]}
      [] d[1] = "dict" -> UNION {leaves(d[2][k], under \/ k \in sensitiveFields) : k \in DOMAIN d[2]}
      [] OTHER -> {<<d, under>>}

-----------------------------------------------------------------------------

\* The agent runs at most once, and only on a message for every part of which its
\* caller holds the permission and that strict validation found nothing in; an
\* output reaches the caller only if it is small enough and fits the schema, and
\* never with a match in it when it is to be redacted.  Redacting leaves no leaf that
\* matches or lies under a sensitive key, keeps the others, and once is enough.
GuardsHold ==
    /\ ran = 1 => CheckPermission /\ (strict => valid /\ score < Threshold)
    /\ answer \in {"ok", "redacted"} =>
         /\ ran = 1 /\ ~output.big
         /\ \A f \in DOMAIN Schema : CASE output.fields[f] = "absent" -> f \notin Required
                                       [] OTHER -> getTypeName(output.fields[f]) = Schema[f]
         /\ answer = "ok" => ~(autoRedact /\ output.secret)
    /\ pc = "permission" => \A d \in Data :
         /\ \A l \in leaves(Redact(d), FALSE) : l[1] # <<"text", "secret">>
                                              /\ (l[2] => l[1] = <<"text", "REDACTED">>)
         /\ Redact(Redact(d)) = Redact(d)
         /\ ~HasSensitiveData(d) => Redact(d) = d
=============================================================================
