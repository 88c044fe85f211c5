------------------------------ MODULE JobContract ------------------------------
(***************************************************************************)
(* What becomes of the fields of a job on its way: from a caller or one of *)
(* its tools over HTTP through the DTOs into the job's file, back from the *)
(* file through isBridgeJob, through callbacks, and in the notification    *)
(* through omx-dispatch's codec into its store. Five pieces of code decide *)
(* independently what they take for a field's value; a value is abstracted *)
(* to what they tell apart.                                                *)
(***************************************************************************)
EXTENDS Naturals, FiniteSets

CONSTANTS
    None,
    Callers,          \* who may call, with whose secrets: see CallerType
    MaxOdd            \* bound: fields that differ from the plain request

(* "this" and "that" are two values a field may have, "ours" one that the  *)
(* program supplies, "elsewhere" the receiver that another process of      *)
(* dispatch supplies, "legacy" the old name of a source, "long" an output  *)
(* too long to be posted, and "wrong" no such value at all: of another     *)
(* type, not of the enumeration, or above its limit.                       *)
Kind == {"absent", "null", "empty", "this", "that", "ours", "elsewhere", "long",
         "wrong", "legacy"}

Field == {"prompt", "executionMode", "cwd", "requestId", "originRoutingKey",
          "source", "sourceName", "metadata", "notifyUrl"}

ExecField == {"durationMs", "timedOut", "outputTruncated", "errorType"}

Output == {"stdout", "stderr"}

ResultField == {"status", "exitCode"} \cup Output \cup ExecField

CallbackField == ResultField \cup {"execution"}

Active == {"queued", "running"}
Falsy  == {"absent", "null", "empty"}

(* The settings of the bridge, and of the caller or dispatch process. The  *)
(* bridge does not start without a secret unless it is told to be insecure.*)
Setting == [secret : {None, "s1", "s2"}, insecure : BOOLEAN]

CallerType ==
    [via    : {"http", "dispatch", "plugin"},
     bridge : {s \in Setting : s.secret # None \/ s.insecure},
     client : Setting]

ASSUME ContractAssumption ==
    /\ Callers \subseteq CallerType
    /\ MaxOdd \in Nat
    /\ \A S \in {Field, Field \ {"requestId"}, CallbackField} :
          None \notin [S -> Kind]

VARIABLES
    caller,
    first,            \* the request that the job is from
    file,             \* the job's file: what was asked, its print, the result
    lost,             \* the file has been put aside as invalid
    applied,          \* the callback that ended the job
    last              \* the last exchange about the job as it is now: a further
                      \* request, a callback or a notification, and its answer

vars == <<caller, first, file, lost, applied, last>>

PlainRequest == [f \in Field |-> IF f \in {"prompt", "requestId"} THEN "this"
                                                                 ELSE "absent"]
PlainCallback == [f \in CallbackField |->
                    IF f \in ResultField \ ExecField THEN "this" ELSE "absent"]

FreeText == {"cwd", "requestId", "originRoutingKey", "sourceName"}

Offered(f) ==
    {"absent", "null", "this", "that", "wrong"}
        \cup (IF f \in FreeText \cup Output THEN {"empty"} ELSE {})
        \cup (IF f \in Output THEN {"long"} ELSE {})
        \cup (IF f = "source" THEN {"legacy"} ELSE {})

Changes(r) ==
    UNION {{[r EXCEPT ![f] = k] : k \in Offered(f)} : f \in DOMAIN r}

Difference(r, s) == Cardinality({f \in DOMAIN r : r[f] # s[f]})

(* The requests and callbacks with at most n fields other than usual.      *)
Requests ==
    [n \in 0 .. MaxOdd |-> {r \in UNION {Changes(s) : s \in Changes(PlainRequest)} :
                               Difference(r, PlainRequest) <= n}]

Callbacks ==
    [n \in 0 .. MaxOdd |-> {c \in UNION {Changes(d) : d \in Changes(PlainCallback)} :
                               Difference(c, PlainCallback) <= n}]

(* How many have been so until now.                                        *)
Odd == Difference(first, PlainRequest)
         + IF applied = None THEN 0 ELSE Difference(applied, PlainCallback)

(* What differs from it in one field, if that is not too odd.              *)
Varied(r) == IF Odd < MaxOdd THEN Changes(r) ELSE {r}

(* Bound: one exchange in each state of the job, as it leaves the job as   *)
(* it is.                                                                  *)
Unasked == last = None

-----------------------------------------------------------------------------
(* The tools. They leave out what is not given, by a test for truth, or,   *)
(* for a callback, by a test for undefined.                                *)

(* A faulty variant, which passes on whatever is given.                    *)
SubmitBodyAsGiven(v, r, url) == r

(* The URL is what dispatch's own webhook listens on: the port is drawn    *)
(* when its process starts, unless the configuration fixes it.             *)
SubmitBody(v, r, url) ==
    LET given == [f \in Field |->
                    IF f # "prompt" /\ r[f] \in Falsy THEN "absent" ELSE r[f]]
    IN  CASE v = "http"     -> r
          [] v = "dispatch" ->
               [given EXCEPT !["notifyUrl"] =
                  IF r["notifyUrl"] \in {"absent", "null"} THEN url
                                                           ELSE r["notifyUrl"]]
          [] v = "plugin"   -> [given EXCEPT !["source"] = "that"]

Url == {"ours", "elsewhere"}

CallbackBody(v, c) ==
    IF v = "http" THEN c
    ELSE [f \in CallbackField |->
            IF f \in ExecField \cup {"execution"} THEN "absent" ELSE c[f]]

-----------------------------------------------------------------------------
(* The bridge's gates: the guards and the DTOs. IsOptional lets null pass. *)

Admitted ==
    IF caller.bridge.secret = None THEN caller.bridge.insecure
    ELSE caller.client.secret = caller.bridge.secret

(* The token and the callback secret of a process are one secret here.     *)
ApiTokenGuard     == Admitted
CallbackAuthGuard == Admitted

RequestValid(r) ==
    \A f \in Field :
        \/ r[f] \in {"this", "that"} \cup Url
        \/ f # "prompt" /\ r[f] \in {"absent", "null"}
        \/ f = "source" /\ r[f] = "legacy"
        \/ f \in FreeText /\ r[f] = "empty"

(* The transformations of CreateJobDto: 'synapse' is a channel's old name. *)
CreateJobDto(r) ==
    IF r["source"] # "legacy" THEN r
    ELSE [r EXCEPT !["source"] = "ours",
                   !["sourceName"] = IF @ \in {"absent", "null"} THEN "ours"
                                                                 ELSE @]

CallbackValid(c) ==
    /\ c["status"] \in {"this", "that"}
    /\ c["execution"] \in {"absent", "null", "this"}
    /\ \A f \in Output : c[f] # "wrong"
    /\ \A f \in ExecField \cup {"exitCode"} :
          c[f] \in {"absent", "null", "this", "that"}

-----------------------------------------------------------------------------
(* Requests: what is asked, its fingerprint, and the job it already has.   *)

(* resolveAllowedExecutionCwd: "this" is inside the allowed directories.   *)
CwdAllowed(r) == r["cwd"] \in Falsy \cup {"this"}

Normalized(r) == [r EXCEPT !["cwd"] = IF @ \in Falsy THEN "absent" ELSE @]

Mode(r) == IF r["executionMode"] \in {"absent", "null"} THEN "this"
                                                        ELSE r["executionMode"]

(* The fingerprint of an earlier release, which knew no executionMode.     *)
OldFingerprint(r) == [f \in Field \ {"requestId", "executionMode"} |-> r[f]]

(* A faulty variant, which leaves the metadata out.                        *)
FingerprintWithoutMetadata(r) ==
    [f \in Field \ {"requestId", "metadata"} |->
        IF f = "executionMode" THEN Mode(r) ELSE r[f]]

Fingerprint(r) == [f \in Field \ {"requestId"} |->
                IF f = "executionMode" THEN Mode(r) ELSE r[f]]

JobOf(r) ==
    [asked  |-> [r EXCEPT !["executionMode"] = Mode(r)],
     print  |-> IF r["requestId"] \in Falsy THEN None ELSE Fingerprint(r),
     status |-> "queued",
     result |-> [f \in ResultField |->
                    CASE f \in Output -> "empty"
                      [] f = "exitCode"             -> "null"
                      [] OTHER                      -> "absent"]]

(* A job of an earlier release: no executionMode, source as it was given.  *)
OldJobOf(r, print) ==
    [asked |-> r, print |-> print, status |-> "queued", result |-> JobOf(r).result]

(* normalizeLegacyJobSource.                                               *)
Parsed(j) ==
    IF j.asked["source"] # "legacy" THEN j
    ELSE [j EXCEPT !.asked["source"] = "ours",
                   !.asked["sourceName"] = IF @ \in {"absent", "null"} THEN "ours"
                                                                       ELSE @]

(* isBridgeJob: a field is missing or has its type, and null is no type.   *)
IsBridgeJob(j) ==
    /\ \A f \in Field : j.asked[f] \notin {"null", "wrong"}
    /\ \A f \in ResultField \ {"exitCode"} : j.result[f] # "null"

(* Every listing and every lookup puts an invalid file aside.              *)
Readable == file # None /\ IsBridgeJob(Parsed(file))

AfterReading ==
    /\ file' = IF Readable THEN file ELSE None
    /\ lost' = (lost \/ (file # None /\ ~Readable))

(* A faulty variant, which compares with the stored fingerprint only.      *)
FingerprintMatchesStored(j, r) == j.print = Fingerprint(r)

FingerprintMatches(j, r) ==
    \/ j.print = Fingerprint(r)
    \/ Fingerprint(j.asked) = Fingerprint(r)
    \/ /\ Mode(j.asked) = Mode(r)
       /\ j.print \in {None, OldFingerprint(j.asked)}
       /\ OldFingerprint(j.asked) = OldFingerprint(r)

HasRequest(r) ==
    /\ r["requestId"] \notin Falsy
    /\ Readable
    /\ \A f \in {"requestId", "source"} : Parsed(file).asked[f] = r[f]

Init ==
    /\ caller \in Callers
    /\ first = None
    /\ file = None
    /\ lost = FALSE
    /\ applied = None
    /\ last = None

(* POST /jobs, the first of a job; the queue has room.                     *)
Submit ==
    /\ first = None
    /\ \E given \in Requests[MaxOdd] :
        LET r == Normalized(CreateJobDto(SubmitBody(caller.via, given, "ours")))
        IN  /\ ApiTokenGuard
            /\ RequestValid(SubmitBody(caller.via, given, "ours"))
            /\ CwdAllowed(r)
            /\ first' = given
            /\ file' = JobOf(r)
    /\ UNCHANGED <<caller, lost, applied, last>>

(* The job was accepted by an earlier release, and has stayed.             *)
Upgrade ==
    /\ first = None
    /\ \E given \in Requests[MaxOdd] :
        LET r == Normalized(SubmitBody(caller.via, given, "ours"))
        IN  /\ RequestValid(r) /\ CwdAllowed(r)
            /\ \A f \in Field : r[f] # "null"
            /\ r["executionMode"] = "absent"
            /\ first' = given
            /\ \E p \in {None, OldFingerprint(r)} : file' = OldJobOf(r, p)
    /\ UNCHANGED <<caller, lost, applied, last>>

(* POST /jobs again, by the same process or by another one: 202 with the   *)
(* same job or another, 400, 401, or 409.                                  *)
Resubmit ==
    /\ Unasked
    /\ first # None
    /\ \E given \in Varied(first), url \in Url :
        LET body == SubmitBody(caller.via, given, url)
            r    == Normalized(CreateJobDto(body))
            answered(code) ==
                last' = [to |-> "request", asked |-> given, url |-> url, code |-> code]
        IN  /\ \/ ~ApiTokenGuard /\ answered("401") /\ UNCHANGED <<file, lost>>
               \/ /\ ApiTokenGuard
                  /\ ~RequestValid(body) \/ ~CwdAllowed(r)
                  /\ answered("400") /\ UNCHANGED <<file, lost>>
               \/ /\ ApiTokenGuard /\ RequestValid(body) /\ CwdAllowed(r)
                  /\ answered(CASE ~HasRequest(r) -> "another"
                              [] HasRequest(r) /\ FingerprintMatches(Parsed(file), r)
                                   -> "same"
                              [] OTHER -> "409")
                  /\ AfterReading
    /\ UNCHANGED <<caller, first, applied>>

(* The runner, a listing, a lookup or a restart reads the file.            *)
Read ==
    /\ file # None
    /\ AfterReading
    /\ UNCHANGED <<caller, first, applied, last>>

-----------------------------------------------------------------------------
(* Ends.                                                                   *)

(* A result s and what a callback gives.                                   *)
Merged(s, c) ==
    [f \in ResultField |->
        CASE f = "status" -> c[f]
          [] f = "exitCode" -> IF c[f] = "absent" THEN "null" ELSE c[f]
          [] f \in Output -> IF c[f] \in {"absent", "null"} THEN s[f] ELSE c[f]
          [] OTHER -> IF c["execution"] # "this" \/ c[f] = "absent" THEN s[f]
                                                                    ELSE c[f]]

Completed(j, c) ==
    [j EXCEPT !.status = "terminal", !.result = Merged(j.result, c)]

(* A faulty variant, which does not look at execution.                     *)
IsReplayWithoutExecution(j, c) ==
    \A f \in ResultField \ ExecField : j.result[f] = c[f]

(* isEquivalentCallbackReplay. What arrives is an instance of the DTO's    *)
(* class, whose fields are all its own (target ES2022): a field that the   *)
(* caller has left out is compared as well, as undefined.                  *)
IsReplay(j, c) ==
    /\ \A f \in ResultField \ ExecField : j.result[f] = c[f]
    /\ c["execution"] = "this" => \A f \in ExecField : j.result[f] = c[f]

(* The result of a command that has run, by what it printed, and that of a *)
(* job that a request or a restart ended.                                  *)
RanResult(out) ==
    [f \in ResultField |-> CASE f = "stdout"    -> out
                             [] f = "errorType" -> "absent"
                             [] OTHER           -> "this"]

EndedResult(s) ==
    [s EXCEPT !["status"] = "that", !["stderr"] = "ours", !["errorType"] = "that"]

(* The runner ends the job, or a request cancels it.                       *)
Finish ==
    /\ Readable
    /\ file.status \in Active
    /\ \E result \in {EndedResult(Parsed(file).result)}
                        \cup {RanResult(out) : out \in {"empty", "this", "long"}} :
        file' = [Parsed(file) EXCEPT !.status = "terminal", !.result = result]
    /\ UNCHANGED <<caller, first, lost, applied>>
    /\ last' = None

(* POST /jobs/:id/callback, for a job that is active.                      *)
Callback ==
    /\ Readable
    /\ file.status \in Active
    /\ \E n \in 0 .. MaxOdd : Odd + n = MaxOdd /\ \E given \in Callbacks[n] :
        LET c == CallbackBody(caller.via, given)
        IN  /\ CallbackAuthGuard
            /\ CallbackValid(c)
            /\ applied' = given
            /\ file' = Completed(Parsed(file), c)
    /\ UNCHANGED <<caller, first, lost>>
    /\ last' = None

(* The same for a job that has ended: 200 or 409, and the file stays.      *)
Replay ==
    /\ Unasked
    /\ Readable
    /\ file.status = "terminal"
    /\ LET base == IF applied = None THEN PlainCallback ELSE applied
       IN  \E given \in Varied(base) :
              LET c == CallbackBody(caller.via, given)
              IN  /\ CallbackAuthGuard
                  /\ CallbackValid(c)
                  /\ last' = [to    |-> "callback",
                                asked |-> given,
                                code  |-> IF IsReplay(Parsed(file), c) THEN "200"
                                                                       ELSE "409"]
    /\ UNCHANGED <<caller, first, file, lost, applied>>

-----------------------------------------------------------------------------
(* The notification, and what dispatch's webhook makes of it.              *)

(* Only the first part of a long output is posted.                         *)
Posted(j) == [asked  |-> j.asked,
              result |-> [f \in ResultField |->
                            IF f \in Output /\ j.result[f] = "long"
                            THEN "this" ELSE j.result[f]]]

(* A faulty variant, which takes null for a missing exit code.             *)
NormalizeWebhookJobNoNull(p) ==
    [asked  |-> [f \in Field |-> IF p.asked[f] = "empty" THEN "absent" ELSE p.asked[f]],
     result |-> [f \in ResultField |->
                   IF p.result[f] = "null" THEN "absent" ELSE p.result[f]]]

NormalizeWebhookJob(p) ==
    [asked  |-> [f \in Field |->
                   IF p.asked[f] \in {"empty", "null", "wrong", "legacy"}
                   THEN "absent" ELSE p.asked[f]],
     result |-> [f \in ResultField |->
                   CASE f \in Output ->
                          IF p.result[f] \in {"absent", "null"} THEN "empty"
                                                                ELSE p.result[f]
                     [] f \in ExecField ->
                          IF p.result[f] \in {"null", "wrong"} THEN "absent"
                                                               ELSE p.result[f]
                     [] OTHER -> p.result[f]]]

SignatureFits ==
    LET signed == caller.bridge.secret # None
    IN  IF signed THEN caller.client.secret \in {None, caller.bridge.secret}
                  ELSE caller.client.insecure

(* handleNotify; the store may fail, or be slow to take it.                *)
Notify ==
    /\ Unasked
    /\ file # None
    /\ file.status = "terminal"
    /\ \E stored \in BOOLEAN :
        last' = [to    |-> "notify",
                 asked |-> IF SignatureFits /\ stored
                           THEN NormalizeWebhookJob(Posted(Parsed(file))) ELSE None,
                 code  |-> CASE ~SignatureFits             -> "401"
                             [] SignatureFits /\ ~stored -> "503"
                             [] OTHER                      -> "200"]
    /\ UNCHANGED <<caller, first, file, lost, applied>>

(* Another process of dispatch reads the line from the store.              *)
Reload ==
    /\ last # None /\ last.to = "notify" /\ last.code = "200"
    /\ last' = [last EXCEPT !.asked = NormalizeWebhookJob(@)]
    /\ UNCHANGED <<caller, first, file, lost, applied>>

Next ==
    \/ Submit
    \/ Upgrade
    \/ Resubmit
    \/ Read
    \/ Finish
    \/ Callback
    \/ Replay
    \/ Notify
    \/ Reload

Spec == Init /\ [][Next]_vars

-----------------------------------------------------------------------------
(* The variables have their types.                                         *)
Stored == [asked  : [Field -> Kind],
           print  : {None} \cup [Field \ {"requestId"} -> Kind]
                           \cup [Field \ {"requestId", "executionMode"} -> Kind],
           status : {"queued", "terminal"},
           result : [ResultField -> Kind]]

TypeOK ==
    /\ caller \in Callers
    /\ first \in {None} \cup [Field -> Kind]
    /\ file \in {None} \cup Stored
    /\ lost \in BOOLEAN
    /\ applied \in {None} \cup [CallbackField -> Kind]

(* The tools' callers are language models and may give null for any        *)
(* option: a job that came in through a tool, and all its callbacks, keeps *)
(* a file that the bridge can read. ("Existing jobs are never dropped to   *)
(* make room", README; nor for any other reason.)                          *)
ToolJobsAreKept == caller.via # "http" => ~lost

Answered(to) == last # None /\ last.to = to /\ file # None

(* A request sent again unchanged is answered with its job, also when an   *)
(* earlier release accepted it, whatever has happened to the job since; it *)
(* is never answered with another job. Only dispatch's default receiver    *)
(* makes another request of it: from a process that listens elsewhere, the *)
(* answer may be that the two differ.                                      *)
RetryFindsTheJob ==
    /\ Answered("request")
    /\ last.asked = first
    /\ SubmitBody(caller.via, first, "ours")["requestId"] \notin Falsy
    => \/ last.code \in {"same", "401"}
       \/ /\ last.code = "409"
          /\ SubmitBody(caller.via, first, last.url)
               # SubmitBody(caller.via, first, "ours")

(* A request is answered with an existing job only if that job is the work *)
(* it asks for: same prompt, same backend, same directory, same receiver.  *)
SameJobSameWork ==
    Answered("request") /\ last.code = "same" =>
        LET r == Normalized(CreateJobDto(SubmitBody(caller.via, last.asked, last.url)))
            j == Parsed(file)
        IN  /\ \A f \in Field \ {"executionMode"} : j.asked[f] = r[f]
            /\ Mode(j.asked) = Mode(r)

(* A callback that gives the whole result is answered with 200 when it is  *)
(* sent again, and any callback that is answered so would have changed     *)
(* nothing, had it been applied.                                           *)
ReplayIsIdempotent ==
    Answered("callback") =>
        LET c == CallbackBody(caller.via, last.asked)
        IN  /\ /\ last.asked = applied
               /\ \A f \in {"stdout", "stderr", "exitCode"} : c[f] # "absent"
               /\ \A f \in Output : c[f] # "null"
               => last.code = "200"
            /\ last.code = "200" =>
                   Completed(Parsed(file), c).result = Parsed(file).result

(* With the same settings on both sides dispatch takes every notification, *)
(* unless its store fails, and what it keeps tells what the file tells,    *)
(* except for empty names and the rest of a long output.                   *)
NoticeTellsTheJob ==
    Answered("notify") /\ caller.bridge = caller.client =>
        /\ last.code # "401"
        /\ last.code = "200" /\ Readable =>
              LET p == Posted(Parsed(file))
              IN  /\ last.asked.result = p.result
                  /\ \A f \in Field :
                        \/ last.asked.asked[f] = p.asked[f]
                        \/ p.asked[f] = "empty" /\ last.asked.asked[f] = "absent"

-----------------------------------------------------------------------------
(* "Existing jobs are never dropped to make room for new ones", and queued *)
(* and running jobs "are always retained" (README): what was accepted is   *)
(* never put aside as invalid.                                             *)
AcceptedJobsAreKept == ~lost

(* "Exact or omission-normalized replay returns HTTP 200 with the stored   *)
(* job" (docs/routing-contract.md): a callback sent again unchanged, or    *)
(* with fields left out, is answered with 200.                             *)
OmittedReplayIsAnswered ==
    /\ Answered("callback")
    /\ applied # None
    /\ last.asked["status"] = applied["status"]
    /\ \A f \in CallbackField : last.asked[f] \in {applied[f], "absent"}
    => last.code = "200"
=============================================================================
