--------------------------- MODULE JobContractProofs ---------------------------
(***************************************************************************)
(* What the fields of a job keep on their way, for any callers and for     *)
(* requests and callbacks with any number of unusual fields.               *)
(***************************************************************************)
EXTENDS JobContract, TLAPS

(* What a request asks for, once the tools and the DTO are through.        *)
WorkAt(v, r, u) == Normalized(CreateJobDto(SubmitBody(v, r, u)))
Work(v, r) == WorkAt(v, r, "ours")

Via == {"http", "dispatch", "plugin"}

-----------------------------------------------------------------------------
(* Types.                                                                  *)

LEMMA CallerHasType == \A c \in Callers : c.via \in Via
BY ContractAssumption DEF CallerType, Via

LEMMA OfferedIsKind == \A f : Offered(f) \subseteq Kind
BY DEF Offered, Kind

LEMMA ChangesTyped ==
    ASSUME NEW S, NEW r \in [S -> Kind]
    PROVE  Changes(r) \subseteq [S -> Kind]
<1>1. ASSUME NEW f \in S, NEW k \in Offered(f)
      PROVE  [r EXCEPT ![f] = k] \in [S -> Kind]
  BY OfferedIsKind
<1> QED
  BY <1>1 DEF Changes

LEMMA RequestsTyped == \A n \in 0 .. MaxOdd : Requests[n] \subseteq [Field -> Kind]
<1>1. PlainRequest \in [Field -> Kind]
  BY DEF PlainRequest, Kind
<1>2. Changes(PlainRequest) \subseteq [Field -> Kind]
  BY <1>1, ChangesTyped
<1>3. \A s \in Changes(PlainRequest) : Changes(s) \subseteq [Field -> Kind]
  BY <1>2, ChangesTyped
<1> QED
  BY <1>3 DEF Requests

LEMMA CallbacksTyped ==
    \A n \in 0 .. MaxOdd : Callbacks[n] \subseteq [CallbackField -> Kind]
<1>1. PlainCallback \in [CallbackField -> Kind]
  BY DEF PlainCallback, Kind
<1>2. Changes(PlainCallback) \subseteq [CallbackField -> Kind]
  BY <1>1, ChangesTyped
<1>3. \A s \in Changes(PlainCallback) : Changes(s) \subseteq [CallbackField -> Kind]
  BY <1>2, ChangesTyped
<1> QED
  BY <1>3 DEF Callbacks

LEMMA BodyAtTyped ==
    ASSUME NEW v \in Via, NEW r \in [Field -> Kind], NEW u \in Url
    PROVE  SubmitBody(v, r, u) \in [Field -> Kind]
BY DEF SubmitBody, Url, Via, Field, Kind

LEMMA BodyTyped ==
    ASSUME NEW v \in Via, NEW r \in [Field -> Kind]
    PROVE  SubmitBody(v, r, "ours") \in [Field -> Kind]
BY BodyAtTyped DEF Url

LEMMA DtoTyped ==
    ASSUME NEW r \in [Field -> Kind]
    PROVE  /\ CreateJobDto(r) \in [Field -> Kind]
           /\ Normalized(r) \in [Field -> Kind]
BY DEF CreateJobDto, Normalized, Field, Kind

LEMMA WorkAtTyped ==
    ASSUME NEW v \in Via, NEW r \in [Field -> Kind], NEW u \in Url
    PROVE  WorkAt(v, r, u) \in [Field -> Kind]
BY BodyAtTyped, DtoTyped DEF WorkAt

LEMMA WorkTyped ==
    ASSUME NEW v \in Via, NEW r \in [Field -> Kind]
    PROVE  Work(v, r) \in [Field -> Kind]
BY WorkAtTyped DEF Work, Url

LEMMA JobTyped ==
    ASSUME NEW r \in [Field -> Kind]
    PROVE  JobOf(r) \in Stored
<1>1. [r EXCEPT !["executionMode"] = Mode(r)] \in [Field -> Kind]
  BY DEF Mode, Field, Kind
<1>2. Fingerprint(r) \in [Field \ {"requestId"} -> Kind]
  BY DEF Fingerprint, Mode, Field, Kind
<1>3. JobOf(r).result \in [ResultField -> Kind]
  BY DEF JobOf, Kind
<1> QED
  BY <1>1, <1>2, <1>3 DEF JobOf, Stored

LEMMA OldJobTyped ==
    ASSUME NEW r \in [Field -> Kind], NEW p \in {None, OldFingerprint(r)}
    PROVE  /\ OldJobOf(r, p) \in Stored
           /\ OldJobOf(r, p).asked = r /\ OldJobOf(r, p).print = p
<1>1. OldFingerprint(r) \in [Field \ {"requestId", "executionMode"} -> Kind]
  BY DEF OldFingerprint, Field, Kind
<1>2. JobOf(r).result \in [ResultField -> Kind] /\ JobOf(r).status = "queued"
  BY DEF JobOf, Kind
<1> QED
  BY <1>1, <1>2 DEF OldJobOf, Stored

LEMMA ParsedTyped ==
    ASSUME NEW j \in Stored
    PROVE  /\ Parsed(j) \in Stored
           /\ Parsed(j).asked["source"] # "legacy"
           /\ Parsed(j).print = j.print /\ Parsed(j).status = j.status
           /\ Parsed(j).result = j.result
           /\ Parsed(Parsed(j)) = Parsed(j)
<1>1. CASE j.asked["source"] # "legacy"
  BY <1>1 DEF Parsed
<1>2. CASE j.asked["source"] = "legacy"
  <2>1. Parsed(j) \in Stored
    BY <1>2 DEF Parsed, Stored, Field, Kind
  <2>2. Parsed(j).asked["source"] = "ours"
    BY <1>2 DEF Parsed, Stored, Field
  <2>3. /\ Parsed(j).print = j.print /\ Parsed(j).status = j.status
        /\ Parsed(j).result = j.result
    BY <1>2 DEF Parsed, Stored
  <2> QED
    BY <2>1, <2>2, <2>3 DEF Parsed
<1> QED
  BY <1>1, <1>2

LEMMA MergedGives ==
    ASSUME NEW s \in [ResultField -> Kind], NEW c \in [CallbackField -> Kind]
    PROVE  LET t == Merged(s, c)
           IN  /\ t \in [ResultField -> Kind]
               /\ t["status"] = c["status"]
               /\ t["exitCode"] = IF c["exitCode"] = "absent" THEN "null"
                                                              ELSE c["exitCode"]
               /\ \A f \in Output :
                     t[f] = IF c[f] \in {"absent", "null"} THEN s[f] ELSE c[f]
               /\ \A f \in ExecField :
                     t[f] = IF c["execution"] # "this" \/ c[f] = "absent" THEN s[f]
                                                                          ELSE c[f]
<1> DEFINE t == Merged(s, c)
<1>1. ResultField \subseteq CallbackField /\ "null" \in Kind
  BY DEF CallbackField, Kind
<1>2. t \in [ResultField -> Kind]
  BY <1>1 DEF Merged
<1>3. t["status"] = c["status"]
  <2>1. "status" \in ResultField
    BY DEF ResultField
  <2> QED
    BY <2>1 DEF Merged, Output
<1>4. t["exitCode"] = IF c["exitCode"] = "absent" THEN "null" ELSE c["exitCode"]
  <2>1. "exitCode" \in ResultField
    BY DEF ResultField
  <2> QED
    BY <2>1 DEF Merged, Output
<1>5. \A f \in Output : t[f] = IF c[f] \in {"absent", "null"} THEN s[f] ELSE c[f]
  <2> SUFFICES ASSUME NEW f \in Output
               PROVE  t[f] = IF c[f] \in {"absent", "null"} THEN s[f] ELSE c[f]
    OBVIOUS
  <2>1. f \in ResultField /\ f # "status" /\ f # "exitCode"
    BY DEF ResultField, Output
  <2> QED
    BY <2>1 DEF Merged
<1>6. \A f \in ExecField :
        t[f] = IF c["execution"] # "this" \/ c[f] = "absent" THEN s[f] ELSE c[f]
  <2> SUFFICES ASSUME NEW f \in ExecField
               PROVE  t[f] = IF c["execution"] # "this" \/ c[f] = "absent" THEN s[f]
                                                                          ELSE c[f]
    OBVIOUS
  <2>1. f \in ResultField /\ f # "status" /\ f # "exitCode" /\ f \notin Output
    BY DEF ResultField, Output, ExecField
  <2> QED
    BY <2>1 DEF Merged
<1> QED
  BY <1>2, <1>3, <1>4, <1>5, <1>6

LEMMA CompletedTyped ==
    ASSUME NEW j \in Stored, NEW c \in [CallbackField -> Kind]
    PROVE  /\ Completed(j, c) \in Stored
           /\ Completed(j, c).asked = j.asked
           /\ Completed(j, c).print = j.print
           /\ Completed(j, c).status = "terminal"
           /\ Completed(j, c).result = Merged(j.result, c)
           /\ j.result \in [ResultField -> Kind]
<1> DEFINE R == Merged(j.result, c)
<1>1. j.result \in [ResultField -> Kind]
  BY DEF Stored
<1>2. R \in [ResultField -> Kind]
  BY <1>1, MergedGives
<1>3. Completed(j, c) = [j EXCEPT !.status = "terminal", !.result = R]
  BY DEF Completed
<1> HIDE DEF R
<1>4. /\ Completed(j, c) \in Stored
      /\ Completed(j, c).asked = j.asked
      /\ Completed(j, c).print = j.print
      /\ Completed(j, c).status = "terminal"
      /\ Completed(j, c).result = R
  BY <1>2, <1>3 DEF Stored
<1> QED
  BY <1>1, <1>4 DEF R

(* The invariant. First its shape: a job comes after its request, and an   *)
(* exchange after the job.                                                 *)
TypeInv ==
    /\ TypeOK
    /\ first = None => file = None /\ last = None /\ applied = None
    /\ last # None /\ last.to = "notify" =>
          last = [to |-> "notify", asked |-> last.asked, code |-> last.code]

(* Two descriptions of one piece of work.                                  *)
SameWork(a, r) ==
    /\ Mode(a) = Mode(r)
    /\ \A f \in Field \ {"executionMode"} : a[f] = r[f]

(* A file, as it is read, describes the work of a request that is valid.   *)
FromRequest ==
    file # None =>
        /\ RequestValid(SubmitBody(caller.via, first, "ours"))
        /\ CwdAllowed(Work(caller.via, first))
        /\ SameWork(Parsed(file).asked, Work(caller.via, first))

(* A print of this release is that of the file, and no later reading of    *)
(* the file changes what it was made from.                                 *)
Printed ==
    /\ file # None
    /\ file.print \in [Field \ {"requestId"} -> Kind]
    => file.asked["source"] # "legacy" /\ file.print = Fingerprint(file.asked)

(* What a callback gives is in the result.                                 *)
Brings(c, s) ==
    /\ s["status"] = c["status"]
    /\ s["exitCode"] = c["exitCode"] \/ c["exitCode"] = "absent"
    /\ \A f \in Output : s[f] = c[f] \/ c[f] \in {"absent", "null"}
    /\ c["execution"] = "this" => \A f \in ExecField : s[f] = c[f]

(* What a result can be, before the job ends and after.                    *)
ResultKnown ==
    file # None =>
        /\ file.result["exitCode"] # "absent"
        /\ \A f \in Output : file.result[f] \notin {"absent", "null"}
        /\ \A f \in ExecField : file.result[f] # "wrong"
        /\ file.status \in Active =>
              applied = None /\ \A f \in ExecField : file.result[f] = "absent"
        /\ applied # None => Brings(CallbackBody(caller.via, applied), file.result)

ToolFile ==
    caller.via # "http" => ~lost /\ (file # None => IsBridgeJob(Parsed(file)))

-----------------------------------------------------------------------------
(* What the actions do to the job's file.                                  *)

LEMMA ViaTyped == TypeInv => caller.via \in Via
BY CallerHasType DEF TypeInv, TypeOK

LEMMA VariedTyped ==
    ASSUME NEW S, NEW r \in [S -> Kind], NEW given \in Varied(r)
    PROVE  given \in [S -> Kind]
BY ChangesTyped DEF Varied

LEMMA SubmitGives ==
    ASSUME TypeInv, Submit
    PROVE  /\ first = None /\ first' \in [Field -> Kind]
           /\ RequestValid(SubmitBody(caller.via, first', "ours"))
           /\ CwdAllowed(Work(caller.via, first'))
           /\ file' = JobOf(Work(caller.via, first'))
           /\ UNCHANGED <<caller, lost, applied, last>>
<1>1. MaxOdd \in 0 .. MaxOdd
  BY ContractAssumption
<1> QED
  BY <1>1, RequestsTyped DEF Submit, Work, WorkAt

(* The same of an earlier release, which did not rename sources.           *)
OldWork(v, r) == Normalized(SubmitBody(v, r, "ours"))

LEMMA UpgradeGives ==
    ASSUME TypeInv, Upgrade
    PROVE  LET r == OldWork(caller.via, first')
           IN  /\ first = None /\ first' \in [Field -> Kind]
               /\ RequestValid(r) /\ CwdAllowed(r)
               /\ \A f \in Field : r[f] # "null"
               /\ r["executionMode"] = "absent"
               /\ \E p \in {None, OldFingerprint(r)} : file' = OldJobOf(r, p)
               /\ UNCHANGED <<caller, lost, applied, last>>
<1>1. MaxOdd \in 0 .. MaxOdd
  BY ContractAssumption
<1> QED
  BY <1>1, RequestsTyped DEF Upgrade, OldWork

LEMMA OldWorkFits ==
    ASSUME NEW v \in Via, NEW r \in [Field -> Kind]
    PROVE  /\ OldWork(v, r) \in [Field -> Kind]
           /\ CreateJobDto(OldWork(v, r)) = Work(v, r)
<1> DEFINE body == SubmitBody(v, r, "ours")
<1>1. body \in [Field -> Kind]
  BY BodyTyped
<1> HIDE DEF body
<1>2. Normalized(body) \in [Field -> Kind]
  BY <1>1, DtoTyped
<1>3. Normalized(CreateJobDto(body)) = CreateJobDto(Normalized(body))
  <2>1. Normalized(body)["source"] = body["source"]
    BY <1>1 DEF Normalized, Field
  <2>2. CASE body["source"] # "legacy"
    BY <2>1, <2>2 DEF CreateJobDto
  <2>3. CASE body["source"] = "legacy"
    BY <1>1, <2>1, <2>3 DEF CreateJobDto, Normalized, Field
  <2> QED
    BY <2>2, <2>3
<1> QED
  BY <1>2, <1>3 DEF OldWork, Work, WorkAt, body

(* The steps after which the file is as it was, or put aside.              *)
KeepsFile ==
    /\ UNCHANGED <<caller, first, applied>>
    /\ file' = file \/ file' = None

LEMMA ReadingKeeps == AfterReading => file' = file \/ file' = None
BY DEF AfterReading

LEMMA FileKept ==
    ASSUME Resubmit \/ Read \/ Replay \/ Notify \/ Reload \/ UNCHANGED vars
    PROVE  KeepsFile
<1>1. CASE Resubmit
  BY <1>1, ReadingKeeps DEF Resubmit, KeepsFile
<1>2. CASE Read
  BY <1>2, ReadingKeeps DEF Read, KeepsFile
<1>3. CASE Replay
  BY <1>3 DEF Replay, KeepsFile
<1>4. CASE Notify
  BY <1>4 DEF Notify, KeepsFile
<1>5. CASE Reload
  BY <1>5 DEF Reload, KeepsFile
<1>6. CASE UNCHANGED vars
  BY <1>6 DEF vars, KeepsFile
<1> QED
  BY <1>1, <1>2, <1>3, <1>4, <1>5, <1>6

(* The steps that end the job.                                             *)
Ends ==
    /\ Readable
    /\ file.status \in Active
    /\ file' \in Stored
    /\ file'.asked = Parsed(file).asked
    /\ file'.print = file.print
    /\ file'.status = "terminal"
    /\ last' = None
    /\ UNCHANGED <<caller, first, lost>>

LEMMA EndTyped ==
    ASSUME NEW j \in Stored, NEW result \in [ResultField -> Kind]
    PROVE  LET k == [j EXCEPT !.status = "terminal", !.result = result]
           IN  /\ k \in Stored /\ k.asked = j.asked /\ k.print = j.print
               /\ k.status = "terminal" /\ k.result = result
BY DEF Stored

(* What the runner's results and those of a cancelled job have in common.  *)
Ran(result) ==
    /\ result \in [ResultField -> Kind]
    /\ result["exitCode"] # "absent"
    /\ \A f \in Output : result[f] \notin {"absent", "null"}
    /\ \A f \in ExecField : result[f] \notin {"null", "wrong"}
    /\ result["status"] # "null"

LEMMA FinishEnds ==
    ASSUME TypeInv, ResultKnown, Finish
    PROVE  Ends /\ Ran(file'.result) /\ UNCHANGED applied
<1>1. file \in Stored
  BY DEF TypeInv, TypeOK, Finish, Readable
<1>2. Parsed(file) \in Stored /\ Parsed(file).print = file.print
        /\ Parsed(file).result = file.result
  BY <1>1, ParsedTyped
<1>3. PICK result :
        /\ file' = [Parsed(file) EXCEPT !.status = "terminal", !.result = result]
        /\ \/ result = EndedResult(file.result)
           \/ \E out \in {"empty", "this", "long"} : result = RanResult(out)
  BY <1>2 DEF Finish
<1>4. Ran(result)
  <2>1. CASE result = EndedResult(file.result)
    <3>1. file.result \in [ResultField -> Kind]
      BY <1>1 DEF Stored
    <3>2. /\ file.result["exitCode"] # "absent"
          /\ \A f \in Output : file.result[f] \notin {"absent", "null"}
          /\ \A f \in ExecField : file.result[f] = "absent"
      BY DEF ResultKnown, Finish, Readable
    <3> QED
      BY <2>1, <3>1, <3>2 DEF EndedResult, Ran, ResultField, ExecField, Output, Kind
  <2>2. ASSUME NEW out \in {"empty", "this", "long"}, result = RanResult(out)
        PROVE  Ran(result)
    BY <2>2 DEF RanResult, Ran, ResultField, ExecField, Output, Kind
  <2> QED
    BY <1>3, <2>1, <2>2
<1>5. result \in [ResultField -> Kind]
  BY <1>4 DEF Ran
<1>6. /\ file' \in Stored /\ file'.asked = Parsed(file).asked
      /\ file'.print = Parsed(file).print
      /\ file'.status = "terminal" /\ file'.result = result
  BY <1>2, <1>3, <1>5, EndTyped
<1>7. Readable /\ file.status \in Active /\ last' = None
        /\ UNCHANGED <<caller, first, lost, applied>>
  BY DEF Finish
<1> QED
  BY <1>2, <1>4, <1>6, <1>7 DEF Ends

LEMMA CallbackBodyTyped ==
    ASSUME NEW v, NEW c \in [CallbackField -> Kind]
    PROVE  CallbackBody(v, c) \in [CallbackField -> Kind]
BY DEF CallbackBody, Kind

LEMMA CallbackEnds ==
    ASSUME TypeInv, Callback
    PROVE  LET c == CallbackBody(caller.via, applied')
           IN  /\ Ends
               /\ applied' \in [CallbackField -> Kind]
               /\ c \in [CallbackField -> Kind]
               /\ CallbackValid(c)
               /\ file' = Completed(Parsed(file), c)
<1>1. file \in Stored
  BY DEF TypeInv, TypeOK, Callback, Readable
<1>2. Parsed(file) \in Stored /\ Parsed(file).print = file.print
  BY <1>1, ParsedTyped
<1>3. PICK given \in UNION {Callbacks[n] : n \in 0 .. MaxOdd} :
        /\ CallbackValid(CallbackBody(caller.via, given))
        /\ applied' = given
        /\ file' = Completed(Parsed(file), CallbackBody(caller.via, given))
  BY DEF Callback
<1>4. given \in [CallbackField -> Kind]
  BY <1>3, CallbacksTyped
<1> DEFINE c == CallbackBody(caller.via, given)
<1>5. c \in [CallbackField -> Kind]
  BY <1>4, CallbackBodyTyped
<1>6. /\ Completed(Parsed(file), c) \in Stored
      /\ Completed(Parsed(file), c).asked = Parsed(file).asked
      /\ Completed(Parsed(file), c).print = file.print
      /\ Completed(Parsed(file), c).status = "terminal"
  BY <1>2, <1>5, CompletedTyped
<1>7. Readable /\ file.status \in Active /\ last' = None
        /\ UNCHANGED <<caller, first, lost>>
  BY DEF Callback
<1> QED
  BY <1>3, <1>4, <1>5, <1>6, <1>7 DEF Ends

-----------------------------------------------------------------------------
(* Each part of the invariant holds initially and is kept by every step.   *)

LEMMA TypeInit == Init => TypeInv
BY DEF Init, TypeInv, TypeOK

LEMMA LastTyped ==
    ASSUME TypeInv, Resubmit \/ Replay \/ Notify \/ Reload
    PROVE  /\ first # None
           /\ last'.to = "notify" =>
                 last' = [to |-> "notify", asked |-> last'.asked, code |-> last'.code]
<1>1. CASE Resubmit
  <2>1. last'.to # "notify"
    <3>1. PICK given, url, code :
            last' = [to |-> "request", asked |-> given, url |-> url, code |-> code]
      BY <1>1 DEF Resubmit
    <3> QED
      BY <3>1
  <2>2. first # None
    BY <1>1 DEF Resubmit
  <2> QED
    BY <2>1, <2>2
<1>2. CASE Replay
  <2>1. \E given, code : last' = [to |-> "callback", asked |-> given, code |-> code]
    BY <1>2 DEF Replay
  <2>2. first # None
    BY <1>2 DEF Replay, Readable, TypeInv
  <2> QED
    BY <2>1, <2>2
<1>3. CASE Notify
  <2>1. \E given, code : last' = [to |-> "notify", asked |-> given, code |-> code]
    BY <1>3 DEF Notify
  <2>2. first # None
    BY <1>3 DEF Notify, TypeInv
  <2> QED
    BY <2>1, <2>2
<1>4. CASE Reload
  BY <1>4 DEF Reload, TypeInv
<1> QED
  BY <1>1, <1>2, <1>3, <1>4

LEMMA LostTyped ==
    ASSUME lost \in BOOLEAN, Resubmit \/ Read
    PROVE  lost' \in BOOLEAN
<1>1. CASE UNCHANGED lost
  BY <1>1
<1>2. CASE AfterReading
  BY <1>2 DEF AfterReading
<1> QED
  BY <1>1, <1>2 DEF Resubmit, Read

LEMMA TypeStep ==
    ASSUME TypeInv, ResultKnown, [Next]_vars
    PROVE  TypeInv'
<1>1. CASE Submit
  <2>1. /\ first = None /\ first' \in [Field -> Kind]
        /\ file' = JobOf(Work(caller.via, first'))
        /\ UNCHANGED <<caller, lost, applied, last>>
    BY <1>1, SubmitGives
  <2>2. file' \in Stored
    BY <2>1, ViaTyped, WorkTyped, JobTyped
  <2>3. first' # None
    BY <2>1, ContractAssumption
  <2> QED
    BY <2>1, <2>2, <2>3 DEF TypeInv, TypeOK
<1>2. CASE Upgrade
  <2> DEFINE r == OldWork(caller.via, first')
  <2>1. /\ first = None /\ first' \in [Field -> Kind]
        /\ \E p \in {None, OldFingerprint(r)} : file' = OldJobOf(r, p)
        /\ UNCHANGED <<caller, lost, applied, last>>
    BY <1>2, UpgradeGives
  <2>2. r \in [Field -> Kind]
    BY <2>1, ViaTyped, OldWorkFits
  <2>3. file' \in Stored
    BY <2>1, <2>2, OldJobTyped
  <2>4. first' # None
    BY <2>1, ContractAssumption
  <2> QED
    BY <2>1, <2>3, <2>4 DEF TypeInv, TypeOK
<1>3. CASE Finish
  <2>1. Ends /\ UNCHANGED applied
    BY <1>3, FinishEnds
  <2> QED
    BY <2>1 DEF Ends, Readable, TypeInv, TypeOK
<1>4. CASE Callback
  <2>1. Ends /\ applied' \in [CallbackField -> Kind]
    BY <1>4, CallbackEnds
  <2> QED
    BY <2>1 DEF Ends, Readable, TypeInv, TypeOK
<1>5. CASE Resubmit \/ Read \/ Replay \/ Notify \/ Reload \/ UNCHANGED vars
  <2>1. KeepsFile
    BY <1>5, FileKept
  <2>2. lost' \in BOOLEAN
    <3>1. lost \in BOOLEAN
      BY DEF TypeInv, TypeOK
    <3>2. CASE Resubmit \/ Read
      BY <3>1, <3>2, LostTyped
    <3>3. CASE UNCHANGED lost
      BY <3>1, <3>3
    <3> QED
      BY <1>5, <3>2, <3>3 DEF Replay, Notify, Reload, vars
  <2>3. TypeOK'
    BY <2>1, <2>2 DEF KeepsFile, TypeInv, TypeOK
  <2>4. CASE Resubmit \/ Replay \/ Notify \/ Reload
    BY <2>1, <2>3, <2>4, LastTyped DEF KeepsFile, TypeInv
  <2>5. CASE UNCHANGED last
    BY <2>1, <2>3, <2>5 DEF KeepsFile, TypeInv
  <2> QED
    BY <1>5, <2>4, <2>5 DEF Read, vars
<1> QED
  BY <1>1, <1>2, <1>3, <1>4, <1>5 DEF Next

LEMMA ParsedAsked ==
    ASSUME NEW j \in Stored
    PROVE  Parsed(j).asked = CreateJobDto(j.asked)
<1>1. CASE j.asked["source"] # "legacy"
  BY <1>1 DEF Parsed, CreateJobDto
<1>2. CASE j.asked["source"] = "legacy"
  <2>1. j.asked \in [Field -> Kind]
    BY DEF Stored
  <2>2. j.asked["sourceName"] = [j.asked EXCEPT !["source"] = "ours"]["sourceName"]
    BY <2>1 DEF Field
  <2> QED
    BY <1>2, <2>1, <2>2 DEF Parsed, CreateJobDto, Stored, Field
<1> QED
  BY <1>1, <1>2

LEMMA WorkSource ==
    ASSUME NEW v \in Via, NEW r \in [Field -> Kind]
    PROVE  Work(v, r)["source"] # "legacy"
<1> DEFINE body == SubmitBody(v, r, "ours")
<1>1. body \in [Field -> Kind]
  BY BodyTyped
<1> HIDE DEF body
<1>2. CreateJobDto(body) \in [Field -> Kind] /\ CreateJobDto(body)["source"] # "legacy"
  BY <1>1, DtoTyped DEF CreateJobDto, Field
<1>3. Normalized(CreateJobDto(body))["source"] = CreateJobDto(body)["source"]
  BY <1>2 DEF Normalized, Field
<1> QED
  BY <1>2, <1>3 DEF Work, WorkAt, body

(* A job that this release makes of a request.                             *)
LEMMA NewJob ==
    ASSUME NEW r \in [Field -> Kind], r["source"] # "legacy"
    PROVE  /\ JobOf(r) \in Stored
           /\ Parsed(JobOf(r)) = JobOf(r)
           /\ JobOf(r).asked["source"] # "legacy"
           /\ SameWork(JobOf(r).asked, r)
           /\ JobOf(r).print \in {None, Fingerprint(JobOf(r).asked)}
<1> DEFINE a == [r EXCEPT !["executionMode"] = Mode(r)]
<1>1. JobOf(r).asked = a
  BY DEF JobOf
<1>2. /\ a["executionMode"] = Mode(r)
      /\ \A f \in Field \ {"executionMode"} : a[f] = r[f]
  BY DEF Field
<1>3. Mode(a) = Mode(r)
  BY <1>2 DEF Mode
<1>4. SameWork(a, r) /\ a["source"] # "legacy"
  BY <1>2, <1>3 DEF SameWork, Field
<1>5. Fingerprint(a) = Fingerprint(r)
  BY <1>2, <1>3 DEF Fingerprint
<1>6. JobOf(r).print \in {None, Fingerprint(a)}
  BY <1>5 DEF JobOf
<1> QED
  BY <1>1, <1>4, <1>6, JobTyped DEF Parsed

LEMMA OldWorkValid ==
    ASSUME NEW v \in Via, NEW r \in [Field -> Kind],
           RequestValid(OldWork(v, r)), CwdAllowed(OldWork(v, r))
    PROVE  RequestValid(SubmitBody(v, r, "ours")) /\ CwdAllowed(Work(v, r))
<1> DEFINE body == SubmitBody(v, r, "ours")
<1>1. body \in [Field -> Kind]
  BY BodyTyped
<1> HIDE DEF body
<1>2. /\ \A f \in Field \ {"cwd"} : Normalized(body)[f] = body[f]
      /\ body["cwd"] \in Falsy \/ Normalized(body)["cwd"] = body["cwd"]
  BY <1>1 DEF Normalized, Field
<1>3. RequestValid(body)
  BY <1>2 DEF RequestValid, OldWork, body, Falsy, FreeText, Field
<1>4. Work(v, r)["cwd"] = OldWork(v, r)["cwd"]
  <2>1. OldWork(v, r) \in [Field -> Kind]
    BY OldWorkFits
  <2>2. CreateJobDto(OldWork(v, r))["cwd"] = OldWork(v, r)["cwd"]
    BY <2>1 DEF CreateJobDto, Field
  <2> QED
    BY <2>2, OldWorkFits
<1> QED
  BY <1>3, <1>4 DEF CwdAllowed, body

LEMMA EndsAsked ==
    ASSUME TypeInv, Ends
    PROVE  Parsed(file') = file'
<1>1. file \in Stored
  BY DEF TypeInv, TypeOK, Ends, Readable
<1> QED
  BY <1>1, ParsedTyped DEF Ends, Parsed

LEMMA SubmitFromRequest ==
    ASSUME TypeInv, Submit
    PROVE  FromRequest'
<1> DEFINE w == Work(caller.via, first')
<1>1. /\ first' \in [Field -> Kind] /\ caller' = caller
      /\ RequestValid(SubmitBody(caller.via, first', "ours"))
      /\ CwdAllowed(w)
      /\ file' = JobOf(w)
  BY SubmitGives
<1>2. SameWork(Parsed(file').asked, w)
  BY <1>1, ViaTyped, WorkTyped, WorkSource, NewJob
<1> QED
  BY <1>1, <1>2 DEF FromRequest

LEMMA UpgradeFromRequest ==
    ASSUME TypeInv, Upgrade
    PROVE  FromRequest'
<1> DEFINE w == Work(caller.via, first')
           r == OldWork(caller.via, first')
<1>1. /\ first' \in [Field -> Kind] /\ caller' = caller
      /\ RequestValid(r) /\ CwdAllowed(r)
      /\ \E p \in {None, OldFingerprint(r)} : file' = OldJobOf(r, p)
  BY UpgradeGives
<1>2. r \in [Field -> Kind] /\ CreateJobDto(r) = w
  BY <1>1, ViaTyped, OldWorkFits
<1>3. RequestValid(SubmitBody(caller.via, first', "ours")) /\ CwdAllowed(w)
  BY <1>1, ViaTyped, OldWorkValid
<1>4. file' \in Stored /\ file'.asked = r
  <2> HIDE DEF r
  <2>1. PICK p \in {None, OldFingerprint(r)} : file' = OldJobOf(r, p)
    BY <1>1
  <2> QED
    BY <1>2, <2>1, OldJobTyped
<1>5. Parsed(file').asked = w
  BY <1>2, <1>4, ParsedAsked
<1>6. SameWork(w, w)
  BY DEF SameWork
<1> QED
  BY <1>1, <1>3, <1>5, <1>6 DEF FromRequest

LEMMA FromRequestStep ==
    ASSUME TypeInv, ResultKnown, FromRequest, [Next]_vars
    PROVE  FromRequest'
<1>1. CASE Submit
  BY <1>1, SubmitFromRequest
<1>2. CASE Upgrade
  BY <1>2, UpgradeFromRequest
<1>3. CASE Ends
  <2>1. Parsed(file').asked = Parsed(file).asked
    BY <1>3, EndsAsked DEF Ends
  <2> QED
    BY <1>3, <2>1 DEF Ends, Readable, FromRequest
<1>4. CASE KeepsFile
  BY <1>4 DEF KeepsFile, FromRequest
<1> QED
  BY <1>1, <1>2, <1>3, <1>4, FinishEnds, CallbackEnds, FileKept DEF Next

LEMMA PrintedStep ==
    ASSUME TypeInv, ResultKnown, Printed, [Next]_vars
    PROVE  Printed'
<1>1. CASE Submit
  <2>1. first' \in [Field -> Kind] /\ file' = JobOf(Work(caller.via, first'))
    BY <1>1, SubmitGives
  <2>2. file'.asked["source"] # "legacy"
          /\ file'.print \in {None, Fingerprint(file'.asked)}
    BY <2>1, ViaTyped, WorkTyped, WorkSource, NewJob
  <2> QED
    BY <2>2, ContractAssumption DEF Printed
<1>2. CASE Upgrade
  <2> DEFINE r == OldWork(caller.via, first')
  <2>1. \E p \in {None, OldFingerprint(r)} : file' = OldJobOf(r, p)
    BY <1>2, UpgradeGives
  <2>2. file'.print \in {None, OldFingerprint(r)}
    <3> HIDE DEF r
    <3> QED
      BY <2>1 DEF OldJobOf
  <2>3. OldFingerprint(r) \notin [Field \ {"requestId"} -> Kind]
    <3>1. DOMAIN OldFingerprint(r) = Field \ {"requestId", "executionMode"}
      BY DEF OldFingerprint
    <3>2. Field \ {"requestId", "executionMode"} # Field \ {"requestId"}
      BY DEF Field
    <3> QED
      BY <3>1, <3>2
  <2> QED
    BY <2>2, <2>3, ContractAssumption DEF Printed
<1>3. CASE Ends
  <2>1. file \in Stored
    BY <1>3 DEF TypeInv, TypeOK, Ends, Readable
  <2>2. file'.asked["source"] # "legacy"
    BY <1>3, <2>1, ParsedTyped DEF Ends
  <2>3. file.asked["source"] # "legacy" => file'.asked = file.asked
    BY <1>3 DEF Ends, Parsed
  <2> QED
    BY <1>3, <2>2, <2>3 DEF Ends, Readable, Printed
<1>4. CASE KeepsFile
  BY <1>4 DEF KeepsFile, Printed
<1> QED
  BY <1>1, <1>2, <1>3, <1>4, FinishEnds, CallbackEnds, FileKept DEF Next

(* A job has no result but an empty one until it ends.                     *)
LEMMA NewResult ==
    ASSUME NEW r
    PROVE  LET s == JobOf(r).result
           IN  /\ s["exitCode"] = "null"
               /\ \A f \in Output : s[f] = "empty"
               /\ \A f \in ExecField \cup {"status"} : s[f] = "absent"
BY DEF JobOf, ResultField, Output, ExecField

LEMMA CompletedKnown ==
    ASSUME TypeInv, ResultKnown, Callback
    PROVE  LET c == CallbackBody(caller.via, applied')
           IN  /\ file'.result["exitCode"] # "absent"
               /\ \A f \in Output : file'.result[f] \notin {"absent", "null"}
               /\ \A f \in ExecField : file'.result[f] # "wrong"
               /\ Brings(c, file'.result)
<1> DEFINE c == CallbackBody(caller.via, applied')
           s == file.result
           t == file'.result
<1>1. file \in Stored /\ Parsed(file) \in Stored /\ Parsed(file).result = s
  BY ParsedTyped DEF TypeInv, TypeOK, Callback, Readable
<1>2. c \in [CallbackField -> Kind] /\ CallbackValid(c)
        /\ file' = Completed(Parsed(file), c)
  BY CallbackEnds
<1>3. /\ \A f \in Output : s[f] \notin {"absent", "null"}
      /\ \A f \in ExecField : s[f] = "absent"
  BY DEF ResultKnown, Callback, Readable
<1> HIDE DEF c, s
<1>4. t = Merged(s, c) /\ s \in [ResultField -> Kind]
  BY <1>1, <1>2, CompletedTyped
<1>5. /\ t["status"] = c["status"]
      /\ t["exitCode"] = IF c["exitCode"] = "absent" THEN "null" ELSE c["exitCode"]
      /\ \A f \in Output :
            t[f] = IF c[f] \in {"absent", "null"} THEN s[f] ELSE c[f]
      /\ \A f \in ExecField :
            t[f] = IF c["execution"] # "this" \/ c[f] = "absent" THEN s[f] ELSE c[f]
  BY <1>2, <1>4, MergedGives
<1>6. t["exitCode"] # "absent" /\ \A f \in Output : t[f] \notin {"absent", "null"}
  BY <1>3, <1>5
<1>7. \A f \in ExecField : t[f] # "wrong"
  BY <1>2, <1>3, <1>5 DEF CallbackValid
<1>8. Brings(c, t)
  BY <1>3, <1>5 DEF Brings
<1> QED
  BY <1>6, <1>7, <1>8 DEF c

LEMMA ResultKnownStep ==
    ASSUME TypeInv, ResultKnown, [Next]_vars
    PROVE  ResultKnown'
<1>1. CASE Submit
  <2>1. file' = JobOf(Work(caller.via, first')) /\ applied' = None
    BY <1>1, SubmitGives DEF TypeInv
  <2> QED
    BY <2>1, NewResult DEF ResultKnown
<1>2. CASE Upgrade
  <2> DEFINE r == OldWork(caller.via, first')
  <2>1. \E p : file' = OldJobOf(r, p)
    BY <1>2, UpgradeGives
  <2>2. applied' = None
    BY <1>2, UpgradeGives DEF TypeInv
  <2> HIDE DEF r
  <2>3. file'.result = JobOf(r).result
    BY <2>1 DEF OldJobOf
  <2> QED
    BY <2>2, <2>3, NewResult DEF ResultKnown
<1>3. CASE Finish
  <2>1. Ends /\ Ran(file'.result) /\ UNCHANGED applied
    BY <1>3, FinishEnds
  <2>2. applied' = None
    BY <2>1 DEF Ends, Readable, ResultKnown
  <2> QED
    BY <2>1, <2>2 DEF Ends, Ran, Active, ResultKnown
<1>4. CASE Callback
  <2>1. Ends
    BY <1>4, CallbackEnds
  <2> QED
    BY <1>4, <2>1, CompletedKnown DEF Ends, Active, ResultKnown
<1>5. CASE KeepsFile
  BY <1>5 DEF KeepsFile, ResultKnown
<1> QED
  BY <1>1, <1>2, <1>3, <1>4, <1>5, FileKept DEF Next

-----------------------------------------------------------------------------
(* The jobs of the tools.                                                  *)

LEMMA ToolBody ==
    ASSUME NEW v \in Via \ {"http"}, NEW r \in [Field -> Kind],
           RequestValid(SubmitBody(v, r, "ours"))
    PROVE  \A f \in Field : SubmitBody(v, r, "ours")[f] \notin {"null", "wrong"}
<1>1. \A f \in Field \ {"prompt"} : SubmitBody(v, r, "ours")[f] # "null"
  BY DEF SubmitBody, Via, Falsy, Field
<1>2. SubmitBody(v, r, "ours")["prompt"] # "null"
  BY DEF RequestValid, Url, Field, FreeText
<1>3. \A f \in Field : SubmitBody(v, r, "ours")[f] # "wrong"
  BY DEF RequestValid, Url
<1> QED
  BY <1>1, <1>2, <1>3

LEMMA ToolWork ==
    ASSUME NEW v \in Via \ {"http"}, NEW r \in [Field -> Kind],
           RequestValid(SubmitBody(v, r, "ours"))
    PROVE  \A f \in Field : Work(v, r)[f] \notin {"null", "wrong"}
<1> DEFINE body == SubmitBody(v, r, "ours")
<1>1. body \in [Field -> Kind]
  BY BodyTyped
<1>2. \A f \in Field : body[f] \notin {"null", "wrong"}
  BY ToolBody
<1> HIDE DEF body
<1>3. CreateJobDto(body) \in [Field -> Kind]
  BY <1>1, DtoTyped
<1>4. \A f \in Field : CreateJobDto(body)[f] \notin {"null", "wrong"}
  BY <1>1, <1>2 DEF CreateJobDto, Field
<1>5. \A f \in Field : Normalized(CreateJobDto(body))[f] \notin {"null", "wrong"}
  <2> DEFINE d == CreateJobDto(body)
  <2> HIDE DEF d
  <2>1. d \in [Field -> Kind] /\ \A f \in Field : d[f] \notin {"null", "wrong"}
    BY <1>3, <1>4 DEF d
  <2> QED
    BY <2>1 DEF Normalized, Field, d
<1> QED
  BY <1>5 DEF Work, WorkAt, body

LEMMA ToolFileStep ==
    ASSUME TypeInv, ResultKnown, ToolFile, [Next]_vars
    PROVE  ToolFile'
<1> SUFFICES ASSUME caller.via # "http", caller' = caller
             PROVE  ~lost' /\ (file' # None => IsBridgeJob(Parsed(file')))
  BY DEF ToolFile, Next, vars, Submit, Upgrade, Resubmit, Read, Finish, Callback,
         Replay, Notify, Reload
<1>1. ~lost /\ (file # None => IsBridgeJob(Parsed(file)))
  BY DEF ToolFile
<1>2. caller.via \in Via \ {"http"}
  BY ViaTyped
<1>3. CASE Submit
  <2> DEFINE w == Work(caller.via, first')
  <2>1. /\ first' \in [Field -> Kind] /\ file' = JobOf(w) /\ lost' = lost
        /\ RequestValid(SubmitBody(caller.via, first', "ours"))
    BY <1>3, SubmitGives
  <2>2. w \in [Field -> Kind] /\ w["source"] # "legacy"
    BY <1>2, <2>1, WorkTyped, WorkSource
  <2>3. \A f \in Field : w[f] \notin {"null", "wrong"}
    BY <1>2, <2>1, ToolWork
  <2> HIDE DEF w
  <2>4. Parsed(file') = file'
    BY <2>1, <2>2, NewJob
  <2>5. \A f \in Field : JobOf(w).asked[f] \notin {"null", "wrong"}
    BY <2>2, <2>3 DEF JobOf, Mode, Field
  <2>6. \A f \in ResultField \ {"exitCode"} : JobOf(w).result[f] # "null"
    BY DEF JobOf
  <2> QED
    BY <1>1, <2>1, <2>4, <2>5, <2>6 DEF IsBridgeJob
<1>4. CASE Upgrade
  <2> DEFINE r == OldWork(caller.via, first')
             w == Work(caller.via, first')
  <2>1. /\ first' \in [Field -> Kind] /\ lost' = lost
        /\ RequestValid(r) /\ CwdAllowed(r)
        /\ \E p \in {None, OldFingerprint(r)} : file' = OldJobOf(r, p)
    BY <1>4, UpgradeGives
  <2>2. r \in [Field -> Kind] /\ CreateJobDto(r) = w
    BY <1>2, <2>1, OldWorkFits
  <2>3. \A f \in Field : w[f] \notin {"null", "wrong"}
    BY <1>2, <2>1, OldWorkValid, ToolWork
  <2> HIDE DEF r, w
  <2>4. PICK p \in {None, OldFingerprint(r)} : file' = OldJobOf(r, p)
    BY <2>1
  <2>5. file' \in Stored /\ file'.asked = r
    BY <2>2, <2>4, OldJobTyped
  <2>6. Parsed(file').asked = w
    BY <2>2, <2>5, ParsedAsked
  <2>7. \A f \in ResultField \ {"exitCode"} : JobOf(r).result[f] # "null"
    BY DEF JobOf
  <2>8. Parsed(file').result = JobOf(r).result
    BY <2>4, <2>5, ParsedTyped DEF OldJobOf
  <2> QED
    BY <1>1, <2>1, <2>3, <2>6, <2>7, <2>8 DEF IsBridgeJob
<1>5. CASE Finish
  <2>1. Ends /\ Ran(file'.result)
    BY <1>5, FinishEnds
  <2>2. \A f \in ResultField \ {"exitCode"} : file'.result[f] # "null"
    BY <2>1 DEF Ran, ResultField
  <2>3. \A f \in Field : file'.asked[f] \notin {"null", "wrong"}
    BY <1>1, <2>1 DEF Ends, Readable, IsBridgeJob
  <2> QED
    BY <1>1, <2>1, <2>2, <2>3, EndsAsked DEF Ends, IsBridgeJob
<1>6. CASE Callback
  <2> DEFINE c == CallbackBody(caller.via, applied')
  <2>1. Ends /\ c \in [CallbackField -> Kind] /\ CallbackValid(c)
          /\ file' = Completed(Parsed(file), c)
    BY <1>6, CallbackEnds
  <2>2. \A f \in Field : file'.asked[f] \notin {"null", "wrong"}
    BY <1>1, <2>1 DEF Ends, Readable, IsBridgeJob
  <2>3. c["execution"] = "absent"
    BY <1>2 DEF CallbackBody, CallbackField
  <2>4. Parsed(file) \in Stored
          /\ \A f \in ResultField \ {"exitCode"} : Parsed(file).result[f] # "null"
    BY <1>1, <2>1, ParsedTyped DEF Ends, Readable, TypeInv, TypeOK, IsBridgeJob
  <2>5. c["status"] # "null"
    BY <2>1 DEF CallbackValid
  <2> HIDE DEF c
  <2>6. \A f \in ResultField \ {"exitCode"} : file'.result[f] # "null"
    <3> DEFINE t == file'.result
               s == Parsed(file).result
    <3>1. t = Merged(s, c) /\ s \in [ResultField -> Kind]
      BY <2>1, <2>4, CompletedTyped
    <3> HIDE DEF s, t
    <3>2. /\ t["status"] = c["status"]
          /\ \A f \in Output :
                t[f] = IF c[f] \in {"absent", "null"} THEN s[f] ELSE c[f]
          /\ \A f \in ExecField : t[f] = s[f]
      BY <2>1, <2>3, <3>1, MergedGives
    <3>3. \A f \in Output \cup ExecField : s[f] # "null"
      BY <2>4 DEF s, ResultField, Output, ExecField
    <3> QED
      BY <2>5, <3>2, <3>3 DEF t, ResultField
  <2> QED
    BY <1>1, <2>1, <2>2, <2>6, EndsAsked DEF Ends, IsBridgeJob
<1>7. CASE Resubmit \/ Read
  <2>1. CASE AfterReading
    <3>1. file # None => Readable
      BY <1>1 DEF Readable
    <3>2. ~lost'
      BY <1>1, <2>1, <3>1 DEF AfterReading
    <3>3. file' = file \/ file' = None
      BY <2>1, ReadingKeeps
    <3> QED
      BY <1>1, <3>2, <3>3
  <2>2. CASE UNCHANGED <<file, lost>>
    BY <1>1, <2>2
  <2> QED
    BY <1>7, <2>1, <2>2 DEF Resubmit, Read
<1>8. CASE Replay \/ Notify \/ Reload \/ UNCHANGED vars
  BY <1>1, <1>8 DEF Replay, Notify, Reload, vars
<1> QED
  BY <1>3, <1>4, <1>5, <1>6, <1>7, <1>8 DEF Next

-----------------------------------------------------------------------------
(* The answers to requests.                                                *)

(* The steps that leave the last exchange, and that forget it.             *)
Quiet == KeepsFile /\ UNCHANGED last

LEMMA Forgotten ==
    ASSUME TypeInv, ResultKnown, Submit \/ Upgrade \/ Finish \/ Callback
    PROVE  last' = None
<1>1. CASE Submit \/ Upgrade
  BY <1>1, SubmitGives, UpgradeGives DEF TypeInv
<1>2. CASE Finish \/ Callback
  BY <1>2 DEF Finish, Callback
<1> QED
  BY <1>1, <1>2

LEMMA QuietStep == Read \/ UNCHANGED vars => Quiet
BY FileKept DEF Quiet, Read, vars

(* What the answer code to a resubmission of given means.                  *)
Answer(given, u, code) ==
    LET r == WorkAt(caller.via, given, u)
    IN  /\ last' = [to |-> "request", asked |-> given, url |-> u, code |-> code]
        /\ \/ code = "401"
           \/ /\ code = "400"
              /\ \/ ~RequestValid(SubmitBody(caller.via, given, u))
                 \/ ~CwdAllowed(r)
           \/ /\ AfterReading
              /\ \/ code = "another" /\ ~HasRequest(r)
                 \/ /\ code \in {"same", "409"} /\ HasRequest(r)
                    /\ code = "same" <=> FingerprintMatches(Parsed(file), r)

LEMMA ResubmitGives ==
    ASSUME TypeInv, Resubmit
    PROVE  \E given \in [Field -> Kind], u \in Url : \E code : Answer(given, u, code)
<1>1. first \in [Field -> Kind]
  BY DEF Resubmit, TypeInv, TypeOK
<1>2. PICK given \in Varied(first), u \in Url :
        LET body == SubmitBody(caller.via, given, u)
            r    == WorkAt(caller.via, given, u)
            answered(code) ==
                last' = [to |-> "request", asked |-> given, url |-> u, code |-> code]
        IN  \/ answered("401")
            \/ /\ ~RequestValid(body) \/ ~CwdAllowed(r)
               /\ answered("400")
            \/ /\ answered(CASE ~HasRequest(r) -> "another"
                           [] HasRequest(r) /\ FingerprintMatches(Parsed(file), r)
                                -> "same"
                           [] OTHER -> "409")
               /\ AfterReading
  BY DEF Resubmit, WorkAt
<1>3. given \in [Field -> Kind]
  BY <1>1, <1>2, VariedTyped
<1> DEFINE r == WorkAt(caller.via, given, u)
           code == CASE ~HasRequest(r) -> "another"
                     [] HasRequest(r) /\ FingerprintMatches(Parsed(file), r) -> "same"
                     [] OTHER -> "409"
<1>4. \/ code = "another" /\ ~HasRequest(r)
      \/ /\ code \in {"same", "409"} /\ HasRequest(r)
         /\ code = "same" <=> FingerprintMatches(Parsed(file), r)
  OBVIOUS
<1> QED
  BY <1>2, <1>3, <1>4 DEF Answer

LEMMA WorkAtFields ==
    ASSUME NEW v \in Via, NEW r \in [Field -> Kind], NEW u \in Url
    PROVE  LET b == SubmitBody(v, r, u)
               w == WorkAt(v, r, u)
           IN  /\ w["requestId"] = b["requestId"]
               /\ w["source"] = IF b["source"] = "legacy" THEN "ours" ELSE b["source"]
               /\ w["cwd"] = IF b["cwd"] \in Falsy THEN "absent" ELSE b["cwd"]
<1> DEFINE body == SubmitBody(v, r, u)
           d == CreateJobDto(body)
<1>1. body \in [Field -> Kind]
  BY BodyAtTyped
<1> HIDE DEF body
<1>2. /\ d \in [Field -> Kind] /\ d["requestId"] = body["requestId"]
      /\ d["cwd"] = body["cwd"]
      /\ d["source"] = IF body["source"] = "legacy" THEN "ours" ELSE body["source"]
  BY <1>1, DtoTyped DEF CreateJobDto, Field
<1> HIDE DEF d
<1>3. /\ Normalized(d)["requestId"] = d["requestId"]
      /\ Normalized(d)["source"] = d["source"]
      /\ Normalized(d)["cwd"] = IF d["cwd"] \in Falsy THEN "absent" ELSE d["cwd"]
  BY <1>2 DEF Normalized, Field
<1> QED
  BY <1>2, <1>3 DEF WorkAt, d, body

(* The processes of dispatch send the same request, but for its receiver.  *)
LEMMA ElsewhereIsValid ==
    ASSUME NEW v \in Via, NEW r \in [Field -> Kind], NEW u \in Url,
           RequestValid(SubmitBody(v, r, "ours")), CwdAllowed(Work(v, r))
    PROVE  /\ RequestValid(SubmitBody(v, r, u)) /\ CwdAllowed(WorkAt(v, r, u))
           /\ WorkAt(v, r, u)["requestId"] = Work(v, r)["requestId"]
           /\ WorkAt(v, r, u)["source"] = Work(v, r)["source"]
           /\ Work(v, r)["requestId"] = SubmitBody(v, r, "ours")["requestId"]
<1>1. \A f \in Field \ {"notifyUrl"} : SubmitBody(v, r, u)[f]
                                         = SubmitBody(v, r, "ours")[f]
  BY DEF SubmitBody, Via, Field
<1>2. SubmitBody(v, r, u)["notifyUrl"] \in {u, SubmitBody(v, r, "ours")["notifyUrl"]}
  BY DEF SubmitBody, Via, Field
<1>3. RequestValid(SubmitBody(v, r, u))
  BY <1>1, <1>2 DEF RequestValid
<1>4. "ours" \in Url
  BY DEF Url
<1> DEFINE a == SubmitBody(v, r, u)
           b == SubmitBody(v, r, "ours")
<1>5. /\ a["requestId"] = b["requestId"] /\ a["source"] = b["source"]
      /\ a["cwd"] = b["cwd"]
  BY <1>1 DEF Field
<1>6. /\ WorkAt(v, r, u)["requestId"] = a["requestId"]
      /\ WorkAt(v, r, u)["source"] =
            IF a["source"] = "legacy" THEN "ours" ELSE a["source"]
      /\ WorkAt(v, r, u)["cwd"] = IF a["cwd"] \in Falsy THEN "absent" ELSE a["cwd"]
  BY WorkAtFields
<1>7. /\ Work(v, r)["requestId"] = b["requestId"]
      /\ Work(v, r)["source"] = IF b["source"] = "legacy" THEN "ours" ELSE b["source"]
      /\ Work(v, r)["cwd"] = IF b["cwd"] \in Falsy THEN "absent" ELSE b["cwd"]
  BY <1>4, WorkAtFields DEF Work
<1> HIDE DEF a, b
<1>8. CwdAllowed(WorkAt(v, r, u))
  BY <1>5, <1>6, <1>7 DEF CwdAllowed
<1>9. /\ WorkAt(v, r, u)["requestId"] = Work(v, r)["requestId"]
      /\ WorkAt(v, r, u)["source"] = Work(v, r)["source"]
      /\ Work(v, r)["requestId"] = b["requestId"]
  BY <1>5, <1>6, <1>7
<1> QED
  BY <1>3, <1>8, <1>9 DEF b

LEMMA SameWorkSameFingerprint ==
    ASSUME NEW a, NEW r, SameWork(a, r)
    PROVE  Fingerprint(a) = Fingerprint(r)
BY DEF SameWork, Fingerprint

LEMMA RetryStep ==
    ASSUME TypeInv, ResultKnown, FromRequest, RetryFindsTheJob, [Next]_vars
    PROVE  RetryFindsTheJob'
<1>1. CASE Resubmit
  <2> DEFINE ours == SubmitBody(caller.via, first, "ours")
  <2> SUFFICES ASSUME file' # None, last'.asked = first, ours["requestId"] \notin Falsy
               PROVE  \/ last'.code \in {"same", "401"}
                      \/ /\ last'.code = "409"
                         /\ SubmitBody(caller.via, first, last'.url) # ours
    BY <1>1, FileKept DEF RetryFindsTheJob, Answered, KeepsFile
  <2>1. first \in [Field -> Kind]
    BY <1>1 DEF Resubmit, TypeInv, TypeOK
  <2>2. file # None
    BY <1>1, FileKept DEF KeepsFile
  <2>3. /\ RequestValid(ours) /\ CwdAllowed(Work(caller.via, first))
        /\ SameWork(Parsed(file).asked, Work(caller.via, first))
    BY <2>2 DEF FromRequest
  <2>4. PICK given \in [Field -> Kind], u \in Url : \E code : Answer(given, u, code)
    BY <1>1, ResubmitGives
  <2>5. PICK code : Answer(given, u, code)
    BY <2>4
  <2>6. given = first /\ last'.code = code /\ last'.url = u
    BY <2>5 DEF Answer
  <2> DEFINE r == WorkAt(caller.via, first, u)
  <2>7. /\ RequestValid(SubmitBody(caller.via, first, u)) /\ CwdAllowed(r)
        /\ r["requestId"] = Work(caller.via, first)["requestId"]
        /\ r["source"] = Work(caller.via, first)["source"]
        /\ r["requestId"] \notin Falsy
    BY <2>1, <2>3, ViaTyped, ElsewhereIsValid
  <2>8. SubmitBody(caller.via, first, u) = ours => r = Work(caller.via, first)
    BY DEF Work, WorkAt
  <2> HIDE DEF r
  <2>9. r = Work(caller.via, first) => FingerprintMatches(Parsed(file), r)
    BY <2>3, SameWorkSameFingerprint DEF FingerprintMatches
  <2>10. AfterReading => HasRequest(r)
    BY <2>3, <2>7 DEF AfterReading, HasRequest, SameWork, Field
  <2>11. \/ code \in {"same", "401"}
         \/ code = "409" /\ ~FingerprintMatches(Parsed(file), r)
    BY <2>5, <2>6, <2>7, <2>10 DEF Answer, r
  <2> HIDE DEF ours
  <2> QED
    BY <2>6, <2>8, <2>9, <2>11
<1>2. CASE Quiet
  BY <1>2 DEF Quiet, KeepsFile, RetryFindsTheJob, Answered
<1>3. CASE last' = None
  BY <1>3 DEF RetryFindsTheJob, Answered
<1>4. CASE Replay \/ Notify \/ Reload
  <2>1. last'.to # "request"
    BY <1>4 DEF Replay, Notify, Reload, TypeInv
  <2> QED
    BY <2>1 DEF RetryFindsTheJob, Answered
<1> QED
  BY <1>1, <1>2, <1>3, <1>4, Forgotten, QuietStep DEF Next

(* The three ways in which a job's print fits a request.                   *)
LEMMA MatchIsSameWork ==
    ASSUME NEW j \in Stored, NEW r \in [Field -> Kind],
           j.asked["requestId"] = r["requestId"],
           j.print \in [Field \ {"requestId"} -> Kind] => j.print = Fingerprint(j.asked),
           FingerprintMatches(j, r)
    PROVE  SameWork(j.asked, r)
<1>1. CASE j.print = Fingerprint(r) \/ Fingerprint(j.asked) = Fingerprint(r)
  <2>1. Fingerprint(r) \in [Field \ {"requestId"} -> Kind]
    BY DEF Fingerprint, Mode, Field, Kind
  <2>2. Fingerprint(j.asked) = Fingerprint(r)
    BY <1>1, <2>1
  <2>3. \A f \in Field \ {"requestId"} : Fingerprint(j.asked)[f] = Fingerprint(r)[f]
    BY <2>2
  <2>4. Mode(j.asked) = Mode(r)
    BY <2>3 DEF Fingerprint, Field
  <2>5. \A f \in Field \ {"requestId", "executionMode"} : j.asked[f] = r[f]
    BY <2>3 DEF Fingerprint
  <2> QED
    BY <2>4, <2>5 DEF SameWork, Field
<1>2. CASE Mode(j.asked) = Mode(r) /\ OldFingerprint(j.asked) = OldFingerprint(r)
  <2>1. \A f \in Field \ {"requestId", "executionMode"} :
          OldFingerprint(j.asked)[f] = OldFingerprint(r)[f]
    BY <1>2
  <2>2. \A f \in Field \ {"requestId", "executionMode"} : j.asked[f] = r[f]
    BY <2>1 DEF OldFingerprint
  <2> QED
    BY <1>2, <2>2 DEF SameWork, Field
<1> QED
  BY <1>1, <1>2 DEF FingerprintMatches

LEMMA SameJobStep ==
    ASSUME TypeInv, ResultKnown, Printed, SameJobSameWork, [Next]_vars
    PROVE  SameJobSameWork'
<1>1. CASE Resubmit
  <2> SUFFICES ASSUME file' # None, last'.code = "same"
               PROVE  SameWork(Parsed(file').asked,
                               WorkAt(caller.via, last'.asked, last'.url))
    BY <1>1, FileKept DEF SameJobSameWork, Answered, KeepsFile, SameWork, WorkAt
  <2>11. PICK given \in [Field -> Kind], u \in Url : \E code : Answer(given, u, code)
    BY <1>1, ResubmitGives
  <2>1. PICK code : Answer(given, u, code)
    BY <2>11
  <2> DEFINE r == WorkAt(caller.via, given, u)
  <2>2. r \in [Field -> Kind]
    BY ViaTyped, WorkAtTyped
  <2>3. last'.asked = given /\ last'.url = u /\ code = "same"
    BY <2>1 DEF Answer
  <2>4. AfterReading /\ HasRequest(r) /\ FingerprintMatches(Parsed(file), r)
    BY <2>1, <2>3 DEF Answer
  <2> HIDE DEF r
  <2>5. file' = file /\ file \in Stored
    BY <2>4 DEF AfterReading, HasRequest, Readable, TypeInv, TypeOK
  <2>6. Parsed(file).asked["requestId"] = r["requestId"]
    BY <2>4 DEF HasRequest
  <2>7. Parsed(file) \in Stored /\ Parsed(file).print = file.print
    BY <2>5, ParsedTyped
  <2>8. file.print \in [Field \ {"requestId"} -> Kind] =>
          Parsed(file).print = Fingerprint(Parsed(file).asked)
    BY <2>4 DEF HasRequest, Readable, Printed, Parsed
  <2>9. SameWork(Parsed(file).asked, r)
    BY <2>2, <2>4, <2>6, <2>7, <2>8, MatchIsSameWork
  <2> QED
    BY <2>3, <2>5, <2>9 DEF r
<1>2. CASE Quiet
  BY <1>2 DEF Quiet, KeepsFile, SameJobSameWork, Answered
<1>3. CASE last' = None
  BY <1>3 DEF SameJobSameWork, Answered
<1>4. CASE Replay \/ Notify \/ Reload
  <2>1. last'.to # "request"
    BY <1>4 DEF Replay, Notify, Reload, TypeInv
  <2> QED
    BY <2>1 DEF SameJobSameWork, Answered
<1> QED
  BY <1>1, <1>2, <1>3, <1>4, Forgotten, QuietStep DEF Next

-----------------------------------------------------------------------------
(* The answers to callbacks.                                               *)

(* What the answer code to a second callback means.                       *)
ReplayAnswer(given, code) ==
    /\ last' = [to |-> "callback", asked |-> given, code |-> code]
    /\ code = "200" <=> IsReplay(Parsed(file), CallbackBody(caller.via, given))
    /\ file.status = "terminal"

LEMMA ReplayGives ==
    ASSUME TypeInv, Replay
    PROVE  \E given \in [CallbackField -> Kind] : \E code : ReplayAnswer(given, code)
<1>1. PlainCallback \in [CallbackField -> Kind]
  BY DEF PlainCallback, Kind
<1> DEFINE base == IF applied = None THEN PlainCallback ELSE applied
<1>2. base \in [CallbackField -> Kind]
  BY <1>1 DEF TypeInv, TypeOK
<1>3. PICK given \in Varied(base) :
        last' = [to |-> "callback", asked |-> given,
                 code |-> IF IsReplay(Parsed(file), CallbackBody(caller.via, given))
                          THEN "200" ELSE "409"]
  BY DEF Replay
<1>4. given \in [CallbackField -> Kind]
  BY <1>2, <1>3, VariedTyped
<1>5. file.status = "terminal"
  BY DEF Replay
<1> QED
  BY <1>3, <1>4, <1>5 DEF ReplayAnswer

(* A callback that the result agrees with would change nothing.            *)
LEMMA ReplayChangesNothing ==
    ASSUME NEW j \in Stored, NEW c \in [CallbackField -> Kind],
           j.result["exitCode"] # "absent", IsReplay(j, c)
    PROVE  Completed(j, c).result = j.result
<1> DEFINE s == j.result
           t == Merged(s, c)
<1>1. s \in [ResultField -> Kind]
  BY DEF Stored
<1>2. s["exitCode"] # "absent"
  OBVIOUS
<1>3. /\ \A f \in ResultField \ ExecField : s[f] = c[f]
      /\ c["execution"] = "this" => \A f \in ExecField : s[f] = c[f]
  BY DEF IsReplay
<1> HIDE DEF s
<1>4. /\ t \in [ResultField -> Kind]
      /\ t["status"] = c["status"]
      /\ t["exitCode"] = IF c["exitCode"] = "absent" THEN "null" ELSE c["exitCode"]
      /\ \A f \in Output :
            t[f] = IF c[f] \in {"absent", "null"} THEN s[f] ELSE c[f]
      /\ \A f \in ExecField :
            t[f] = IF c["execution"] # "this" \/ c[f] = "absent" THEN s[f] ELSE c[f]
  BY <1>1, MergedGives
<1> HIDE DEF t
<1>5. \A f \in {"status", "exitCode"} \cup Output : f \in ResultField \ ExecField
  BY DEF ResultField, Output, ExecField
<1>6. t["status"] = s["status"] /\ t["exitCode"] = s["exitCode"]
  BY <1>2, <1>3, <1>4, <1>5
<1>7. \A f \in Output : t[f] = s[f]
  BY <1>3, <1>4, <1>5
<1>8. \A f \in ExecField : t[f] = s[f]
  BY <1>3, <1>4
<1>9. \A f \in ResultField : t[f] = s[f]
  BY <1>6, <1>7, <1>8 DEF ResultField
<1>10. t = s
  BY <1>1, <1>4, <1>9
<1> QED
  BY <1>10, CompletedTyped DEF s, t

LEMMA ReplayStep ==
    ASSUME TypeInv, ResultKnown, ReplayIsIdempotent, [Next]_vars
    PROVE  ReplayIsIdempotent'
<1>1. CASE Replay
  <2>10. PICK given \in [CallbackField -> Kind] : \E code : ReplayAnswer(given, code)
    BY <1>1, ReplayGives
  <2>1. PICK code : ReplayAnswer(given, code)
    BY <2>10
  <2> DEFINE c == CallbackBody(caller.via, given)
             j == Parsed(file)
  <2>2. UNCHANGED <<caller, first, file, lost, applied>> /\ file # None
    BY <1>1 DEF Replay, Readable
  <2>3. c \in [CallbackField -> Kind]
    BY CallbackBodyTyped
  <2>4. file \in Stored /\ j \in Stored /\ j.result = file.result
    BY <2>2, ParsedTyped DEF TypeInv, TypeOK
  <2>5. j.result["exitCode"] # "absent"
    BY <2>2, <2>4 DEF ResultKnown
  <2>6. ASSUME given = applied,
               \A f \in {"stdout", "stderr", "exitCode"} : c[f] # "absent",
               \A f \in Output : c[f] # "null"
        PROVE  IsReplay(j, c)
    <3>1. applied # None
      BY <2>6, ContractAssumption
    <3>2. Brings(c, j.result)
      BY <2>2, <2>4, <2>6, <3>1 DEF ResultKnown
    <3> HIDE DEF c, j
    <3>3. \A f \in ResultField \ ExecField : j.result[f] = c[f]
      BY <2>6, <3>2 DEF Brings, ResultField, ExecField, Output
    <3> QED
      BY <3>2, <3>3 DEF IsReplay, Brings
  <2>7. code = "200" => Completed(j, c).result = j.result
    <3> HIDE DEF c, j
    <3>1. code = "200" => IsReplay(j, c)
      BY <2>1 DEF ReplayAnswer, c, j
    <3> QED
      BY <2>3, <2>4, <2>5, <3>1, ReplayChangesNothing
  <2>8. last'.asked = given /\ last'.code = code
    BY <2>1 DEF ReplayAnswer
  <2>9. code = "200" <=> IsReplay(j, c)
    BY <2>1 DEF ReplayAnswer
  <2> QED
    BY <2>2, <2>6, <2>7, <2>8, <2>9 DEF ReplayIsIdempotent
<1>2. CASE Quiet
  BY <1>2 DEF Quiet, KeepsFile, ReplayIsIdempotent, Answered
<1>3. CASE last' = None
  BY <1>3 DEF ReplayIsIdempotent, Answered
<1>4. CASE Resubmit
  <2>1. last'.to # "callback"
    BY <1>4, ResubmitGives DEF Answer
  <2> QED
    BY <2>1 DEF ReplayIsIdempotent, Answered
<1>5. CASE Notify \/ Reload
  <2>1. last'.to # "callback"
    BY <1>5 DEF Notify, Reload, TypeInv
  <2> QED
    BY <2>1 DEF ReplayIsIdempotent, Answered
<1> QED
  BY <1>1, <1>2, <1>3, <1>4, <1>5, Forgotten, QuietStep DEF Next

-----------------------------------------------------------------------------
(* The notification.                                                       *)

(* What dispatch keeps of p tells what p tells.                            *)
Tells(kept, p) ==
    /\ kept.result = p.result
    /\ \A f \in Field : \/ kept.asked[f] = p.asked[f]
                        \/ p.asked[f] = "empty" /\ kept.asked[f] = "absent"

(* A record that a notification can carry: what is in a file that can be   *)
(* read, of a request that was valid.                                      *)
Plain(p) ==
    /\ p.result \in [ResultField -> Kind]
    /\ \A f \in Field : p.asked[f] \notin {"null", "wrong", "legacy"}
    /\ \A f \in Output : p.result[f] \notin {"absent", "null"}
    /\ \A f \in ExecField : p.result[f] \notin {"null", "wrong"}

LEMMA NormalizedTells ==
    ASSUME NEW p, NEW kept, Plain(p), Tells(kept, p)
    PROVE  Tells(NormalizeWebhookJob(kept), p)
<1> DEFINE n == NormalizeWebhookJob(kept)
           s == p.result
<1>1. \A f \in Field :
        n.asked[f] = IF kept.asked[f] \in {"empty", "null", "wrong", "legacy"}
                       THEN "absent" ELSE kept.asked[f]
  BY DEF NormalizeWebhookJob
<1>2. \A f \in Field : \/ n.asked[f] = p.asked[f]
                       \/ p.asked[f] = "empty" /\ n.asked[f] = "absent"
  BY <1>1 DEF Tells, Plain
<1>3. n.result =
        [f \in ResultField |->
           CASE f \in Output -> IF s[f] \in {"absent", "null"} THEN "empty" ELSE s[f]
             [] f \in ExecField -> IF s[f] \in {"null", "wrong"} THEN "absent" ELSE s[f]
             [] OTHER -> s[f]]
  BY DEF NormalizeWebhookJob, Tells
<1>4. ASSUME NEW f \in ResultField PROVE n.result[f] = s[f]
  <2>1. CASE f \in Output
    <3>1. f \notin ExecField
      BY <2>1 DEF Output, ExecField
    <3> QED
      BY <1>3, <2>1, <3>1 DEF Plain
  <2>2. CASE f \in ExecField
    <3>1. f \notin Output
      BY <2>2 DEF Output, ExecField
    <3> QED
      BY <1>3, <2>2, <3>1 DEF Plain
  <2>3. CASE f \notin Output \cup ExecField
    BY <1>3, <2>3
  <2> QED
    BY <2>1, <2>2, <2>3
<1>5. n.result = s
  <2>1. s = [f \in ResultField |-> s[f]]
    BY DEF Plain
  <2>2. n.result = [f \in ResultField |-> n.result[f]]
    BY <1>3
  <2> HIDE DEF n, s
  <2> QED
    BY <1>4, <2>1, <2>2
<1> QED
  BY <1>2, <1>5 DEF Tells

LEMMA PostedPlain ==
    ASSUME TypeInv, FromRequest, ResultKnown, Readable
    PROVE  Plain(Posted(Parsed(file)))
<1> DEFINE j == Parsed(file)
           p == Posted(j)
<1>1. file # None /\ file \in Stored
  BY DEF Readable, TypeInv, TypeOK
<1>2. j \in Stored /\ j.asked["source"] # "legacy" /\ j.result = file.result
  BY <1>1, ParsedTyped
<1>3. IsBridgeJob(j)
  BY DEF Readable
<1>4. \A f \in Field : j.asked[f] # "legacy"
  <2> DEFINE body == SubmitBody(caller.via, first, "ours")
             w == Work(caller.via, first)
  <2>1. first \in [Field -> Kind]
    BY <1>1 DEF TypeInv, TypeOK
  <2>2. RequestValid(body) /\ SameWork(j.asked, w)
    BY <1>1 DEF FromRequest
  <2>3. body \in [Field -> Kind] /\ w \in [Field -> Kind]
    BY <2>1, ViaTyped, BodyTyped, WorkTyped
  <2>4. w = Normalized(CreateJobDto(body))
    BY DEF Work, WorkAt
  <2> HIDE DEF body, w
  <2>5. \A f \in Field \ {"source"} : body[f] # "legacy"
    BY <2>2 DEF RequestValid, Url
  <2>6. \A f \in Field : CreateJobDto(body)[f] # "legacy"
    BY <2>3, <2>5 DEF CreateJobDto, Field
  <2>7. \A f \in Field : w[f] # "legacy"
    <3> DEFINE d == CreateJobDto(body)
    <3>1. d \in [Field -> Kind]
      BY <2>3, DtoTyped
    <3>2. \A f \in Field : d[f] # "legacy"
      BY <2>6
    <3>3. w = Normalized(d)
      BY <2>4
    <3> HIDE DEF d
    <3> QED
      BY <3>1, <3>2, <3>3 DEF Normalized, Field
  <2>8. \A f \in Field \ {"executionMode"} : j.asked[f] # "legacy"
    BY <2>2, <2>7 DEF SameWork
  <2>9. j.asked["executionMode"] # "legacy"
    <3>1. Mode(w) # "legacy"
      BY <2>7 DEF Mode, Field
    <3> QED
      BY <2>2, <3>1 DEF SameWork, Mode
  <2> QED
    BY <2>8, <2>9
<1>5. \A f \in Field : j.asked[f] \notin {"null", "wrong", "legacy"}
  BY <1>3, <1>4 DEF IsBridgeJob
<1>6. p.asked = j.asked
  BY DEF Posted
<1>7. /\ p.result \in [ResultField -> Kind]
      /\ \A f \in ResultField : p.result[f] \in {j.result[f], "this"}
  <2> HIDE DEF j
  <2>1. j.result \in [ResultField -> Kind] /\ "this" \in Kind
    BY <1>2 DEF Stored, Kind
  <2> QED
    BY <2>1 DEF Posted
<1>8. \A f \in Output : j.result[f] \notin {"absent", "null"}
  BY <1>1, <1>2 DEF ResultKnown
<1>9. \A f \in ExecField : j.result[f] \notin {"null", "wrong"}
  BY <1>1, <1>2, <1>3 DEF ResultKnown, IsBridgeJob, ResultField, ExecField
<1> HIDE DEF j, p
<1>10. \A f \in Output : p.result[f] \notin {"absent", "null"}
  BY <1>7, <1>8 DEF ResultField
<1>11. \A f \in ExecField : p.result[f] \notin {"null", "wrong"}
  BY <1>7, <1>9 DEF ResultField
<1> QED
  BY <1>5, <1>6, <1>7, <1>10, <1>11 DEF Plain, j, p

LEMMA SameSettingsFit ==
    ASSUME TypeInv, caller.bridge = caller.client
    PROVE  SignatureFits
<1>1. caller.bridge.secret # None \/ caller.bridge.insecure
  BY ContractAssumption DEF TypeInv, TypeOK, CallerType
<1> QED
  BY <1>1 DEF SignatureFits

LEMMA NoticeStep ==
    ASSUME TypeInv, ResultKnown, FromRequest, NoticeTellsTheJob, [Next]_vars
    PROVE  NoticeTellsTheJob'
<1>1. CASE Notify
  <2> SUFFICES ASSUME caller.bridge = caller.client
               PROVE  /\ last'.code # "401"
                      /\ last'.code = "200" /\ Readable =>
                            Tells(last'.asked, Posted(Parsed(file)))
    BY <1>1 DEF Notify, NoticeTellsTheJob, Answered, Tells, Readable
  <2>1. SignatureFits
    BY SameSettingsFit
  <2>2. PICK stored \in BOOLEAN :
          last' = [to    |-> "notify",
                   asked |-> IF SignatureFits /\ stored
                             THEN NormalizeWebhookJob(Posted(Parsed(file))) ELSE None,
                   code  |-> CASE ~SignatureFits           -> "401"
                               [] SignatureFits /\ ~stored -> "503"
                               [] OTHER                    -> "200"]
    BY <1>1 DEF Notify
  <2>3. last'.code = IF stored THEN "200" ELSE "503"
    BY <2>1, <2>2
  <2>4. stored => last'.asked = NormalizeWebhookJob(Posted(Parsed(file)))
    BY <2>1, <2>2
  <2>5. Tells(Posted(Parsed(file)), Posted(Parsed(file)))
    BY DEF Tells
  <2>6. Readable => Tells(NormalizeWebhookJob(Posted(Parsed(file))),
                          Posted(Parsed(file)))
    BY <2>5, PostedPlain, NormalizedTells
  <2> QED
    BY <2>3, <2>4, <2>6
<1>2. CASE Reload
  <2> SUFFICES ASSUME caller.bridge = caller.client, file # None, Readable
               PROVE  Tells(last'.asked, Posted(Parsed(file)))
    BY <1>2 DEF Reload, NoticeTellsTheJob, Answered, Tells, Readable, TypeInv
  <2>1. Tells(last.asked, Posted(Parsed(file)))
    BY <1>2 DEF Reload, NoticeTellsTheJob, Answered, Tells
  <2>2. last'.asked = NormalizeWebhookJob(last.asked)
    BY <1>2 DEF Reload, TypeInv
  <2> QED
    BY <2>1, <2>2, PostedPlain, NormalizedTells
<1>3. CASE Quiet
  BY <1>3 DEF Quiet, KeepsFile, NoticeTellsTheJob, Answered, Readable
<1>4. CASE last' = None
  BY <1>4 DEF NoticeTellsTheJob, Answered
<1>5. CASE Resubmit
  <2>1. last'.to # "notify"
    BY <1>5, ResubmitGives DEF Answer
  <2> QED
    BY <2>1 DEF NoticeTellsTheJob, Answered
<1>6. CASE Replay
  <2>1. last'.to # "notify"
    BY <1>6, ReplayGives DEF ReplayAnswer
  <2> QED
    BY <2>1 DEF NoticeTellsTheJob, Answered
<1> QED
  BY <1>1, <1>2, <1>3, <1>4, <1>5, <1>6, Forgotten, QuietStep DEF Next

-----------------------------------------------------------------------------
(* The theorems.                                                           *)

IInv ==
    /\ TypeInv
    /\ FromRequest
    /\ Printed
    /\ ResultKnown
    /\ ToolFile
    /\ RetryFindsTheJob
    /\ SameJobSameWork
    /\ ReplayIsIdempotent
    /\ NoticeTellsTheJob

(* Whoever calls, and whatever is unusual about the requests and the       *)
(* callbacks: the invariant holds.                                         *)
THEOREM ContractInvariance == Spec => []IInv
<1>1. Init => IInv
  <2> SUFFICES ASSUME Init PROVE IInv
    OBVIOUS
  <2>1. file = None /\ last = None /\ ~lost
    BY DEF Init
  <2>2. FromRequest /\ Printed /\ ResultKnown /\ ToolFile
    BY <2>1 DEF FromRequest, Printed, ResultKnown, ToolFile
  <2>3. /\ RetryFindsTheJob /\ SameJobSameWork
        /\ ReplayIsIdempotent /\ NoticeTellsTheJob
    BY <2>1 DEF RetryFindsTheJob, SameJobSameWork, ReplayIsIdempotent,
                NoticeTellsTheJob, Answered
  <2> QED
    BY <2>2, <2>3, TypeInit DEF IInv
<1>2. IInv /\ [Next]_vars => IInv'
  BY TypeStep, FromRequestStep, PrintedStep, ResultKnownStep, ToolFileStep,
     RetryStep, SameJobStep, ReplayStep, NoticeStep DEF IInv
<1> QED
  BY <1>1, <1>2, PTL DEF Spec

(* The variables have their types.                                         *)
THEOREM ContractTyped == Spec => []TypeOK
<1>1. IInv => TypeOK
  BY DEF IInv, TypeInv
<1> QED
  BY <1>1, ContractInvariance, PTL

(* No job that came in through a tool, with any of its options null, is    *)
(* ever put aside as invalid: the tools' bodies hold no null, and neither  *)
(* do their callbacks' results (job-operations.ts, isBridgeJob).           *)
THEOREM ToolJobsStay == Spec => []ToolJobsAreKept
<1>1. IInv => ToolJobsAreKept
  BY DEF IInv, ToolFile, ToolJobsAreKept
<1> QED
  BY <1>1, ContractInvariance, PTL

(* A request that is sent again unchanged finds its job, in whatever state *)
(* and of whatever release, as long as the file is there                   *)
(* (findRequest, requestFingerprintMatches).                               *)
THEOREM RetriesFindTheJob == Spec => []RetryFindsTheJob
<1>1. IInv => RetryFindsTheJob
  BY DEF IInv
<1> QED
  BY <1>1, ContractInvariance, PTL

(* A request that is answered with an existing job asks for that job's     *)
(* work: no print, of either release, matches anything else.               *)
THEOREM MatchesAreTheSameWork == Spec => []SameJobSameWork
<1>1. IInv => SameJobSameWork
  BY DEF IInv
<1> QED
  BY <1>1, ContractInvariance, PTL

(* A whole callback that is sent again is acknowledged, and whatever is    *)
(* acknowledged would have changed nothing (isEquivalentCallbackReplay     *)
(* against completeJobFromCallback).                                       *)
THEOREM ReplaysChangeNothing == Spec => []ReplayIsIdempotent
<1>1. IInv => ReplayIsIdempotent
  BY DEF IInv
<1> QED
  BY <1>1, ContractInvariance, PTL

(* With the same settings on both sides the webhook takes the notification *)
(* and keeps what the file tells, however often the stored line is read    *)
(* again (normalizeWebhookJob).                                            *)
THEOREM NoticesTellTheJob == Spec => []NoticeTellsTheJob
<1>1. IInv => NoticeTellsTheJob
  BY DEF IInv
<1> QED
  BY <1>1, ContractInvariance, PTL
=============================================================================
