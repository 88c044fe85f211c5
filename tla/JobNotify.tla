------------------------------- MODULE JobNotify -------------------------------
(***************************************************************************)
(* What becomes of a job's file once requests, announcements and retention *)
(* meet: createJob finds or makes the file of a request; the end of a job  *)
(* is announced through its channels and recorded in the file by           *)
(* persistOutcome; manual retries and the startup's reconciliation         *)
(* announce again; retention removes files. Every await is a step border.  *)
(*                                                                         *)
(* Who runs jobs, and in which order, is JobRunner's matter: here a job    *)
(* that is active just ends. A listing of the directory reads each file by *)
(* itself, and leaves out those it cannot read.                            *)
(***************************************************************************)
EXTENDS Naturals, FiniteSets, Sequences

CONSTANTS
    Job,               \* ids createJob can draw
    Client,            \* callers of POST /jobs
    Request,           \* source and requestId of a submission
    NoRequest,         \* a submission without a requestId
    Mode,              \* values of NOTIFY_MODE
    PerJob,            \* jobs submitted with a notifyUrl of their own
    Broker,            \* jobs whose routing belongs to a broker
    Configured,        \* channels with an address in the configuration
    MaxActiveJobs,
    MaxTerminalJobs,
    HistoryLimit,      \* 10 in the code
    MaxTries,          \* posts of one webhook: notifyRetryDelaysMs and one
    Faults,            \* what may fail: "list", "read", "save", "cancel"
    MaxEvents          \* bound: submissions, manual retries, failures and
                       \* deaths of the process, all together

Channel == {"webhook", "openclaw", "telegram"}
Who     == {"auto", "manual", "startup"}

ASSUME NotifyAssumption ==
    /\ IsFiniteSet(Job)
    /\ NoRequest \notin Request
    /\ Mode \subseteq {"claude", "openclaw"}
    /\ Configured \subseteq Channel
    /\ MaxActiveJobs \in Nat
    /\ MaxTerminalJobs \in Nat
    /\ HistoryLimit \in Nat \ {0}
    /\ MaxTries \in Nat \ {0}
    /\ Faults \subseteq {"list", "read", "save", "cancel"}
    /\ MaxEvents \in Nat

VARIABLES
    mode,              \* NOTIFY_MODE
    phase,             \* of the process
    exists,            \* the job files
    status,            \* of each job, as in its file
    request,           \* what each job was created for
    ended,             \* how many jobs had ended when each did: finishedAt
    history,           \* notifyHistory; the last one is notifyOutcome
    creating,          \* what each client's createJob is about to save
    createLock,        \* createMutex
    untracked,         \* jobs that ended and are not being announced yet
    notice,            \* notifyJobComplete, for each job and caller
    queue,             \* persistLocks: who waits to record, in their order
    unrecovered,       \* jobs recoverInterruptedJobs has still to look at
    listing,           \* reconcileTerminalNotifications has still to list
    todo,              \* what it has listed and not announced
    doomed,            \* the files cleanup has still to remove
    surplus,           \* those of them that are not too old, but too many
    events,            \* how many of the bounded events there were
    saves,             \* history: outcomes recorded in the job's file
    unseen,            \* history: the jobs of its request whose files the
                       \* search before a job's creation had not before it
    skipped            \* history: announcements this process has given up

files   == <<exists, status, request, ended, history>>
create  == <<creating, createLock>>
notify  == <<untracked, notice, queue>>
startup == <<unrecovered, listing, todo>>
clean   == <<doomed, surplus>>
seen    == <<saves, unseen>>
vars    == <<mode, phase, files, create, notify, startup, clean, events, seen,
             skipped>>

Idle  == [stage |-> "none", pending |-> {}, tries |-> 0, read |-> <<>>]

Notice == [stage   : {"none", "sending", "queued", "saving"},
           pending : SUBSET Channel,
           tries   : 0 .. MaxTries,
           read    : Seq(Nat)]

Smaller(a, b) == IF a <= b THEN a ELSE b

TypeOK ==
    /\ mode \in Mode
    /\ phase \in {"down", "recovering", "cleaning", "sweeping", "serving"}
    /\ exists \subseteq Job
    /\ status \in [Job -> {"new", "active", "terminal"}]
    /\ request \in [Job -> Request \cup {NoRequest}]
    /\ ended \in [Job -> Nat]
    /\ history \in [Job -> Seq(Nat)]
    /\ creating \in [Client -> Request \cup {NoRequest}]
    /\ createLock \subseteq Client
    /\ untracked \subseteq Job
    /\ notice \in [Job -> [Who -> Notice]]
    /\ queue \in [Job -> Seq(Who)]
    /\ unrecovered \cup todo \cup doomed \cup surplus \subseteq Job
    /\ listing \in BOOLEAN
    /\ events \in 0 .. MaxEvents
    /\ skipped \subseteq Job
    /\ unseen \in [Job -> SUBSET Job]
    /\ saves \in [Job -> Nat]

Init ==
    /\ mode \in Mode
    /\ phase = "serving"
    /\ exists = {}
    /\ status = [j \in Job |-> "new"]
    /\ request = [j \in Job |-> NoRequest]
    /\ ended = [j \in Job |-> 0]
    /\ history = [j \in Job |-> <<>>]
    /\ creating = [c \in Client |-> NoRequest]
    /\ createLock = {}
    /\ untracked = {}
    /\ notice = [j \in Job |-> [w \in Who |-> Idle]]
    /\ queue = [j \in Job |-> <<>>]
    /\ unrecovered = {}
    /\ listing = FALSE
    /\ todo = {}
    /\ doomed = {}
    /\ surplus = {}
    /\ events = 0
    /\ saves = [j \in Job |-> 0]
    /\ unseen = [j \in Job |-> {}]
    /\ skipped = {}

(* One of the events whose number is bounded.                              *)
Event == events < MaxEvents /\ events' = events + 1

Fails(f) == f \in Faults /\ Event

Has(s) == {j \in exists : status[j] = s}

(* listAll: files that cannot be read are logged and left out.             *)
Listing(unread) ==
    /\ unread \subseteq exists
    /\ \/ unread = {} /\ UNCHANGED events
       \/ unread # {} /\ Fails("list")

(* Ids that no job has had: which of them is drawn does not matter.        *)
Unused == {j \in Job : status[j] = "new"}
Draw(ids) == CHOOSE j \in ids : TRUE
NextId == Draw(Unused)

-----------------------------------------------------------------------------
(* createJob: the list of all jobs is read, and read again to count the    *)
(* active ones, then the new one is saved, in one turn of createMutex.     *)

Of(r) == {j \in Job : r # NoRequest /\ status[j] # "new" /\ request[j] = r}

(* The last write of a removed file is still to come.                      *)
ComesBack(j) == j \notin exists /\ \E w \in Who : notice[j][w].stage = "saving"

(* A job found is returned as it is, and a full queue refuses: no change.  *)
Finds(c, r) ==
    \E u \in SUBSET exists : \E v \in SUBSET exists :
        /\ u \cup v = {} \/ "list" \in Faults
        /\ Of(r) \cap exists \subseteq u
        /\ Cardinality(Has("active") \ v) < MaxActiveJobs
        /\ creating' = [creating EXCEPT ![c] = r]
        /\ unseen' = [unseen EXCEPT ![NextId] =
                         {j \in Of(r) : j \in exists \/ ComesBack(j)}]

(* A faulty variant, without the mutex.                                    *)
SearchUnlocked(c) ==
    /\ phase = "serving"
    /\ c \notin createLock
    /\ Unused # {}
    /\ Event
    /\ createLock' = createLock \cup {c}
    /\ \E r \in Request \cup {NoRequest} : Finds(c, r)
    /\ UNCHANGED <<mode, phase, files, notify, startup, clean, saves, skipped>>

Search(c) ==
    /\ phase = "serving"
    /\ createLock = {}
    /\ Unused # {}
    /\ Event
    /\ createLock' = {c}
    /\ \E r \in Request \cup {NoRequest} : Finds(c, r)
    /\ UNCHANGED <<mode, phase, files, notify, startup, clean, saves, skipped>>

Create(c) ==
    /\ c \in createLock
    /\ createLock' = createLock \ {c}
    /\ creating' = [creating EXCEPT ![c] = NoRequest]
    /\ \/ /\ Unused # {}
          /\ exists' = exists \cup {NextId}
          /\ status' = [status EXCEPT ![NextId] = "active"]
          /\ request' = [request EXCEPT ![NextId] = creating[c]]
          /\ UNCHANGED events
       \/ /\ Fails("save")
          /\ UNCHANGED <<exists, status, request>>
    /\ UNCHANGED <<mode, phase, ended, history, notify, startup, clean, seen,
                   skipped>>

-----------------------------------------------------------------------------
(* The end of a job: a transition, and the announcement it leads to.       *)

Ends(j) ==
    /\ j \in Has("active")
    /\ status' = [status EXCEPT ![j] = "terminal"]
    /\ ended' = [ended EXCEPT ![j] = 1 + Cardinality({i \in Job : ended[i] > 0})]
    /\ UNCHANGED <<exists, request, history>>

Finish(j) ==
    /\ phase = "serving"
    /\ Ends(j)
    /\ untracked' = untracked \cup {j}
    /\ UNCHANGED <<mode, phase, create, notice, queue, startup, clean, events,
                   seen, skipped>>

(* A channel without an address is skipped: nothing is awaited for it.     *)
HasAddress(j, c) == c \in Configured \/ (c = "webhook" /\ j \in PerJob)

Asked(j) ==
    {c \in IF mode = "claude" THEN {"webhook"} ELSE {"openclaw", "telegram"} :
        HasAddress(j, c)}

(* _maybeSendTelegramFallback, of a webhook that was not accepted.         *)
Fallback(j) ==
    {c \in {"telegram"} \cap Configured : j \notin PerJob \cup Broker}

(* Once no channel is left, persistOutcome waits for its turn.             *)
Pends(j, w, cs, n) ==
    /\ notice' = [notice EXCEPT ![j][w] =
                    [stage   |-> IF cs = {} THEN "queued" ELSE "sending",
                     pending |-> cs, tries |-> n, read |-> <<>>]]
    /\ queue' = IF cs = {} THEN [queue EXCEPT ![j] = Append(@, w)] ELSE queue

Announce(j, w) ==
    /\ notice[j][w] = Idle
    /\ Pends(j, w, IF mode = "claude" /\ Asked(j) = {} THEN Fallback(j)
                   ELSE Asked(j), 0)

(* trackCompletionNotification; cancelJob and completeJobFromCallback do   *)
(* not get to it when the runner's cancel throws.                          *)
Track(j) ==
    /\ j \in untracked
    /\ untracked' = untracked \ {j}
    /\ \/ Announce(j, "auto") /\ UNCHANGED <<events, skipped>>
       \/ /\ Fails("cancel")
          /\ skipped' = skipped \cup {j}
          /\ UNCHANGED <<notice, queue>>
    /\ UNCHANGED <<mode, phase, files, create, startup, clean, seen>>

TriggerNotifyRetry(j) ==
    /\ phase = "serving"
    /\ j \in Has("terminal")
    /\ Event
    /\ Announce(j, "manual")
    /\ UNCHANGED <<mode, phase, files, create, untracked, startup, clean, seen,
                   skipped>>

-----------------------------------------------------------------------------
(* notifyJobComplete, up to persistOutcome.                                *)

Sending(j, w, c) ==
    /\ notice[j][w].stage = "sending"
    /\ c \in notice[j][w].pending
    /\ UNCHANGED <<mode, phase, files, create, untracked, startup, clean,
                   events, seen, skipped>>

(* _notifyClaudeWebhook: one post, which is accepted, or fails (a lost     *)
(* answer among the failures) and is tried again up to MaxTries.           *)
Post(j, w) ==
    LET n == notice[j][w].tries + 1
    IN  /\ Sending(j, w, "webhook")
        /\ \/ Pends(j, w, {}, n)
           \/ n < MaxTries /\ Pends(j, w, {"webhook"}, n)
           \/ n = MaxTries /\ Pends(j, w, Fallback(j), n)

(* _notifyOpenClawHooks and _sendTelegram try once, whatever the answer.   *)
Send(j, w) ==
    \E c \in {"openclaw", "telegram"} :
        /\ Sending(j, w, c)
        /\ Pends(j, w, notice[j][w].pending \ {c}, notice[j][w].tries)

-----------------------------------------------------------------------------
(* persistOutcome, in turn for each job.                                   *)

(* The end of notifyJobComplete, of the first in the queue. Reconciliation *)
(* goes on to its next job.                                                *)
Done(j, w) ==
    /\ notice' = [notice EXCEPT ![j][w] = Idle]
    /\ queue' = [queue EXCEPT ![j] = Tail(@)]
    /\ todo' = IF w = "startup" THEN todo \ {j} ELSE todo
    /\ UNCHANGED <<mode, phase, create, untracked, unrecovered, listing,
                   clean>>

(* A faulty variant, which does not wait for its turn.                     *)
ReadAtOnce(j, w) ==
    /\ notice[j][w].stage = "queued"
    /\ notice' = [notice EXCEPT ![j][w] =
                    [@ EXCEPT !.stage = "saving", !.read = history[j]]]
    /\ UNCHANGED <<mode, phase, files, create, untracked, queue, startup,
                   clean, events, seen, skipped>>

ReadLatest(j, w) ==
    /\ notice[j][w].stage = "queued"
    /\ Head(queue[j]) = w
    /\ \/ /\ j \in exists
          /\ notice' = [notice EXCEPT ![j][w] =
                          [@ EXCEPT !.stage = "saving", !.read = history[j]]]
          /\ UNCHANGED <<mode, phase, files, create, untracked, queue, startup,
                         clean, events, seen, skipped>>
       \/ /\ j \notin exists
          /\ Done(j, w)
          /\ UNCHANGED <<files, seen, skipped, events>>
       \/ /\ Fails("read")
          /\ Done(j, w)
          /\ skipped' = skipped \cup {j}
          /\ UNCHANGED <<files, seen>>

(* An attempt is recorded by its index: the length of the history so far.  *)
Record(h) ==
    LET all == Append(h, Len(h))
    IN  SubSeq(all, Len(all) - Smaller(Len(all), HistoryLimit) + 1, Len(all))

(* The whole job is written: a file removed since it was read is back.     *)
SaveOutcome(j, w) ==
    /\ notice[j][w].stage = "saving"
    /\ Done(j, w)
    /\ \/ /\ exists' = exists \cup {j}
          /\ history' = [history EXCEPT ![j] = Record(notice[j][w].read)]
          /\ saves' = [saves EXCEPT ![j] = @ + 1]
          /\ UNCHANGED <<status, request, ended, unseen, skipped, events>>
       \/ /\ Fails("save")
          /\ skipped' = skipped \cup {j}
          /\ UNCHANGED <<files, seen>>

-----------------------------------------------------------------------------
(* Retention. The files to go are chosen in one listing and removed by     *)
(* their paths, one after the other, without the lock of their jobs.       *)

Newer(j, s) == {i \in s : ended[i] > ended[j]}

(* A faulty variant, which counts the old jobs among those that overflow.  *)
OverflowWithOld(listed, old) ==
    LET young == listed \ old
    IN  {j \in young : Cardinality(Newer(j, young)) + Cardinality(old)
                          >= MaxTerminalJobs}

Overflow(listed, old) ==
    LET young == listed \ old
    IN  {j \in young : Cardinality(Newer(j, young)) >= MaxTerminalJobs}

(* cleanupTerminalJobs. Any of the jobs that ended may be older than       *)
(* jobRetentionDays.                                                       *)
Choose ==
    /\ doomed = {}
    /\ \E unread \in SUBSET exists :
        LET listed == Has("terminal") \ unread
        IN  /\ Listing(unread)
            /\ \E old \in SUBSET listed :
                /\ doomed' = old \cup Overflow(listed, old)
                /\ surplus' = Overflow(listed, old)
    /\ UNCHANGED <<mode, files, create, notify, startup, seen, skipped>>

StartCleanup == phase = "cleaning" /\ Choose /\ phase' = "sweeping"

(* A faulty variant, whose interval goes by age alone.                     *)
CleanUpOld ==
    /\ phase = "serving" /\ doomed = {}
    /\ doomed' \in SUBSET Has("terminal") /\ surplus' = {}
    /\ UNCHANGED <<phase, mode, files, create, notify, startup, events, seen,
                   skipped>>

(* By an interval, one cleanup at a time.                                  *)
CleanUpAgain == phase = "serving" /\ Choose /\ UNCHANGED phase

RemoveFile(j) ==
    /\ j \in doomed
    /\ doomed' = doomed \ {j}
    /\ surplus' = surplus \ {j}
    /\ exists' = exists \ {j}
    /\ UNCHANGED <<mode, phase, status, request, ended, history, create,
                   notify, startup, events, seen, skipped>>

(* A faulty variant, which forgets what was not announced.                 *)
ServeOnly ==
    /\ phase = "sweeping"
    /\ doomed = {}
    /\ phase' = "serving"
    /\ UNCHANGED <<mode, files, create, notify, startup, clean, events, seen,
                   skipped>>

(* After the first cleanup, the bridge serves and reconciles.              *)
Serve ==
    /\ phase = "sweeping"
    /\ doomed = {}
    /\ phase' = "serving"
    /\ listing' = TRUE
    /\ UNCHANGED <<mode, files, create, notify, unrecovered, todo, clean,
                   events, seen, skipped>>

-----------------------------------------------------------------------------
(* The end of a process and the start of the next: onModuleInit.           *)

Crash ==
    /\ phase # "down"
    /\ Event
    /\ phase' = "down"
    /\ creating' = [c \in Client |-> NoRequest]
    /\ createLock' = {}
    /\ untracked' = {}
    /\ notice' = [j \in Job |-> [w \in Who |-> Idle]]
    /\ queue' = [j \in Job |-> <<>>]
    /\ unrecovered' = {}
    /\ listing' = FALSE
    /\ todo' = {}
    /\ doomed' = {}
    /\ surplus' = {}
    /\ skipped' = {}
    /\ UNCHANGED <<mode, files, seen>>

Restart ==
    /\ phase = "down"
    /\ phase' = "recovering"
    /\ unrecovered' = Has("active")
    /\ UNCHANGED <<mode, files, create, notify, listing, todo, clean, events,
                   seen, skipped>>

(* recoverInterruptedJobs: what was queued, or runs on under tmux, stays;  *)
(* a tmux job that has ended is collected and announced; any other job     *)
(* fails, and waits for reconciliation to announce it. A file the listing  *)
(* left out stays as it is.                                                *)
Recover(j) ==
    /\ j \in unrecovered
    /\ unrecovered' = unrecovered \ {j}
    /\ \/ UNCHANGED <<files, untracked>>
       \/ Ends(j) /\ untracked' = untracked \cup {j}
       \/ Ends(j) /\ UNCHANGED untracked
    /\ UNCHANGED <<mode, phase, create, notice, queue, listing, todo, clean,
                   events, seen, skipped>>

EndRecovery ==
    /\ phase = "recovering"
    /\ unrecovered = {}
    /\ phase' = "cleaning"
    /\ UNCHANGED <<mode, files, create, notify, startup, clean, events, seen,
                   skipped>>

Unannounced(j) == history[j] = <<>>

(* reconcileTerminalNotifications runs on its own: a job it lists may be   *)
(* on its way to be announced already.                                     *)
ReconcileList ==
    /\ listing
    /\ listing' = FALSE
    /\ \E unread \in SUBSET exists :
        LET missing == {j \in Has("terminal") : Unannounced(j)}
        IN  /\ Listing(unread)
            /\ todo' = missing \ unread
            /\ skipped' = skipped \cup (missing \cap unread)
    /\ UNCHANGED <<mode, phase, files, create, notify, unrecovered, clean,
                   seen>>

ReconcileNext(j) ==
    /\ j \in todo
    /\ \A i \in Job : notice[i]["startup"] = Idle
    /\ Announce(j, "startup")
    /\ UNCHANGED <<mode, phase, files, create, untracked, startup, clean,
                   events, seen, skipped>>

-----------------------------------------------------------------------------
Proceed(j, w) ==
    \/ Post(j, w)
    \/ Send(j, w)
    \/ ReadLatest(j, w)
    \/ SaveOutcome(j, w)

Work ==
    \/ \E c \in Client : Create(c)
    \/ \E j \in Job :
        \/ Track(j)
        \/ RemoveFile(j)
        \/ Recover(j)
        \/ ReconcileNext(j)
    \/ StartCleanup
    \/ Serve
    \/ Restart
    \/ EndRecovery
    \/ ReconcileList

Next ==
    \/ \E c \in Client : Search(c)
    \/ \E j \in Job :
        \/ Finish(j)
        \/ TriggerNotifyRetry(j)
        \/ \E w \in Who : Proceed(j, w)
    \/ CleanUpAgain
    \/ Crash
    \/ Work

Spec == Init /\ [][Next]_vars

(* The process runs on and is started again (Restart=always), its timers   *)
(* fire and its requests time out. Nobody has to call.                     *)
LiveSpec ==
    /\ Spec
    /\ WF_vars(Work)
    /\ WF_vars(CleanUpAgain /\ surplus' # {})
    /\ \A j \in Job, w \in Who : WF_vars(Proceed(j, w))

-----------------------------------------------------------------------------
(* "Repeating the same source + requestId with the same payload returns    *)
(* the existing job" (README, API notes): no two files are of one request. *)
(* It fails in two ways: the search before the second one's creation could *)
(* not read the first one's file, or that file had been removed and the    *)
(* save of its outcome, already under way, brought it back. A file that is *)
(* read and gone, or removed before its outcome was read, stays gone.      *)
OneFilePerRequest ==
    \A i, j \in exists :
        /\ request[i] = request[j] /\ request[i] # NoRequest
        /\ i \notin unseen[j]
        /\ j \notin unseen[i]
        => i = j

(* persistLocks: outcomes of one job that come at the same time, of a      *)
(* manual retry, of reconciliation and of the job's end, are all in its    *)
(* history, each with its own index as long as it is not full.             *)
HistoryIsComplete ==
    \A j \in exists :
        LET kept == Smaller(saves[j], HistoryLimit)
        IN  history[j] = [i \in 1 .. kept |->
                            Smaller(saves[j] - kept + i - 1, HistoryLimit)]

(* Retention by number removes a job only when as many newer ones as it    *)
(* may keep are there, whatever ended or came back since it listed them.   *)
NewestAreKept ==
    [][\A j \in Job :
          RemoveFile(j) /\ j \in exists \cap surplus =>
              Cardinality(Newer(j, Has("terminal"))) >= MaxTerminalJobs]_vars

(* A late save may bring back what retention has removed, a listing may    *)
(* not show what is too much, a death may interrupt the removal: in the    *)
(* end the files of jobs that ended are no more than may be kept.          *)
RetentionIsEnforced ==
    Cardinality(Has("terminal")) > MaxTerminalJobs
        ~> Cardinality(Has("terminal")) <= MaxTerminalJobs

(* However its process dies, a job that ended gets an outcome, or is       *)
(* removed, or its announcement was given up: that lasts until the next    *)
(* start.                                                                  *)
EveryEndIsAnnounced ==
    \A j \in Job :
        j \in Has("terminal") ~> history[j] # <<>> \/ j \notin exists
                                    \/ j \in skipped
=============================================================================
