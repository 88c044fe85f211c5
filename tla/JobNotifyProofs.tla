---------------------------- MODULE JobNotifyProofs ----------------------------
(***************************************************************************)
(* What a job's file keeps while requests, announcements, restarts and     *)
(* retention meet, for any number of jobs, callers and requests, and any   *)
(* limits, faults and events.                                              *)
(***************************************************************************)
EXTENDS JobNotify, SequenceTheorems, FiniteSetTheorems, TLAPS

(* A cleanup begins, at the start or by the interval.                      *)
Clean == Choose /\ (phase' = "sweeping" \/ UNCHANGED phase)

(* The actions, one by one.                                                *)
LEMMA Steps ==
    ASSUME Next
    PROVE  \/ \E c \in Client : Search(c) \/ Create(c)
           \/ \E j \in Job : \/ Finish(j) \/ TriggerNotifyRetry(j) \/ Track(j)
                             \/ RemoveFile(j) \/ Recover(j) \/ ReconcileNext(j)
           \/ \E j \in Job, w \in Who : \/ Post(j, w) \/ Send(j, w)
                                        \/ ReadLatest(j, w) \/ SaveOutcome(j, w)
           \/ Clean \/ Serve \/ Restart \/ EndRecovery \/ ReconcileList
           \/ Crash
BY DEF Next, Work, Proceed, Clean, StartCleanup, CleanUpAgain

-----------------------------------------------------------------------------
(* Who announces a job, in which turn, and from which history.             *)

Waits(n) == n.stage \in {"queued", "saving"}

(* Of one job: its queue q, its announcements n, and its history h.        *)
Ordered(q, n, h) ==
    /\ \A w \in Who : Waits(n[w]) <=> \E i \in 1 .. Len(q) : q[i] = w
    /\ \A i, k \in 1 .. Len(q) : q[i] = q[k] => i = k
    /\ \A w \in Who : n[w].stage = "saving" =>
                          Len(q) > 0 /\ q[1] = w /\ n[w].read = h

LEMMA OrderedSending ==
    ASSUME NEW q \in Seq(Who), NEW n \in [Who -> Notice], NEW h, NEW w \in Who,
           NEW m \in Notice, Ordered(q, n, h), ~Waits(n[w]), ~Waits(m)
    PROVE  Ordered(q, [n EXCEPT ![w] = m], h)
BY DEF Ordered, Waits, Notice

LEMMA OrderedQueued ==
    ASSUME NEW q \in Seq(Who), NEW n \in [Who -> Notice], NEW h, NEW w \in Who,
           NEW m \in Notice, Ordered(q, n, h), ~Waits(n[w]), m.stage = "queued"
    PROVE  Ordered(Append(q, w), [n EXCEPT ![w] = m], h)
<1> DEFINE p == Append(q, w)
           o == [n EXCEPT ![w] = m]
<1>1. /\ p \in Seq(Who) /\ Len(p) = Len(q) + 1 /\ Len(q) \in Nat
      /\ p[Len(q) + 1] = w /\ \A i \in 1 .. Len(q) : p[i] = q[i]
  OBVIOUS
<1>2. \A v \in Who \ {w} : o[v] = n[v]
  OBVIOUS
<1>3. o[w] = m
  OBVIOUS
<1> HIDE DEF p, o
<1>4. \A v \in Who : Waits(o[v]) <=> \E i \in 1 .. Len(p) : p[i] = v
  <2>1. \E i \in 1 .. Len(p) : p[i] = w
    BY <1>1
  <2>2. Waits(o[w])
    BY <1>3 DEF Waits
  <2>3. \A v \in Who \ {w} : (\E i \in 1 .. Len(p) : p[i] = v)
                               <=> (\E i \in 1 .. Len(q) : q[i] = v)
    BY <1>1
  <2> QED
    BY <1>2, <2>1, <2>2, <2>3 DEF Ordered
<1>5. \A i, k \in 1 .. Len(p) : p[i] = p[k] => i = k
  <2>1. \A i \in 1 .. Len(q) : q[i] # w
    BY DEF Ordered
  <2> QED
    BY <1>1, <2>1 DEF Ordered
<1>6. \A v \in Who : o[v].stage = "saving" =>
                         Len(p) > 0 /\ p[1] = v /\ o[v].read = h
  <2>1. o[w].stage # "saving"
    BY <1>3
  <2> QED
    BY <1>1, <1>2, <2>1 DEF Ordered
<1> QED
  BY <1>4, <1>5, <1>6 DEF Ordered, p, o

LEMMA OrderedSaving ==
    ASSUME NEW q \in Seq(Who), NEW n \in [Who -> Notice], NEW h, NEW w \in Who,
           NEW m \in Notice, Ordered(q, n, h), n[w].stage = "queued", Head(q) = w,
           m.stage = "saving", m.read = h
    PROVE  Ordered(q, [n EXCEPT ![w] = m], h)
<1> DEFINE o == [n EXCEPT ![w] = m]
<1>1. o[w] = m /\ \A v \in Who \ {w} : o[v] = n[v]
  OBVIOUS
<1> HIDE DEF o
<1>2. Waits(n[w]) /\ Waits(m)
  BY DEF Waits
<1>3. \A v \in Who : Waits(o[v]) <=> Waits(n[v])
  BY <1>1, <1>2
<1>4. Len(q) > 0 /\ q[1] = w
  BY <1>2 DEF Ordered
<1>5. \A v \in Who : o[v].stage = "saving" =>
                         Len(q) > 0 /\ q[1] = v /\ o[v].read = h
  BY <1>1, <1>4 DEF Ordered
<1> QED
  BY <1>3, <1>5 DEF Ordered, o

LEMMA OrderedDone ==
    ASSUME NEW q \in Seq(Who), NEW n \in [Who -> Notice], NEW h, NEW w \in Who,
           NEW g, Ordered(q, n, h), Waits(n[w]), Head(q) = w
    PROVE  Ordered(Tail(q), [n EXCEPT ![w] = Idle], g)
<1> DEFINE p == Tail(q)
           o == [n EXCEPT ![w] = Idle]
<1>1. Len(q) \in Nat /\ Len(q) > 0 /\ q[1] = w
  BY DEF Ordered
<1>2. /\ p \in Seq(Who) /\ Len(p) = Len(q) - 1
      /\ \A i \in 1 .. Len(p) : p[i] = q[i + 1]
  BY <1>1
<1>3. \A v \in Who \ {w} : o[v] = n[v]
  OBVIOUS
<1>4. o[w] = Idle
  OBVIOUS
<1> HIDE DEF p, o
<1>5. \A i \in 1 .. Len(p) : p[i] # w
  BY <1>1, <1>2 DEF Ordered
<1>6. \A v \in Who \ {w} : (\E i \in 1 .. Len(p) : p[i] = v)
                             <=> (\E i \in 1 .. Len(q) : q[i] = v)
  <2> SUFFICES ASSUME NEW v \in Who \ {w}, NEW i \in 1 .. Len(q), q[i] = v
               PROVE  \E k \in 1 .. Len(p) : p[k] = v
    BY <1>1, <1>2
  <2>1. i - 1 \in 1 .. Len(p) /\ p[i - 1] = v
    BY <1>1, <1>2
  <2> QED
    BY <2>1
<1>7. \A v \in Who : Waits(o[v]) <=> \E i \in 1 .. Len(p) : p[i] = v
  BY <1>3, <1>4, <1>5, <1>6 DEF Ordered, Waits, Idle
<1>8. \A i, k \in 1 .. Len(p) : p[i] = p[k] => i = k
  <2> SUFFICES ASSUME NEW i \in 1 .. Len(p), NEW k \in 1 .. Len(p), p[i] = p[k]
               PROVE  i = k
    OBVIOUS
  <2>1. i + 1 \in 1 .. Len(q) /\ k + 1 \in 1 .. Len(q) /\ q[i + 1] = q[k + 1]
    BY <1>1, <1>2
  <2>2. i + 1 = k + 1
    BY <2>1 DEF Ordered
  <2> QED
    BY <2>2
<1>9. \A v \in Who : o[v].stage # "saving"
  BY <1>1, <1>3, <1>4 DEF Ordered, Idle
<1> QED
  BY <1>7, <1>8, <1>9 DEF Ordered, p, o

-----------------------------------------------------------------------------
(* The history of a job of which n outcomes have been recorded.            *)

Kept(n) == Smaller(n, HistoryLimit)

Complete(n) ==
    [i \in 1 .. Kept(n) |-> Smaller(n - Kept(n) + i - 1, HistoryLimit)]

LEMMA CompleteTyped ==
    ASSUME NEW n \in Nat
    PROVE  /\ Complete(n) \in Seq(Nat)
           /\ Len(Complete(n)) = Kept(n)
           /\ Kept(n) \in Nat /\ Kept(n) <= HistoryLimit
           /\ n - Kept(n) \in Nat
<1>1. HistoryLimit \in Nat \ {0}
  BY NotifyAssumption
<1>2. Kept(n) \in Nat /\ Kept(n) <= HistoryLimit /\ n - Kept(n) \in Nat
  BY <1>1 DEF Kept, Smaller
<1>3. \A i \in 1 .. Kept(n) : Smaller(n - Kept(n) + i - 1, HistoryLimit) \in Nat
  BY <1>1, <1>2 DEF Smaller
<1>4. Complete(n) \in [1 .. Kept(n) -> Nat]
  BY <1>3 DEF Complete
<1>5. Complete(n) \in Seq(Nat) /\ Len(Complete(n)) = Kept(n)
  <2> HIDE DEF Complete, Kept
  <2> QED
    BY <1>2, <1>4, SeqDef
<1> QED
  BY <1>2, <1>5

LEMMA RecordCompletes ==
    ASSUME NEW n \in Nat
    PROVE  Record(Complete(n)) = Complete(n + 1)
<1> DEFINE h == Complete(n)
           all == Append(h, Len(h))
           L == HistoryLimit
<1>1. L \in Nat \ {0}
  BY NotifyAssumption
<1>2. h \in Seq(Nat) /\ Len(h) = Kept(n) /\ Kept(n) \in Nat
  BY CompleteTyped
<1>3. \A i \in 1 .. Len(h) : h[i] = Smaller(n - Kept(n) + i - 1, L)
  BY <1>2 DEF Complete
<1> HIDE DEF h
<1>4. /\ all \in Seq(Nat) /\ Len(all) = Len(h) + 1
      /\ all[Len(h) + 1] = Len(h)
      /\ \A i \in 1 .. Len(h) : all[i] = h[i]
  BY <1>2
<1>5. Record(h) = SubSeq(all, Len(all) - Smaller(Len(all), L) + 1, Len(all))
  BY DEF Record
<1> HIDE DEF all
<1>6. CASE n < L
  <2>1. Kept(n) = n /\ Kept(n + 1) = n + 1
    BY <1>1, <1>6 DEF Kept, Smaller
  <2>2. Len(all) = n + 1 /\ Smaller(Len(all), L) = n + 1
    BY <1>1, <1>2, <1>4, <1>6, <2>1 DEF Smaller
  <2>3. Record(h) = SubSeq(all, 1, Len(all))
    BY <1>5, <2>2
  <2>4. Record(h) = [i \in 1 .. n + 1 |-> all[i]]
    BY <1>4, <2>2, <2>3
  <2>5. \A i \in 1 .. n + 1 : all[i] = Smaller(i - 1, L)
    BY <1>1, <1>2, <1>3, <1>4, <1>6, <2>1 DEF Smaller
  <2>6. Complete(n + 1) = [i \in 1 .. n + 1 |-> Smaller(i - 1, L)]
    BY <2>1 DEF Complete
  <2> QED
    BY <2>4, <2>5, <2>6 DEF h
<1>7. CASE n >= L
  <2>1. Kept(n) = L /\ Kept(n + 1) = L
    BY <1>1, <1>7 DEF Kept, Smaller
  <2>2. Len(all) = L + 1 /\ Smaller(Len(all), L) = L
    BY <1>1, <1>2, <1>4, <2>1 DEF Smaller
  <2>3. Record(h) = SubSeq(all, 2, L + 1)
    BY <1>1, <1>5, <2>2
  <2>4. Record(h) = [i \in 1 .. L |-> all[i + 1]]
    BY <1>1, <1>4, <2>2, <2>3
  <2>5. \A i \in 1 .. L : all[i + 1] = Smaller(n - L + i, L)
    <3> SUFFICES ASSUME NEW i \in 1 .. L
                 PROVE  all[i + 1] = Smaller(n - L + i, L)
      OBVIOUS
    <3>1. CASE i = L
      BY <1>1, <1>2, <1>4, <1>7, <2>1, <3>1 DEF Smaller
    <3>2. CASE i # L
      <4>1. i + 1 \in 1 .. Len(h)
        BY <1>1, <1>2, <2>1, <3>2
      <4>2. n - L + (i + 1) - 1 = n - L + i
        BY <1>1
      <4> QED
        BY <1>3, <1>4, <2>1, <4>1, <4>2
    <3> QED
      BY <3>1, <3>2
  <2>6. \A i \in 1 .. L : all[i + 1] = Smaller(n + 1 - L + i - 1, L)
    <3> SUFFICES ASSUME NEW i \in 1 .. L
                 PROVE  all[i + 1] = Smaller(n + 1 - L + i - 1, L)
      OBVIOUS
    <3>1. n + 1 - L + i - 1 = n - L + i
      BY <1>1
    <3> QED
      BY <2>5, <3>1
  <2>7. Complete(n + 1) = [i \in 1 .. L |-> Smaller(n + 1 - L + i - 1, L)]
    BY <1>1, <2>1 DEF Complete
  <2> QED
    BY <2>4, <2>6, <2>7 DEF h
<1> QED
  BY <1>1, <1>6, <1>7 DEF h

-----------------------------------------------------------------------------
(* The invariant.                                                          *)

QueueInv == \A j \in Job : Ordered(queue[j], notice[j], history[j])

(* Removed files included.                                                 *)
HistoryInv == \A j \in Job : history[j] = Complete(saves[j])

(* Whatever is about a job is about one that has been created.             *)
Made == {j \in Job : status[j] # "new"}

MadeInv ==
    /\ exists \cup untracked \cup unrecovered \cup todo \subseteq Made
    /\ \A j \in Job, w \in Who : notice[j][w] # Idle => j \in Made

(* A file that is removed, and that no save is about to bring back.        *)
Gone(j) == j \notin exists /\ \A w \in Who : notice[j][w].stage # "saving"

(* Who has searched for a request creates before anybody else does: of two *)
(* jobs of a request the one was unseen, or there is no file.              *)
RequestInv ==
    /\ \A c, d \in createLock : c = d
    /\ \A c \in createLock, j \in Made :
          creating[c] # NoRequest /\ request[j] = creating[c]
              => j \in unseen[NextId] \/ Gone(j)
    /\ \A i, j \in Made :
          i # j /\ request[i] = request[j] /\ request[i] # NoRequest
              => i \in unseen[j] \/ j \in unseen[i] \/ Gone(i) \/ Gone(j)

(* A webhook that is still to be posted has tries left.                    *)
TriesInv ==
    \A j \in Job, w \in Who :
        "webhook" \in notice[j][w].pending => notice[j][w].tries < MaxTries

-----------------------------------------------------------------------------
(* Types.                                                                  *)

LEMMA AskedTyped == \A j : Asked(j) \subseteq Channel /\ Fallback(j) \subseteq Channel
BY DEF Asked, Fallback, Channel

LEMMA IdleTyped == Idle \in Notice
BY NotifyAssumption DEF Idle, Notice

LEMMA ReadingTyped ==
    ASSUME NEW n \in Notice, NEW h \in Seq(Nat)
    PROVE  LET m == [n EXCEPT !.stage = "saving", !.read = h]
           IN  /\ m \in Notice /\ m.stage = "saving" /\ m.read = h
               /\ m.pending = n.pending /\ m.tries = n.tries
<1>1. n = [stage |-> n.stage, pending |-> n.pending, tries |-> n.tries,
           read |-> n.read]
  BY DEF Notice
<1> QED
  BY <1>1 DEF Notice

LEMMA EventTyped == TypeOK /\ Event => events' \in 0 .. MaxEvents
BY NotifyAssumption DEF TypeOK, Event

LEMMA PendsTyped ==
    ASSUME TypeOK, NEW j \in Job, NEW w \in Who, NEW cs \in SUBSET Channel,
           NEW n \in 0 .. MaxTries, Pends(j, w, cs, n)
    PROVE  /\ notice' \in [Job -> [Who -> Notice]]
           /\ queue' \in [Job -> Seq(Who)]
<1> DEFINE m == [stage   |-> IF cs = {} THEN "queued" ELSE "sending",
                 pending |-> cs, tries |-> n, read |-> <<>>]
<1>1. m \in Notice
  BY DEF Notice
<1>2. notice' = [notice EXCEPT ![j][w] = m]
  BY DEF Pends
<1> HIDE DEF m
<1>3. notice' \in [Job -> [Who -> Notice]]
  BY <1>1, <1>2 DEF TypeOK
<1>4. queue' \in [Job -> Seq(Who)]
  BY DEF Pends, TypeOK
<1> QED
  BY <1>3, <1>4

LEMMA AnnounceTyped ==
    ASSUME TypeOK, NEW j \in Job, NEW w \in Who, Announce(j, w)
    PROVE  /\ notice' \in [Job -> [Who -> Notice]]
           /\ queue' \in [Job -> Seq(Who)]
<1>1. \E cs \in SUBSET Channel : Pends(j, w, cs, 0)
  BY AskedTyped DEF Announce
<1>2. 0 \in 0 .. MaxTries
  BY NotifyAssumption
<1> QED
  BY <1>1, <1>2, PendsTyped

LEMMA EndsTyped ==
    ASSUME TypeOK, NEW j \in Job, Ends(j)
    PROVE  status' \in [Job -> {"new", "active", "terminal"}] /\ ended' \in [Job -> Nat]
<1>1. Cardinality({i \in Job : ended[i] > 0}) \in Nat
  BY NotifyAssumption, FS_Subset, FS_CardinalityType
<1> QED
  BY <1>1 DEF TypeOK, Ends

LEMMA DoneTyped ==
    ASSUME TypeOK, NEW j \in Job, NEW w \in Who, Done(j, w), queue[j] # <<>>
    PROVE  /\ notice' \in [Job -> [Who -> Notice]]
           /\ queue' \in [Job -> Seq(Who)]
           /\ todo' \subseteq todo
<1>1. notice' \in [Job -> [Who -> Notice]]
  BY IdleTyped DEF TypeOK, Done
<1>2. queue' \in [Job -> Seq(Who)]
  BY DEF TypeOK, Done
<1>3. todo' \subseteq todo
  BY DEF Done
<1> QED
  BY <1>1, <1>2, <1>3

(* A post or a send goes on, or waits for its turn.                        *)
LEMMA SendsPend ==
    ASSUME TypeOK, TriesInv, NEW j \in Job, NEW w \in Who, Post(j, w) \/ Send(j, w)
    PROVE  /\ notice[j][w].stage = "sending"
           /\ \E cs \in SUBSET Channel, n \in 0 .. MaxTries :
                 Pends(j, w, cs, n) /\ ("webhook" \in cs => n < MaxTries)
           /\ UNCHANGED <<mode, phase, files, create, untracked, startup, clean,
                          events, seen, skipped>>
<1>1. notice[j][w] \in Notice
  BY DEF TypeOK
<1>2. CASE Post(j, w)
  <2> DEFINE n == notice[j][w].tries + 1
  <2>1. /\ Sending(j, w, "webhook")
        /\ \/ Pends(j, w, {}, n)
           \/ n < MaxTries /\ Pends(j, w, {"webhook"}, n)
           \/ n = MaxTries /\ Pends(j, w, Fallback(j), n)
    BY <1>2 DEF Post
  <2>2. notice[j][w].tries \in 0 .. MaxTries /\ MaxTries \in Nat
    BY <1>1, NotifyAssumption DEF Notice
  <2>3. n \in 0 .. MaxTries
    <3>1. notice[j][w].tries < MaxTries
      BY <2>1 DEF Sending, TriesInv
    <3> QED
      BY <2>2, <3>1
  <2>4. {} \in SUBSET Channel /\ {"webhook"} \in SUBSET Channel
    BY DEF Channel
  <2> HIDE DEF n
  <2>5. Fallback(j) \in SUBSET Channel /\ "webhook" \notin Fallback(j)
    BY AskedTyped DEF Fallback
  <2> QED
    BY <2>1, <2>3, <2>4, <2>5 DEF Sending
<1>3. CASE Send(j, w)
  <2>1. PICK c \in {"openclaw", "telegram"} :
          /\ Sending(j, w, c)
          /\ Pends(j, w, notice[j][w].pending \ {c}, notice[j][w].tries)
    BY <1>3 DEF Send
  <2>2. notice[j][w].pending \ {c} \in SUBSET Channel
          /\ notice[j][w].tries \in 0 .. MaxTries
    BY <1>1 DEF Notice
  <2>3. "webhook" \in notice[j][w].pending => notice[j][w].tries < MaxTries
    BY DEF TriesInv
  <2> QED
    BY <2>1, <2>2, <2>3 DEF Sending
<1> QED
  BY <1>2, <1>3

(* One that is announced has the channels of its mode, and all its tries.  *)
LEMMA AnnouncePends ==
    ASSUME NEW j \in Job, NEW w \in Who, Announce(j, w)
    PROVE  /\ notice[j][w] = Idle
           /\ notice[j][w].stage \in {"none", "sending"}
           /\ \E cs \in SUBSET Channel, n \in 0 .. MaxTries :
                 Pends(j, w, cs, n) /\ ("webhook" \in cs => n < MaxTries)
<1>1. \E cs \in SUBSET Channel : Pends(j, w, cs, 0)
  BY AskedTyped DEF Announce
<1>2. 0 \in 0 .. MaxTries /\ 0 < MaxTries
  BY NotifyAssumption
<1> QED
  BY <1>1, <1>2 DEF Announce, Idle

(* The steps that begin or go on with an announcement.                     *)
Announces(j, w) ==
    /\ notice[j][w].stage \in {"none", "sending"}
    /\ \E cs \in SUBSET Channel, n \in 0 .. MaxTries :
          Pends(j, w, cs, n) /\ ("webhook" \in cs => n < MaxTries)
    /\ UNCHANGED <<files, saves, unseen, todo, unrecovered>>
    /\ UNCHANGED <<creating, createLock>>

LEMMA AnnounceSteps ==
    ASSUME TypeOK, TriesInv, NEW j \in Job
    PROVE  /\ TriggerNotifyRetry(j) => Announces(j, "manual") /\ j \in Has("terminal")
                                         /\ UNCHANGED untracked
           /\ ReconcileNext(j) => Announces(j, "startup") /\ j \in todo
                                    /\ UNCHANGED untracked
           /\ \A w \in Who : Post(j, w) \/ Send(j, w) =>
                 Announces(j, w) /\ notice[j][w].stage = "sending"
                   /\ UNCHANGED untracked
<1>1. "manual" \in Who /\ "startup" \in Who
  BY DEF Who
<1>2. ASSUME TriggerNotifyRetry(j)
      PROVE  Announces(j, "manual") /\ j \in Has("terminal") /\ UNCHANGED untracked
  <2>1. Announce(j, "manual") /\ j \in Has("terminal")
    BY <1>2 DEF TriggerNotifyRetry
  <2>2. /\ UNCHANGED <<files, saves, unseen, todo, unrecovered>>
        /\ UNCHANGED <<creating, createLock, untracked>>
    BY <1>2 DEF TriggerNotifyRetry, files, create, startup, seen
  <2> QED
    BY <1>1, <2>1, <2>2, AnnouncePends DEF Announces
<1>3. ASSUME ReconcileNext(j)
      PROVE  Announces(j, "startup") /\ j \in todo /\ UNCHANGED untracked
  BY <1>1, <1>3, AnnouncePends
     DEF ReconcileNext, Announces, Idle, files, create, startup, seen
<1>4. ASSUME NEW w \in Who, Post(j, w) \/ Send(j, w)
      PROVE  Announces(j, w) /\ notice[j][w].stage = "sending" /\ UNCHANGED untracked
  BY <1>4, SendsPend DEF Announces, files, create, startup, seen
<1> QED
  BY <1>2, <1>3, <1>4

(* What a job's end is tracked by: its announcement, or nothing.           *)
LEMMA TrackSteps ==
    ASSUME TypeOK, NEW j \in Job, Track(j)
    PROVE  /\ j \in untracked
           /\ untracked' = untracked \ {j}
           /\ \/ Announces(j, "auto")
              \/ UNCHANGED <<notice, queue, files, saves, unseen, todo,
                             unrecovered, creating, createLock>>
<1>1. "auto" \in Who
  BY DEF Who
<1>2. UNCHANGED <<files, saves, unseen, todo, unrecovered, creating,
                  createLock>> /\ j \in untracked /\ untracked' = untracked \ {j}
  BY DEF Track, files, create, startup, seen
<1>3. CASE Announce(j, "auto")
  BY <1>1, <1>2, <1>3, AnnouncePends DEF Announces
<1>4. CASE UNCHANGED <<notice, queue>>
  BY <1>2, <1>4
<1> QED
  BY <1>3, <1>4, <1>2 DEF Track

(* The steps that end persistOutcome, without and with an outcome saved.   *)
LEMMA SaveGives ==
    ASSUME QueueInv, HistoryInv, TypeOK, NEW j \in Job, NEW w \in Who,
           SaveOutcome(j, w)
    PROVE  /\ Waits(notice[j][w]) /\ Head(queue[j]) = w /\ queue[j] # <<>>
           /\ Done(j, w)
           /\ \/ /\ exists' = exists \cup {j}
                 /\ history' = [history EXCEPT ![j] = Complete(saves[j] + 1)]
                 /\ saves' = [saves EXCEPT ![j] = @ + 1]
                 /\ UNCHANGED <<status, request, ended, unseen, skipped, events>>
              \/ /\ Fails("save")
                 /\ skipped' = skipped \cup {j}
                 /\ UNCHANGED <<files, seen>>
<1>1. notice[j][w].stage = "saving" /\ Ordered(queue[j], notice[j], history[j])
  BY DEF SaveOutcome, QueueInv
<1>2. /\ notice[j][w].read = Complete(saves[j])
      /\ Len(queue[j]) > 0 /\ queue[j][1] = w
  BY <1>1 DEF Ordered, HistoryInv
<1>3. queue[j] \in Seq(Who)
  BY DEF TypeOK
<1>4. Head(queue[j]) = w /\ queue[j] # <<>>
  BY <1>2, <1>3
<1>5. Record(notice[j][w].read) = Complete(saves[j] + 1)
  BY <1>2, RecordCompletes DEF TypeOK
<1> QED
  BY <1>1, <1>4, <1>5 DEF SaveOutcome, Waits

LEMMA ReadGives ==
    ASSUME QueueInv, TypeOK, NEW j \in Job, NEW w \in Who, ReadLatest(j, w)
    PROVE  /\ notice[j][w].stage = "queued" /\ Waits(notice[j][w])
           /\ Head(queue[j]) = w /\ queue[j] # <<>>
           /\ UNCHANGED <<files, seen, unrecovered, creating, createLock, untracked>>
           /\ \/ /\ notice' = [notice EXCEPT ![j][w] =
                                 [@ EXCEPT !.stage = "saving", !.read = history[j]]]
                 /\ j \in exists
                 /\ UNCHANGED <<queue, todo>>
              \/ Done(j, w)
<1>1. Waits(notice[j][w]) /\ notice[j][w].stage = "queued" /\ Head(queue[j]) = w
  BY DEF ReadLatest, Waits
<1>2. queue[j] # <<>>
  BY <1>1 DEF QueueInv, Ordered
<1>3. UNCHANGED <<files, seen, unrecovered, creating, createLock, untracked>>
  BY DEF ReadLatest, Done, create, startup, clean
<1>4. \/ /\ notice' = [notice EXCEPT ![j][w] =
                         [@ EXCEPT !.stage = "saving", !.read = history[j]]]
         /\ j \in exists
         /\ UNCHANGED <<queue, todo>>
      \/ Done(j, w)
  BY DEF ReadLatest, startup
<1> QED
  BY <1>1, <1>2, <1>3, <1>4

LEMMA DrawnIsNew == Unused # {} => NextId \in Job /\ status[NextId] = "new"
<1>1. Unused # {} => NextId \in Unused
  BY DEF NextId, Draw
<1> QED
  BY <1>1 DEF Unused

LEMMA EmptyTyped ==
    /\ [j \in Job |-> [w \in Who |-> Idle]] \in [Job -> [Who -> Notice]]
    /\ [j \in Job |-> <<>>] \in [Job -> Seq(Who)]
    /\ [j \in Job |-> <<>>] \in [Job -> Seq(Nat)]
BY IdleTyped

LEMMA InitTyped == Init => TypeOK
<1> SUFFICES ASSUME Init PROVE TypeOK
  OBVIOUS
<1>1. /\ notice \in [Job -> [Who -> Notice]]
      /\ queue \in [Job -> Seq(Who)] /\ history \in [Job -> Seq(Nat)]
  BY EmptyTyped DEF Init
<1>2. events \in 0 .. MaxEvents
  BY NotifyAssumption DEF Init
<1> QED
  BY <1>1, <1>2 DEF Init, TypeOK

LEMMA TypeStep ==
    ASSUME TypeOK, TriesInv, QueueInv, HistoryInv, [Next]_vars
    PROVE  TypeOK'
<1>1. ASSUME NEW c \in Client, Search(c) PROVE TypeOK'
  <2>1. events' \in 0 .. MaxEvents
    BY <1>1, EventTyped DEF Search
  <2>2. PICK r \in Request \cup {NoRequest} : Finds(c, r)
    BY <1>1 DEF Search
  <2>3. /\ creating' \in [Client -> Request \cup {NoRequest}]
        /\ unseen' \in [Job -> SUBSET Job]
    <3> DEFINE lost == {j \in Of(r) : j \in exists \/ ComesBack(j)}
    <3>1. creating' = [creating EXCEPT ![c] = r]
            /\ unseen' = [unseen EXCEPT ![NextId] = lost]
      BY <2>2 DEF Finds
    <3>2. lost \in SUBSET Job
      BY DEF Of
    <3> HIDE DEF lost
    <3> QED
      BY <3>1, <3>2 DEF TypeOK
  <2>4. createLock' \subseteq Client
    BY <1>1 DEF Search
  <2>5. UNCHANGED <<mode, phase, files, notify, startup, clean, saves, skipped>>
    BY <1>1 DEF Search
  <2> QED
    BY <2>1, <2>3, <2>4, <2>5 DEF TypeOK, files, notify, startup, clean
<1>2. ASSUME NEW c \in Client, Create(c) PROVE TypeOK'
  <2>1. events' \in 0 .. MaxEvents
    BY <1>2, EventTyped DEF Create, Fails, TypeOK
  <2>2. Unused # {} => NextId \in Job
    BY DrawnIsNew
  <2>3. /\ exists' \subseteq Job
        /\ status' \in [Job -> {"new", "active", "terminal"}]
        /\ request' \in [Job -> Request \cup {NoRequest}]
    BY <1>2, <2>2 DEF Create, TypeOK
  <2> QED
    BY <1>2, <2>1, <2>3 DEF Create, TypeOK, notify, startup, clean, seen
<1>3. ASSUME NEW j \in Job, Finish(j) PROVE TypeOK'
  BY <1>3, EndsTyped DEF Finish, Ends, TypeOK, create, startup, clean, seen
<1>4. ASSUME NEW j \in Job, TriggerNotifyRetry(j) PROVE TypeOK'
  <2>1. events' \in 0 .. MaxEvents
    BY <1>4, EventTyped DEF TriggerNotifyRetry
  <2>2. "manual" \in Who
    BY DEF Who
  <2>3. notice' \in [Job -> [Who -> Notice]] /\ queue' \in [Job -> Seq(Who)]
    BY <1>4, <2>2, AnnounceTyped DEF TriggerNotifyRetry
  <2> QED
    BY <1>4, <2>1, <2>3
       DEF TriggerNotifyRetry, TypeOK, files, create, startup, clean, seen
<1>5. ASSUME NEW j \in Job, Track(j) PROVE TypeOK'
  <2>1. events' \in 0 .. MaxEvents
    BY <1>5, EventTyped DEF Track, Fails, TypeOK
  <2>2. "auto" \in Who
    BY DEF Who
  <2>3. notice' \in [Job -> [Who -> Notice]] /\ queue' \in [Job -> Seq(Who)]
    BY <1>5, <2>2, AnnounceTyped DEF Track, TypeOK
  <2>4. skipped' \subseteq Job /\ untracked' \subseteq Job
    BY <1>5 DEF Track, TypeOK
  <2> QED
    BY <1>5, <2>1, <2>3, <2>4 DEF Track, TypeOK, files, create, startup, clean, seen
<1>6. ASSUME NEW j \in Job, RemoveFile(j) PROVE TypeOK'
  BY <1>6 DEF RemoveFile, TypeOK, create, notify, startup, seen
<1>7. ASSUME NEW j \in Job, Recover(j) PROVE TypeOK'
  <2>1. /\ status' \in [Job -> {"new", "active", "terminal"}]
        /\ ended' \in [Job -> Nat]
        /\ UNCHANGED <<exists, request, history>>
    BY <1>7, EndsTyped DEF Recover, Ends, TypeOK, files
  <2>2. untracked' \subseteq Job
    BY <1>7 DEF Recover, TypeOK
  <2> QED
    BY <1>7, <2>1, <2>2 DEF Recover, TypeOK, create, clean, seen
<1>8. ASSUME NEW j \in Job, ReconcileNext(j) PROVE TypeOK'
  <2>1. "startup" \in Who
    BY DEF Who
  <2>2. notice' \in [Job -> [Who -> Notice]] /\ queue' \in [Job -> Seq(Who)]
    BY <1>8, <2>1, AnnounceTyped DEF ReconcileNext
  <2> QED
    BY <1>8, <2>2 DEF ReconcileNext, TypeOK, files, create, startup, clean, seen
<1>9. ASSUME NEW j \in Job, NEW w \in Who, Post(j, w) \/ Send(j, w) PROVE TypeOK'
  <2>1. notice' \in [Job -> [Who -> Notice]] /\ queue' \in [Job -> Seq(Who)]
    BY <1>9, SendsPend, PendsTyped
  <2>2. UNCHANGED <<mode, phase, files, create, untracked, startup, clean, events,
                    seen, skipped>>
    BY <1>9, SendsPend
  <2> QED
    BY <2>1, <2>2 DEF TypeOK, files, create, startup, clean, seen
<1>10. ASSUME NEW j \in Job, NEW w \in Who, ReadLatest(j, w) PROVE TypeOK'
  <2>1. /\ queue[j] # <<>>
        /\ \/ /\ notice' = [notice EXCEPT ![j][w] =
                              [@ EXCEPT !.stage = "saving", !.read = history[j]]]
              /\ UNCHANGED <<queue, todo>>
           \/ Done(j, w)
    BY <1>10, ReadGives
  <2>2. events' \in 0 .. MaxEvents /\ skipped' \subseteq Job
    BY <1>10, EventTyped DEF ReadLatest, Fails, TypeOK
  <2>3. /\ UNCHANGED <<mode, phase, files, create, untracked, unrecovered, listing,
                       clean, seen>>
    BY <1>10 DEF ReadLatest, Done, startup
  <2>4. /\ notice' \in [Job -> [Who -> Notice]] /\ queue' \in [Job -> Seq(Who)]
        /\ todo' \subseteq todo
    <3>1. CASE Done(j, w)
      BY <2>1, <3>1, DoneTyped
    <3>2. CASE /\ notice' = [notice EXCEPT ![j][w] =
                               [@ EXCEPT !.stage = "saving", !.read = history[j]]]
               /\ UNCHANGED <<queue, todo>>
      <4> DEFINE n == notice[j][w]
                 h == history[j]
      <4>1. [n EXCEPT !.stage = "saving", !.read = h] \in Notice
        <5>1. n \in Notice /\ h \in Seq(Nat)
          BY DEF TypeOK
        <5> HIDE DEF n, h
        <5> QED
          BY <5>1, ReadingTyped
      <4> QED
        BY <3>2, <4>1 DEF TypeOK
    <3> QED
      BY <2>1, <3>1, <3>2
  <2> QED
    BY <2>2, <2>3, <2>4 DEF TypeOK, files, create, clean, seen
<1>11. ASSUME NEW j \in Job, NEW w \in Who, SaveOutcome(j, w) PROVE TypeOK'
  <2>1. Done(j, w) /\ queue[j] # <<>>
    BY <1>11, SaveGives
  <2>2. /\ notice' \in [Job -> [Who -> Notice]] /\ queue' \in [Job -> Seq(Who)]
        /\ todo' \subseteq todo
    BY <2>1, DoneTyped
  <2>3. events' \in 0 .. MaxEvents /\ skipped' \subseteq Job
    BY <1>11, EventTyped DEF SaveOutcome, Fails, TypeOK
  <2>4. /\ history' \in [Job -> Seq(Nat)] /\ saves' \in [Job -> Nat]
        /\ exists' \subseteq Job /\ unseen' \in [Job -> SUBSET Job]
        /\ UNCHANGED <<status, request, ended>>
    <3>1. saves[j] + 1 \in Nat
      BY DEF TypeOK
    <3>2. Complete(saves[j] + 1) \in Seq(Nat)
      BY <3>1, CompleteTyped
    <3>3. CASE UNCHANGED <<files, seen>>
      BY <3>3 DEF TypeOK, files, seen
    <3>4. CASE /\ exists' = exists \cup {j}
               /\ history' = [history EXCEPT ![j] = Complete(saves[j] + 1)]
               /\ saves' = [saves EXCEPT ![j] = @ + 1]
               /\ UNCHANGED <<status, request, ended, unseen, skipped, events>>
      BY <3>1, <3>2, <3>4 DEF TypeOK
    <3> QED
      BY <1>11, <3>3, <3>4, SaveGives
  <2> QED
    BY <2>1, <2>2, <2>3, <2>4 DEF Done, TypeOK, create, clean
<1>12. CASE Clean
  <2>1. PICK unread \in SUBSET exists :
          /\ Listing(unread)
          /\ \E old \in SUBSET (Has("terminal") \ unread) :
                /\ doomed' = old \cup Overflow(Has("terminal") \ unread, old)
                /\ surplus' = Overflow(Has("terminal") \ unread, old)
    BY <1>12 DEF Clean, Choose
  <2>2. doomed' \cup surplus' \subseteq Job
    BY <2>1 DEF Overflow, Has, TypeOK
  <2>3. events' \in 0 .. MaxEvents
    BY <2>1, EventTyped DEF Listing, Fails, TypeOK
  <2> QED
    BY <1>12, <2>2, <2>3
       DEF Clean, Choose, TypeOK, files, create, notify, startup, seen
<1>16. CASE ReconcileList
  <2>1. events' \in 0 .. MaxEvents
    BY <1>16, EventTyped DEF ReconcileList, Listing, Fails, TypeOK
  <2> QED
    BY <1>16, <2>1 DEF ReconcileList, Has, TypeOK, files, create, notify, clean, seen
<1>13. CASE Serve \/ EndRecovery \/ Restart
  BY <1>13 DEF Serve, EndRecovery, Restart, Has, TypeOK, files, create, notify, startup,
               clean, seen
<1>14. CASE Crash
  <2>1. events' \in 0 .. MaxEvents
    BY <1>14, EventTyped DEF Crash
  <2>2. notice' \in [Job -> [Who -> Notice]] /\ queue' \in [Job -> Seq(Who)]
    BY <1>14, EmptyTyped DEF Crash
  <2> QED
    BY <1>14, <2>1, <2>2 DEF Crash, TypeOK, files, seen
<1>15. CASE UNCHANGED vars
  BY <1>15 DEF TypeOK, vars, files, create, notify, startup, clean, seen
<1> QED
  BY <1>1, <1>2, <1>3, <1>4, <1>5, <1>6, <1>7, <1>8, <1>9, <1>10, <1>11, <1>12,
     <1>13, <1>14, <1>15, <1>16, Steps

-----------------------------------------------------------------------------
(* The turns of persistOutcome.                                            *)

(* The announcements of one job change, those of the others do not.        *)
LEMMA OneOrdered ==
    ASSUME TypeOK, QueueInv, NEW j \in Job,
           Ordered(queue'[j], notice'[j], history'[j]),
           \A i \in Job \ {j} : /\ queue'[i] = queue[i] /\ notice'[i] = notice[i]
                                /\ history'[i] = history[i]
    PROVE  QueueInv'
<1> SUFFICES ASSUME NEW i \in Job
             PROVE  Ordered(queue'[i], notice'[i], history'[i])
  BY DEF QueueInv
<1>1. CASE i = j
  BY <1>1
<1>2. CASE i # j
  BY <1>2 DEF QueueInv
<1> QED
  BY <1>1, <1>2

LEMMA AnnouncesOrdered ==
    ASSUME TypeOK, QueueInv, NEW j \in Job, NEW w \in Who, Announces(j, w)
    PROVE  QueueInv'
<1>1. PICK cs \in SUBSET Channel, n \in 0 .. MaxTries : Pends(j, w, cs, n)
  BY DEF Announces
<1> DEFINE m == [stage   |-> IF cs = {} THEN "queued" ELSE "sending",
                 pending |-> cs, tries |-> n, read |-> <<>>]
<1>2. m \in Notice /\ m.stage = IF cs = {} THEN "queued" ELSE "sending"
  BY DEF Notice
<1>3. notice' = [notice EXCEPT ![j][w] = m]
  BY <1>1 DEF Pends
<1>4. queue' = IF cs = {} THEN [queue EXCEPT ![j] = Append(@, w)] ELSE queue
  BY <1>1 DEF Pends
<1>5. ~Waits(notice[j][w]) /\ UNCHANGED history
  BY DEF Announces, Waits, files
<1> HIDE DEF m
<1>6. notice'[j] = [notice[j] EXCEPT ![w] = m]
        /\ \A i \in Job \ {j} : notice'[i] = notice[i]
  BY <1>3 DEF TypeOK
<1>7. /\ queue[j] \in Seq(Who) /\ notice[j] \in [Who -> Notice]
      /\ Ordered(queue[j], notice[j], history[j])
  BY DEF TypeOK, QueueInv
<1>8. CASE cs = {}
  <2>1. queue'[j] = Append(queue[j], w)
          /\ \A i \in Job \ {j} : queue'[i] = queue[i]
    BY <1>4, <1>8 DEF TypeOK
  <2>2. Ordered(queue'[j], notice'[j], history'[j])
    BY <1>2, <1>5, <1>6, <1>7, <1>8, <2>1, OrderedQueued
  <2> QED
    BY <1>5, <1>6, <2>1, <2>2, OneOrdered
<1>9. CASE cs # {}
  <2>1. Ordered(queue'[j], notice'[j], history'[j])
    BY <1>2, <1>4, <1>5, <1>6, <1>7, <1>9, OrderedSending DEF Waits
  <2> QED
    BY <1>4, <1>5, <1>6, <1>9, <2>1, OneOrdered
<1> QED
  BY <1>8, <1>9

LEMMA DoneOrdered ==
    ASSUME TypeOK, QueueInv, NEW j \in Job, NEW w \in Who, Done(j, w),
           Waits(notice[j][w]), Head(queue[j]) = w,
           \A i \in Job \ {j} : history'[i] = history[i]
    PROVE  QueueInv'
<1>1. /\ notice'[j] = [notice[j] EXCEPT ![w] = Idle]
      /\ queue'[j] = Tail(queue[j])
      /\ \A i \in Job \ {j} : queue'[i] = queue[i] /\ notice'[i] = notice[i]
  BY DEF TypeOK, Done
<1>2. /\ queue[j] \in Seq(Who) /\ notice[j] \in [Who -> Notice]
      /\ Ordered(queue[j], notice[j], history[j])
  BY DEF TypeOK, QueueInv
<1>3. Ordered(queue'[j], notice'[j], history'[j])
  BY <1>1, <1>2, OrderedDone
<1> QED
  BY <1>1, <1>3, OneOrdered

LEMMA QueueStep ==
    ASSUME TypeOK, TriesInv, QueueInv, HistoryInv, [Next]_vars
    PROVE  QueueInv'
<1>1. CASE UNCHANGED <<notice, queue, history>>
  BY <1>1 DEF QueueInv
<1>2. ASSUME NEW j \in Job, NEW w \in Who, Announces(j, w) PROVE QueueInv'
  BY <1>2, AnnouncesOrdered
<1>3. ASSUME NEW j \in Job, NEW w \in Who, ReadLatest(j, w) PROVE QueueInv'
  <2>1. /\ notice[j][w].stage = "queued" /\ Waits(notice[j][w])
        /\ Head(queue[j]) = w /\ UNCHANGED history
    BY <1>3, ReadGives DEF files
  <2>2. CASE Done(j, w)
    BY <2>1, <2>2, DoneOrdered
  <2>3. CASE /\ notice' = [notice EXCEPT ![j][w] =
                             [@ EXCEPT !.stage = "saving", !.read = history[j]]]
             /\ UNCHANGED queue
    <3> DEFINE m == [notice[j][w] EXCEPT !.stage = "saving", !.read = history[j]]
    <3>1. m \in Notice /\ m.stage = "saving" /\ m.read = history[j]
      <4>1. notice[j][w] \in Notice /\ history[j] \in Seq(Nat)
        BY DEF TypeOK
      <4> QED
        BY <4>1, ReadingTyped
    <3>2. notice' = [notice EXCEPT ![j][w] = m]
      BY <2>3
    <3> HIDE DEF m
    <3>3. /\ notice'[j] = [notice[j] EXCEPT ![w] = m]
          /\ \A i \in Job \ {j} : notice'[i] = notice[i]
      BY <3>2 DEF TypeOK
    <3>4. /\ queue[j] \in Seq(Who) /\ notice[j] \in [Who -> Notice]
          /\ Ordered(queue[j], notice[j], history[j])
      BY DEF TypeOK, QueueInv
    <3>5. Ordered(queue'[j], notice'[j], history'[j])
      BY <2>1, <2>3, <3>1, <3>3, <3>4, OrderedSaving
    <3> QED
      BY <2>1, <2>3, <3>3, <3>5, OneOrdered
  <2> QED
    BY <1>3, <2>2, <2>3, ReadGives
<1>4. ASSUME NEW j \in Job, NEW w \in Who, SaveOutcome(j, w) PROVE QueueInv'
  <2>1. Done(j, w) /\ Waits(notice[j][w]) /\ Head(queue[j]) = w
    BY <1>4, SaveGives
  <2>2. \A i \in Job \ {j} : history'[i] = history[i]
    <3>1. \/ history' = [history EXCEPT ![j] = Complete(saves[j] + 1)]
          \/ history' = history
      BY <1>4, SaveGives DEF files
    <3> QED
      BY <3>1 DEF TypeOK
  <2> QED
    BY <2>1, <2>2, DoneOrdered
<1>5. CASE Crash
  <2>1. \A j \in Job : queue'[j] = <<>> /\ \A w \in Who : notice'[j][w] = Idle
    BY <1>5 DEF Crash
  <2> QED
    BY <2>1 DEF QueueInv, Ordered, Waits, Idle
<1>6. ASSUME NEW j \in Job, Track(j) PROVE QueueInv'
  <2>1. "auto" \in Who
    BY DEF Who
  <2> QED
    BY <1>1, <1>2, <1>6, <2>1, TrackSteps DEF files
<1>7. ASSUME NEW j \in Job, TriggerNotifyRetry(j) \/ ReconcileNext(j) PROVE QueueInv'
  <2>1. "manual" \in Who /\ "startup" \in Who
    BY DEF Who
  <2> QED
    BY <1>2, <1>7, <2>1, AnnounceSteps
<1>8. ASSUME NEW j \in Job, NEW w \in Who, Post(j, w) \/ Send(j, w) PROVE QueueInv'
  BY <1>2, <1>8, AnnounceSteps
<1>9. ASSUME NEW j \in Job, Finish(j) \/ RemoveFile(j) \/ Recover(j)
      PROVE  UNCHANGED <<notice, queue, history>>
  BY <1>9 DEF Finish, RemoveFile, Recover, Ends, files, notify
<1>10. ASSUME NEW c \in Client, Search(c) \/ Create(c)
       PROVE  UNCHANGED <<notice, queue, history>>
  BY <1>10 DEF Search, Create, files, notify
<1>11. CASE Clean \/ Serve \/ Restart \/ EndRecovery \/ ReconcileList
  BY <1>1, <1>11 DEF Clean, Choose, Serve, Restart, EndRecovery, ReconcileList, files,
                     notify
<1>12. CASE UNCHANGED vars
  BY <1>1, <1>12 DEF vars, files, notify
<1> QED
  BY <1>1, <1>3, <1>4, <1>5, <1>6, <1>7, <1>8, <1>9, <1>10, <1>11, <1>12, Steps

-----------------------------------------------------------------------------
(* The other parts of the invariant.                                       *)

LEMMA TriesStep ==
    ASSUME TypeOK, TriesInv, QueueInv, HistoryInv, [Next]_vars
    PROVE  TriesInv'
<1>1. CASE UNCHANGED notice
  BY <1>1 DEF TriesInv
<1>2. ASSUME NEW j \in Job, NEW w \in Who, Announces(j, w) PROVE TriesInv'
  <2>1. PICK cs \in SUBSET Channel, n \in 0 .. MaxTries :
          Pends(j, w, cs, n) /\ ("webhook" \in cs => n < MaxTries)
    BY <1>2 DEF Announces
  <2> DEFINE m == [stage   |-> IF cs = {} THEN "queued" ELSE "sending",
                   pending |-> cs, tries |-> n, read |-> <<>>]
  <2>2. notice' = [notice EXCEPT ![j][w] = m] /\ m.pending = cs /\ m.tries = n
    BY <2>1 DEF Pends
  <2> HIDE DEF m
  <2> QED
    BY <2>1, <2>2 DEF TriesInv, TypeOK
<1>3. ASSUME NEW j \in Job, NEW w \in Who, Done(j, w) PROVE TriesInv'
  <2>1. notice' = [notice EXCEPT ![j][w] = Idle] /\ Idle.pending = {}
    BY <1>3 DEF Done, Idle
  <2> QED
    BY <2>1 DEF TriesInv, TypeOK
<1>4. ASSUME NEW j \in Job, NEW w \in Who, ReadLatest(j, w) PROVE TriesInv'
  <2>1. CASE notice' = [notice EXCEPT ![j][w] =
                          [@ EXCEPT !.stage = "saving", !.read = history[j]]]
    <3> DEFINE m == [notice[j][w] EXCEPT !.stage = "saving", !.read = history[j]]
    <3>1. notice[j][w] \in Notice /\ history[j] \in Seq(Nat)
      BY DEF TypeOK
    <3>2. m.pending = notice[j][w].pending /\ m.tries = notice[j][w].tries
      BY <3>1, ReadingTyped
    <3>3. notice' = [notice EXCEPT ![j][w] = m]
      BY <2>1
    <3> HIDE DEF m
    <3> QED
      BY <3>2, <3>3 DEF TriesInv, TypeOK
  <2> QED
    BY <1>3, <1>4, <2>1, ReadGives
<1>5. ASSUME NEW j \in Job, NEW w \in Who, SaveOutcome(j, w) PROVE TriesInv'
  BY <1>3, <1>5 DEF SaveOutcome
<1>6. CASE Crash
  BY <1>6 DEF Crash, Idle, TriesInv
<1>7. ASSUME NEW j \in Job, Track(j) PROVE TriesInv'
  <2>1. "auto" \in Who
    BY DEF Who
  <2> QED
    BY <1>1, <1>2, <1>7, <2>1, TrackSteps
<1>8. ASSUME NEW j \in Job, TriggerNotifyRetry(j) \/ ReconcileNext(j) PROVE TriesInv'
  <2>1. "manual" \in Who /\ "startup" \in Who
    BY DEF Who
  <2> QED
    BY <1>2, <1>8, <2>1, AnnounceSteps
<1>9. ASSUME NEW j \in Job, NEW w \in Who, Post(j, w) \/ Send(j, w) PROVE TriesInv'
  BY <1>2, <1>9, AnnounceSteps
<1>10. ASSUME NEW j \in Job, Finish(j) \/ RemoveFile(j) \/ Recover(j)
       PROVE  UNCHANGED notice
  BY <1>10 DEF Finish, RemoveFile, Recover, notify
<1>11. ASSUME NEW c \in Client, Search(c) \/ Create(c) PROVE UNCHANGED notice
  BY <1>11 DEF Search, Create, notify
<1>12. CASE \/ Clean \/ Serve \/ Restart \/ EndRecovery \/ ReconcileList
            \/ UNCHANGED vars
  BY <1>1, <1>12 DEF Clean, Choose, Serve, Restart, EndRecovery, ReconcileList, notify,
                     vars
<1> QED
  BY <1>1, <1>4, <1>5, <1>6, <1>7, <1>8, <1>9, <1>10, <1>11, <1>12, Steps

(* An outcome is saved, or no history changes.                             *)
LEMMA HistoryKept ==
    ASSUME TypeOK, TriesInv, [Next]_vars,
           ~(\E j \in Job, w \in Who : SaveOutcome(j, w))
    PROVE  UNCHANGED <<history, saves>> /\ exists' \subseteq exists \cup Unused
<1>1. ASSUME NEW c \in Client, Search(c) \/ Create(c)
      PROVE  UNCHANGED <<history, saves>> /\ exists' \subseteq exists \cup Unused
  <2>1. Unused # {} => NextId \in Unused
    BY DrawnIsNew DEF Unused
  <2> QED
    BY <1>1, <2>1 DEF Search, Create, files, seen
<1>2. ASSUME NEW j \in Job, \/ Finish(j) \/ RemoveFile(j) \/ Recover(j) \/ Track(j)
                            \/ TriggerNotifyRetry(j) \/ ReconcileNext(j)
      PROVE  UNCHANGED <<history, saves>> /\ exists' \subseteq exists
  BY <1>2 DEF Finish, RemoveFile, Recover, Ends, Track, TriggerNotifyRetry,
              ReconcileNext, files, seen
<1>3. ASSUME NEW j \in Job, NEW w \in Who, Post(j, w) \/ Send(j, w) \/ ReadLatest(j, w)
      PROVE  UNCHANGED <<history, saves>> /\ exists' \subseteq exists
  BY <1>3, SendsPend DEF ReadLatest, files, seen
<1>4. CASE \/ Clean \/ Serve \/ Restart \/ EndRecovery \/ ReconcileList
           \/ Crash \/ UNCHANGED vars
  BY <1>4 DEF Clean, Choose, Serve, Restart, EndRecovery, ReconcileList, Crash, vars,
              files, seen
<1> QED
  BY <1>1, <1>2, <1>3, <1>4, Steps

LEMMA HistoryStep ==
    ASSUME TypeOK, TriesInv, QueueInv, HistoryInv, [Next]_vars
    PROVE  HistoryInv'
<1>1. CASE UNCHANGED <<history, saves>>
  BY <1>1 DEF HistoryInv
<1>2. ASSUME NEW j \in Job, NEW w \in Who, SaveOutcome(j, w) PROVE HistoryInv'
  <2>1. CASE /\ history' = [history EXCEPT ![j] = Complete(saves[j] + 1)]
             /\ saves' = [saves EXCEPT ![j] = @ + 1]
    BY <2>1 DEF HistoryInv, TypeOK
  <2> QED
    BY <1>1, <1>2, <2>1, SaveGives DEF files, seen
<1> QED
  BY <1>1, <1>2, HistoryKept

(* A job that has been created stays so.                                   *)
LEMMA MadeGrows ==
    ASSUME TypeOK, TriesInv, [Next]_vars
    PROVE  Made \subseteq Made'
<1>1. CASE UNCHANGED status
  BY <1>1 DEF Made
<1>2. ASSUME NEW j \in Job, Ends(j) PROVE Made \subseteq Made'
  BY <1>2 DEF Ends, Made, TypeOK
<1>3. ASSUME NEW c \in Client, Search(c) \/ Create(c) PROVE Made \subseteq Made'
  <2>1. \/ status' = status
        \/ status' = [status EXCEPT ![NextId] = "active"]
    BY <1>3 DEF Search, Create, files
  <2> QED
    BY <2>1 DEF Made, TypeOK
<1>4. ASSUME NEW j \in Job, \/ Finish(j) \/ RemoveFile(j) \/ Recover(j) \/ Track(j)
                            \/ TriggerNotifyRetry(j) \/ ReconcileNext(j)
      PROVE  Ends(j) \/ UNCHANGED status
  BY <1>4 DEF Finish, RemoveFile, Recover, Track, TriggerNotifyRetry, ReconcileNext,
              files
<1>5. ASSUME NEW j \in Job, NEW w \in Who, \/ Post(j, w) \/ Send(j, w)
                                           \/ ReadLatest(j, w) \/ SaveOutcome(j, w)
      PROVE  UNCHANGED status
  BY <1>5, SendsPend DEF ReadLatest, SaveOutcome, files
<1>6. CASE \/ Clean \/ Serve \/ Restart \/ EndRecovery \/ ReconcileList
           \/ Crash \/ UNCHANGED vars
  BY <1>1, <1>6 DEF Clean, Choose, Serve, Restart, EndRecovery, ReconcileList, Crash,
                    vars, files
<1> QED
  BY <1>1, <1>2, <1>3, <1>4, <1>5, <1>6, Steps

(* Only a job that has been created is announced.                          *)
LEMMA NoticesMade ==
    ASSUME TypeOK, TriesInv, QueueInv, HistoryInv, MadeInv, [Next]_vars,
           NEW j \in Job, NEW w \in Who, notice'[j][w] # Idle
    PROVE  j \in Made
<1>1. CASE notice'[j][w] = notice[j][w]
  BY <1>1 DEF MadeInv
<1>2. ASSUME NEW i \in Job, NEW v \in Who, Announces(i, v), i \in Made
      PROVE  j \in Made
  <2>1. CASE i = j
    BY <1>2, <2>1
  <2>2. CASE i # j
    <3>1. PICK cs \in SUBSET Channel, n \in 0 .. MaxTries : Pends(i, v, cs, n)
      BY <1>2 DEF Announces
    <3> QED
      BY <1>1, <2>2, <3>1 DEF Pends, TypeOK
  <2> QED
    BY <2>1, <2>2
<1>3. ASSUME NEW i \in Job, NEW v \in Who, Done(i, v) PROVE j \in Made
  <2>1. notice' = [notice EXCEPT ![i][v] = Idle]
    BY <1>3 DEF Done
  <2>2. notice'[j][w] = IF i = j /\ v = w THEN Idle ELSE notice[j][w]
    BY <2>1 DEF TypeOK
  <2> QED
    BY <1>1, <2>2
<1>4. ASSUME NEW i \in Job, NEW v \in Who, ReadLatest(i, v) PROVE j \in Made
  <2>1. CASE Done(i, v)
    BY <1>3, <2>1
  <2>2. CASE notice' = [notice EXCEPT ![i][v] =
                          [@ EXCEPT !.stage = "saving", !.read = history[i]]]
    <3>1. CASE i = j
      <4>1. notice[i][v] # Idle
        BY <1>4 DEF ReadLatest, Idle
      <4> QED
        BY <3>1, <4>1 DEF MadeInv
    <3>2. CASE i # j
      BY <1>1, <2>2, <3>2 DEF TypeOK
    <3> QED
      BY <3>1, <3>2
  <2> QED
    BY <1>4, <2>1, <2>2, ReadGives
<1>5. ASSUME NEW i \in Job, NEW v \in Who, SaveOutcome(i, v) PROVE j \in Made
  BY <1>3, <1>5 DEF SaveOutcome
<1>6. ASSUME NEW i \in Job, Track(i) PROVE j \in Made
  <2>1. "auto" \in Who /\ i \in Made
    BY <1>6, TrackSteps DEF Who, MadeInv
  <2> QED
    BY <1>1, <1>2, <1>6, <2>1, TrackSteps
<1>7. ASSUME NEW i \in Job, TriggerNotifyRetry(i) \/ ReconcileNext(i)
      PROVE  j \in Made
  <2>1. "manual" \in Who /\ "startup" \in Who
    BY DEF Who
  <2>2. i \in Made
    BY <1>7, AnnounceSteps DEF MadeInv, Has
  <2> QED
    BY <1>2, <1>7, <2>1, <2>2, AnnounceSteps
<1>8. ASSUME NEW i \in Job, NEW v \in Who, Post(i, v) \/ Send(i, v) PROVE j \in Made
  <2>1. Announces(i, v) /\ notice[i][v].stage = "sending"
    BY <1>8, AnnounceSteps
  <2>2. notice[i][v] # Idle
    BY <2>1 DEF Idle
  <2> QED
    BY <1>2, <2>1, <2>2 DEF MadeInv
<1>9. ASSUME NEW i \in Job, Finish(i) \/ RemoveFile(i) \/ Recover(i)
      PROVE  UNCHANGED notice
  BY <1>9 DEF Finish, RemoveFile, Recover, notify
<1>10. ASSUME NEW c \in Client, Search(c) \/ Create(c) PROVE UNCHANGED notice
  BY <1>10 DEF Search, Create, notify
<1>11. CASE Crash
  BY <1>11 DEF Crash
<1>12. CASE \/ Clean \/ Serve \/ Restart \/ EndRecovery \/ ReconcileList
            \/ UNCHANGED vars
  BY <1>1, <1>12 DEF Clean, Choose, Serve, Restart, EndRecovery, ReconcileList, notify,
                     vars
<1> QED
  BY <1>1, <1>4, <1>5, <1>6, <1>7, <1>8, <1>9, <1>10, <1>11, <1>12, Steps

LEMMA MadeStep ==
    ASSUME TypeOK, TriesInv, QueueInv, HistoryInv, MadeInv, [Next]_vars
    PROVE  MadeInv'
<1>1. Made \subseteq Made'
  BY MadeGrows
<1>2. \A j \in Job, w \in Who : notice'[j][w] # Idle => j \in Made'
  BY <1>1, NoticesMade
<1>3. ASSUME exists' \cup untracked' \cup unrecovered' \cup todo' \subseteq Made'
      PROVE  MadeInv'
  BY <1>2, <1>3 DEF MadeInv
<1>4. CASE exists' \cup untracked' \cup unrecovered' \cup todo' \subseteq Made
  BY <1>1, <1>3, <1>4
<1>5. ASSUME NEW c \in Client, Search(c) \/ Create(c) PROVE MadeInv'
  <2>1. UNCHANGED <<untracked, unrecovered, todo>>
    BY <1>5 DEF Search, Create, notify, startup
  <2>2. CASE exists' = exists
    BY <1>4, <2>1, <2>2 DEF MadeInv
  <2>3. CASE /\ Unused # {}
             /\ exists' = exists \cup {NextId}
             /\ status' = [status EXCEPT ![NextId] =
                             "active"]
    <3>1. NextId \in Job
      BY <2>3, DrawnIsNew
    <3>2. NextId \in Made'
      BY <2>3, <3>1 DEF Made, TypeOK
    <3> QED
      BY <1>1, <1>3, <2>1, <2>3, <3>2 DEF MadeInv
  <2> QED
    BY <1>5, <2>2, <2>3 DEF Search, Create, files
<1>6. ASSUME NEW j \in Job, Finish(j) \/ RemoveFile(j) \/ Recover(j)
      PROVE  exists' \cup untracked' \cup unrecovered' \cup todo' \subseteq Made
  BY <1>6 DEF Finish, RemoveFile, Recover, Ends, Has, MadeInv, files, startup, notify
<1>7. ASSUME NEW j \in Job, Track(j) \/ TriggerNotifyRetry(j) \/ ReconcileNext(j)
      PROVE  exists' \cup untracked' \cup unrecovered' \cup todo' \subseteq Made
  BY <1>7 DEF Track, TriggerNotifyRetry, ReconcileNext, MadeInv, files, startup
<1>8. ASSUME NEW j \in Job, NEW w \in Who, Post(j, w) \/ Send(j, w)
      PROVE  exists' \cup untracked' \cup unrecovered' \cup todo' \subseteq Made
  BY <1>8, SendsPend DEF MadeInv, files, startup
<1>9. ASSUME NEW j \in Job, NEW w \in Who, ReadLatest(j, w)
      PROVE  exists' \cup untracked' \cup unrecovered' \cup todo' \subseteq Made
  BY <1>9 DEF ReadLatest, Done, MadeInv, files, startup
<1>10. ASSUME NEW j \in Job, NEW w \in Who, SaveOutcome(j, w)
       PROVE  exists' \cup untracked' \cup unrecovered' \cup todo' \subseteq Made
  <2>1. j \in Made
    BY <1>10 DEF SaveOutcome, Idle, MadeInv
  <2> QED
    BY <1>10, <2>1 DEF SaveOutcome, Done, MadeInv, files
<1>11. CASE Restart \/ ReconcileList \/ Crash
  BY <1>4, <1>11 DEF Restart, ReconcileList, Crash, Has, MadeInv, files, startup,
                     create, notify
<1>12. CASE Clean \/ Serve \/ EndRecovery \/ UNCHANGED vars
  BY <1>4, <1>12 DEF Clean, Choose, Serve, EndRecovery, MadeInv, files, startup, notify,
                     vars
<1> QED
  BY <1>4, <1>5, <1>6, <1>7, <1>8, <1>9, <1>10, <1>11, <1>12, Steps

(* A removed file that nobody is about to save stays removed.              *)
LEMMA NoNewSaving ==
    ASSUME TypeOK, TriesInv, QueueInv, HistoryInv, [Next]_vars,
           NEW j \in Job, NEW w \in Who, notice'[j][w].stage = "saving",
           notice[j][w].stage # "saving"
    PROVE  j \in exists
<1>1. notice'[j][w] # notice[j][w] /\ notice' # notice
  OBVIOUS
<1>2. ASSUME NEW i \in Job, NEW v \in Who, Announces(i, v) PROVE FALSE
  <2>1. PICK cs \in SUBSET Channel, n \in 0 .. MaxTries : Pends(i, v, cs, n)
    BY <1>2 DEF Announces
  <2> DEFINE m == [stage   |-> IF cs = {} THEN "queued" ELSE "sending",
                   pending |-> cs, tries |-> n, read |-> <<>>]
  <2>2. notice' = [notice EXCEPT ![i][v] = m] /\ m.stage # "saving"
    BY <2>1 DEF Pends
  <2> HIDE DEF m
  <2> QED
    BY <1>1, <2>2 DEF TypeOK
<1>3. ASSUME NEW i \in Job, NEW v \in Who, Done(i, v) PROVE FALSE
  <2>1. notice' = [notice EXCEPT ![i][v] = Idle] /\ Idle.stage # "saving"
    BY <1>3 DEF Done, Idle
  <2> QED
    BY <1>1, <2>1 DEF TypeOK
<1>4. ASSUME NEW i \in Job, NEW v \in Who, ReadLatest(i, v) PROVE j \in exists
  <2>1. CASE /\ notice' = [notice EXCEPT ![i][v] =
                             [@ EXCEPT !.stage = "saving", !.read = history[i]]]
             /\ i \in exists
    <3>1. CASE i = j
      BY <2>1, <3>1
    <3>2. CASE i # j
      BY <1>1, <2>1, <3>2 DEF TypeOK
    <3> QED
      BY <3>1, <3>2
  <2> QED
    BY <1>3, <1>4, <2>1, ReadGives
<1>5. ASSUME NEW i \in Job, NEW v \in Who, SaveOutcome(i, v) PROVE FALSE
  BY <1>3, <1>5 DEF SaveOutcome
<1>6. ASSUME NEW i \in Job, Track(i) PROVE FALSE
  <2>1. "auto" \in Who
    BY DEF Who
  <2> QED
    BY <1>1, <1>2, <1>6, <2>1, TrackSteps
<1>7. ASSUME NEW i \in Job, TriggerNotifyRetry(i) \/ ReconcileNext(i) PROVE FALSE
  <2>1. "manual" \in Who /\ "startup" \in Who
    BY DEF Who
  <2> QED
    BY <1>2, <1>7, <2>1, AnnounceSteps
<1>8. ASSUME NEW i \in Job, NEW v \in Who, Post(i, v) \/ Send(i, v) PROVE FALSE
  BY <1>2, <1>8, AnnounceSteps
<1>9. ASSUME NEW i \in Job, Finish(i) \/ RemoveFile(i) \/ Recover(i)
      PROVE  UNCHANGED notice
  BY <1>9 DEF Finish, RemoveFile, Recover, notify
<1>10. ASSUME NEW c \in Client, Search(c) \/ Create(c) PROVE UNCHANGED notice
  BY <1>10 DEF Search, Create, notify
<1>11. CASE Crash
  BY <1>1, <1>11 DEF Crash, Idle
<1>12. CASE \/ Clean \/ Serve \/ Restart \/ EndRecovery \/ ReconcileList
            \/ UNCHANGED vars
  BY <1>1, <1>12 DEF Clean, Choose, Serve, Restart, EndRecovery, ReconcileList, notify,
                     vars
<1> QED
  BY <1>1, <1>4, <1>5, <1>6, <1>7, <1>8, <1>9, <1>10, <1>11, <1>12, Steps

LEMMA GoneStays ==
    ASSUME TypeOK, TriesInv, QueueInv, HistoryInv, [Next]_vars,
           NEW j \in Made, Gone(j)
    PROVE  Gone(j)'
<1>1. j \in Job /\ j \notin Unused
  BY DEF Made, Unused
<1>2. \A w \in Who : notice'[j][w].stage # "saving"
  BY <1>1, NoNewSaving DEF Gone
<1>3. j \notin exists'
  <2>1. ASSUME NEW i \in Job, NEW w \in Who, SaveOutcome(i, w)
        PROVE  j \notin exists'
    <3>1. i # j
      BY <2>1 DEF SaveOutcome, Gone
    <3>2. exists' = exists \cup {i} \/ UNCHANGED exists
      BY <2>1 DEF SaveOutcome, files
    <3> QED
      BY <3>1, <3>2 DEF Gone
  <2> QED
    BY <1>1, <2>1, HistoryKept DEF Gone
<1> QED
  BY <1>2, <1>3 DEF Gone

(* A step that lets nobody create, and creates nothing.                    *)
LEMMA RequestKept ==
    ASSUME TypeOK, TriesInv, QueueInv, HistoryInv, RequestInv, [Next]_vars,
           createLock' \subseteq createLock,
           \A c \in createLock' : creating'[c] = creating[c],
           UNCHANGED <<request, unseen>>, Made' = Made, Unused' = Unused
    PROVE  RequestInv'
<1>1. \A j \in Made : Gone(j) => Gone(j)'
  BY GoneStays
<1>2. NextId' = NextId
  BY DEF NextId
<1>3. \A c, d \in createLock' : c = d
  BY DEF RequestInv
<1>4. \A c \in createLock', j \in Made :
         creating'[c] # NoRequest /\ request'[j] = creating'[c]
             => j \in unseen'[NextId'] \/ Gone(j)'
  BY <1>1, <1>2 DEF RequestInv
<1>5. \A i, j \in Made :
         i # j /\ request'[i] = request'[j] /\ request'[i] # NoRequest
             => i \in unseen'[j] \/ j \in unseen'[i] \/ Gone(i)' \/ Gone(j)'
  BY <1>1 DEF RequestInv
<1> QED
  BY <1>3, <1>4, <1>5 DEF RequestInv

(* The jobs that have been created change with no other step.              *)
LEMMA MadeKept ==
    ASSUME TypeOK, TriesInv, [Next]_vars, ~\E c \in Client : Create(c)
    PROVE  Made' = Made /\ Unused' = Unused
<1>1. CASE UNCHANGED status
  BY <1>1 DEF Made, Unused
<1>2. ASSUME NEW j \in Job, Ends(j) PROVE Made' = Made /\ Unused' = Unused
  BY <1>2 DEF Ends, Has, Made, Unused, TypeOK
<1>3. ASSUME NEW c \in Client, Search(c) PROVE UNCHANGED status
  BY <1>3 DEF Search, files
<1>4. ASSUME NEW j \in Job, \/ Finish(j) \/ RemoveFile(j) \/ Recover(j) \/ Track(j)
                            \/ TriggerNotifyRetry(j) \/ ReconcileNext(j)
      PROVE  Ends(j) \/ UNCHANGED status
  BY <1>4 DEF Finish, RemoveFile, Recover, Track, TriggerNotifyRetry, ReconcileNext,
              files
<1>5. ASSUME NEW j \in Job, NEW w \in Who, \/ Post(j, w) \/ Send(j, w)
                                           \/ ReadLatest(j, w) \/ SaveOutcome(j, w)
      PROVE  UNCHANGED status
  BY <1>5, SendsPend DEF ReadLatest, SaveOutcome, files
<1>6. CASE \/ Clean \/ Serve \/ Restart \/ EndRecovery \/ ReconcileList
           \/ Crash \/ UNCHANGED vars
  BY <1>1, <1>6 DEF Clean, Choose, Serve, Restart, EndRecovery, ReconcileList, Crash,
                    vars, files
<1> QED
  BY <1>1, <1>2, <1>3, <1>4, <1>5, <1>6, Steps

LEMMA RequestStep ==
    ASSUME TypeOK, TriesInv, QueueInv, HistoryInv, MadeInv, RequestInv, [Next]_vars
    PROVE  RequestInv'
<1>1. CASE /\ UNCHANGED <<createLock, creating, request, unseen>>
           /\ ~\E c \in Client : Create(c)
  BY <1>1, RequestKept, MadeKept
<1>2. ASSUME NEW c \in Client, Search(c) PROVE RequestInv'
  <2>1. PICK r \in Request \cup {NoRequest} : Finds(c, r)
    BY <1>2 DEF Search
  <2> DEFINE lost == {j \in Of(r) : j \in exists \/ ComesBack(j)}
  <2>2. creating' = [creating EXCEPT ![c] = r]
          /\ unseen' = [unseen EXCEPT ![NextId] = lost]
    BY <2>1 DEF Finds
  <2>3. createLock' = {c} /\ creating'[c] = r
          /\ UNCHANGED <<exists, request, status, notice>>
    BY <1>2, <2>2 DEF Search, TypeOK, files, notify
  <2>4. NextId \in Job /\ NextId \notin Made
    BY <1>2, DrawnIsNew DEF Search, Made
  <2>5. unseen'[NextId] = lost /\ \A j \in Made : unseen'[j] = unseen[j]
    BY <2>2, <2>4 DEF TypeOK, Made
  <2>6. Made' = Made /\ Unused' = Unused /\ \A j \in Made : Gone(j)' <=> Gone(j)
    BY <2>3 DEF Made, Unused, Gone
  <2>7. NextId' = NextId
    BY <2>6 DEF NextId
  <2>8. \A j \in Made : r # NoRequest /\ request[j] = r => j \in lost \/ Gone(j)
    BY DEF Made, Of, ComesBack, Gone
  <2> HIDE DEF lost
  <2>9. \A d \in createLock', j \in Made :
           creating'[d] # NoRequest /\ request'[j] = creating'[d]
               => j \in unseen'[NextId'] \/ Gone(j)'
    BY <2>3, <2>5, <2>6, <2>7, <2>8
  <2>10. \A i, j \in Made :
            i # j /\ request'[i] = request'[j] /\ request'[i] # NoRequest
                => i \in unseen'[j] \/ j \in unseen'[i] \/ Gone(i)' \/ Gone(j)'
    BY <2>3, <2>5, <2>6 DEF RequestInv
  <2> QED
    BY <2>3, <2>6, <2>9, <2>10 DEF RequestInv
<1>3. ASSUME NEW c \in Client, Create(c) PROVE RequestInv'
  <2>1. c \in createLock /\ createLock' = {} /\ UNCHANGED unseen
    BY <1>3 DEF Create, RequestInv, seen
  <2>2. CASE UNCHANGED <<exists, status, request>>
    <3>1. Made' = Made /\ Unused' = Unused
      BY <2>2 DEF Made, Unused
    <3> QED
      BY <2>1, <2>2, <3>1, RequestKept
  <2>3. ASSUME NEW n, n = NextId, Unused # {},
               status' = [status EXCEPT ![n] = "active"],
               request' = [request EXCEPT ![n] = creating[c]]
        PROVE  RequestInv'
    <3>1. n \in Job /\ n \notin Made
      BY <2>3, DrawnIsNew DEF Made
    <3>2. Made' = Made \cup {n}
      BY <2>3, <3>1 DEF Made, TypeOK
    <3>3. request'[n] = creating[c] /\ \A i \in Made : request'[i] = request[i]
      BY <2>3, <3>1 DEF TypeOK, Made
    <3>4. \A i \in Made : Gone(i) => Gone(i)'
      BY GoneStays
    <3>5. \A i \in Made : request[i] = creating[c] /\ creating[c] # NoRequest
                              => i \in unseen'[n] \/ Gone(i)'
      BY <2>1, <2>3, <3>4 DEF RequestInv
    <3>6. \A i, j \in Made :
             i # j /\ request'[i] = request'[j] /\ request'[i] # NoRequest
                 => i \in unseen'[j] \/ j \in unseen'[i] \/ Gone(i)' \/ Gone(j)'
      BY <2>1, <3>3, <3>4 DEF RequestInv
    <3>7. \A i, j \in Made' :
             i # j /\ request'[i] = request'[j] /\ request'[i] # NoRequest
                 => i \in unseen'[j] \/ j \in unseen'[i] \/ Gone(i)' \/ Gone(j)'
      BY <3>2, <3>3, <3>5, <3>6
    <3> QED
      BY <2>1, <3>7 DEF RequestInv
  <2> QED
    BY <1>3, <2>2, <2>3 DEF Create
<1>4. ASSUME NEW j \in Job, \/ Finish(j) \/ RemoveFile(j) \/ Recover(j) \/ Track(j)
                            \/ TriggerNotifyRetry(j) \/ ReconcileNext(j)
      PROVE  UNCHANGED <<createLock, creating, request, unseen>>
  BY <1>4 DEF Finish, RemoveFile, Recover, Ends, Track, TriggerNotifyRetry,
              ReconcileNext, files, create, seen
<1>5. ASSUME NEW j \in Job, NEW w \in Who, \/ Post(j, w) \/ Send(j, w)
                                           \/ ReadLatest(j, w)
      PROVE  UNCHANGED <<createLock, creating, request, unseen>>
  BY <1>5, SendsPend DEF ReadLatest, Done, files, create, seen
<1>6. ASSUME NEW j \in Job, NEW w \in Who, SaveOutcome(j, w)
      PROVE  UNCHANGED <<createLock, creating, request, unseen>>
  BY <1>6 DEF SaveOutcome, Done, files, create, seen
<1>7. CASE Crash /\ ~\E c \in Client : Create(c)
  <2>1. createLock' = {} /\ UNCHANGED <<request, unseen>>
    BY <1>7 DEF Crash, files, seen
  <2> QED
    BY <1>7, <2>1, RequestKept, MadeKept
<1>8. CASE \/ Clean \/ Serve \/ Restart \/ EndRecovery \/ ReconcileList
           \/ UNCHANGED vars
  <2>1. UNCHANGED <<createLock, creating, request, unseen>>
    BY <1>8 DEF Clean, Choose, Serve, Restart, EndRecovery, ReconcileList, files,
                create, seen, vars
  <2> QED
    BY <1>1, <1>3, <2>1
<1> QED
  BY <1>1, <1>2, <1>3, <1>4, <1>5, <1>6, <1>7, <1>8, Steps

-----------------------------------------------------------------------------
(* Retention.                                                              *)

(* Every file that goes for being one too many is survived by as many      *)
(* newer ones as may stay.                                                 *)
RetentionInv ==
    /\ surplus \subseteq doomed
    /\ \A j \in doomed : status[j] = "terminal"
    /\ \A j \in surplus :
          Cardinality(Newer(j, Has("terminal") \ doomed)) >= MaxTerminalJobs

LEMMA LeastOf ==
    ASSUME NEW T, T \subseteq Nat, T # {}
    PROVE  \E m \in T : \A n \in T : m <= n
<1> DEFINE R == OpToRel(<, Nat)
<1>1. IsWellFoundedOn(R, Nat)
  BY NatLessThanWellFounded
<1> HIDE DEF R
<1>2. PICK m \in T : \A n \in T : ~(<<n, m>> \in R)
  BY <1>1, WFMin
<1>3. \A n \in T : ~(n < m)
  BY <1>2 DEF R, OpToRel
<1> QED
  BY <1>3

LEMMA CountsAgree ==
    ASSUME NEW S \in SUBSET Job, NEW T \in SUBSET S
    PROVE  /\ Cardinality(S) \in Nat /\ Cardinality(T) \in Nat
           /\ Cardinality(T) <= Cardinality(S)
           /\ Cardinality(S) = Cardinality(T) => S = T
<1>1. IsFiniteSet(S) /\ IsFiniteSet(T)
  BY NotifyAssumption, FS_Subset
<1> QED
  BY <1>1, FS_Subset, FS_CardinalityType

(* Of the jobs that are too many, the newest is survived by all that are   *)
(* newer than it is: so every other one is survived by as many.            *)
LEMMA OverflowLeavesEnough ==
    ASSUME TypeOK, NEW young \in SUBSET Job, NEW j \in young,
           Cardinality(Newer(j, young)) >= MaxTerminalJobs,
           NEW rest,
           rest = {i \in young : ~(Cardinality(Newer(i, young)) >= MaxTerminalJobs)}
    PROVE  Cardinality(Newer(j, rest)) >= MaxTerminalJobs
<1> DEFINE count(i) == Cardinality(Newer(i, young))
           S == Newer(j, young) \ rest
<1>1. \A i \in young : ended[i] \in Nat /\ count(i) \in Nat
  BY CountsAgree DEF TypeOK, Newer
<1>2. MaxTerminalJobs \in Nat /\ j \in Job
  BY NotifyAssumption
<1>6. \A i, k, l \in Job :
        /\ ended[k] > ended[i] /\ ended[l] > ended[k] => ended[l] > ended[i]
        /\ ~(ended[k] > ended[k])
  <2> SUFFICES ASSUME NEW i \in Job, NEW k \in Job, NEW l \in Job
               PROVE  /\ ended[k] > ended[i] /\ ended[l] > ended[k] => ended[l] > ended[i]
                      /\ ~(ended[k] > ended[k])
    OBVIOUS
  <2>1. ended[i] \in Nat /\ ended[k] \in Nat /\ ended[l] \in Nat
    BY DEF TypeOK
  <2> QED
    BY <2>1
<1>3. S \subseteq young /\ \A i \in S : count(i) >= MaxTerminalJobs
  BY DEF Newer
<1>4. CASE S = {}
  <2>1. Newer(j, rest) = Newer(j, young)
    BY <1>4 DEF Newer
  <2> QED
    BY <2>1
<1>5. CASE S # {}
  <2>1. PICK i \in S : \A k \in S : count(i) <= count(k)
    <3> DEFINE T == {count(k) : k \in S}
    <3>1. T \subseteq Nat /\ T # {}
      BY <1>1, <1>3, <1>5
    <3>2. PICK m \in T : \A n \in T : m <= n
      BY <3>1, LeastOf
    <3> QED
      BY <3>2
  <2>2. i \in young /\ ended[i] > ended[j] /\ i \notin rest
    BY DEF Newer
  <2>3. Newer(i, young) \subseteq rest
    <3> SUFFICES ASSUME NEW k \in Newer(i, young), k \notin rest
                 PROVE  FALSE
      BY DEF Newer
    <3>1. k \in S /\ ended[k] > ended[i]
      <4>1. k \in young /\ ended[k] > ended[i]
        BY DEF Newer
      <4>3. ended[k] > ended[j]
        BY <1>6, <2>2, <4>1
      <4> QED
        BY <4>1, <4>3 DEF Newer
    <3>2. Newer(k, young) \subseteq Newer(i, young) \ {k}
      BY <1>6, <2>2, <3>1 DEF Newer
    <3>3. Newer(i, young) \in SUBSET Job /\ k \in Newer(i, young)
      BY DEF Newer
    <3>4. count(k) <= count(i) /\ count(k) # count(i)
      BY <3>2, <3>3, CountsAgree
    <3>5. count(i) <= count(k)
      BY <2>1, <3>1
    <3>6. count(i) \in Nat /\ count(k) \in Nat
      BY <1>1, <1>3, <3>1
    <3> HIDE DEF count
    <3> QED
      BY <3>4, <3>5, <3>6
  <2>4. Newer(i, young) \subseteq Newer(j, rest)
    BY <1>6, <2>2, <2>3 DEF Newer
  <2>5. Newer(j, rest) \in SUBSET Job
    BY DEF Newer
  <2>6. count(i) <= Cardinality(Newer(j, rest)) /\ Cardinality(Newer(j, rest)) \in Nat
    BY <2>4, <2>5, CountsAgree
  <2> QED
    BY <1>1, <1>2, <1>3, <2>2, <2>6
<1> QED
  BY <1>4, <1>5

(* What every step other than a listing keeps of those that stay.          *)
Spares ==
    /\ doomed' \subseteq doomed /\ surplus' \subseteq surplus
    /\ surplus \subseteq doomed => surplus' \subseteq doomed'
    /\ \A i \in Job : status[i] = "terminal" =>
                          status'[i] = "terminal" /\ ended'[i] = ended[i]
    /\ exists \ doomed \subseteq exists'

LEMMA StepSpares ==
    ASSUME TypeOK, TriesInv, [Next]_vars, ~Clean, ~Crash
    PROVE  Spares
<1>1. ASSUME NEW c \in Client, Search(c) PROVE Spares
  BY <1>1 DEF Search, Spares, files, clean
<1>2. ASSUME NEW c \in Client, Create(c) PROVE Spares
  <2>1. UNCHANGED <<doomed, surplus, ended>> /\ exists \subseteq exists'
    BY <1>2 DEF Create, clean
  <2>2. \/ UNCHANGED status
        \/ /\ Unused # {}
           /\ status' = [status EXCEPT ![NextId] = "active"]
    BY <1>2 DEF Create
  <2>3. ASSUME Unused # {}
        PROVE  status[NextId] = "new"
    BY <2>3, DrawnIsNew
  <2>4. \A i \in Job : status[i] = "terminal" => status'[i] = "terminal"
    BY <2>2, <2>3 DEF TypeOK
  <2> QED
    BY <2>1, <2>4 DEF Spares
<1>3. ASSUME NEW j \in Job, Finish(j) \/ Recover(j) PROVE Spares
  <2>1. UNCHANGED <<doomed, surplus, exists>>
    BY <1>3 DEF Finish, Recover, Ends, clean, files
  <2>2. Ends(j) \/ UNCHANGED <<status, ended>>
    BY <1>3 DEF Finish, Recover, files
  <2>3. \A i \in Job : status[i] = "terminal" =>
                          status'[i] = "terminal" /\ ended'[i] = ended[i]
    BY <2>2 DEF Ends, Has, TypeOK
  <2> QED
    BY <2>1, <2>3 DEF Spares
<1>4. ASSUME NEW j \in Job, RemoveFile(j) PROVE Spares
  BY <1>4 DEF RemoveFile, Spares
<1>5. ASSUME NEW j \in Job, Track(j) \/ TriggerNotifyRetry(j) \/ ReconcileNext(j)
      PROVE  Spares
  BY <1>5 DEF Track, TriggerNotifyRetry, ReconcileNext, Spares, files, clean
<1>6. ASSUME NEW j \in Job, NEW w \in Who, Post(j, w) \/ Send(j, w)
      PROVE  Spares
  BY <1>6, SendsPend DEF Spares, files, clean
<1>7. ASSUME NEW j \in Job, NEW w \in Who, ReadLatest(j, w) \/ SaveOutcome(j, w)
      PROVE  Spares
  BY <1>7 DEF ReadLatest, SaveOutcome, Done, Spares, files, clean
<1>8. CASE Serve \/ Restart \/ EndRecovery \/ ReconcileList \/ UNCHANGED vars
  BY <1>8 DEF Serve, Restart, EndRecovery, ReconcileList, Spares, vars, files, clean
<1> QED
  BY <1>1, <1>2, <1>3, <1>4, <1>5, <1>6, <1>7, <1>8, Steps

LEMMA RetentionStep ==
    ASSUME TypeOK, TypeOK', TriesInv, RetentionInv, [Next]_vars
    PROVE  RetentionInv'
<1>1. CASE Clean
  <2>1. PICK unread \in SUBSET exists :
          \E old \in SUBSET (Has("terminal") \ unread) :
             /\ doomed' = old \cup Overflow(Has("terminal") \ unread, old)
             /\ surplus' = Overflow(Has("terminal") \ unread, old)
    BY <1>1 DEF Clean, Choose
  <2> DEFINE listed == Has("terminal") \ unread
  <2>12. PICK old \in SUBSET listed :
          doomed' = old \cup Overflow(listed, old) /\ surplus' = Overflow(listed, old)
    BY <2>1
  <2>2. UNCHANGED <<exists, status, ended>>
    BY <1>1 DEF Clean, Choose, files
  <2> DEFINE young == listed \ old
             shown == listed \ doomed'
             rest  == Has("terminal") \ doomed'
  <2>3. young \in SUBSET Job /\ rest \in SUBSET Job /\ shown \subseteq rest
    BY DEF Has, TypeOK
  <2>4. /\ surplus' = {i \in young : Cardinality(Newer(i, young)) >= MaxTerminalJobs}
        /\ shown = {i \in young : ~(Cardinality(Newer(i, young)) >= MaxTerminalJobs)}
    BY <2>12 DEF Overflow
  <2>5. doomed' \subseteq Has("terminal")
    BY <2>12 DEF Overflow
  <2>10. surplus' \subseteq doomed'
    BY <2>12
  <2> HIDE DEF young, rest, shown
  <2>6. \A j \in surplus' : Cardinality(Newer(j, rest)) >= MaxTerminalJobs
    <3> SUFFICES ASSUME NEW j \in surplus'
                 PROVE  Cardinality(Newer(j, rest)) >= MaxTerminalJobs
      OBVIOUS
    <3>1. Cardinality(Newer(j, shown)) >= MaxTerminalJobs
      BY <2>3, <2>4, OverflowLeavesEnough
    <3>2. Newer(j, rest) \in SUBSET Job /\ Newer(j, shown) \in SUBSET Newer(j, rest)
      BY <2>3 DEF Newer
    <3>3. /\ Cardinality(Newer(j, shown)) <= Cardinality(Newer(j, rest))
          /\ Cardinality(Newer(j, rest)) \in Nat
          /\ Cardinality(Newer(j, shown)) \in Nat
      BY <3>2, CountsAgree
    <3> QED
      BY <3>1, <3>3, NotifyAssumption
  <2>7. rest = Has("terminal")' \ doomed'
    BY <2>2 DEF rest, Has
  <2>8. ended' = ended
    BY <2>2
  <2>9. \A j : Newer(j, Has("terminal") \ doomed)' = Newer(j, rest)
    BY <2>7, <2>8 DEF Newer
  <2>11. \A j \in doomed' : status'[j] = "terminal"
    BY <2>2, <2>5 DEF Has
  <2> QED
    BY <2>6, <2>9, <2>10, <2>11 DEF RetentionInv
<1>2. CASE Crash
  BY <1>2 DEF Crash, RetentionInv
<1>3. CASE ~Clean /\ ~Crash
  <2>1. Spares
    BY <1>3, StepSpares
  <2>2. \A j \in doomed' : status'[j] = "terminal"
    BY <2>1 DEF Spares, RetentionInv, TypeOK
  <2>3. ASSUME NEW j \in surplus'
        PROVE  Cardinality(Newer(j, Has("terminal") \ doomed))' >= MaxTerminalJobs
    <3> DEFINE before == Newer(j, Has("terminal") \ doomed)
               after  == Newer(j, Has("terminal") \ doomed)'
    <3>1. j \in surplus /\ j \in Job /\ status[j] = "terminal"
      BY <2>1, <2>3 DEF Spares, RetentionInv, TypeOK
    <3>2. before \subseteq after
      BY <2>1, <3>1 DEF Newer, Has, Spares, TypeOK
    <3>3. after \in SUBSET Job
      BY DEF Newer, Has, TypeOK
    <3>4. Cardinality(before) >= MaxTerminalJobs
      BY <3>1 DEF RetentionInv
    <3>5. Cardinality(after) = Cardinality(Newer(j, Has("terminal") \ doomed))'
      OBVIOUS
    <3> HIDE DEF before, after
    <3>6. Cardinality(before) <= Cardinality(after) /\ Cardinality(before) \in Nat
            /\ Cardinality(after) \in Nat /\ MaxTerminalJobs \in Nat
      BY <3>2, <3>3, CountsAgree, NotifyAssumption
    <3>7. Cardinality(after) >= MaxTerminalJobs
      BY <3>4, <3>6
    <3> QED
      BY <3>5, <3>7
  <2> QED
    BY <2>1, <2>2, <2>3 DEF RetentionInv, Spares
<1> QED
  BY <1>1, <1>2, <1>3

-----------------------------------------------------------------------------
(* The theorems.                                                           *)

IInv ==
    /\ TypeOK
    /\ TriesInv
    /\ QueueInv
    /\ HistoryInv
    /\ MadeInv
    /\ RequestInv
    /\ RetentionInv

LEMMA InitInv == Init => IInv
<1> SUFFICES ASSUME Init PROVE IInv
  OBVIOUS
<1>1. TypeOK
  BY InitTyped
<1>2. \A j \in Job, w \in Who : notice[j][w] = Idle
  BY DEF Init
<1>3. TriesInv
  BY <1>2 DEF TriesInv, Idle
<1>4. QueueInv
  <2>1. \A j \in Job : queue[j] = <<>>
    BY DEF Init
  <2> QED
    BY <1>2, <2>1 DEF QueueInv, Ordered, Waits, Idle
<1>5. HistoryInv
  <2>1. Complete(0) \in Seq(Nat) /\ Len(Complete(0)) = 0
    <3>1. Kept(0) = 0
      BY NotifyAssumption DEF Kept, Smaller
    <3> QED
      BY <3>1, CompleteTyped
  <2>2. Complete(0) = <<>>
    <3> HIDE DEF Complete
    <3> QED
      BY <2>1
  <2> QED
    BY <2>2 DEF Init, HistoryInv
<1>6. MadeInv
  BY <1>2 DEF MadeInv, Init
<1>7. RequestInv
  BY DEF RequestInv, Made, Init
<1>8. RetentionInv
  BY DEF RetentionInv, Init
<1> QED
  BY <1>1, <1>3, <1>4, <1>5, <1>6, <1>7, <1>8 DEF IInv

LEMMA StepInv == IInv /\ [Next]_vars => IInv'
BY TypeStep, TriesStep, QueueStep, HistoryStep, MadeStep, RequestStep, RetentionStep DEF IInv

(* The invariant of the job files, their announcements and their records   *)
(* (jobs.service.ts, job-notify.service.ts): each job's announcements wait *)
(* in turn to record, who saves has read the latest history, and nothing   *)
(* is about a job that was never created.                                  *)
THEOREM NotifyInvariance == Spec => []IInv
<1>1. Init => IInv
  BY InitInv
<1>2. IInv /\ [Next]_vars => IInv'
  BY StepInv
<1> QED
  BY <1>1, <1>2, PTL DEF Spec

(* createJob, in turn, makes a second file of a request only when its      *)
(* listing left the first one out, or when the first one's outcome, read   *)
(* before retention removed its file, is saved after the search: for any   *)
(* number of callers, and however many listings miss files.                *)
THEOREM RequestsHaveOneFile == Spec => []OneFilePerRequest
<1>1. IInv => OneFilePerRequest
  BY DEF IInv, RequestInv, MadeInv, Gone, OneFilePerRequest
<1> QED
  BY <1>1, NotifyInvariance, PTL

(* What retention has removed comes back only by a save that had read the  *)
(* job before: neither restarts, retries nor listings bring a file back.   *)
THEOREM RemovedStaysRemoved ==
    Spec => [][\A j \in Made : Gone(j) => Gone(j)']_vars
<1> DEFINE Stays == \A j \in Made : Gone(j) => Gone(j)'
<1>1. IInv /\ [Next]_vars => Stays
  BY GoneStays DEF IInv
<1>2. IInv /\ [Next]_vars => [Stays]_vars
  BY <1>1
<1> HIDE DEF Stays
<1>3. Spec => [][Stays]_vars
  BY <1>2, NotifyInvariance, PTL DEF Spec
<1> QED
  BY <1>3 DEF Stays

(* persistOutcome loses no outcome: a job's history is that of the latest  *)
(* HistoryLimit outcomes saved, whoever recorded them and however often    *)
(* the process died between.                                               *)
THEOREM OutcomesAreKept == Spec => []HistoryIsComplete
<1>1. IInv => HistoryIsComplete
  <2> SUFFICES ASSUME IInv, NEW j \in exists
               PROVE  history[j] =
                        [i \in 1 .. Smaller(saves[j], HistoryLimit) |->
                            Smaller(saves[j] - Smaller(saves[j], HistoryLimit) + i - 1,
                                    HistoryLimit)]
    BY DEF HistoryIsComplete
  <2>1. history[j] = Complete(saves[j])
    BY DEF IInv, HistoryInv, TypeOK
  <2> QED
    BY <2>1 DEF Complete, Kept
<1> QED
  BY <1>1, NotifyInvariance, PTL

(* A file that retention removes because there are too many leaves as many *)
(* newer ones behind as BRIDGE_MAX_TERMINAL_JOBS allows, also when it has  *)
(* become stale what cleanupTerminalJobs listed.                           *)
THEOREM NewestStay == Spec => NewestAreKept
<1> DEFINE LeavesEnough ==
               \A j \in Job :
                  RemoveFile(j) /\ j \in exists \cap surplus =>
                     Cardinality(Newer(j, Has("terminal"))) >= MaxTerminalJobs
<1>1. IInv => LeavesEnough
  <2> SUFFICES ASSUME IInv, NEW j \in Job, j \in surplus
               PROVE  Cardinality(Newer(j, Has("terminal"))) >= MaxTerminalJobs
    OBVIOUS
  <2> DEFINE all  == Newer(j, Has("terminal"))
             kept == Newer(j, Has("terminal") \ doomed)
  <2>1. kept \subseteq all /\ all \in SUBSET Job
    BY DEF Newer, Has, IInv, TypeOK
  <2>2. Cardinality(kept) >= MaxTerminalJobs
    BY DEF IInv, RetentionInv
  <2> HIDE DEF all, kept
  <2>3. /\ Cardinality(kept) <= Cardinality(all)
        /\ Cardinality(kept) \in Nat /\ Cardinality(all) \in Nat
    BY <2>1, CountsAgree
  <2>4. MaxTerminalJobs \in Nat
    BY NotifyAssumption
  <2>5. Cardinality(all) >= MaxTerminalJobs
    BY <2>2, <2>3, <2>4
  <2> QED
    BY <2>5 DEF all
<1>2. IInv /\ [Next]_vars => [LeavesEnough]_vars
  BY <1>1
<1> HIDE DEF LeavesEnough
<1>3. Spec => [][LeavesEnough]_vars
  BY <1>2, NotifyInvariance, PTL DEF Spec
<1> QED
  BY <1>3 DEF NewestAreKept, LeavesEnough

=============================================================================
