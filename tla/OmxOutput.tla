------------------------------- MODULE OmxOutput -------------------------------
(***************************************************************************)
(* OmxExec with the data events of the child: what OmxExecService.execute  *)
(* keeps of an output that may be longer than it may return, and what the  *)
(* result shows of it. A character is the number of its place in the       *)
(* output. Of the two streams, stdout is modelled.                         *)
(***************************************************************************)
EXTENDS OmxExec, Integers, Sequences

CONSTANTS
    Limits,           \* the values of BRIDGE_MAX_OUTPUT_CHARS that are tried
    Wording,          \* length of the truncation marker without its number: 26
    Radix,            \* the marker's number is written in this radix: 10
    MaxWritten,       \* bound: the length of the output
    MaxChunk          \* bound: the length of one chunk

ASSUME OutputAssumption ==
    /\ Limits \subseteq Nat \ {0}
    /\ Wording \in Nat
    /\ Radix \in Nat \ {0, 1}
    /\ MaxWritten \in Nat
    /\ MaxChunk \in Nat \ {0}

VARIABLES
    maxOutputChars,   \* the limit
    captured,         \* stdoutCapture
    stdout            \* what the result shows: the first characters, how many
                      \* the marker says are missing, and the last characters

streams == <<maxOutputChars, captured, stdout>>

Nothing == [head |-> <<>>, omitted |-> 0, tail |-> <<>>]

-----------------------------------------------------------------------------
(* The helpers.                                                            *)

Larger(m, n)  == IF m < n THEN n ELSE m
Smaller(m, n) == IF m < n THEN m ELSE n

(* slice(0, n) and slice(-n), for n that may exceed the length.            *)
FirstOf(s, n) == SubSeq(s, 1, Smaller(n, Len(s)))
LastOf(s, n)  == SubSeq(s, Len(s) - Smaller(n, Len(s)) + 1, Len(s))

Power[d \in Nat] == IF d = 0 THEN 1 ELSE Radix * Power[d - 1]

Digits(n) == CHOOSE d \in 1 .. n + 1 :
                /\ n < Power[d]
                /\ d = 1 \/ Power[d - 1] <= n

MarkerLength(omitted) == Wording + Digits(omitted)

(* buildTruncationMarker: the loop goes up from the smallest count to the  *)
(* first that is right for the length it gives the marker. There is one    *)
(* below the bound.                                                        *)
Aware(length, k) == Larger(0, length - (maxOutputChars - MarkerLength(k)))

Omitted(length) ==
    LET first == Larger(0, length - maxOutputChars)
    IN  CHOOSE k \in first .. 2 * (first + Wording + 1) :
            /\ Aware(length, k) = k
            /\ \A j \in first .. k - 1 : Aware(length, j) # j

Marker(length) == MarkerLength(Omitted(length))

(* A faulty variant, which takes the end of the chunk only.                *)
AppendTailOfChunk(c, chunk, n) == LastOf(chunk, n)

AppendTail(c, chunk, n) ==
    LastOf((IF c.truncated THEN c.tail ELSE c.head) \o chunk, n)

AppendCapturedOutput(c, chunk) ==
    LET length    == c.length + Len(chunk)
        remaining == maxOutputChars - Marker(length)
        head      == IF c.truncated THEN c.head ELSE c.head \o chunk
    IN  CASE ~c.truncated /\ length <= maxOutputChars ->
               [head |-> head, tail |-> <<>>, length |-> length,
                truncated |-> FALSE]
          [] (c.truncated \/ length > maxOutputChars) /\ remaining <= 0 ->
               [head |-> <<>>, tail |-> AppendTail(c, chunk, maxOutputChars),
                length |-> length, truncated |-> TRUE]
          [] OTHER ->
               [head |-> FirstOf(head, (remaining + 1) \div 2),
                tail |-> AppendTail(c, chunk, remaining \div 2),
                length |-> length, truncated |-> TRUE]

RenderCapturedOutput(c) ==
    CASE ~c.truncated -> [Nothing EXCEPT !.head = c.head]
      [] c.truncated /\ Marker(c.length) >= maxOutputChars ->
           [Nothing EXCEPT !.tail = LastOf(c.tail, maxOutputChars)]
      [] OTHER ->
           [head |-> c.head, omitted |-> Omitted(c.length), tail |-> c.tail]

-----------------------------------------------------------------------------
OutputInit ==
    /\ Init
    /\ maxOutputChars \in Limits
    /\ captured = [head |-> <<>>, tail |-> <<>>, length |-> 0,
                   truncated |-> FALSE]
    /\ stdout = Nothing

(* A data event. What comes once the run has settled is not in its result. *)
OnData ==
    /\ started = "spawned"
    /\ ~closed
    /\ ~Settled
    /\ \E n \in 1 .. MaxChunk :
        /\ captured.length + n <= MaxWritten
        /\ captured' = AppendCapturedOutput(captured,
                          [i \in 1 .. n |-> captured.length + i])
    /\ UNCHANGED <<vars, maxOutputChars, stdout>>

(* Every other event; finish shows what has been captured.                 *)
OtherEvent ==
    /\ Next
    /\ stdout' = IF result' # result THEN RenderCapturedOutput(captured)
                                     ELSE stdout
    /\ UNCHANGED <<maxOutputChars, captured>>

OutputNext == OnData \/ OtherEvent

OutputSpec == OutputInit /\ [][OutputNext]_<<vars, streams>> /\ Fairness

-----------------------------------------------------------------------------
(* Whatever the chunks were, the result shows the whole output if it is    *)
(* within the limit, and otherwise its beginning and its end and exactly   *)
(* how many characters are missing in between; and it is never longer than *)
(* BRIDGE_MAX_OUTPUT_CHARS, also when the number in the marker grows.      *)
OutputIsFaithful ==
    Settled =>
        LET whole == [i \in 1 .. captured.length |-> i]
            shown == Len(stdout.head) + Len(stdout.tail)
        IN  IF captured.length <= maxOutputChars
            THEN stdout = [Nothing EXCEPT !.head = whole]
            ELSE /\ stdout.head = FirstOf(whole, Len(stdout.head))
                 /\ stdout.tail = LastOf(whole, Len(stdout.tail))
                 /\ IF stdout.omitted = 0
                    THEN shown <= maxOutputChars
                    ELSE /\ shown + stdout.omitted = captured.length
                         /\ shown + MarkerLength(stdout.omitted) = maxOutputChars
=============================================================================
