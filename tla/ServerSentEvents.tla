-------------------------- MODULE ServerSentEvents --------------------------
(***************************************************************************)
(* One answer on its way from the body of an HTTP response to the worker   *)
(* that asked for it: streamResponse of provider/zai.go, which reads the   *)
(* body line by line, and the range of the orchestrator's stream over its  *)
(* channel.  DebateSession takes the provider as something that delivers   *)
(* deltas and then ends well or with an error; this is how the lines, and  *)
(* the ways a body can end, become that.                                   *)
(*                                                                         *)
(* Of a line only matters which way it takes through the loop.  The text   *)
(* of a body is its number of deltas.                                      *)
(***************************************************************************)
EXTENDS Integers

CONSTANT MaxLines   \* bound: lines of a body

VARIABLES
    reader,    \* where streamResponse is
    lines,     \* lines read
    content,   \* deltas in the body so far
    ended,     \* how the body ended: "open", "whole" or "broken"
    cancelled, \* the context of the session is done
    worker,    \* "ranging", "closed" after the range ended, "failed" after an
               \* error event, "gone" after a send of its own was cancelled
    received   \* deltas the worker has received

bodyVars == <<reader, lines, content, ended, cancelled, worker, received>>

\* "other" does not begin with "data: ", "garbage" is not JSON, "hollow" has
\* no choices or no content, "text" is a delta.
LineKinds == {"other", "garbage", "hollow", "text"}

BodyInit ==
    /\ reader = "asked"
    /\ lines = 0
    /\ content = 0
    /\ ended = "open"
    /\ cancelled = FALSE
    /\ worker = "ranging"
    /\ received = 0

Respond ==
    /\ reader = "asked"
    /\ reader' = "scanning"
    /\ UNCHANGED <<lines, content, ended, cancelled, worker, received>>

\* The request fails, or its status is not 200.
RequestFails ==
    /\ reader = "asked"
    /\ ended' = "broken"
    /\ reader' = "failing"
    /\ UNCHANGED <<lines, content, cancelled, worker, received>>

\* A line, also the last one of a body, which need not be terminated.
Scan(kind) ==
    /\ reader = "scanning"
    /\ lines < MaxLines
    /\ lines' = lines + 1
    /\ content' = content + (IF kind = "text" THEN 1 ELSE 0)
    /\ reader' = IF kind = "text" THEN "sending" ELSE "scanning"
    /\ UNCHANGED <<ended, cancelled, worker, received>>

\* "data: [DONE]".  What follows is not read.
ScanDone ==
    /\ reader = "scanning"
    /\ ended' = "whole"
    /\ reader' = "closed"
    /\ UNCHANGED <<lines, content, cancelled, worker, received>>

\* The body ends without a [DONE]: no error for the scanner.
BodyEnds ==
    /\ reader = "scanning"
    /\ ended' = "whole"
    /\ reader' = "closed"
    /\ UNCHANGED <<lines, content, cancelled, worker, received>>

\* broken variant: the scanner's error is not looked at.
BodyBreaksSilently ==
    /\ reader = "scanning"
    /\ ended' = "broken"
    /\ reader' = "closed"
    /\ UNCHANGED <<lines, content, cancelled, worker, received>>

\* The connection breaks, or a line is longer than the buffer.  What was read
\* of a line the scanner returns first, as a line: cut JSON is garbage.
BodyBreaks ==
    /\ reader = "scanning"
    /\ ended' = "broken"
    /\ reader' = "failing"
    /\ UNCHANGED <<lines, content, cancelled, worker, received>>

\* A read under a context that is done fails.
ReadAborted ==
    /\ cancelled
    /\ reader \in {"asked", "scanning"}
    /\ reader' = "failing"
    /\ UNCHANGED <<lines, content, ended, cancelled, worker, received>>

\* The channel has no buffer: provider and worker meet.
SendDelta ==
    /\ reader = "sending"
    /\ worker = "ranging"
    /\ received' = received + 1
    /\ reader' = "scanning"
    /\ UNCHANGED <<lines, content, ended, cancelled, worker>>

\* The error event, after which the worker ranges no further.
SendErr ==
    /\ reader = "failing"
    /\ worker = "ranging"
    /\ worker' = "failed"
    /\ reader' = "returning"
    /\ UNCHANGED <<lines, content, ended, cancelled, received>>

\* The deferred closes of the body and the channel: the worker is past them.
ReaderReturns ==
    /\ reader = "returning"
    /\ reader' = "closed"
    /\ UNCHANGED <<lines, content, ended, cancelled, worker, received>>

\* broken variant: only the send of a delta gives up.
QuitsOnDelta ==
    /\ cancelled
    /\ reader = "sending"
    /\ reader' = "closed"
    /\ UNCHANGED <<lines, content, ended, cancelled, worker, received>>

\* The other branch of the two selects.
Quits ==
    /\ cancelled
    /\ reader \in {"sending", "failing"}
    /\ reader' = "closed"
    /\ UNCHANGED <<lines, content, ended, cancelled, worker, received>>

\* The channel is closed when streamResponse returns.
RangeEnds ==
    /\ reader = "closed"
    /\ worker = "ranging"
    /\ worker' = "closed"
    /\ UNCHANGED <<reader, lines, content, ended, cancelled, received>>

\* The worker's own send to the session is cancelled: it returns.
WorkerGone ==
    /\ cancelled
    /\ worker = "ranging"
    /\ received > 0
    /\ worker' = "gone"
    /\ UNCHANGED <<reader, lines, content, ended, cancelled, received>>

Cancel ==
    /\ ~cancelled
    /\ cancelled' = TRUE
    /\ UNCHANGED <<reader, lines, content, ended, worker, received>>

Network ==
    \/ Respond \/ RequestFails \/ ScanDone \/ BodyEnds \/ BodyBreaks
    \/ \E kind \in LineKinds : Scan(kind)

Goroutines ==
    ReadAborted \/ SendDelta \/ SendErr \/ ReaderReturns \/ Quits \/ RangeEnds

BodyNext == Network \/ Goroutines \/ WorkerGone \/ Cancel

\* The two goroutines are scheduled; the upstream model owes nothing, and
\* whether a worker's send loses to the context is up to the runtime.
BodyFairness == WF_bodyVars(Goroutines)

BodySpec == BodyInit /\ [][BodyNext]_bodyVars /\ BodyFairness

-----------------------------------------------------------------------------
(***************************************************************************)
(* Properties.                                                             *)
(***************************************************************************)
\* An answer counts as complete, so that persona_done or the verdict follows,
\* only if its body ended properly and every delta of it was received; and at
\* any time the worker has received all of the body but the delta in hand.
\* Only a session whose context is done may disagree: nobody reads it.
ClosedMeansWhole ==
    /\ worker = "closed" /\ ~cancelled => ended = "whole" /\ received = content
    /\ received = content - (IF reader = "sending" THEN 1 ELSE 0) \/ cancelled

\* When the context is done, the request, the scanner and both selects let go:
\* no goroutine of the answer is left, although the upstream model stays mute
\* and the worker may be gone.
CancelledAnswerUnwinds ==
    cancelled ~> reader = "closed" /\ worker # "ranging"
=============================================================================
