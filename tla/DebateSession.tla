--------------------------- MODULE DebateSession ---------------------------
(***************************************************************************)
(* One debate on the server, from the upgraded WebSocket to the last       *)
(* frame: the session handler (ws/session.go), the goroutine that runs the *)
(* rounds and the moderator, one worker goroutine per persona behind an    *)
(* errgroup limit (orchestrator.go), and one provider goroutine per        *)
(* streamed answer (provider/zai.go, fake.go).                             *)
(*                                                                         *)
(* Every channel of the program is unbuffered, so a send and its receive   *)
(* are one step, and every blocking send is a select against the session's *)
(* context: when both cases are ready either may be taken.                 *)
(*                                                                         *)
(* A persona is its index in the slice the server debates with.  A text is *)
(* the number of deltas it was built from.                                 *)
(***************************************************************************)
EXTENDS Integers, Sequences, FiniteSets

CONSTANTS
    N,          \* len(personas)
    Limit,      \* the limit the orchestrator is made with
    MaxRounds,  \* protocol.MaxRounds
    AskRounds,  \* values of "rounds" the client may put in its ask
    MaxTokens,  \* bound: deltas the upstream model sends per answer
    Talkative   \* bound: agents whose answers may have deltas

ASSUME NAssumption == N \in Nat \ {0}
ASSUME LimitAssumption == Limit \in Int
ASSUME MaxRoundsAssumption == MaxRounds \in Nat /\ MaxRounds >= 2
ASSUME AskRoundsAssumption == AskRounds \subseteq Nat
ASSUME MaxTokensAssumption == MaxTokens \in Nat

Personas == 1..N
Moderator == 0
Agents == Personas \union {Moderator}
Rounds == 1..(MaxRounds + 1)    \* the moderator streams in round rounds+1
DefaultRounds == 2

SetLimitAsGiven == Limit    \* broken variant: New does not raise it to 1

\* What New makes of the limit: the errgroup would never start anything at 0.
SetLimit == IF Limit <= 0 THEN 1 ELSE Limit

NoVerdict == -1

VARIABLES
    conn,       \* "open" until the socket is closed by either end
    cancelled,  \* the session's context is done
    handler,    \* where HandleSession is
    inHand,     \* the event the handler received last
    rounds,     \* rounds to hold, 0 until the ask is accepted
    run,        \* where the goroutine of Run is
    round,      \* its loop variable
    next,       \* next index of the launch loop of runRound
    worker,     \* worker[a]: where the call of stream for agent a is
    text,       \* text[a]: the strings.Builder of that call
    request,    \* request[a]: what the last prompt of agent a quoted
    transcript, \* the answers of the rounds held so far
    prov,       \* prov[r][a]: the provider goroutine of that answer
    completed, refused, said, settled, verdict  \* what the socket carried

internalVars == <<rounds, run, round, next, worker, text, request, transcript>>
wireVars == <<completed, refused, said, settled, verdict>>
vars == <<conn, cancelled, handler, inHand, internalVars, prov, wireVars>>

(***************************************************************************)
(* Events and requests.                                                    *)
(***************************************************************************)
Event(type, agent, r, t) ==
    [type |-> type, agent |-> agent, round |-> r, text |-> t]

NoEvent == Event("none", Moderator, 0, 0)

\* The event a worker is trying to emit.
Pending(a) ==
    CASE worker[a] = "emitToken" -> Event("token", a, round, 0)
      [] worker[a] = "emitError" -> Event("error", a, round, 0)
      [] worker[a] = "emitDone" ->
            IF a = Moderator THEN Event("verdict", a, round, text[a])
                             ELSE Event("persona_done", a, round, 0)

Emitting(a) == worker[a] \in {"emitToken", "emitError", "emitDone"}
Running(a) == worker[a] \in {"start", "range"} \/ Emitting(a)

\* renderAnswers: the answers of round r a prompt quotes, empty texts skipped.
RenderAnswers(r, speakers) ==
    {<<r, p, transcript[r][p]>> : p \in {q \in speakers : transcript[r][q] > 0}}

\* A persona is shown its own latest answer and what the others said in the
\* latest round; the moderator is shown everything.
NoRequest == [own |-> <<>>, quotes |-> {}]

BuildRequest(a) ==
    IF a = Moderator
    THEN [own |-> <<>>,
          quotes |-> UNION {RenderAnswers(r, Personas) : r \in DOMAIN transcript}]
    ELSE IF round = 1
    THEN NoRequest
    ELSE LET latest == Len(transcript)
         IN  [own |-> <<transcript[latest][a]>>,
              quotes |-> RenderAnswers(latest, Personas \ {a})]

\* Validate: 0 stands for the default, anything else is even and in range.
ValidRounds(k) == k = 0 \/ (k \in 2..MaxRounds /\ k % 2 = 0)

-----------------------------------------------------------------------------
Init ==
    /\ conn = "open"
    /\ cancelled = FALSE
    /\ handler = "read"
    /\ inHand = NoEvent
    /\ rounds = 0
    /\ run = "none"
    /\ round = 0
    /\ next = 1
    /\ worker = [a \in Agents |-> "none"]
    /\ text = [a \in Agents |-> 0]
    /\ request = [a \in Agents |-> NoRequest]
    /\ transcript = <<>>
    /\ prov = [r \in Rounds |-> [a \in Agents |-> "idle"]]
    /\ completed = 0
    /\ refused = FALSE
    /\ said = [r \in Rounds |-> [a \in Agents |-> 0]]
    /\ settled = [r \in Rounds |-> [a \in Agents |-> "pending"]]
    /\ verdict = NoVerdict

(***************************************************************************)
(* The client and the connection (external).  The reader goroutine that    *)
(* conn.CloseRead starts closes the connection before it cancels the       *)
(* context; a client that sends a second message is closed the same way.   *)
(***************************************************************************)
ClientGone ==
    /\ conn = "open"
    /\ conn' = "closed"
    /\ UNCHANGED <<cancelled, handler, inHand, internalVars, prov, wireVars>>

ReaderCancels ==
    /\ handler \in {"recv", "write"}
    /\ conn = "closed"
    /\ ~cancelled
    /\ cancelled' = TRUE
    /\ UNCHANGED <<conn, handler, inHand, internalVars, prov, wireVars>>

(***************************************************************************)
(* HandleSession.  Its deferred calls cancel the context and close the     *)
(* connection whichever way it returns.                                    *)
(***************************************************************************)
Return ==
    /\ handler' = "returned"
    /\ cancelled' = TRUE
    /\ conn' = "closed"

\* The first message arrives and is valid: CloseRead and Run are started.
AcceptAsk ==
    /\ handler = "read"
    /\ conn = "open"
    /\ \E k \in AskRounds :
          /\ ValidRounds(k)
          /\ rounds' = IF k = 0 THEN DefaultRounds ELSE k
    /\ handler' = "recv"
    /\ run' = "launch"
    /\ round' = 1
    /\ next' = 1
    /\ UNCHANGED <<conn, cancelled, inHand, worker, text, request, transcript,
                   prov, wireVars>>

\* An ask with a bad round count or question is answered with one error
\* frame, if it can still be written.
RefuseAsk ==
    /\ handler = "read"
    /\ conn = "open"
    /\ refused' = TRUE
    /\ Return
    /\ UNCHANGED <<inHand, internalVars, prov, completed, said, settled, verdict>>

\* The read fails: the client left before it asked, or sent no JSON.
ReadFails ==
    /\ handler = "read"
    /\ Return
    /\ UNCHANGED <<inHand, internalVars, prov, wireVars>>

\* One frame reaches the socket.
RecordFrame(ev) ==
    LET r == ev.round
        a == ev.agent
    IN
    CASE ev.type = "token" ->
            /\ said' = [said EXCEPT ![r][a] = @ + 1]
            /\ UNCHANGED <<completed, refused, settled, verdict>>
      [] ev.type = "error" ->
            /\ settled' = [settled EXCEPT ![r][a] = "failed"]
            /\ UNCHANGED <<completed, refused, said, verdict>>
      [] ev.type = "persona_done" ->
            /\ settled' = [settled EXCEPT ![r][a] = "done"]
            /\ UNCHANGED <<completed, refused, said, verdict>>
      [] ev.type = "verdict" ->
            /\ settled' = [settled EXCEPT ![r][a] = "done"]
            /\ verdict' = ev.text
            /\ UNCHANGED <<completed, refused, said>>
      [] ev.type = "round_complete" ->
            /\ completed' = r
            /\ UNCHANGED <<refused, said, settled, verdict>>

WriteFrame ==
    /\ handler = "write"
    /\ conn = "open"
    /\ RecordFrame(inHand)
    /\ handler' = "recv"
    /\ inHand' = NoEvent
    /\ UNCHANGED <<conn, cancelled, internalVars, prov>>

\* The write times out, or the connection is already closed: the library
\* closes the connection, the handler cancels the personas and returns.
WriteFails ==
    /\ handler = "write"
    /\ inHand' = NoEvent
    /\ Return
    /\ UNCHANGED <<internalVars, prov, wireVars>>

\* The range over the events ends because Run closed the channel.
EventsEnd ==
    /\ handler = "recv"
    /\ run = "closed"
    /\ Return
    /\ UNCHANGED <<inHand, internalVars, prov, wireVars>>

-----------------------------------------------------------------------------
(***************************************************************************)
(* Run and runRound.                                                       *)
(***************************************************************************)

\* g.Go starts the next persona, blocking while Limit of them are running.
Launch ==
    /\ run = "launch"
    /\ next <= N
    /\ Cardinality({p \in Personas : Running(p)}) < SetLimit
    /\ worker' = [worker EXCEPT ![next] = "start"]
    /\ text' = [text EXCEPT ![next] = 0]
    /\ next' = next + 1
    /\ UNCHANGED <<conn, cancelled, handler, inHand, rounds, run, round,
                   request, transcript, prov, wireVars>>

\* broken variant: g.Wait is not called.
RoundNotAwaited ==
    /\ run = "launch"
    /\ next = N + 1
    /\ transcript' = Append(transcript, [p \in Personas |-> text[p]])
    /\ run' = "emitRound"
    /\ UNCHANGED <<conn, cancelled, handler, inHand, rounds, round, next, worker,
                   text, request, prov, wireVars>>

\* g.Wait returns: every slot of answers is filled and joins the transcript.
RoundHeld ==
    /\ run = "launch"
    /\ next = N + 1
    /\ \A p \in Personas : worker[p] = "done"
    /\ transcript' = Append(transcript, [p \in Personas |-> text[p]])
    /\ run' = "emitRound"
    /\ UNCHANGED <<conn, cancelled, handler, inHand, rounds, round, next, worker,
                   text, request, prov, wireVars>>

\* The loop condition of Run, after round r.
OneRoundMore(r) == r <= rounds      \* broken variant
AnotherRound(r) == r < rounds

\* The handler takes round_complete; the next round or the moderator follows.
EmitRoundComplete ==
    /\ run = "emitRound"
    /\ handler = "recv"
    /\ handler' = "write"
    /\ inHand' = Event("round_complete", Moderator, round, 0)
    /\ round' = round + 1
    /\ next' = 1
    /\ IF AnotherRound(round)
       THEN /\ run' = "launch"
            /\ worker' = [a \in Agents |-> "none"]
            /\ UNCHANGED text
       ELSE /\ run' = "moderate"
            /\ worker' = [worker EXCEPT ![Moderator] = "start"]
            /\ text' = [text EXCEPT ![Moderator] = 0]
    /\ UNCHANGED <<conn, cancelled, rounds, request, transcript, prov, wireVars>>

AbandonRounds ==
    /\ run = "emitRound"
    /\ cancelled
    /\ run' = "closed"
    /\ UNCHANGED <<conn, cancelled, handler, inHand, rounds, round, next, worker,
                   text, request, transcript, prov, wireVars>>

\* broken variant: the moderator is not waited for.
CloseEventsEarly ==
    /\ run = "moderate"
    /\ run' = "closed"
    /\ UNCHANGED <<conn, cancelled, handler, inHand, rounds, round, next, worker,
                   text, request, transcript, prov, wireVars>>

\* runModerator returned: the deferred close of the event channel.
CloseEvents ==
    /\ run = "moderate"
    /\ worker[Moderator] = "done"
    /\ run' = "closed"
    /\ UNCHANGED <<conn, cancelled, handler, inHand, rounds, round, next, worker,
                   text, request, transcript, prov, wireVars>>

-----------------------------------------------------------------------------
(***************************************************************************)
(* stream: the consumer of one answer, for a persona or the moderator.     *)
(***************************************************************************)
StartStream(a) ==
    /\ worker[a] = "start"
    /\ request' = [request EXCEPT ![a] = BuildRequest(a)]
    /\ prov' = [prov EXCEPT ![round][a] = "reading"]
    /\ worker' = [worker EXCEPT ![a] = "range"]
    /\ UNCHANGED <<conn, cancelled, handler, inHand, rounds, run, round, next,
                   text, transcript, wireVars>>

\* broken variant: returns without emitting the error.
StreamStartFailsSilently(a) ==
    /\ worker[a] = "start"
    /\ request' = [request EXCEPT ![a] = BuildRequest(a)]
    /\ worker' = [worker EXCEPT ![a] = "done"]
    /\ UNCHANGED <<conn, cancelled, handler, inHand, rounds, run, round, next,
                   text, transcript, prov, wireVars>>

\* provider.Stream itself returns an error.
StreamStartFails(a) ==
    /\ worker[a] = "start"
    /\ request' = [request EXCEPT ![a] = BuildRequest(a)]
    /\ worker' = [worker EXCEPT ![a] = "emitError"]
    /\ UNCHANGED <<conn, cancelled, handler, inHand, rounds, run, round, next,
                   text, transcript, prov, wireVars>>

\* A delta crosses the provider's channel and is kept before it is emitted.
ReceiveDelta(a) ==
    /\ worker[a] = "range"
    /\ prov[round][a] = "delta"
    /\ prov' = [prov EXCEPT ![round][a] = "reading"]
    /\ text' = [text EXCEPT ![a] = @ + 1]
    /\ worker' = [worker EXCEPT ![a] = "emitToken"]
    /\ UNCHANGED <<conn, cancelled, handler, inHand, rounds, run, round, next,
                   request, transcript, wireVars>>

\* broken variant: the text streamed so far is not returned.
ReceiveErrForgetsText(a) ==
    /\ worker[a] = "range"
    /\ prov[round][a] = "error"
    /\ prov' = [prov EXCEPT ![round][a] = "returning"]
    /\ text' = [text EXCEPT ![a] = 0]
    /\ worker' = [worker EXCEPT ![a] = "emitError"]
    /\ UNCHANGED <<conn, cancelled, handler, inHand, rounds, run, round, next,
                   request, transcript, wireVars>>

\* broken variant: the provider reads on after it sent an error.
ReceiveErrAndReadOn(a) ==
    /\ worker[a] = "range"
    /\ prov[round][a] = "error"
    /\ prov' = [prov EXCEPT ![round][a] = "reading"]
    /\ worker' = [worker EXCEPT ![a] = "emitError"]
    /\ UNCHANGED <<conn, cancelled, handler, inHand, rounds, run, round, next,
                   text, request, transcript, wireVars>>

\* An error crosses the channel; the partial text is the answer.  The worker
\* goes on, and may free its slot, before the provider has returned.
ReceiveErr(a) ==
    /\ worker[a] = "range"
    /\ prov[round][a] = "error"
    /\ prov' = [prov EXCEPT ![round][a] = "returning"]
    /\ worker' = [worker EXCEPT ![a] = "emitError"]
    /\ UNCHANGED <<conn, cancelled, handler, inHand, rounds, run, round, next,
                   text, request, transcript, wireVars>>

\* The provider closed its channel: because the answer is complete, or
\* because the context is done.  The worker cannot tell which.
RangeEnds(a) ==
    /\ worker[a] = "range"
    /\ prov[round][a] \in {"eof", "aborted"}
    /\ worker' = [worker EXCEPT ![a] = "emitDone"]
    /\ UNCHANGED <<conn, cancelled, handler, inHand, rounds, run, round, next,
                   text, request, transcript, prov, wireVars>>

\* emit, with the handler ready to receive.
Emit(a) ==
    /\ Emitting(a)
    /\ handler = "recv"
    /\ handler' = "write"
    /\ inHand' = Pending(a)
    /\ worker' = [worker EXCEPT ![a] = IF @ = "emitToken" THEN "range" ELSE "done"]
    /\ UNCHANGED <<conn, cancelled, rounds, run, round, next, text, request,
                   transcript, prov, wireVars>>

\* emit, with the context done.
EmitCancelled(a) ==
    /\ Emitting(a)
    /\ cancelled
    /\ worker' = [worker EXCEPT ![a] = "done"]
    /\ UNCHANGED <<conn, cancelled, handler, inHand, rounds, run, round, next,
                   text, request, transcript, prov, wireVars>>

-----------------------------------------------------------------------------
(***************************************************************************)
(* The provider goroutine of answer (r, a), and the upstream model it      *)
(* reads from.  "eof", "errored" and "aborted" are its three ways to have  *)
(* returned: its deferred calls have closed the body and its channel.      *)
(* "returning" has handed over its error and not yet closed the body.      *)
(***************************************************************************)
provRest == <<conn, cancelled, handler, inHand, internalVars, wireVars>>

\* The upstream call is open, and among those: something is still to come.
Live(r, a) == prov[r][a] \in {"reading", "delta", "error", "returning"}
Answering(r, a) == prov[r][a] \in {"reading", "delta", "error"}

\* The scanner yields a chunk with content.
UpstreamDelta(r, a) ==
    /\ prov[r][a] = "reading"
    /\ a \in Talkative
    /\ text[a] < MaxTokens
    /\ prov' = [prov EXCEPT ![r][a] = "delta"]
    /\ UNCHANGED provRest

\* [DONE], or a clean end of the body.
UpstreamDone(r, a) ==
    /\ prov[r][a] = "reading"
    /\ prov' = [prov EXCEPT ![r][a] = "eof"]
    /\ UNCHANGED provRest

\* broken variant: the channel is closed without sending the error.
UpstreamFailsSilently(r, a) ==
    /\ prov[r][a] = "reading"
    /\ prov' = [prov EXCEPT ![r][a] = "aborted"]
    /\ UNCHANGED provRest

\* The request fails, the status is not 200, the scanner fails; once the
\* context is done, Do and the body's Read return its error.
UpstreamFails(r, a) ==
    /\ prov[r][a] = "reading"
    /\ prov' = [prov EXCEPT ![r][a] = "error"]
    /\ UNCHANGED provRest

ReadAborted(r, a) == cancelled /\ UpstreamFails(r, a)

\* broken variant: the error is sent outside a select.
ProviderQuitsOnDelta(r, a) ==
    /\ prov[r][a] = "delta"
    /\ cancelled
    /\ prov' = [prov EXCEPT ![r][a] = "aborted"]
    /\ UNCHANGED provRest

\* The context case of the select around a send.
ProviderQuits(r, a) ==
    /\ prov[r][a] \in {"delta", "error"}
    /\ cancelled
    /\ prov' = [prov EXCEPT ![r][a] = "aborted"]
    /\ UNCHANGED provRest

\* The deferred closes of the body and the channel, after an error was sent.
ProviderReturns(r, a) ==
    /\ prov[r][a] = "returning"
    /\ prov' = [prov EXCEPT ![r][a] = "errored"]
    /\ UNCHANGED provRest

-----------------------------------------------------------------------------
SessionOver ==
    /\ handler = "returned"
    /\ run \in {"none", "closed"}
    /\ \A r \in Rounds, a \in Agents : ~Live(r, a)

Finished == SessionOver /\ UNCHANGED vars

HandlerStep ==
    AcceptAsk \/ RefuseAsk \/ ReadFails \/ WriteFrame \/ WriteFails \/ EventsEnd

RunStep == Launch \/ RoundHeld \/ EmitRoundComplete \/ AbandonRounds \/ CloseEvents

WorkerStep(a) ==
    \/ StartStream(a) \/ StreamStartFails(a)
    \/ ReceiveDelta(a) \/ ReceiveErr(a) \/ RangeEnds(a)
    \/ Emit(a) \/ EmitCancelled(a)

Upstream(r, a) == UpstreamDelta(r, a) \/ UpstreamDone(r, a) \/ UpstreamFails(r, a)

Next ==
    \/ ClientGone \/ ReaderCancels
    \/ HandlerStep
    \/ RunStep
    \/ \E a \in Agents : WorkerStep(a)
    \/ \E r \in Rounds, a \in Agents :
          Upstream(r, a) \/ ProviderQuits(r, a) \/ ProviderReturns(r, a)
    \/ Finished

SafetySpec == Init /\ [][Next]_vars

\* The Go scheduler runs every goroutine that can run, a write ends within
\* writeTimeout, and a done context ends a blocked network call.  Of the
\* providers it is enough that one that can run does: each has few steps.
\* Nothing makes the client ask or the upstream model answer.
GoFairness ==
    /\ WF_vars(ReaderCancels)
    /\ WF_vars(WriteFrame \/ WriteFails)
    /\ WF_vars(EventsEnd)
    /\ WF_vars(RunStep)
    /\ \A a \in Agents : WF_vars(WorkerStep(a))
    /\ WF_vars(\E r \in Rounds, a \in Agents :
                  ReadAborted(r, a) \/ ProviderQuits(r, a) \/ ProviderReturns(r, a))

\* An upstream model that goes on answering until its answers end.
UpstreamFairness == WF_vars(\E r \in Rounds, a \in Agents : Upstream(r, a))

Spec == SafetySpec /\ GoFairness

-----------------------------------------------------------------------------
(***************************************************************************)
(* Properties.                                                             *)
(***************************************************************************)
ProviderStates ==
    {"idle", "reading", "delta", "error", "eof", "returning", "errored", "aborted"}
WorkerStates == {"none", "start", "range", "emitToken", "emitError", "emitDone", "done"}
RunStates == {"none", "launch", "emitRound", "moderate", "closed"}
Answers == [Personas -> Nat]
Quotes == SUBSET (Rounds \X Personas \X Nat)
Events == [type : {"none", "token", "error", "persona_done", "verdict", "round_complete"},
           agent : Agents, round : Nat, text : Nat]

\* Every variable keeps its shape; the loop variables of Run and runRound
\* stay within the rounds agreed and the panel.
TypeOK ==
    /\ conn \in {"open", "closed"}
    /\ cancelled \in BOOLEAN
    /\ handler \in {"read", "recv", "write", "returned"}
    /\ inHand \in Events
    /\ rounds \in 0..MaxRounds
    /\ run \in RunStates
    /\ round \in 0..(MaxRounds + 1)
    /\ next \in 1..(N + 1)
    /\ worker \in [Agents -> WorkerStates]
    /\ text \in [Agents -> Nat]
    /\ request \in [Agents -> [own : Seq(Nat), quotes : Quotes]]
    /\ transcript \in Seq(Answers)
    /\ prov \in [Rounds -> [Agents -> ProviderStates]]
    /\ completed \in 0..MaxRounds
    /\ refused \in BOOLEAN
    /\ said \in [Rounds -> [Agents -> Nat]]
    /\ settled \in [Rounds -> [Agents -> {"pending", "done", "failed"}]]
    /\ verdict \in Nat \union {NoVerdict}

\* What the socket carries is a debate stream: rounds in order behind a
\* barrier, each turn closed once, nothing after the verdict or the close.
Stream == INSTANCE DebateStream WITH open <- conn = "open"
RefinesDebateStream == Stream!Spec

\* The event as the orchestrator builds it; a delta is never empty.
Format == INSTANCE WireFormat WITH PersonaIds <- Agents, NoPersona <- -1

Frame(ev) ==
    CASE ev.type = "token"          -> Format!TokenEvent(ev.agent, ev.round, 1)
      [] ev.type = "error"          -> Format!ErrorEvent(ev.agent, 1)
      [] ev.type = "persona_done"   -> Format!PersonaDoneEvent(ev.agent, ev.round)
      [] ev.type = "round_complete" -> Format!RoundCompleteEvent(ev.round)
      [] ev.type = "verdict"        -> Format!VerdictEvent(ev.text)

\* The browser drops a frame that does not fit its schemas, and with it a
\* part of the debate: every frame the handler writes is understood, the
\* moderator's in the round after the last, an empty verdict, and the refusal
\* of a bad ask, which names no persona.  How long a frame may be is not asked
\* here.
EveryFrameIsUnderstood ==
    /\ inHand # NoEvent => Format!Understood(Frame(inHand))
    /\ refused => Format!Understood(Format!ErrorEvent(-1, 1))

\* A turn the client sees closed by persona_done or verdict is an answer the
\* upstream model finished: a worker whose provider quit on a done context
\* also reaches emitDone, with a truncated text, and select may even hand that
\* event to the handler.
OnlyWholeAnswersAreDone ==
    \A r \in Rounds, a \in Agents :
        settled[r][a] = "done" => prov[r][a] = "eof"

\* While the client is there, a prompt quotes exactly what the client was
\* shown of the latest round (of all rounds, for the moderator): also of an
\* answer that broke off, and nothing of one that never started.
PromptQuotesTheDebate ==
    conn = "open" =>
        \A a \in Agents : worker[a] \notin {"none", "start", "done"} =>
            LET shown(rs) == {<<r, p, said[r][p]>> : r \in rs, p \in Personas \ {a}}
                heard(rs) == {q \in shown(rs) : q[3] > 0}
            IN  IF a = Moderator
                THEN request[a].quotes = heard(1..rounds)
                ELSE /\ request[a].quotes = heard({round - 1} \ {0})
                     /\ round > 1 => request[a].own = <<said[round - 1][a]>>

\* The event channel is closed only when nobody can still send on it (a send
\* on a closed channel panics and takes the whole server down).
NoSendOnClosedChannel ==
    run = "closed" => \A a \in Agents : ~Running(a)

\* A free slot means an answer that is over: every open upstream call has a
\* worker that waits for it, of the round that is held, and so at most Limit
\* answers are under way at a time.  There are two exceptions.  A provider that
\* has handed over its error closes the body only then, so its call may still
\* be open beside those of the next workers, or of the next round.  Workers of
\* a session whose context is done leave before their providers do.
AnswersWithinLimit ==
    /\ \A r \in Rounds, a \in Agents : Live(r, a) =>
          \/ r = round /\ worker[a] \in {"range", "emitToken"}
          \/ prov[r][a] = "returning"
          \/ cancelled
    /\ ~cancelled =>
          Cardinality({s \in Rounds \X Agents : Answering(s[1], s[2])}) <= SetLimit

\* The server ends a debate whose client is still there only after it has
\* sent the verdict, or the moderator's error in its place.
HangsUpAfterConclusion ==
    [][handler = "recv" /\ handler' = "returned" /\ conn = "open"
         => settled[rounds + 1][Moderator] # "pending"]_vars

\* Once the context is done every goroutine of the session ends, whatever
\* the upstream model does: nothing is left blocked on a channel.
CancelledSessionUnwinds == cancelled ~> SessionOver

\* With an upstream model that answers, an accepted ask is answered by a
\* verdict or an error in its place, unless the connection is lost.
DebateConcludes ==
    UpstreamFairness =>
        (rounds > 0 ~> \/ settled[rounds + 1][Moderator] # "pending"
                       \/ conn = "closed")

\* "Timeouts on every HTTP and provider call": an answer that was requested
\* comes to an end, one way or another.
ProviderCallsEnd ==
    \A r \in Rounds, a \in Agents : Live(r, a) ~> ~Live(r, a)

\* The handler "holds its slot for the whole debate", which is to bound the
\* upstream calls of all clients: once it has returned no answer is being
\* requested any more.
SlotCoversUpstreamCalls ==
    handler = "returned" => \A r \in Rounds, a \in Agents : ~Live(r, a)
=============================================================================
