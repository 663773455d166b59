---------------------------- MODULE DebatePlayer ----------------------------
(***************************************************************************)
(* The browser's end of a debate: the WebSocket client (lib/wsClient.ts),  *)
(* the player that records the concurrent stream and replays it one        *)
(* speaker at a time (state/debatePlayer.ts), the reducer that owns what   *)
(* is shown (state/debateReducer.ts), and the hook that wires them         *)
(* together and carries out "ask", "stop" and "go to live"                 *)
(* (state/useDebate.ts).                                                   *)
(*                                                                         *)
(* The socket brings a DebateStream, which DebateSession implements.       *)
(* JavaScript runs one callback to its end before the next, so each        *)
(* callback is one step: a frame, the close of the socket, a timer, a      *)
(* click.  What a callback does in passing is written as operators on what *)
(* it changes, s = [player, debate, more]: the player's fields, the        *)
(* reducer's state, and whether the scheduler has to be called again.      *)
(*                                                                         *)
(* Pacing is left out: an armed timer may fire at any time.  A text is its *)
(* number of words, every delta has the same number of them, and panelist  *)
(* p is seat p of PANELISTS.  The message of a persona's error is the      *)
(* round it came from.                                                     *)
(***************************************************************************)
EXTENDS Integers, Sequences, FiniteSets, SequencesExt

CONSTANTS
    N,              \* PANELISTS.length
    MaxRounds,      \* the protocol's MAX_ROUNDS
    MaxTurnChars,   \* the player's cap on a recorded text
    MaxCellChars,   \* the reducer's cap on a displayed text
    MaxErrors,      \* the reducer's cap on the list of errors
    ReducedMotion,  \* the player reveals a turn at once
    DeltaWords,     \* words in one delta
    MaxTokens,      \* bound: tokens per turn
    MaxSessions     \* bound: questions asked

ASSUME NAssumption == N \in Nat \ {0}
ASSUME MaxRoundsAssumption == MaxRounds \in Nat /\ MaxRounds >= 2
ASSUME CapAssumption == MaxTurnChars \in Nat \ {0} /\ MaxCellChars = MaxTurnChars
ASSUME MaxErrorsAssumption == MaxErrors \in Nat \ {0}
ASSUME DeltaWordsAssumption == DeltaWords \in Nat
ASSUME ReducedMotionAssumption == ReducedMotion \in BOOLEAN
ASSUME MaxSessionsAssumption == MaxSessions \in Nat

VARIABLES
    open, refused, rounds, completed, said, settled, verdict, \* DebateStream
    session,    \* number of questions asked so far
    attached,   \* the sessions whose client listens to its socket
    player,     \* the recording and the schedule
    timer,      \* setTimeout is armed
    debate      \* the state of the reducer

Wire == INSTANCE DebateStream
wireVars == <<open, refused, rounds, completed, said, settled, verdict>>
vars == <<wireVars, session, attached, player, timer, debate>>

Panelists == Wire!Personas
Moderator == Wire!Moderator
Agents == Wire!Agents
Rounds == Wire!Rounds
NoVerdict == Wire!NoVerdict

Silence == [r \in Rounds |-> [a \in Agents |-> 0]]
Capped(n, cap) == IF n > cap THEN cap ELSE n

-----------------------------------------------------------------------------
(***************************************************************************)
(* The reducer.  d is its state; each operator reduces one input.          *)
(***************************************************************************)
Live == {"connecting", "debating", "moderating"}
Terminal == {"done", "stopped", "error"}

\* Who an error is about, and which: session-level errors have no persona.
Error(whose, what) == [persona |-> whose, message |-> what]
NoPersona == -1
\* "invalid request", "moderator failed", "frame too large", and "connection
\* closed before a verdict".
SessionLevel == Error(NoPersona, -1)
ModeratorFailed == Error(Moderator, -2)
BadFrame == Error(NoPersona, -3)
Disconnected == Error(NoPersona, -4)

InitialState ==
    [phase |-> "idle", currentRound |-> 0, transcript |-> Silence,
     activeSpeakers |-> {}, verdict |-> NoVerdict, errors |-> <<>>]

\* broken variant: the list is not cut.
WithErrorUncut(d, err) == Append(d.errors, err)

\* The newest MaxErrors are kept.
WithError(d, err) ==
    LET all == Append(d.errors, err)
    IN  IF Len(all) > MaxErrors THEN Tail(all) ELSE all

ReduceConnecting(d) == [InitialState EXCEPT !.phase = "connecting"]

ReduceClosed(d) ==
    IF d.phase \in Terminal THEN d
    ELSE [d EXCEPT !.phase = "error", !.activeSpeakers = {},
                   !.errors = WithError(d, Disconnected)]

ReduceTransport(d) == [d EXCEPT !.errors = WithError(d, BadFrame)]

\* broken variant: whoever was speaking stays on.
ReduceCancelKeepingSpeakers(d) ==
    IF d.phase \in Terminal THEN d ELSE [d EXCEPT !.phase = "stopped"]

\* broken variant: stopping again changes how a debate ended.
ReduceCancelAnyway(d) == [d EXCEPT !.phase = "stopped", !.activeSpeakers = {}]

ReduceCancel(d) ==
    IF d.phase \in Terminal THEN d
    ELSE [d EXCEPT !.phase = "stopped", !.activeSpeakers = {}]

AppendDelta(transcript, a, r, words) ==
    [transcript EXCEPT ![r][a] = Capped(@ + words, MaxCellChars)]

ReduceToken(d, a, r, words) ==
    [d EXCEPT !.phase = IF a = Moderator THEN "moderating" ELSE "debating",
              !.currentRound = r,
              !.transcript = AppendDelta(@, a, r, words),
              !.activeSpeakers = @ \union {a}]

ReducePersonaDone(d, p) == [d EXCEPT !.activeSpeakers = @ \ {p}]

ReduceRoundComplete(d, r) == [d EXCEPT !.currentRound = r]

ReduceVerdict(d, v) ==
    [d EXCEPT !.phase = "done", !.verdict = v, !.activeSpeakers = @ \ {Moderator}]

\* An error without a persona, or the moderator's, ends the debate.
ReduceError(d, err) ==
    IF err.persona \in {NoPersona, Moderator}
    THEN [d EXCEPT !.phase = "error", !.activeSpeakers = {},
                   !.errors = WithError(d, err)]
    ELSE [d EXCEPT !.activeSpeakers = @ \ {err.persona},
                   !.errors = WithError(d, err)]

-----------------------------------------------------------------------------
(***************************************************************************)
(* The player's recording.  p is its fields; null is 0, {}, <<>> or one of *)
(* the values below.                                                       *)
(***************************************************************************)
NoTurn == [agent |-> NoPersona, round |-> 0, text |-> 0, pos |-> 0]
NoError == Error(NoPersona, 0)
NoDone == <<>>

PanelTurn(r, seat) == [kind |-> "panelist", round |-> r, seat |-> seat]
ModeratorTurn == [kind |-> "moderator", round |-> 0, seat |-> 0]
NothingLeft == [kind |-> "done", round |-> 0, seat |-> 0]

\* reset: the fields of a player with nothing recorded or scheduled.
Blank ==
    [text |-> Silence, roundComplete |-> {},
     personaErrors |-> [q \in Panelists |-> NoError],
     verdict |-> NoVerdict, sessionError |-> NoError, closed |-> FALSE,
     moderatorRound |-> 0,
     cursor |-> PanelTurn(1, 1), active |-> NoTurn,
     pendingDone |-> NoDone, pendingRoundComplete |-> 0, pendingErrors |-> <<>>]

RecordToken(p, a, r) ==
    [p EXCEPT !.text[r][a] = Capped(@ + DeltaWords, MaxTurnChars),
              !.moderatorRound = IF a = Moderator THEN r ELSE @]

RecordRoundComplete(p, r) == [p EXCEPT !.roundComplete = @ \union {r}]

RecordVerdict(p, v) == [p EXCEPT !.verdict = v]

RecordError(p, err) ==
    IF err.persona \in {NoPersona, Moderator}
    THEN [p EXCEPT !.sessionError = err]
    ELSE [p EXCEPT !.personaErrors[err.persona] = err]

RecordClosed(p) == [p EXCEPT !.closed = TRUE]

TerminalKnown(p) ==
    p.verdict # NoVerdict \/ p.sessionError # NoError \/ p.closed

HasBufferedTurn(p) ==
    CASE p.cursor.kind = "panelist"  -> p.cursor.round \in p.roundComplete
      [] p.cursor.kind = "moderator" -> p.verdict # NoVerdict
      [] p.cursor.kind = "done"      -> TRUE

\* broken variant: the end of the stream is not taken into account.
ReadyUntilStreamEnds(p) ==
    p.active # NoTurn \/ (p.cursor.kind # "done" /\ HasBufferedTurn(p))

HasReadyWork(p) ==
    \/ p.active # NoTurn
    \/ p.cursor.kind # "done" /\ (HasBufferedTurn(p) \/ TerminalKnown(p))

MaxPanelRound(p) ==
    IF p.roundComplete = {} THEN 0
    ELSE CHOOSE r \in p.roundComplete : \A q \in p.roundComplete : q <= r

-----------------------------------------------------------------------------
(***************************************************************************)
(* The player's scheduler.                                                 *)
(***************************************************************************)
Park(p, d) == [player |-> p, debate |-> d, more |-> FALSE]
Continue(p, d) == [player |-> p, debate |-> d, more |-> TRUE]

\* flushPending: the previous speaker's deferred persona_done, round_complete
\* and errors are dispatched.
FlushedPlayer(p) ==
    [p EXCEPT !.pendingDone = NoDone, !.pendingRoundComplete = 0, !.pendingErrors = <<>>]

FlushedDebate(p, d) ==
    LET d1 == IF p.pendingDone = NoDone THEN d ELSE ReducePersonaDone(d, p.pendingDone[1])
        d2 == IF p.pendingRoundComplete = 0 THEN d1
              ELSE ReduceRoundComplete(d1, p.pendingRoundComplete)
    IN  FoldLeft(ReduceError, d2, p.pendingErrors)

Turn(p, a, r) == [agent |-> a, round |-> r, text |-> p.text[r][a], pos |-> 0]

ModeratorRound(p) ==
    IF p.moderatorRound # 0 THEN p.moderatorRound ELSE MaxPanelRound(p) + 1

\* The turn prepareNextTurn would open: the panelist at the cursor once its
\* round is complete, else, once there is a verdict, the moderator if it said
\* anything.
PlayableTurn(p) ==
    CASE p.cursor.kind = "panelist" /\ HasBufferedTurn(p) ->
            Turn(p, p.cursor.seat, p.cursor.round)
      [] /\ p.cursor.kind # "done"
         /\ p.cursor.kind = "panelist" => ~HasBufferedTurn(p)
         /\ p.verdict # NoVerdict
         /\ p.text[ModeratorRound(p)][Moderator] > 0 ->
            Turn(p, Moderator, ModeratorRound(p))
      [] OTHER -> NoTurn

\* broken variant: the previous speaker stays on.
OpenWithoutFlush(s) ==
    LET turn == PlayableTurn(s.player)
    IN  Continue([s.player EXCEPT
            !.active = turn,
            !.cursor = IF turn.agent = Moderator THEN ModeratorTurn ELSE @], s.debate)

OpenTurn(s) ==
    LET turn == PlayableTurn(s.player)
    IN  Continue([FlushedPlayer(s.player) EXCEPT
            !.active = turn,
            !.cursor = IF turn.agent = Moderator THEN ModeratorTurn ELSE @],
            FlushedDebate(s.player, s.debate))

\* There is no turn to open.  Once the stream has ended the debate is brought
\* to its end: the verdict, the terminal error, or the disconnect; before, the
\* player parks.
Conclude(s) ==
    LET p == s.player
        d == FlushedDebate(p, s.debate)
    IN  IF p.cursor.kind = "done" \/ ~TerminalKnown(p) THEN Park(p, s.debate)
        ELSE Park([FlushedPlayer(p) EXCEPT !.cursor = NothingLeft],
                  CASE p.verdict # NoVerdict -> ReduceVerdict(d, p.verdict)
                    [] p.verdict = NoVerdict /\ p.sessionError # NoError ->
                           ReduceError(d, p.sessionError)
                    [] OTHER -> ReduceClosed(d))

\* broken variant: the last seat is not reached.
SkipLastSeat(r, seat) ==
    IF seat < N - 1 THEN PanelTurn(r, seat + 1) ELSE PanelTurn(r + 1, 1)

After(r, seat) ==
    IF seat < N THEN PanelTurn(r, seat + 1) ELSE PanelTurn(r + 1, 1)

\* broken variant: the scheduler parks at the end of a turn.
CloseTurnAndPark(s, turn) ==
    Park([s.player EXCEPT !.pendingDone = <<turn.agent, turn.round>>,
                          !.cursor = After(turn.round, turn.agent),
                          !.active = NoTurn], s.debate)

\* A panelist's turn is over; its closing inputs wait for the next turn.
CloseTurn(s, turn) ==
    LET a == turn.agent
        err == s.player.personaErrors[a]
    IN  Continue([s.player EXCEPT
            !.pendingDone = <<a, turn.round>>,
            !.pendingErrors = IF err = NoError THEN @ ELSE Append(@, err),
            !.personaErrors[a] = NoError,
            !.pendingRoundComplete = IF a = N THEN turn.round ELSE @,
            !.cursor = After(turn.round, a),
            !.active = NoTurn], s.debate)

\* A piece of the turn, up to word "to".
Reveal(s, turn, to) ==
    Continue([s.player EXCEPT !.active.pos = to],
             ReduceToken(s.debate, turn.agent, turn.round, to - turn.pos))

\* The moderator's turn is over; the verdict is its terminal signal.
DeliverVerdict(s) ==
    Park([s.player EXCEPT !.active = NoTurn, !.cursor = NothingLeft],
         ReduceVerdict(s.debate, s.player.verdict))

\* broken variant: the last chunk is taken for the end.
RevealAllButLast(s, turn, whole) ==
    LET to == IF whole THEN turn.text ELSE turn.pos + 1
    IN  CASE to < turn.text -> Reveal(s, turn, to)
          [] to >= turn.text /\ turn.agent = Moderator -> DeliverVerdict(s)
          [] to >= turn.text /\ turn.agent # Moderator -> CloseTurn(s, turn)

\* One chunk of the turn, or its end.
RevealStep(s, turn, whole) ==
    CASE turn.pos < turn.text -> Reveal(s, turn, IF whole THEN turn.text ELSE turn.pos + 1)
      [] turn.pos >= turn.text /\ turn.agent = Moderator -> DeliverVerdict(s)
      [] turn.pos >= turn.text /\ turn.agent # Moderator -> CloseTurn(s, turn)

Step(s, whole) ==
    LET p == s.player
    IN  CASE p.active # NoTurn -> RevealStep(s, p.active, whole)
          [] p.active = NoTurn /\ PlayableTurn(p) # NoTurn ->
                RevealStep(OpenTurn(s), PlayableTurn(p), whole)
          [] OTHER -> Conclude(s)

Now(p) == [player |-> p, debate |-> debate, more |-> FALSE]

\* broken variant: what was recorded while the player was idle is not played.
PumpOnlyTimer(p) ==
    /\ player' = p
    /\ UNCHANGED <<timer, debate>>

\* pump: nothing while a step is scheduled, else one step.
Pump(p) ==
    \E s \in {IF timer THEN Now(p) ELSE Step(Now(p), ReducedMotion)} :
        /\ player' = s.player
        /\ debate' = s.debate
        /\ timer' = (timer \/ s.more)

-----------------------------------------------------------------------------
Init ==
    /\ Wire!Init
    /\ session = 0
    /\ attached = {}
    /\ player = Blank
    /\ timer = FALSE
    /\ debate = InitialState

(***************************************************************************)
(* useDebate.                                                              *)
(***************************************************************************)

\* A new socket, a new debate; MaxSessions bounds them.
NewStream ==
    /\ open' = TRUE
    /\ refused' = FALSE
    /\ rounds' = 0
    /\ completed' = 0
    /\ said' = Silence
    /\ settled' = [r \in Rounds |-> [a \in Agents |-> "pending"]]
    /\ verdict' = NoVerdict

\* broken variant: the previous client is not disposed.
AskKeepingClient ==
    /\ debate.phase \notin Live
    /\ session < MaxSessions
    /\ session' = session + 1
    /\ attached' = attached \union {session'}
    /\ NewStream
    /\ player' = Blank
    /\ timer' = FALSE
    /\ debate' = ReduceConnecting(debate)

\* The form submits a valid question unless a debate is live.  The previous
\* client is disposed, the player is reset, and the new client reports
\* "connecting" before it opens its socket.
Ask ==
    /\ debate.phase \notin Live
    /\ session < MaxSessions
    /\ session' = session + 1
    /\ attached' = {session'}
    /\ NewStream
    /\ player' = Blank
    /\ timer' = FALSE
    /\ debate' = ReduceConnecting(debate)

\* broken variant: the player goes on.
StopWithoutReset ==
    /\ session > 0
    /\ debate' = ReduceCancel(debate)
    /\ attached' = {}
    /\ UNCHANGED <<wireVars, session, player, timer>>

\* The button is there while the debate on the page is live.  The page is
\* rendered after the debate changed: the click may come when it has ended.
Stop ==
    /\ session > 0
    /\ player' = Blank
    /\ timer' = FALSE
    /\ debate' = ReduceCancel(debate)
    /\ attached' = {}
    /\ UNCHANGED <<wireVars, session>>

\* skipToLive runs step until it parks or is done.  A turn takes two steps.
MostSteps == 2 * (N * MaxRounds + 1) + 1

Again(s) == IF s.more THEN Step(s, TRUE) ELSE s

Drain(s) ==
    LET run[i \in 0..MostSteps] == IF i = 0 THEN Step(s, TRUE) ELSE Again(run[i - 1])
    IN  run[MostSteps]

GoToLive ==
    /\ session > 0
    /\ \E s \in {Drain(Now(player))} : player' = s.player /\ debate' = s.debate
    /\ timer' = FALSE
    /\ UNCHANGED <<wireVars, session, attached>>

\* The callback of setTimeout.
TimerFires ==
    /\ timer
    /\ \E s \in {Step(Now(player), ReducedMotion)} :
          /\ player' = s.player
          /\ debate' = s.debate
          /\ timer' = s.more
    /\ UNCHANGED <<wireVars, session, attached>>

-----------------------------------------------------------------------------
(***************************************************************************)
(* The socket: frames of the stream reach a client that still listens.     *)
(***************************************************************************)
Listening == session \in attached

\* The client is connected, sends its question, and is accepted.
Accepted ==
    /\ Listening
    /\ Wire!Accept
    /\ UNCHANGED <<session, attached, player, timer, debate>>

Refused ==
    /\ Listening
    /\ Wire!Refuse
    /\ Pump(RecordError(player, SessionLevel))
    /\ UNCHANGED <<session, attached>>

Token(a) ==
    /\ Listening
    /\ Wire!Token(a)
    /\ said'[completed + 1][a] <= MaxTokens
    /\ Pump(RecordToken(player, a, completed + 1))
    /\ UNCHANGED <<session, attached>>

\* The player ignores persona_done, but is called.
PersonaDone(p) ==
    /\ Listening
    /\ Wire!PersonaDone(p)
    /\ Pump(player)
    /\ UNCHANGED <<session, attached>>

Failed(a) ==
    /\ Listening
    /\ Wire!Fail(a)
    /\ Pump(RecordError(player, IF a = Moderator THEN ModeratorFailed
                                ELSE Error(a, completed + 1)))
    /\ UNCHANGED <<session, attached>>

RoundComplete ==
    /\ Listening
    /\ Wire!CompleteRound
    /\ Pump(RecordRoundComplete(player, completed'))
    /\ UNCHANGED <<session, attached>>

Verdict ==
    /\ Listening
    /\ Wire!GiveVerdict
    /\ Pump(RecordVerdict(player, verdict'))
    /\ UNCHANGED <<session, attached>>

\* A verdict of more than MAX_FRAME_CHARS is dropped with a transport error.
VerdictTooLarge ==
    /\ Listening
    /\ Wire!GiveVerdict
    /\ debate' = ReduceTransport(debate)
    /\ UNCHANGED <<session, attached, player, timer>>

\* The connection is lost or closed; its close event is still to come.
Cut ==
    /\ Listening
    /\ Wire!Cut
    /\ UNCHANGED <<session, attached, player, timer, debate>>

\* onclose of the socket of session i, unless that client was disposed.  An
\* older session's socket is closing since the next one was opened.
SocketClosed(i) ==
    /\ i \in attached
    /\ i = session => ~open
    /\ attached' = attached \ {i}
    /\ Pump(RecordClosed(player))
    /\ UNCHANGED <<wireVars, session>>

Arrival ==
    \/ Accepted \/ Refused
    \/ \E a \in Agents : Token(a) \/ Failed(a)
    \/ \E p \in Panelists : PersonaDone(p)
    \/ RoundComplete \/ Verdict \/ VerdictTooLarge \/ Cut
    \/ \E i \in 1..MaxSessions : SocketClosed(i)

Next == Ask \/ Stop \/ GoToLive \/ TimerFires \/ Arrival

\* The browser fires the timers it was asked for.
Spec == Init /\ [][Next]_vars /\ WF_vars(TimerFires)

-----------------------------------------------------------------------------
(***************************************************************************)
(* Properties.                                                             *)
(***************************************************************************)
TypeOK ==
    /\ session \in 0..MaxSessions
    /\ attached \subseteq 1..session
    /\ timer \in BOOLEAN
    /\ player.text \in [Rounds -> [Agents -> 0..MaxTurnChars]]
    /\ player.roundComplete \subseteq 1..MaxRounds
    /\ player.moderatorRound \in 0..(MaxRounds + 1)
    /\ player.cursor.kind \in {"panelist", "moderator", "done"}
    /\ player.cursor.kind = "panelist" =>
           player.cursor.seat \in Panelists /\ player.cursor.round \in Rounds
    /\ player.active.pos <= player.active.text
    /\ debate.phase \in {"idle"} \union Live \union Terminal
    /\ debate.transcript \in [Rounds -> [Agents -> 0..MaxCellChars]]
    /\ debate.activeSpeakers \subseteq Agents
    /\ Len(debate.errors) <= MaxErrors

\* What the stream has said so far, as far as the caps let it be kept.
Transcript ==
    [r \in Rounds |-> [a \in Agents |->
        Capped(said[r][a] * DeltaWords, MaxTurnChars)]]

\* While a session's client listens, the recording is what its own socket
\* carried: nothing of an earlier session is left in it or still arrives, and
\* a close that was recorded is not some other socket's.
RecordingIsOfThisSession ==
    Listening =>
        /\ ~player.closed
        /\ player.roundComplete = 1..completed
        /\ player.text = Transcript

\* "activeSpeakers naturally collapses to a single id", which is what the
\* camera and the highlighted robot key off.
OneSpeaker == Cardinality(debate.activeSpeakers) <= 1

\* The order of play: round by round, seat by seat, the moderator last.
Precedes(r, a, q, b) ==
    \/ r < q
    \/ r = q /\ a < b

\* A turn starts only when all earlier turns have been shown in full, however
\* the panel's tokens were interleaved and whenever the user catches up.
TurnsAreShownInOrder ==
    \A r, q \in Rounds, a, b \in Agents :
        Precedes(r, a, q, b) /\ debate.transcript[q][b] > 0 =>
            debate.transcript[r][a] = Transcript[r][a]

\* A debate shown as done has been shown in full.
DoneIsComplete ==
    debate.phase = "done" =>
        /\ verdict # NoVerdict
        /\ debate.verdict = verdict
        /\ debate.transcript = Transcript

\* isAtLive "mirrors prepareNextTurn's own decision tree exactly": there is
\* something to skip exactly if a step would change anything.
AtLiveMirrorsStep ==
    HasReadyWork(player) <=>
        LET s == Step(Now(player), ReducedMotion)
        IN  s.player # player \/ s.debate # debate

\* No lost wake-up: with no timer armed there is nothing left to play, so the
\* next frame is all the player has to wait for.
NoLostWakeup == ~timer => ~HasReadyWork(player)

\* Until the next question, what has ended stays as it ended: no timer, late
\* frame or late close brings a stopped or finished debate back.
EndIsFinal ==
    [][debate.phase \in Terminal /\ session' = session =>
          /\ debate'.phase = debate.phase
          /\ debate'.transcript = debate.transcript
          /\ debate'.verdict = debate.verdict]_vars

\* Once the stream is known to have ended, the replay comes to an end too,
\* unless the user stops it or asks again.
ReplayEnds == TerminalKnown(player) ~> debate.phase \in Terminal \/ ~TerminalKnown(player)

\* "This changes cadence and order, never data": when the replay is done, the
\* errors list names every turn of a panelist that failed.
NoErrorIsLost ==
    debate.phase = "done" =>
        \A p \in Panelists, r \in Rounds :
            settled[r][p] = "failed" =>
                \E i \in DOMAIN debate.errors : debate.errors[i] = Error(p, r)
=============================================================================
