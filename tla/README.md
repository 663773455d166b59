# A verification of Council

Council holds a debate between language-model personas: the browser asks a
question over a WebSocket, the Go server lets a panel answer in rounds, a
moderator sums up, and the browser replays the debate on a stage. This directory
holds TLA+ models of the parts of the program that decide anything, the TLC
configurations that check them, and proofs for TLAPS about them. Every definition
is translated from the source; `PROJECT.json` names the lines ("map").

## The system

| Component | State it keeps | Operations | What is hard about it |
|---|---|---|---|
| `ws.HandleSession` | connection, context | accept, read the ask, run, write each event, return | the client leaves at any point; writes time out while goroutines wait for the handler |
| `orchestrator` | transcript, round, one goroutine per persona | `Run`, `runRound`, `stream`, `runModerator`, `emit` | fan-in of concurrent answers, the round barrier, cancellation racing delivery, closing a channel others send on |
| `provider` | one HTTP stream and goroutine per answer | `Stream`, `streamResponse` | errors and end of stream, a body that is cut, a silent upstream, a send nobody receives |
| `protocol`, `lib/protocol.ts` | none | marshal and parse events, build and validate asks | two descriptions of one format, written by hand in two languages |
| `httpx.ClientIP` | none | the address a request is known by | a header anyone can send is the key of bucket and quota |
| `ratelimit.Limiter` | map of buckets with `lastSeen`, janitor | `Allow`, `sweep` | eviction must not refill a bucket early; a late tick |
| `ratelimit.Middleware` | semaphore | bucket, quota, slot, then the handler | order of the guards, exact release, partial failure |
| `store` | `daily_usage` table | `CheckAndIncrement` | races at the limit, a commit whose answer is lost, restarts |
| `cmd/server` | the process | start, signal, shutdown | live debates at shutdown, crash between two writes |
| `wsClient` | one socket | `ask`, `dispose`, callbacks | a late close of an earlier socket |
| `DebatePlayer` | recording, cursor, active turn, deferred inputs, timer | `feed`, `feedStatus`, `skipToLive`, `reset`, timer | lost wake-ups, replay order, data recorded ahead of the replay, end of the stream in mid replay |
| `debateReducer` | phase, transcript, speakers, errors | one input at a time | inputs after a terminal phase |
| `useDebate` | the wiring | `ask`, `stop`, go to live | stop and ask against armed timers and open sockets |
| page: `App`, layouts, controls | what was rendered, layout, form open | clicks, render, resize | handlers decide by an old render; state of a layout is lost when it is left |
| question form | draft | type, preset, rounds, submit | its validation has to be the server's |
| `useSmoothText` | revealed length, a requested frame | render, effect, tick | a text that grows or is exchanged between render, effect and frame |
| sound | preference, storage, audio context | toggle, cue, reload | the context follows orders later than they are given |
| stage views | render-loop timer, verdict panel, last cue; the rest is derived | effects after a render | four views derive who speaks in their own code; timers outlive a debate |
| 3D geometry, config, echo endpoint | none that matters | render; parse at start-up; echo | not modelled, see below |

The parts meet in five places. The middleware calls the handler and holds a slot
until it returns. The handler receives from the unbuffered event channel of
`Run`; `Run` and its workers receive from the unbuffered channels of the
providers; all of them select on the session's context. The socket carries the
events as frames. In the browser the socket's callbacks feed the player, and the
player calls the reducer. The page is rendered from the reducer's state and from
the player's `isAtLive`, and its controls call the hook.

## Modules

| Module | Models | Checked by |
|---|---|---|
| `DebateStream` | abstract: the frames of one debate, in the orders they may come in | target of the refinement, environment of `DebatePlayer` |
| `DebateSession` | handler, `Run`, workers and providers of one connection | `DebateSession_*.cfg` |
| `DebateSessionProofs` | theorems about its types, control and whole answers | TLAPS |
| `DebateWireProofs` | theorems about what its socket carries: the refinement, hang-up, prompts, the limit, frames that are understood | TLAPS |
| `WireFormat` | events and asks as JSON, both ends of each | instantiated by `DebateSession` and `AskForm` |
| `TokenBucket` | abstract: a token bucket per address, never forgotten | target of the refinement |
| `RateLimiter` | limiter and janitor | `RateLimiter.cfg` |
| `RateLimiterProofs` | theorems about `RateLimiter` | TLAPS |
| `Admission` | client address, middleware, quota, semaphore, process; EXTENDS `RateLimiter` | `Admission_*.cfg` |
| `MCAdmission` | symmetry of the requests | |
| `AdmissionProofs` | theorems about slots, quota and floods | TLAPS |
| `ServerSentEvents` | the body of one answer, line by line, and its worker | `MCParts.cfg` |
| `DebatePlayer` | wsClient, player, reducer, hook; its socket is an INSTANCE of `DebateStream` | `DebatePlayer_*.cfg` |
| `DebateReplayProofs` | what a step of the scheduler and the loop of `skipToLive` do to a replay | TLAPS |
| `DebatePlayerProofs` | theorems about recording, replay and display; EXTENDS `DebateReplayProofs` | TLAPS |
| `DebateApp` | App, layouts, controls, transcript, banner, stage views, cues; EXTENDS `DebatePlayer` | `DebateApp.cfg` |
| `DebateAppProofs` | theorems about the page; EXTENDS `DebatePlayerProofs` | TLAPS |
| `AskForm` | question form, docket, the message and its reception | `MCParts.cfg` |
| `SmoothText` | `useSmoothText` under its callers | `MCParts.cfg` |
| `Sound` | the sound switch, its storage, the audio context | `MCParts.cfg` |
| `PartsProofs` | theorems about the form, whole bodies, the reveal and the sound switch | TLAPS |
| `MCParts` | `AskForm`, `ServerSentEvents`, `SmoothText` and `Sound` side by side | `MCParts.cfg` |

`DebateStream` is the seam of the system: the session is shown to implement it,
and the player is checked against everything it allows, so the two halves are
verified against one contract instead of against each other.

Each module also holds *broken variants*: an operator that says in its comment
how it differs from the code. They are never used by the model; each shows, put
in the place of the real definition, that a property can fail.

### How the models correspond to the code

*DebateSession.* One action per blocking point. `handler`, `run` and `worker[a]`
are where `HandleSession`, the goroutine of `Run` and each call of `stream`
stand; `prov[r][a]` is the goroutine of one HTTP stream. All channels are
unbuffered, so a send and its receive are one step (`Emit`, `ReceiveDelta`,
`ReceiveErr`), and where the code selects against the context there is a second
action (`EmitCancelled`, `AbandonRounds`, `ProviderQuits`). A provider that has
handed over its error is `"returning"` until its deferred calls have closed the body
and the channel (`ProviderReturns`): its worker goes on meanwhile, and the upstream
call is still open (`Live`) although nothing more is to come (`Answering`). When a
stream ends by closing its channel, nobody goes on before the body is closed, so that
is one step. The reader goroutine
of `conn.CloseRead` and the client belong to the environment. A text is the
number of its deltas, a prompt the set of answers it quotes.

*WireFormat.* A JSON object is a function from its keys. `Marshal` drops every
field with the zero value, as `omitempty` does; `ParseEvent` requires, defaults,
drops and validates keys, as the schema of the type does. `DebateSession` builds
each event as the orchestrator does and asks whether the browser would make of it
what was meant. A question is a length in runes of one kind, with or without a rune
of white space around it: that is what trimming, the limit in runes and the read
limit in bytes can tell apart. The limit of wsClient.ts on the length of a frame is
not part of the schemas: `DebatePlayer` lets a verdict be dropped for its size, and
takes every other frame to fit. U+FEFF and U+0085 are white space in one of the two
languages only. Frames that are no JSON are left out: neither end sends them.

*ServerSentEvents.* A line of the body is the way it takes through the loop of
`streamResponse`; the scanner also returns a last line without an end. The body may
end without `[DONE]`, which the code takes for a proper end, or break. The two
selects on the context are a send and `Quits`; after the send of an error the
deferred closes are a step of their own (`ReaderReturns`). `DebateSession` has the
same provider with the lines left out.

*RateLimiter.* `Allow` and `sweep` hold the mutex from start to end, so each is a
step. Time stamps are replaced by ages up to the point where they make no
difference. A bucket counts units: one request costs `Cost`, one tick brings
`Refill` back, so rates below one per tick are covered.

*Admission.* A request is a program counter through the guards. `from` is the client
that really made it, `addr` what `ClientIP` takes it for: behind a trusted proxy
the header is the proxy's, without one a client may send any header. Allow and the
reading of the day are one step: midnight between them has the effect of
midnight before. A statement that fails may have been committed. `Gone` is the
end of the process, by `main` returning or by a crash; the table survives it.

*DebatePlayer.* JavaScript runs one callback at a time, so each callback is one
action: a frame, a timer, a click, the close of a socket. What a callback does
to the player and the reducer is written as operators with the code's names.
`prepareNextTurn` is split into the turn it would open (`PlayableTurn`) and what
happens when there is none (`Conclude`); each case ends with the player and the
debate as they then are and with what `step` returns, a delay (`Continue`) or
`PARK` and `DONE` (`Park`). The loop of `skipToLive` is the recursive function
in `Drain`: it calls `Step` again as long as the last call asked for it, and has
room for more calls (`MostSteps`) than a debate has steps. The theorem `DrainKeeps`
shows that it always ends because `Step` parks and never because of that room.
Pacing is abstracted: an armed timer may fire at any time, which covers every
playback rate. Socket statuses `open` and `error` are left
out, since player and reducer pass over them without a change. Stop and "Go to
live" are enabled for any session, because the button that was clicked may still
show a debate that has ended since.

*DebateApp.* `shown` is the debate, and `isAtLive`, of the last render. React
commits a click at once, and a frame or a timer some time later: `Render` may be
delayed, so that one render stands for several steps of the player, and the
controls decide by `shown`, never by the debate itself. The effects that belong to
a render (`Frameloop`, `Cues`, `Spotlight`) run with it, because React flushes them
before it renders again; what they compare with is the previous render.
`SwitchLayout` unmounts one layout, with its state and its timers, and mounts the
other. The views are operators on a debate, each with the code's own cases, so
that the properties can ask whether they agree; so are the blocks of the
transcript, the line of the status and the choice of the error banner. Playback
rate, mute switch and transcript drawer only cause a render.

*AskForm.* `Submit` is the button or the Enter key with all it calls: `App` notes
the docket, the client builds the message a second time, the server receives it.
The field can be edited while a debate is live, the rest of the form cannot. All
kinds of drafts are typed before the first question, one kind afterwards.

*SmoothText.* A render, its effect (with the cleanup of the one before), the render
that `setRevealed` causes, and a frame are one action each. A frame may come
between a render and its effect; it is then the tick of the previous effect, with
the previous target. The callers' texts only grow, unless they are exchanged for
another turn's.

*Sound.* `resume()` and `suspend()` are orders that are carried out later. `heeded` is
a history variable, which guards no step: the setting at the last load or click with
no order on its way. `PlayCue`
makes the context if there is none. `Reload` starts from what storage holds, which
may be what it held before if storage is not available.

## Runs

| Run | Shows | Bounds |
|---|---|---|
| `session_safety` | refinement of `DebateStream`; every frame is understood; whole answers; prompts quote what was shown; no panic; conclusion before hang-up | 2 personas at once, 2 rounds, 1 delta per answer, one valid and one odd round count |
| `session_liveness` | nothing is left running after cancellation, even if the upstream model stalls; while the context is not done, an open upstream call has a waiting worker or has handed over its error, and answers under way stay within the limit; with an upstream model that answers every accepted debate concludes | 2 personas, a limit configured as 0, which the code makes 1; 1 delta in the answers of the moderator and one persona |
| `session_timeout` | *violation*: a provider call may never end | 1 persona |
| `session_slot` | *violation*: upstream calls outlive the handler and its slot | 2 personas |
| `limiter` | eviction is invisible; idle addresses are forgotten | 2 addresses, burst 2, half a request per tick, TTL exactly the time to refill, a tick up to 2 late |
| `admission_safety` | slots, quota, no writes for floods | 4 requests of one client without a proxy, with any of 2 addresses or none in the header, 1 slot, quota 2, 2 days |
| `admission_quota` | *violation*: the daily limit counts debates that never started | as above, behind a proxy |
| `admission_shutdown` | *violation*: a graceful shutdown cuts debates off | as above, behind a proxy |
| `player_replay` | order, completeness, single speaker, no stall, final end, over two questions | 2 seats, 2 rounds, 1 delta of 3 words per turn against a cap of 2, at most 3 errors kept |
| `player_errors` | *violation*: an error is replaced by a later one | 2 seats, 2 rounds |
| `app` | the page stays one consistent view of the debate: form, camera, robots, transcript, status line, banner; and its timers, cues and buttons follow it | 1 seat, 2 rounds, 1 delta of 2 words per turn, 2 questions, at most 2 errors kept |
| `parts` | the form and the server agree on what may be asked; the body of an answer is delivered whole or fails, and lets go when cancelled; smoothed text neither bursts nor falls back, and comes to rest; the audio context follows the sound switch as last heeded | all kinds of questions on both sides of the limit of 1000 runes, rounds 2 to 8, 2 questions; bodies of 4 lines; 2 texts of up to 14 characters |

Why these bounds are enough to be interesting: two personas are the least with
any interleaving, and the code treats them alike apart from their index; two
rounds are the least the protocol allows and contain both kinds of round change,
from round to round and from the last round to the moderator. One delta
separates "nothing said", "said something, then failed" and "said something,
then finished". A limit of 1 with two personas makes the launch loop wait; in that
run the answers of one persona are without deltas (`Talkative`), which the other and
the moderator make up for, because liveness is costly to check. The
limiter's TTL is set to the boundary at which the assumption `KeptUntilFull`
just holds. Four requests against a quota of two and one slot reach every
rejection. Two questions are the least in which something of an old session can
reach a new one. In the replay the caps on texts and on the list of errors are
small enough to be hit. The page is checked with one seat: how the answers of
several seats interleave is the subject of `player_replay`, and the page treats
the seats alike; two questions and two rounds are what its cues and timers need. A
body of four lines has room for each kind of line. Fourteen characters are enough
for the step of the reveal to be both its minimum and more.

`WireFormat` has no run of its own: its events are checked where the session builds
them (`session_safety`), its asks where the form does (`parts`). The four modules of
`parts` share no state; a behaviour of that run exercises one of them, so that the
run is as large as the sum of the four and not their product.

Deadlock is checked where the system has no reason to stop: the sessions end in
an explicit `Finished` step, the limiter never stops. `Admission`, `DebatePlayer`
and `DebateApp` stop when the bounded requests or questions are used up, and of the
four parts the body and the text end, so deadlock checking is off there;
`NoLostWakeup` and `ReplayEnds` say instead that the player never stops with work
left, and `CancelledAnswerUnwinds` and `TextComesToRest` say where a body and a text
stop.

### Fairness

`GoFairness` is what the Go runtime gives: a goroutine that can run will, a write
ends within `writeTimeout`, and a done context ends a blocked request or read. The
providers share one condition, that one of them runs if any can; each has finitely
many steps, so none is left out.
Nothing in it makes a client ask or an upstream model answer. Only
`DebateConcludes` has `UpstreamFairness` as its premise, an upstream model that
keeps answering until its answer is over; `session_timeout` shows that the promise
cannot be had without it, and `CancelledSessionUnwinds`, in the same run, does not
need it. `LimiterFairSpec` lets the clock, the ticker and the
janitor go on, and `DebatePlayer` assumes that the browser fires the timers it
was asked for. `DebateApp` adds that React renders what the reducer changed and
that the render loop's timer fires. `BodyFairness` schedules the two goroutines
of an answer and owes nothing on the upstream model's side; `TextFairness` is a
visible page, on which React finishes its work and animation frames come. User
actions and frames from the socket are never fair.

## Proofs

TLAPS checks these for every value of the constants that satisfies the named
assumptions of the modules.

* `DebateSessionProofs!Invariance`, with `TypeCorrect`, `NoPanic` and
  `WholeAnswers` as consequences. `TypeOK` alone is not inductive: that an event
  carries a round in range needs the round barrier, and that the transcript is as
  long as the rounds held needs to know where `Run` stands. `IInv` therefore adds
  `ControlInv` (where `Run` and the workers can be at the same time),
  `ProviderInv` (which provider belongs to which worker, and that one can have
  given up only after the connection was gone) and `InHandInv` (what the handler
  holds, and what its sender must have seen). `WholeAnswers` follows because a
  worker that reaches its final event over an aborted provider does so with the
  connection closed, so the frame is never written. Each lemma takes one part of
  `IInv` through every action. The assumptions are that there is at least one
  persona and that the protocol allows at least two rounds.
* `DebateWireProofs` proves what the client sees. `WireInvariance` adds `WireInv` to
  `IInv`: while the connection is open, what was written, the event in the handler's
  hand and where each goroutine stands add up to one debate. Its parts say that
  rounds are completed one by one by a frame that comes behind all answers of the
  round (`BarrierInv`), that an event in hand is of this round and its sender has
  gone on (`HandInv`), what each agent has streamed, has in flight and still holds
  (`TurnInv`), that later rounds are untouched (`FutureInv`), and that the transcript
  is what was shown (`TranscriptInv`). Once the connection is closed nothing is
  written, so nothing has to hold. It follows that the session implements
  `DebateStream` (`ImplementsDebateStream`: each write is the step of the stream for
  its kind of frame, everything else stutters), that it hangs up only after the
  debate is concluded (`ConcludesBeforeHangUp`), and that a prompt quotes exactly
  what was shown (`PromptsAreShown`, by carrying the quotation from the moment a
  request is built to the end of its answer). `AnswersStayWithinLimit` counts
  instead: while the context is not done every answer under way has a running worker of
  the current round, and `Launch` adds a running persona only below the limit. It says
  nothing of calls whose error is handed over and whose body is still being closed, nor
  of a session whose context is done.
* `DebateWireProofs!FramesAreUnderstood`: an event that sets what its schema
  requires, and nothing its schema does not know, comes out of `Marshal` and
  `ParseEvent` as it went in; and each event a session builds is such an event,
  because `IInv` bounds its round by the moderator's. The limit of wsClient.ts on the
  length of any frame is no part of it.
* `RateLimiterProofs!RefilledAlways` and `EvictionIsSafe`: under
  `KeptUntilFull`, TTL times rate at least the burst, the limiter with its
  janitor implements `TokenBucket`. The invariant is that a bucket has refilled
  for as long as its address has been idle; it makes an expired bucket full, so
  forgetting it is a stuttering step. The configuration does not check this
  assumption; its defaults satisfy it by a wide margin.
* `AdmissionProofs`: `NoSlotIsLost`, `QuotaIsNeverExceeded` and `FloodsWriteNothing`,
  for any number of clients, requests, slots and days. Each compares a variable with
  the size of a set of requests that a step changes by at most one. The semaphore is
  the number of handlers while the process runs (`SlotInv`). For the quota, the
  requests that got past the counter were counted for their day and address and are
  never more than the quota (`QuotaInv`); the address is the client's own, without a
  proxy because the header is not believed and behind one because the proxy is taken to
  write the leftmost entry of X-Forwarded-For, which is the one clientip.go reads
  (`KnownByItsClient`); nothing is claimed behind a proxy that appends to what
  the client sent. For floods, a row of the table is at most the number of
  requests that were counted for it (`FloodInv`). The assumptions are that the requests
  are finitely many and the constants of the right kinds.
* `PartsProofs!WholeBodies`: the worker has received all of the body but
  the delta in hand, and takes only a body that ended properly for whole, for bodies
  of every length.
* `PartsProofs!RevealIsAlwaysSmooth`, for texts of every length: of one text what
  was shown stays, and a burst is not shown by the render that brings it.
* `PartsProofs!FormAlwaysMirrorsServer`: what the form lets through is accepted by
  the server, and fits its read limit, because no rune takes more than six bytes;
  what it holds back would be refused; and the debate on the page was asked with the
  message of the docket. Questions of every length are covered by the lemmas; the
  exceptions are those of the property, white space that one language does not trim.
* `PartsProofs!ContextAlwaysHeedsSwitch`: in every order of clicks, cues, reloads and the
  carrying out of orders, the context is as the switch was when last heeded, or the one
  order on its way will make it so. The invariant is the property and that nothing can
  be overtaken before there is a context.

### The player

`DebatePlayerProofs` proves every safety property of the `player_replay` run, for any
number of seats, rounds, questions, any caps and texts of any length. None of
them is inductive: that a recorded frame goes to the right place needs what the
stream can still send, and that a step shows the right words needs all that ties the
schedule to recording and display. The invariant `Inv` says that

* what the socket has carried is a part of one debate (`WireInv`: rounds are completed
  one by one, the panel speaks up to the current one, the moderator behind the last);
* the debate on display makes sense in any phase, also when it was stopped
  (`PageInv`: at most one speaker, no text beyond the round, a verdict only when done,
  an error that ended the debate is the last of the list, which survives its cap);
* either a debate is played (`Playing`), and then player, stream and display are tied
  by `PlayInv`, or none is (`AtRest`), and then the player is blank, nobody listens, and
  what is left on display was shown in order;
* no wakeup is lost (`NoLostWakeup`).

`PlayInv` has five parts: the recording is that of as many rounds as the stream has
completed (`RecordInv`); the cursor is in a complete round or at the start of the
next, an open turn is the one at the cursor, and what is deferred belongs to the turn
just closed (`ScheduleInv`); on display are the turns before the cursor in full and
the open one as far as it is revealed (`DisplayInv`); the debate has ended exactly if the
schedule has (`StageInv`); and whoever has the open turn speaks, alone, or between two
turns the last speaker at most (`SpeakerInv`).

`DebateReplayProofs` follows the code from the inside out: what the reducer makes of
each input, the cases of `prepareNextTurn` and `revealStep`, one step (`StepKeeps`),
and the loop of `skipToLive` (`DrainKeeps`). A step keeps `PlayInv`; it parks only
when nothing is left to play, and it changes something exactly if `HasReadyWork`
says so, which is `AtLiveMirrorsStep`; and when text is revealed by whole turns, a
step that asks to be called again makes progress, in a measure (`Progress`, two for
each turn) that `PlaceOfCursor` bounds by the number of turns. So the loop cannot
outlast `MostSteps`. The argument over the number of calls takes the first one to go
wrong, which exists because the natural numbers are well-founded, in place of an
induction. `DebatePlayerProofs` then takes each callback: a frame is recorded
(`TokenIsRecorded` and its like), which does not disturb what was played
(`RecordingKeeps`), and `pump` takes a step or leaves it to the timer (`PumpKeeps`).
The same steps show `EndIsFinal`, and that the round shown never
goes back, which the page needs.

The assumptions are those of the module: at least one seat, at least two rounds, caps
that are not zero, and `CapAssumption`: what is recorded and what is displayed are cut at
the same length (`MAX_TURN_CHARS` and `MAX_CELL_CHARS`, 200000 each in the code).
Without it a debate could not be shown as it was recorded.

### The page

`DebateAppProofs` proves every safety property of the `app` run in the same
generality. `AppInv` adds to `Inv` what a render that lags behind has in common with
the debate it was made of: it satisfies `PageInv` too, its round is not ahead, and if
it shows a debate as ended, the debate has ended that way, because a live one starts
only with a question and a question is rendered at once (`PageShows`). On the desktop a
live debate is animated and no timer that would stop it is armed (`LoopInv`), and the
cues count the verdict that is shown and no more changes than the round that is shown
(`CuesInv`). That form, camera, bubbles, robots and transcript agree follows from
`PageInv` of the rendered debate alone, whatever the render missed. The theorem
`PagePlaysDebates` is the refinement: whatever is clicked by way of an old render, and
whenever the page is rendered or resized, `DebatePlayer` allows what happens to player,
reducer and socket.

### What stays with TLC

All liveness, since TLAPS has no rule for fairness and ENABLED:
`CancelledSessionUnwinds`, `DebateConcludes`, `IdleIsForgotten`, `ReplayEnds`,
`BacklogIsOffered`, `StageComesToRest`, `CancelledAnswerUnwinds`, `TextComesToRest`.
And the violations, which need a counterexample and no proof. Every safety property
of a passing run is proved.

## Where code and documents disagree

* `session_timeout`: README.md promises "Timeouts on every HTTP and provider
  call". The provider's HTTP client has none and the context no deadline.
* `session_slot`: middleware.go says a handler "holds its slot for the whole
  debate", which "bounds concurrent upstream fan-out". After a failed write the
  handler returns, and the slot is free, before the providers have stopped.
* `admission_quota`: .env.example speaks of a "daily cap on debates started".
  Requests refused because the server was busy are counted as well.
* `admission_shutdown`: README.md promises a shutdown "that drains live WebSocket
  sessions". `http.Server.Shutdown` does not wait for hijacked connections.
* `player_errors`: debatePlayer.ts says that it "changes cadence and order, never
  data". A persona's error is kept under its name only, so a second one recorded
  before the first was replayed replaces it, and the first is never shown.

### Met while modelling, without a run

Differences the models leave room for, by a condition in a property or because the
code does it that way; no run shows them.

* SoundToggle.tsx says that "the control never lies". A click that comes before the
  order of an earlier click was carried out acts on a state of the audio context that
  is about to change: muted while a resume is pending, the context stays running; made
  audible while a suspend is pending, it stays suspended. `ContextHeedsSwitch` covers
  these clicks: context and orders go by the last click that was heeded (`heeded`), so
  the lost one leaves the switch at odds with the hardware until the next click.
* The limit of an orchestrator is one on workers. A worker that has got an error from
  its provider emits it, returns and frees its slot, while the provider's deferred
  `resp.Body.Close()` may still be to come: the next persona's request can start with
  the call of the last one open. The same holds for every worker of a session whose
  context is done. No statement of the repository excludes it within a debate;
  `AnswersWithinLimit` names both exceptions.
* QuestionForm.tsx says that it "mirrors the backend exactly". JavaScript trims U+FEFF
  and Go does not, Go trims U+0085 and JavaScript does not: a question of U+0085 alone
  can be convened and is refused. `FormMirrorsServer` names the two as exceptions.
* StageAnnouncer.tsx says that moderator failures "are ErrorBanner's" and announces
  them all the same: it excludes only errors without a persona.
* The error banner prefers the first error without a persona, also if it was a
  transport error noted before the moderator's failure ended the debate.
* A body that ends without `[DONE]` counts as a whole answer.

## Not modelled, and why

* The geometry, materials and animation curves of the 3D scene: output, no state
  another part reads.
* `config.Load`: it parses the environment once, before anything runs. What it checks
  are the assumptions on the constants of `RateLimiter` and `Admission`; what it leaves
  unchecked, the TTL times the rate against the burst, is `KeptUntilFull`.
* The echo endpoint, which returns what it reads; the fake provider, a test double.
* Opening and migrating the database; the handshake of the WebSocket, which either
  succeeds or does not.
* Of the page: whether the drawer is open, announcements, keyboard focus, styling, the
  tones of a cue, the wording of prompts and messages.
* Delays and the playback rate: an armed timer may fire at any time.

Left to do: `DebateSession` and `DebatePlayer` meet in `DebateStream`, and each is proved
on its own side of it; that frames cross the network in order and at most once, which a
WebSocket gives, is what joins them and is not a theorem here. The safety half of
`ReplayEnds`, that a step which is not the last makes progress, is `StepKeeps` for whole
turns only; paced reveals count words instead.
