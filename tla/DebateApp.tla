------------------------------ MODULE DebateApp ------------------------------
(***************************************************************************)
(* The page around the DebatePlayer: App.tsx, which owns the debate and    *)
(* plays the sound cues, the desktop layout with its stage                 *)
(* (StageLayout.tsx, DebateStage.tsx) and the mobile layout, and the views *)
(* the stage derives from the reducer's state (robotVisualState.ts,        *)
(* bubbleContent.ts, cameraTarget.ts).                                     *)
(*                                                                         *)
(* What is on the page is the debate as it was last rendered: React        *)
(* renders some time after a frame or a timer changed the debate, and at   *)
(* once after a click.  The handlers of the page decide by the debate      *)
(* they were rendered with.  Effects run with the render they belong to;   *)
(* React finishes them before it renders again.                            *)
(*                                                                         *)
(* Where a view only arranges or words what it is given, it is left out;   *)
(* the stage, which is loaded lazily, is taken to be there at once.        *)
(***************************************************************************)
EXTENDS DebatePlayer

VARIABLES
    shown,      \* the debate and isAtLive of the last render
    layout,     \* "stage" from the md breakpoint up, else "mobile"
    composing,  \* StageLayout: the question form is open
    loop,       \* useStageFrameloop: its mode, and whether its timer is armed
    spotlight,  \* useVerdictSpotlight of the mobile layout: open
    heard       \* sound cues since the last question

appVars == <<shown, layout, composing, loop, spotlight, heard>>

-----------------------------------------------------------------------------
(***************************************************************************)
(* The views of a debate d.                                                *)
(***************************************************************************)
\* The wide shot, of no seat in particular.
Council == -1
VerdictPhases == {"moderating", "done"}

HasSpokenIn(d, a, r) == d.transcript[r][a] > 0
HasSpokenEver(d, a) == \E r \in Rounds : HasSpokenIn(d, a, r)

Rest(d, a) == IF HasSpokenEver(d, a) THEN "done" ELSE "idle"

PanelistStatus(d, p) ==
    CASE d.phase \in {"idle", "connecting"} -> "idle"
      [] d.phase = "debating" ->
            IF p \in d.activeSpeakers THEN "talking"
            ELSE IF HasSpokenIn(d, p, d.currentRound) THEN "done" ELSE "thinking"
      [] d.phase \in VerdictPhases \union {"stopped", "error"} -> Rest(d, p)

ModeratorStatus(d) ==
    CASE d.phase = "moderating" -> "talking"
      [] d.phase = "done" -> "done"
      [] d.phase \in {"stopped", "error"} -> Rest(d, Moderator)
      [] OTHER -> "idle"

RobotStatus(d, a) == IF a = Moderator THEN ModeratorStatus(d) ELSE PanelistStatus(d, a)

\* The bubbles in which text is streaming.
PanelistStreams(d, p) ==
    d.phase \notin VerdictPhases /\ PanelistStatus(d, p) = "talking"

Streaming(d) ==
    {a \in Agents : IF a = Moderator THEN d.phase = "moderating"
                    ELSE PanelistStreams(d, a)}

\* broken variant: the camera has its own set of phases.
CameraMissesDeliberation(d) ==
    IF d.phase = "done" THEN Moderator
    ELSE IF d.phase = "debating" /\ Cardinality(d.activeSpeakers) = 1
         THEN CHOOSE a \in d.activeSpeakers : TRUE
         ELSE Council

\* Whose seat the camera frames.
CameraTarget(d) ==
    IF d.phase \in VerdictPhases THEN Moderator
    ELSE IF d.phase = "debating" /\ Cardinality(d.activeSpeakers) = 1
         THEN CHOOSE a \in d.activeSpeakers : TRUE
         ELSE Council

\* latestRoundText: the round whose text a bubble shows.
LatestRound(d, a) ==
    CHOOSE r \in Rounds : HasSpokenIn(d, a, r) /\ \A q \in Rounds : HasSpokenIn(d, a, q) => q <= r

\* PersonaColumn of the transcript.
ColumnStatus(d, p) ==
    IF p \in d.activeSpeakers THEN "streaming" ELSE Rest(d, p)

\* panelMaxRound of the TranscriptGrid, the last round it has room for.
PanelMaxRound(d) ==
    LET led == IF d.phase = "debating" THEN {d.currentRound} ELSE {}
    IN  Max({r \in Rounds : \E p \in Panelists : HasSpokenIn(d, p, r)} \union led \union {0})

StreamsIn(d, p, r) == p \in d.activeSpeakers /\ r = d.currentRound

\* broken variant: the loop ends one round early.
BlocksBelow(d, p) ==
    {r \in 1..(PanelMaxRound(d) - 1) : HasSpokenIn(d, p, r) \/ StreamsIn(d, p, r)}

\* The rounds of a column that have a RoundBlock.
Blocks(d, p) ==
    {r \in 1..PanelMaxRound(d) : HasSpokenIn(d, p, r) \/ StreamsIn(d, p, r)}

\* The round in the status line, on mobile and in the docket.
RoundReadout(d) == IF d.currentRound > rounds THEN rounds ELSE d.currentRound

\* The drawer has a section for the verdict unless it is empty.
VerdictSection(d) == d.verdict \notin {NoVerdict, 0}

SessionErrors(d) == {i \in DOMAIN d.errors : d.errors[i].persona = NoPersona}

\* broken variant: without an error of the session, the first in the list.
BannerErrorFromFirst(d) ==
    IF SessionErrors(d) # {} THEN d.errors[Min(SessionErrors(d))]
    ELSE IF d.errors # <<>> THEN Head(d.errors) ELSE NoError

\* The error whose message the banner shows.
BannerError(d) ==
    IF SessionErrors(d) # {} THEN d.errors[Min(SessionErrors(d))]
    ELSE IF d.errors # <<>> THEN Last(d.errors) ELSE NoError

-----------------------------------------------------------------------------
(***************************************************************************)
(* Rendering.  A render commits the debate d; the effects that depend on a *)
(* part of it run when that part has changed since the last render.        *)
(***************************************************************************)
NoLoop == [mode |-> "none", settling |-> FALSE]
Silent == [ticks |-> 0, chimes |-> 0]

\* broken variant: the timer of the last debate is left armed.
FrameloopKeepingTimer(phase) ==
    CASE phase = "idle" -> [mode |-> "demand", settling |-> FALSE]
      [] phase \in Live -> [mode |-> "always", settling |-> loop.settling]
      [] phase \in Terminal -> [mode |-> "always", settling |-> TRUE]

\* broken variant: no timer is armed when the debate is over.
FrameloopWithoutTimer(phase) ==
    IF phase = "idle" THEN [mode |-> "demand", settling |-> FALSE]
    ELSE [mode |-> "always", settling |-> FALSE]

\* The effect of useStageFrameloop.
Frameloop(phase) ==
    CASE phase = "idle" -> [mode |-> "demand", settling |-> FALSE]
      [] phase \in Live -> [mode |-> "always", settling |-> FALSE]
      [] phase \in Terminal -> [mode |-> "always", settling |-> TRUE]

\* broken variant: the first token of a debate ticks too.
CuesFromTheStart(from, to) ==
    [ticks |-> heard.ticks + (IF to.currentRound > from.currentRound THEN 1 ELSE 0),
     chimes |-> heard.chimes
                + (IF to.phase = "done" /\ from.phase # "done" THEN 1 ELSE 0)]

\* The two effects of App: a tick when the round advances, but not to the
\* first, and a chime when the verdict lands.
Cues(from, to) ==
    [ticks |-> heard.ticks + (IF /\ from.currentRound > 0
                                 /\ to.currentRound > from.currentRound
                              THEN 1 ELSE 0),
     chimes |-> heard.chimes
                + (IF to.phase = "done" /\ from.phase # "done" THEN 1 ELSE 0)]

\* broken variant: opens in the moderator's phases, not on entering them.
SpotlightWithoutEdge(opened, from, to) == opened \/ to.phase \in VerdictPhases

\* The effect of useVerdictSpotlight: opens on entering the moderator's phases.
Spotlight(opened, from, to) ==
    opened \/ (from.phase \notin VerdictPhases /\ to.phase \in VerdictPhases)

Rendered(d, p) == [debate |-> d, atLive |-> ~HasReadyWork(p)]

\* The page shows the debate as it is after this step.
Commit ==
    /\ shown' = Rendered(debate', player')
    /\ loop' = IF layout = "stage" /\ debate'.phase # shown.debate.phase
               THEN Frameloop(debate'.phase) ELSE loop
    /\ spotlight' = (layout = "mobile" /\ Spotlight(spotlight, shown.debate, debate'))

-----------------------------------------------------------------------------
AppInit ==
    /\ Init
    /\ shown = Rendered(debate, player)
    /\ layout \in {"stage", "mobile"}
    /\ composing = (layout = "stage")
    /\ loop = IF layout = "stage" THEN [mode |-> "demand", settling |-> FALSE] ELSE NoLoop
    /\ spotlight = FALSE
    /\ heard = Silent

(***************************************************************************)
(* Clicks.                                                                 *)
(***************************************************************************)
LiveShown == shown.debate.phase \in Live

\* The form is on the page: always on mobile, on the stage while composing.
SubmitQuestion ==
    /\ ~LiveShown
    /\ layout = "stage" => composing
    /\ Ask
    /\ composing' = FALSE
    /\ heard' = Silent
    /\ shown' = Rendered(debate', player')
    /\ loop' = IF layout = "stage" THEN Frameloop(debate'.phase) ELSE loop
    /\ spotlight' = FALSE
    /\ UNCHANGED layout

ClickStop ==
    /\ LiveShown
    /\ Stop
    /\ heard' = Cues(shown.debate, debate')
    /\ Commit
    /\ UNCHANGED <<layout, composing>>

ClickGoToLive ==
    /\ LiveShown
    /\ ~shown.atLive
    /\ GoToLive
    /\ heard' = Cues(shown.debate, debate')
    /\ Commit
    /\ UNCHANGED <<layout, composing>>

\* broken variant: the form opens over a live debate.
OpenComposeAlways ==
    /\ layout = "stage"
    /\ composing' = TRUE
    /\ UNCHANGED <<vars, shown, layout, loop, spotlight, heard>>

\* "Ask another", or the question in the docket.
OpenCompose ==
    /\ layout = "stage"
    /\ ~LiveShown
    /\ composing' = TRUE
    /\ UNCHANGED <<vars, shown, layout, loop, spotlight, heard>>

\* The window crosses the breakpoint: one layout is unmounted, which clears
\* its timer, and the other is mounted for the debate as it is.  The phase the
\* spotlight compares with first is the one it is mounted with.
SwitchLayout ==
    /\ layout' = IF layout = "stage" THEN "mobile" ELSE "stage"
    /\ composing' = (layout' = "stage" /\ debate.phase = "idle")
    /\ shown' = Rendered(debate, player)
    /\ loop' = IF layout' = "stage" THEN Frameloop(debate.phase) ELSE NoLoop
    /\ spotlight' = (layout' = "mobile" /\ Spotlight(FALSE, debate, debate))
    /\ heard' = Cues(shown.debate, debate)
    /\ UNCHANGED vars

\* The panel is on the page once the verdict is final; Escape, its backdrop,
\* its buttons and "ask another question" close it.
DismissVerdict ==
    /\ spotlight
    /\ shown.debate.phase = "done"
    /\ spotlight' = FALSE
    /\ UNCHANGED <<vars, shown, layout, composing, loop, heard>>

\* A new playback rate, the mute button: the page is rendered again.
Render ==
    /\ shown # Rendered(debate, player)
    /\ UNCHANGED vars
    /\ heard' = Cues(shown.debate, debate')
    /\ Commit
    /\ UNCHANGED <<layout, composing>>

\* What the reducer changed is rendered.
RenderDebate == debate # shown.debate /\ Render

\* The timer of useStageFrameloop.
Settle ==
    /\ loop.settling
    /\ loop' = [mode |-> "demand", settling |-> FALSE]
    /\ UNCHANGED <<vars, shown, layout, composing, spotlight, heard>>

\* The player's timer, and what the socket brings.
PlayTimer == TimerFires /\ UNCHANGED appVars

SocketArrival == Arrival /\ UNCHANGED appVars

AppNext ==
    \/ SubmitQuestion \/ ClickStop \/ ClickGoToLive \/ OpenCompose \/ SwitchLayout
    \/ Render \/ Settle \/ DismissVerdict \/ PlayTimer \/ SocketArrival

\* The browser fires timers, and React renders what has changed.
AppSpec ==
    /\ AppInit /\ [][AppNext]_<<vars, appVars>>
    /\ WF_<<vars, appVars>>(PlayTimer)
    /\ WF_<<vars, appVars>>(RenderDebate)
    /\ WF_<<vars, appVars>>(Settle)

-----------------------------------------------------------------------------
(***************************************************************************)
(* Properties.                                                             *)
(***************************************************************************)
\* "Never over a live session": the question form is never open on top of a
\* debate that is shown as live, whatever was clicked or resized before.
FormNeverOverLive == composing => ~LiveShown

\* Camera, bubbles and robots tell one story: text streams in at most one
\* bubble, it is the one whose robot talks, and the camera is on it.  The
\* phase sets of the three views "must never desync".
CameraFollowsSpeaker ==
    \A a \in Streaming(shown.debate) :
        /\ RobotStatus(shown.debate, a) = "talking"
        /\ CameraTarget(shown.debate) = a

\* The robots and the columns of the transcript agree on who is speaking, and
\* "moderating coincides exactly with the moderator being active".
RobotsMirrorTranscript ==
    \A a \in Agents :
        RobotStatus(shown.debate, a) = "talking" <=>
            a \in shown.debate.activeSpeakers

\* The transcript and the status line show what is being replayed: every text
\* has its block; whoever speaks has the streaming block as the last of the
\* column, in the round the status line names, and its bubble shows that very
\* text.  The status line never has to cut the round at the number asked for,
\* and a verdict is in the drawer only once it has been delivered.
TranscriptFollowsReplay ==
    LET d == shown.debate
    IN  /\ \A p \in Panelists, r \in Rounds : HasSpokenIn(d, p, r) => r \in Blocks(d, p)
        /\ \A p \in Panelists \intersect d.activeSpeakers :
              /\ d.currentRound \in Blocks(d, p)
              /\ \A r \in Blocks(d, p) : r <= d.currentRound
        /\ \A a \in Streaming(d) : LatestRound(d, a) = d.currentRound
        /\ d.phase = "debating" => RoundReadout(d) = d.currentRound
        /\ VerdictSection(d) => d.phase = "done"

\* "Per-persona advisory errors are non-fatal [...], so they are excluded":
\* when a debate has ended in an error the banner shows an error that is fatal
\* or the session's, whatever failed before and was cut from the list.
BannerNamesTheEnd ==
    shown.debate.phase = "error" =>
        /\ BannerError(shown.debate) # NoError
        /\ BannerError(shown.debate).persona \in {NoPersona, Moderator}

\* A debate that is shown as live is animated: a settle timer armed at the
\* end of an earlier debate, or of an earlier mount, never stops it.
LiveStageIsAnimated ==
    layout = "stage" /\ LiveShown => loop.mode = "always"

\* However the debate is rendered, caught up with or moved between layouts:
\* one chime exactly for a verdict that is shown, and never more ticks than
\* there were changes from one round to the next.
CuesMarkProgress ==
    /\ heard.chimes = IF shown.debate.phase = "done" THEN 1 ELSE 0
    /\ heard.ticks > 0 => heard.ticks < shown.debate.currentRound

\* "Dismissal is therefore sticky for the session": the verdict panel does not
\* come back before the next question, not even by way of the other layout.
DismissalIsSticky ==
    [][shown.debate.phase = "done" /\ ~spotlight /\ session' = session =>
          ~spotlight']_<<vars, appVars>>

\* isAtLive is read when the page is rendered, and "self-heals": a backlog
\* that is not offered to be skipped is offered, or played, in the end.
BacklogIsOffered ==
    shown.atLive /\ HasReadyWork(player) ~> ~shown.atLive \/ ~HasReadyWork(player)

\* Once a debate is over the stage stops rendering frames.
StageComesToRest ==
    shown.debate.phase \in Terminal ~>
        loop.mode # "always" \/ shown.debate.phase \notin Terminal
=============================================================================
