--------------------------- MODULE DebateAppProofs ---------------------------
(***************************************************************************)
(* Proofs about the page, for every panel, number of rounds and questions: *)
(* what form, camera, robots, bubbles, transcript, banner and sound cues   *)
(* show is one debate of this session, however far the last render lags    *)
(* behind the player.                                                      *)
(*                                                                         *)
(* AppInv, the inductive invariant, adds to Inv of DebatePlayerProofs that *)
(* the rendered debate satisfies PageInv too, what it has in common with   *)
(* the debate of the reducer (PageShows), and the state of the effects     *)
(* (LoopInv, CuesInv).                                                     *)
(***************************************************************************)
EXTENDS DebateApp, DebatePlayerProofs

-----------------------------------------------------------------------------
(* Numbers. *)

\* A bounded set of numbers that is not empty has a greatest element, which Max
\* picks.
LEMMA GreatestElement ==
    ASSUME NEW b \in Nat, NEW T, T \subseteq 0..b, T # {}
    PROVE  Max(T) \in T /\ \A n \in T : n <= Max(T)
  <1> DEFINE D == {b - n : n \in T}
  <1>1. D \subseteq Nat /\ D # {}
    <2>1. \A n \in 0..b : b - n \in Nat
      OBVIOUS
    <2>2. D \subseteq Nat
      BY <2>1
    <2>3. PICK n : n \in T
      OBVIOUS
    <2>4. b - n \in D
      BY <2>3
    <2>5. QED
      BY <2>2, <2>4
  <1>2. PICK m \in D : \A k \in D : m <= k
    BY <1>1, LeastElement
  <1>3. PICK x \in T : m = b - x
    BY <1>2
  <1>4. \A n \in T : b - n \in D
    OBVIOUS
  <1> HIDE DEF D
  <1>5. \A n \in T : x >= n
    <2>1. TAKE n \in T
    <2>2. b - x <= b - n
      BY <1>2, <1>3, <1>4
    <2>3. x \in Nat /\ n \in Nat
      OBVIOUS
    <2>4. QED
      BY <2>2, <2>3
  <1>6. Max(T) \in T /\ \A n \in T : Max(T) >= n
    BY <1>5 DEF Max
  <1>7. Max(T) \in Nat /\ \A n \in T : n \in Nat
    <2>1. 0..b \subseteq Nat
      OBVIOUS
    <2>2. QED
      BY <1>6, <2>1
  <1>8. QED
    BY <1>6, <1>7

\* Min picks an element.
LEMMA LeastIndex ==
    ASSUME NEW T, T \subseteq Nat, T # {}
    PROVE  Min(T) \in T
  BY LeastElement DEF Min

-----------------------------------------------------------------------------
(* The inductive invariant. *)

\* What the page shows is a debate of this session as it was some time ago: it
\* may lag behind in rounds, but an end that is shown is the end.
PageShows ==
    /\ PageInv(shown.debate, rounds)
    /\ shown.debate.currentRound <= debate.currentRound
    /\ shown.debate.phase \notin Live => debate.phase = shown.debate.phase

\* On the desktop a live debate is animated and no timer that would stop it is
\* armed.
LoopInv ==
    layout = "stage" /\ LiveShown => loop.mode = "always" /\ ~loop.settling

\* The cues heard, in terms of the debate that is shown.
CuesInv ==
    /\ heard.ticks \in Nat
    /\ heard.chimes = IF shown.debate.phase = "done" THEN 1 ELSE 0
    /\ heard.ticks > 0 => heard.ticks < shown.debate.currentRound

\* The inductive invariant of the page.
AppInv ==
    /\ Inv
    /\ layout \in {"stage", "mobile"}
    /\ PageShows
    /\ composing => ~LiveShown
    /\ LoopInv
    /\ CuesInv

-----------------------------------------------------------------------------
(* The views. *)

\* robotVisualState and the reducer's activeSpeakers name the same speakers.
LEMMA TalkingIsSpeaking ==
    ASSUME NEW d, NEW most, PageInv(d, most), NEW a \in Agents
    PROVE  RobotStatus(d, a) = "talking" <=> a \in d.activeSpeakers
  <1>1. /\ d.phase \in {"idle"} \union Live \union Terminal
        /\ a \in d.activeSpeakers =>
              d.phase = IF a = Moderator THEN "moderating" ELSE "debating"
        /\ d.phase = "moderating" => Moderator \in d.activeSpeakers
    BY DEF PageInv, Debates
  <1>2. Rest(d, a) # "talking"
    BY DEF Rest
  <1>3. CASE a = Moderator
    <2>1. RobotStatus(d, a) = "talking" <=> d.phase = "moderating"
      BY <1>1, <1>2, <1>3 DEF RobotStatus, ModeratorStatus, Live, Terminal
    <2>2. QED
      BY <1>1, <1>3, <2>1
  <1>4. CASE a # Moderator
    <2>1. RobotStatus(d, a) = "talking" <=> d.phase = "debating" /\ a \in d.activeSpeakers
      BY <1>1, <1>2, <1>4 DEF RobotStatus, PanelistStatus, Live, Terminal, VerdictPhases
    <2>2. QED
      BY <1>1, <1>4, <2>1
  <1>5. QED
    BY <1>3, <1>4

\* A bubble streams only over a robot that talks (bubbleContent.ts).
LEMMA StreamsWhereItTalks ==
    ASSUME NEW d, NEW most, PageInv(d, most), NEW a \in Streaming(d)
    PROVE  /\ a \in Agents
           /\ RobotStatus(d, a) = "talking"
           /\ a \in d.activeSpeakers
  <1>1. a \in Agents /\ (IF a = Moderator THEN d.phase = "moderating" ELSE PanelistStreams(d, a))
    BY DEF Streaming
  <1>2. RobotStatus(d, a) = "talking"
    BY <1>1 DEF RobotStatus, ModeratorStatus, PanelistStreams
  <1>3. QED
    BY <1>1, <1>2, TalkingIsSpeaking

\* cameraTarget.ts frames the one in whose bubble text streams.
LEMMA CameraIsOnSpeaker ==
    ASSUME NEW d, NEW most, PageInv(d, most), NEW a \in Streaming(d)
    PROVE  CameraTarget(d) = a
  <1>1. a \in Agents /\ a \in d.activeSpeakers
    BY StreamsWhereItTalks
  <1>2. /\ d.phase = IF a = Moderator THEN "moderating" ELSE "debating"
        /\ \A b \in d.activeSpeakers : b = a
    BY <1>1 DEF PageInv
  <1>3. CASE a = Moderator
    BY <1>2, <1>3 DEF CameraTarget, VerdictPhases
  <1>4. CASE a # Moderator
    <2>1. d.phase = "debating" /\ d.phase \notin VerdictPhases
      BY <1>2, <1>4 DEF VerdictPhases
    <2>2. d.activeSpeakers = {a}
      BY <1>1, <1>2
    <2>3. Cardinality(d.activeSpeakers) = 1
      BY <2>2, FS_Singleton
    <2>4. (CHOOSE b \in d.activeSpeakers : TRUE) = a
      BY <2>2
    <2>5. QED
      BY <2>1, <2>3, <2>4 DEF CameraTarget
  <1>5. QED
    BY <1>3, <1>4

\* panelMaxRound has room for every round with a text and for the round that is
\* debated.
LEMMA PanelMaxRoundIsLast ==
    ASSUME NEW d, NEW most, PageInv(d, most)
    PROVE  /\ PanelMaxRound(d) \in 0..(MaxRounds + 1)
           /\ \A r \in Rounds, p \in Panelists : HasSpokenIn(d, p, r) => r <= PanelMaxRound(d)
           /\ d.phase = "debating" => d.currentRound <= PanelMaxRound(d)
  <1> DEFINE spoken == {r \in Rounds : \E p \in Panelists : HasSpokenIn(d, p, r)}
             led == IF d.phase = "debating" THEN {d.currentRound} ELSE {}
             T == spoken \union led \union {0}
  <1>1. T \subseteq 0..(MaxRounds + 1) /\ T # {}
    <2>1. d.currentRound \in {0} \union Rounds
      BY DEF PageInv, Debates
    <2>2. QED
      BY <2>1, ConstantFacts
  <1>2. MaxRounds + 1 \in Nat
    BY ConstantFacts
  <1>3. PanelMaxRound(d) = Max(T)
    BY DEF PanelMaxRound
  <1>4. \A r \in Rounds, p \in Panelists : HasSpokenIn(d, p, r) => r \in T
    OBVIOUS
  <1>5. d.phase = "debating" => d.currentRound \in T
    OBVIOUS
  <1> HIDE DEF T
  <1>6. Max(T) \in T /\ \A n \in T : n <= Max(T)
    BY <1>1, <1>2, GreatestElement
  <1>7. QED
    BY <1>1, <1>3, <1>4, <1>5, <1>6

\* The blocks of the transcript (PersonaColumn.tsx, TranscriptGrid.tsx) and the
\* bubbles show what is replayed.
LEMMA TranscriptShows ==
    ASSUME NEW d, NEW most, PageInv(d, most)
    PROVE  /\ \A p \in Panelists, r \in Rounds : HasSpokenIn(d, p, r) => r \in Blocks(d, p)
           /\ \A p \in Panelists \intersect d.activeSpeakers :
                 /\ d.currentRound \in Blocks(d, p)
                 /\ \A r \in Blocks(d, p) : r <= d.currentRound
           /\ \A a \in Streaming(d) : LatestRound(d, a) = d.currentRound
           /\ VerdictSection(d) => d.phase = "done"
  <1> DEFINE last == PanelMaxRound(d)
  <1>1. /\ last \in 0..(MaxRounds + 1)
        /\ \A r \in Rounds, p \in Panelists : HasSpokenIn(d, p, r) => r <= last
        /\ d.phase = "debating" => d.currentRound <= last
    BY PanelMaxRoundIsLast
  <1>2. \A p : Blocks(d, p) = {r \in 1..last : HasSpokenIn(d, p, r) \/ StreamsIn(d, p, r)}
    BY DEF Blocks
  <1> HIDE DEF last
  <1>3. /\ d.currentRound \in {0} \union Rounds
        /\ \A r \in Rounds, a \in Agents : HasSpokenIn(d, a, r) => r <= d.currentRound
        /\ Panelists \subseteq Agents /\ Moderator \notin Panelists
    BY ConstantFacts DEF PageInv, Debates, HasSpokenIn
  <1>4. ASSUME NEW a \in Agents, a \in d.activeSpeakers
        PROVE  /\ d.phase = IF a = Moderator THEN "moderating" ELSE "debating"
               /\ d.currentRound \in Rounds /\ HasSpokenIn(d, a, d.currentRound)
    BY <1>3, <1>4, ConstantFacts DEF PageInv, HasSpokenIn
  <1>5. ASSUME NEW p \in Panelists, NEW r \in Rounds, HasSpokenIn(d, p, r)
        PROVE  r \in Blocks(d, p)
    <2>1. r \in 1..last
      BY <1>1, <1>5, ConstantFacts
    <2>2. QED
      BY <1>2, <1>5, <2>1
  <1>6. ASSUME NEW p \in Panelists \intersect d.activeSpeakers
        PROVE  /\ d.currentRound \in Blocks(d, p)
               /\ \A r \in Blocks(d, p) : r <= d.currentRound
    <2>1. d.currentRound \in Rounds /\ HasSpokenIn(d, p, d.currentRound)
      BY <1>3, <1>4
    <2>2. d.currentRound \in Blocks(d, p)
      BY <1>5, <2>1
    <2>3. ASSUME NEW r \in Blocks(d, p) PROVE r <= d.currentRound
      <3>1. r \in Rounds /\ (HasSpokenIn(d, p, r) \/ StreamsIn(d, p, r))
        BY <1>1, <1>2, <2>3, ConstantFacts
      <3>2. CASE HasSpokenIn(d, p, r)
        BY <1>3, <3>1, <3>2
      <3>3. CASE StreamsIn(d, p, r)
        BY <3>1, <3>3, ConstantFacts DEF StreamsIn
      <3>4. QED
        BY <3>1, <3>2, <3>3
    <2>4. QED
      BY <2>2, <2>3
  <1>7. ASSUME NEW a \in Streaming(d) PROVE LatestRound(d, a) = d.currentRound
    <2> DEFINE latest(r) == HasSpokenIn(d, a, r) /\ \A q \in Rounds : HasSpokenIn(d, a, q) => q <= r
    <2>1. a \in Agents /\ a \in d.activeSpeakers
      BY StreamsWhereItTalks
    <2>2. d.currentRound \in Rounds /\ HasSpokenIn(d, a, d.currentRound)
      BY <1>4, <2>1
    <2>3. latest(d.currentRound)
      BY <1>3, <2>1, <2>2
    <2>4. \A r \in Rounds : latest(r) => r = d.currentRound
      <3>1. TAKE r \in Rounds
      <3>2. HAVE latest(r)
      <3>3. d.currentRound <= r /\ r <= d.currentRound
        BY <2>2, <2>3, <3>2
      <3>4. r \in Int /\ d.currentRound \in Int
        BY <2>2, ConstantFacts
      <3>5. QED
        BY <3>3, <3>4
    <2>5. LatestRound(d, a) = CHOOSE r \in Rounds : latest(r)
      BY DEF LatestRound
    <2> HIDE DEF latest
    <2>6. QED
      BY <2>2, <2>3, <2>4, <2>5
  <1>8. VerdictSection(d) => d.phase = "done"
    BY DEF VerdictSection, PageInv
  <1>9. QED
    BY <1>5, <1>6, <1>7, <1>8

\* The banner of a debate that ended in an error finds an error that can end
\* one, although the list is capped (ErrorBanner.tsx).
LEMMA BannerShows ==
    ASSUME NEW d, NEW most, PageInv(d, most), d.phase = "error"
    PROVE  BannerError(d) # NoError /\ BannerError(d).persona \in {NoPersona, Moderator}
  <1> DEFINE errors == d.errors
             S == SessionErrors(d)
  <1>1. errors \in Seq(Errors) /\ errors # <<>> /\ errors[Len(errors)].persona \in {NoPersona, Moderator}
    BY DEF PageInv, Debates
  <1>2. S = {i \in DOMAIN errors : errors[i].persona = NoPersona}
    BY DEF SessionErrors
  <1>3. BannerError(d) = IF S # {} THEN errors[Min(S)] ELSE Last(errors)
    BY <1>1 DEF BannerError
  <1> HIDE DEF S, errors
  <1>4. CASE S # {}
    <2>1. DOMAIN errors \subseteq Nat
      BY <1>1
    <2>2. Min(S) \in S
      BY <1>2, <1>4, <2>1, LeastIndex
    <2>3. errors[Min(S)] \in Errors /\ errors[Min(S)].persona = NoPersona
      BY <1>1, <1>2, <2>2
    <2>4. QED
      BY <1>3, <1>4, <2>3 DEF Errors
  <1>5. CASE S = {}
    <2>1. Len(errors) \in DOMAIN errors
      BY <1>1, LenOfNonEmpty
    <2>2. errors[Len(errors)] \in Errors
      BY <1>1, <2>1
    <2>3. QED
      BY <1>1, <1>3, <1>5, <2>2 DEF Errors, Last
  <1>6. QED
    BY <1>4, <1>5

-----------------------------------------------------------------------------
(* The steps. *)

\* A debate fits a larger number of rounds too.
LEMMA PageInvGrows ==
    ASSUME NEW d, NEW most \in Nat, NEW more \in Nat, most <= more, PageInv(d, most)
    PROVE  PageInv(d, more)
  <1>1. d.phase = "debating" => d.currentRound \in 1..more
    <2>1. \A r \in 1..most : r \in 1..more
      OBVIOUS
    <2>2. QED
      BY <2>1 DEF PageInv
  <1>2. QED
    BY <1>1 DEF PageInv

\* The agreed number of rounds is set once in a session.
LEMMA RoundsOnlyGrow ==
    ASSUME Inv, [Next]_vars, session' = session
    PROVE  rounds \in Nat /\ rounds <= rounds'
  <1>1. rounds \in Nat
    BY WireFacts DEF Inv
  <1>2. ~Ask
    BY MaxSessionsAssumption DEF Ask, Inv
  <1>3. CASE Accepted
    <2>1. rounds = 0 /\ rounds' \in 2..MaxRounds
      BY <1>3 DEF Accepted, Wire!Accept
    <2>2. QED
      BY <1>1, <2>1, ConstantFacts
  <1>4. CASE ~Accepted
    <2>1. rounds' = rounds
      BY <1>2, <1>4 DEF Next, vars, wireVars, Stop, GoToLive, TimerFires, Arrival, Refused,
            Token, PersonaDone, Failed, RoundComplete, Verdict, VerdictTooLarge, Cut,
            SocketClosed, Wire!Refuse, Wire!Token, Wire!PersonaDone, Wire!Fail,
            Wire!CompleteRound, Wire!GiveVerdict, Wire!Cut
    <2>2. QED
      BY <1>1, <2>1
  <1>5. QED
    BY <1>3, <1>4

\* The debate is idle exactly until the first question.
LEMMA IdleUntilAsked == Inv => (debate.phase = "idle" <=> session = 0)
  <1> SUFFICES ASSUME Inv PROVE debate.phase = "idle" <=> session = 0
    OBVIOUS
  <1>1. CASE Playing
    BY <1>1, PlayingFacts DEF Playing, Recorded, PlayInv, StageInv, Inv
  <1>2. CASE AtRest
    BY <1>2 DEF AtRest
  <1>3. QED
    BY <1>1, <1>2 DEF Inv

\* A step within one session leaves what was shown a debate of this session, as
\* it was.
LEMMA PageLags ==
    ASSUME Inv, PageShows, [Next]_vars, session' = session
    PROVE  LET d == shown.debate
           IN  /\ Inv'
               /\ PageInv(d, rounds') /\ PageInv(debate', rounds')
               /\ d.currentRound \in Nat /\ debate'.currentRound \in Nat
               /\ d.currentRound <= debate'.currentRound
               /\ d.phase \notin Live => debate'.phase = d.phase
  <1> DEFINE d == shown.debate
  <1>1. Inv' /\ Kept
    BY NextKeeps
  <1>2. rounds \in Nat /\ rounds' \in Nat /\ rounds <= rounds'
    <2>1. rounds' \in 0..MaxRounds
      BY <1>1 DEF Inv, WireInv
    <2>2. QED
      BY <2>1, RoundsOnlyGrow, ConstantFacts
  <1>3. PageInv(d, rounds') /\ PageInv(debate', rounds')
    BY <1>1, <1>2, PageInvGrows DEF PageShows, Inv
  <1>4. d.currentRound \in Nat /\ debate.currentRound \in Nat /\ debate'.currentRound \in Nat
    <2>1. {0} \union Rounds \subseteq Nat
      BY ConstantFacts
    <2>2. QED
      BY <1>3, <2>1, RoundStands DEF PageInv, Debates
  <1>5. d.currentRound <= debate'.currentRound
    BY <1>1, <1>4 DEF Kept, PageShows
  <1>6. ASSUME d.phase \notin Live PROVE debate'.phase = d.phase
    <2>1. d.phase = debate.phase /\ d.phase \in {"idle"} \union Terminal
      BY <1>3, <1>6 DEF PageShows, PageInv, Debates
    <2>2. CASE d.phase = "idle"
      <3>1. (Inv => (debate.phase = "idle" <=> session = 0))'
        BY IdleUntilAsked, PTL
      <3>2. QED
        BY <1>1, <2>1, <2>2, <3>1, IdleUntilAsked
    <2>3. CASE d.phase \in Terminal
      BY <1>1, <2>1, <2>3 DEF Kept
    <2>4. QED
      BY <2>1, <2>2, <2>3
  <1>7. QED
    BY <1>1, <1>3, <1>4, <1>5, <1>6

\* The effects of App count one chime per verdict and one tick per change of
\* round.
LEMMA CuesKeep ==
    ASSUME CuesInv, NEW to, shown.debate.currentRound \in Nat, to.currentRound \in Nat,
           shown.debate.currentRound <= to.currentRound,
           shown.debate.phase = "done" => to.phase = "done"
    PROVE  LET h == Cues(shown.debate, to)
           IN  /\ h.ticks \in Nat
               /\ h.chimes = IF to.phase = "done" THEN 1 ELSE 0
               /\ h.ticks > 0 => h.ticks < to.currentRound
  <1> DEFINE from == shown.debate
             tick == IF from.currentRound > 0 /\ to.currentRound > from.currentRound THEN 1 ELSE 0
             chime == IF to.phase = "done" /\ from.phase # "done" THEN 1 ELSE 0
             h == Cues(from, to)
  <1>1. h.ticks = heard.ticks + tick /\ h.chimes = heard.chimes + chime
    BY DEF Cues
  <1>2. heard.chimes + chime = IF to.phase = "done" THEN 1 ELSE 0
    BY DEF CuesInv
  <1>3. heard.ticks + tick \in Nat
        /\ (heard.ticks + tick > 0 => heard.ticks + tick < to.currentRound)
    <2>1. CASE tick = 1
      BY <2>1 DEF CuesInv
    <2>2. CASE tick = 0
      BY <2>2 DEF CuesInv
    <2>3. QED
      BY <2>1, <2>2
  <1>4. QED
    BY <1>1, <1>2, <1>3

\* The effect of useStageFrameloop for a live debate.
LEMMA LiveIsAnimated ==
    ASSUME NEW phase \in Live
    PROVE  Frameloop(phase).mode = "always" /\ Frameloop(phase).settling = FALSE
  BY DEF Frameloop, Live, Terminal

\* A render of the debate as it is after this step, however many steps the last
\* render is ago.
LEMMA RenderKeeps ==
    ASSUME AppInv, [Next]_vars, session' = session, Commit,
           heard' = Cues(shown.debate, debate'), UNCHANGED <<layout, composing>>
    PROVE  AppInv'
  <1> DEFINE d == shown.debate
  <1>1. /\ Inv'
        /\ PageInv(d, rounds') /\ PageInv(debate', rounds')
        /\ d.currentRound \in Nat /\ debate'.currentRound \in Nat
        /\ d.currentRound <= debate'.currentRound
        /\ d.phase \notin Live => debate'.phase = d.phase
    BY PageLags DEF AppInv
  <1>2. shown'.debate = debate'
    BY DEF Commit, Rendered
  <1>3. PageShows'
    <2>1. debate'.currentRound <= debate'.currentRound
      BY <1>1
    <2>2. QED
      BY <1>1, <1>2, <2>1 DEF PageShows
  <1>4. composing' => ~LiveShown'
    BY <1>1, <1>2 DEF AppInv, LiveShown
  <1>5. LoopInv'
    <2> SUFFICES ASSUME layout' = "stage", debate'.phase \in Live
                 PROVE  loop'.mode = "always" /\ ~loop'.settling
      BY <1>2 DEF LoopInv, LiveShown
    <2>1. CASE debate'.phase # d.phase
      BY <2>1, LiveIsAnimated DEF Commit
    <2>2. CASE debate'.phase = d.phase
      BY <2>2 DEF Commit, AppInv, LoopInv, LiveShown
    <2>3. QED
      BY <2>1, <2>2
  <1>6. CuesInv'
    <2> DEFINE e == debate'
               h == Cues(shown.debate, e)
    <2>1. e.currentRound \in Nat /\ (d.phase = "done" => e.phase = "done")
      BY <1>1 DEF Live
    <2> HIDE DEF e
    <2>2. /\ h.ticks \in Nat
          /\ h.chimes = IF e.phase = "done" THEN 1 ELSE 0
          /\ h.ticks > 0 => h.ticks < e.currentRound
      BY <1>1, <2>1, CuesKeep DEF AppInv, e
    <2>3. heard' = h /\ shown'.debate = e
      BY <1>2 DEF e
    <2> HIDE DEF h
    <2>4. QED
      BY <2>2, <2>3 DEF CuesInv
  <1>7. QED
    BY <1>1, <1>3, <1>4, <1>5, <1>6 DEF AppInv

\* A step that is not rendered.
LEMMA UnrenderedKeeps ==
    ASSUME AppInv, [Next]_vars, session' = session, UNCHANGED <<shown, layout, heard>>,
           composing' => composing \/ ~LiveShown,
           loop' = loop \/ (loop.settling /\ loop'.mode # "none")
    PROVE  AppInv'
  <1>1. /\ Inv'
        /\ PageInv(shown.debate, rounds') /\ PageInv(debate', rounds')
        /\ shown.debate.currentRound <= debate'.currentRound
        /\ shown.debate.phase \notin Live => debate'.phase = shown.debate.phase
    BY PageLags DEF AppInv
  <1>2. PageShows'
    BY <1>1 DEF PageShows
  <1>3. (composing' => ~LiveShown') /\ CuesInv'
    BY DEF AppInv, LiveShown, CuesInv
  <1>4. LoopInv'
    BY DEF AppInv, LoopInv, LiveShown
  <1>5. QED
    BY <1>1, <1>2, <1>3, <1>4 DEF AppInv

\* The form is submitted.
LEMMA SubmitKeeps ==
    ASSUME AppInv, SubmitQuestion
    PROVE  AppInv'
  <1>1. /\ Ask /\ composing' = FALSE /\ heard' = Silent /\ layout' = layout
        /\ shown' = Rendered(debate', player')
        /\ loop' = IF layout = "stage" THEN Frameloop(debate'.phase) ELSE loop
    BY DEF SubmitQuestion
  <1>2. Inv' /\ shown'.debate = debate' /\ PageInv(debate', rounds')
    BY <1>1, AskKeeps DEF AppInv, Rendered, Inv
  <1>3. debate'.phase = "connecting" /\ debate'.currentRound = 0
    BY <1>1 DEF Ask, ReduceConnecting, InitialState
  <1>4. PageShows'
    <2>1. debate'.currentRound <= debate'.currentRound
      BY <1>3
    <2>2. QED
      BY <1>2, <2>1 DEF PageShows
  <1>5. LoopInv'
    <2> DEFINE phase == debate'.phase
    <2>1. phase \in Live
      BY <1>3 DEF Live
    <2>2. layout' = "stage" => loop' = Frameloop(phase)
      BY <1>1
    <2> HIDE DEF phase
    <2>3. QED
      BY <2>1, <2>2, LiveIsAnimated DEF LoopInv
  <1>6. CuesInv'
    BY <1>1, <1>2, <1>3 DEF CuesInv, Silent
  <1>7. QED
    BY <1>1, <1>2, <1>4, <1>5, <1>6 DEF AppInv

\* One layout is unmounted, the other mounted for the debate as it is.
LEMMA SwitchKeeps ==
    ASSUME AppInv, SwitchLayout
    PROVE  AppInv'
  <1>1. /\ layout' = IF layout = "stage" THEN "mobile" ELSE "stage"
        /\ composing' = (layout' = "stage" /\ debate.phase = "idle")
        /\ shown' = Rendered(debate, player)
        /\ loop' = IF layout' = "stage" THEN Frameloop(debate.phase) ELSE NoLoop
        /\ heard' = Cues(shown.debate, debate)
        /\ UNCHANGED vars
    BY DEF SwitchLayout
  <1>2. session' = session /\ debate' = debate /\ [Next]_vars
    BY <1>1 DEF vars
  <1>3. /\ Inv' /\ PageInv(debate, rounds')
        /\ shown.debate.currentRound \in Nat /\ debate.currentRound \in Nat
        /\ shown.debate.currentRound <= debate.currentRound
        /\ shown.debate.phase \notin Live => debate.phase = shown.debate.phase
    BY <1>2, PageLags DEF AppInv
  <1>4. shown'.debate = debate
    BY <1>1 DEF Rendered
  <1>5. PageShows'
    <2>1. debate.currentRound <= debate.currentRound
      BY <1>3
    <2>2. QED
      BY <1>2, <1>3, <1>4, <2>1 DEF PageShows
  <1>6. composing' => ~LiveShown'
    BY <1>1, <1>4 DEF LiveShown, Live
  <1>7. LoopInv'
    <2> DEFINE phase == debate.phase
    <2>1. layout' = "stage" => loop' = Frameloop(phase)
      BY <1>1
    <2>2. LiveShown' => phase \in Live
      BY <1>4 DEF LiveShown
    <2> HIDE DEF phase
    <2>3. QED
      BY <2>1, <2>2, LiveIsAnimated DEF LoopInv
  <1>8. CuesInv'
    <2> DEFINE h == Cues(shown.debate, debate)
    <2>1. shown.debate.phase = "done" => debate.phase = "done"
      BY <1>3 DEF Live
    <2>2. /\ h.ticks \in Nat
          /\ h.chimes = IF debate.phase = "done" THEN 1 ELSE 0
          /\ h.ticks > 0 => h.ticks < debate.currentRound
      BY <1>3, <2>1, CuesKeep DEF AppInv
    <2>3. heard' = h
      BY <1>1
    <2> HIDE DEF h
    <2>4. QED
      BY <1>4, <2>2, <2>3 DEF CuesInv
  <1>9. QED
    BY <1>1, <1>3, <1>5, <1>6, <1>7, <1>8 DEF AppInv

\* A page that was just loaded, in either layout.
LEMMA AppInitInv == AppInit => AppInv
  <1> SUFFICES ASSUME AppInit PROVE AppInv
    OBVIOUS
  <1>1. /\ Init /\ shown = Rendered(debate, player) /\ layout \in {"stage", "mobile"}
        /\ heard = Silent
    BY DEF AppInit
  <1>2. Inv /\ shown.debate = debate
    BY <1>1, InitInv DEF Rendered
  <1>3. debate.phase = "idle" /\ debate.currentRound = 0
    BY <1>1 DEF Init, InitialState
  <1>4. PageShows
    BY <1>2, <1>3, RoundStands DEF PageShows, Inv
  <1>5. ~LiveShown
    BY <1>2, <1>3 DEF LiveShown, Live
  <1>6. CuesInv
    BY <1>1, <1>2, <1>3 DEF CuesInv, Silent
  <1>7. QED
    BY <1>1, <1>2, <1>4, <1>5, <1>6 DEF AppInv, LoopInv

\* Only a question starts a session.
LEMMA OneSession ==
    ASSUME Stop \/ GoToLive \/ TimerFires \/ Arrival
    PROVE  [Next]_vars /\ session' = session
  <1>1. [Next]_vars
    BY DEF Next
  <1>2. session' = session
    BY DEF Stop, GoToLive, TimerFires, Arrival, Accepted, Refused, Token, PersonaDone, Failed,
           RoundComplete, Verdict, VerdictTooLarge, Cut, SocketClosed
  <1>3. QED
    BY <1>1, <1>2

\* No click, render, effect, timer or frame breaks the invariant of the page.
LEMMA AppNextKeeps ==
    ASSUME AppInv, [AppNext]_<<vars, appVars>>
    PROVE  AppInv'
  <1>1. CASE SubmitQuestion
    BY <1>1, SubmitKeeps
  <1>2. CASE ClickStop
    BY <1>2, OneSession, RenderKeeps DEF ClickStop
  <1>3. CASE ClickGoToLive
    BY <1>3, OneSession, RenderKeeps DEF ClickGoToLive
  <1>4. CASE OpenCompose
    <2>1. [Next]_vars /\ session' = session
      BY <1>4 DEF OpenCompose, vars
    <2>2. QED
      BY <1>4, <2>1, UnrenderedKeeps DEF OpenCompose
  <1>5. CASE SwitchLayout
    BY <1>5, SwitchKeeps
  <1>6. CASE Render
    <2>1. [Next]_vars /\ session' = session
      BY <1>6 DEF Render, vars
    <2>2. QED
      BY <1>6, <2>1, RenderKeeps DEF Render
  <1>7. CASE Settle
    <2>1. [Next]_vars /\ session' = session
      BY <1>7 DEF Settle, vars
    <2>2. loop.settling /\ loop'.mode # "none"
      BY <1>7 DEF Settle
    <2>3. QED
      BY <1>7, <2>1, <2>2, UnrenderedKeeps DEF Settle
  <1>8. CASE DismissVerdict
    <2>1. [Next]_vars /\ session' = session
      BY <1>8 DEF DismissVerdict, vars
    <2>2. QED
      BY <1>8, <2>1, UnrenderedKeeps DEF DismissVerdict
  <1>9. CASE PlayTimer
    BY <1>9, OneSession, UnrenderedKeeps DEF PlayTimer, appVars
  <1>10. CASE SocketArrival
    BY <1>10, OneSession, UnrenderedKeeps DEF SocketArrival, appVars
  <1>11. CASE UNCHANGED <<vars, appVars>>
    <2>1. [Next]_vars /\ session' = session
      BY <1>11 DEF vars
    <2>2. QED
      BY <1>11, <2>1, UnrenderedKeeps DEF appVars
  <1>12. QED
    BY <1>1, <1>2, <1>3, <1>4, <1>5, <1>6, <1>7, <1>8, <1>9, <1>10, <1>11 DEF AppNext

-----------------------------------------------------------------------------
(* The theorems. *)

\* The invariant of the page holds of every behaviour, for any number of seats,
\* rounds and questions.
THEOREM AppInvHolds == AppSpec => []AppInv
  <1>1. AppInit => AppInv
    BY AppInitInv
  <1>2. AppInv /\ [AppNext]_<<vars, appVars>> => AppInv'
    BY AppNextKeeps
  <1>3. QED
    BY <1>1, <1>2, PTL DEF AppSpec

\* The question form is never open over a debate that is shown as live
\* (StageLayout.tsx composing), whatever was clicked or resized.
THEOREM FormHolds == AppSpec => []FormNeverOverLive
  <1>1. AppInv => FormNeverOverLive
    BY DEF AppInv, FormNeverOverLive
  <1>2. QED
    BY <1>1, AppInvHolds, PTL

\* Camera and bubbles tell one story (bubbleContent.ts, cameraTarget.ts): the
\* one whose words stream is the one who is framed.
THEOREM CameraHolds == AppSpec => []CameraFollowsSpeaker
  <1>1. AppInv => CameraFollowsSpeaker
    BY StreamsWhereItTalks, CameraIsOnSpeaker
       DEF AppInv, PageShows, CameraFollowsSpeaker
  <1>2. QED
    BY <1>1, AppInvHolds, PTL

\* The robots that talk are the reducer's active speakers, although each is
\* worked out from phase, round and transcript (robotVisualState.ts).
THEOREM RobotsHold == AppSpec => []RobotsMirrorTranscript
  <1>1. AppInv => RobotsMirrorTranscript
    BY TalkingIsSpeaking DEF AppInv, PageShows, RobotsMirrorTranscript
  <1>2. QED
    BY <1>1, AppInvHolds, PTL

\* Transcript, status line and bubbles show what is being replayed: every text
\* has its block, the streaming one is the last of its column, and the round
\* shown is never beyond the rounds asked for.
THEOREM TranscriptHolds == AppSpec => []TranscriptFollowsReplay
  <1>1. AppInv => TranscriptFollowsReplay
    <2> SUFFICES ASSUME AppInv PROVE TranscriptFollowsReplay
      OBVIOUS
    <2> DEFINE d == shown.debate
    <2>1. PageInv(d, rounds)
      BY DEF AppInv, PageShows
    <2>2. rounds \in Nat
      BY WireFacts DEF AppInv, Inv
    <2>3. d.phase = "debating" => RoundReadout(d) = d.currentRound
      BY <2>1, <2>2 DEF PageInv, RoundReadout
    <2>4. QED
      BY <2>1, <2>3, TranscriptShows DEF TranscriptFollowsReplay
  <1>2. QED
    BY <1>1, AppInvHolds, PTL

\* A debate shown as ended in an error has a banner that names an error of the
\* session or of the moderator (ErrorBanner.tsx).
THEOREM BannerHolds == AppSpec => []BannerNamesTheEnd
  <1>1. AppInv => BannerNamesTheEnd
    BY BannerShows DEF AppInv, PageShows, BannerNamesTheEnd
  <1>2. QED
    BY <1>1, AppInvHolds, PTL

\* A settle timer of an earlier debate or mount never stops the frames of a
\* live one (useStageFrameloop.ts).
THEOREM StageHolds == AppSpec => []LiveStageIsAnimated
  <1>1. AppInv => LiveStageIsAnimated
    BY DEF AppInv, LoopInv, LiveStageIsAnimated
  <1>2. QED
    BY <1>1, AppInvHolds, PTL

\* One chime exactly for a verdict that is shown, and no more ticks than
\* changes of the round, however many steps a render stands for (App.tsx).
THEOREM CuesHold == AppSpec => []CuesMarkProgress
  <1>1. AppInv => CuesMarkProgress
    BY DEF AppInv, CuesInv, CuesMarkProgress
  <1>2. QED
    BY <1>1, AppInvHolds, PTL

\* Once dismissed the verdict panel stays away until the next question, also by
\* way of the other layout (useVerdictSpotlight.ts).
THEOREM DismissalHolds == AppSpec => DismissalIsSticky
  <1>1. AppInv /\ [AppNext]_<<vars, appVars>> =>
           [shown.debate.phase = "done" /\ ~spotlight /\ session' = session =>
               ~spotlight']_<<vars, appVars>>
    <2> SUFFICES ASSUME AppInv, AppNext, shown.debate.phase = "done", ~spotlight,
                        session' = session
                 PROVE  ~spotlight'
      OBVIOUS
    <2>1. ~SubmitQuestion
      BY MaxSessionsAssumption DEF SubmitQuestion, Ask, AppInv, Inv
    <2>2. ASSUME Commit PROVE ~spotlight'
      BY <2>2 DEF Commit, Spotlight, VerdictPhases
    <2>3. ASSUME SwitchLayout PROVE ~spotlight'
      BY <2>3 DEF SwitchLayout, Spotlight
    <2>4. QED
      BY <2>1, <2>2, <2>3 DEF AppNext, ClickStop, ClickGoToLive, OpenCompose, Render, Settle,
            DismissVerdict, PlayTimer, SocketArrival, appVars
  <1>2. QED
    BY <1>1, AppInvHolds, PTL DEF AppSpec, DismissalIsSticky

\* Rendered late, resized and clicked by way of what was rendered, the page
\* still plays debates as DebatePlayer describes them: a handler that decides by
\* an old render does nothing to player, reducer and socket that useDebate does
\* not allow at any time, and renders, effects and resizes do nothing to them.
THEOREM PagePlaysDebates == AppSpec => Init /\ [][Next]_vars
  <1>1. AppInit => Init
    BY DEF AppInit
  <1>2. [AppNext]_<<vars, appVars>> => [Next]_vars
    <2> SUFFICES ASSUME [AppNext]_<<vars, appVars>> PROVE [Next]_vars
      OBVIOUS
    <2>1. CASE SubmitQuestion
      BY <2>1 DEF SubmitQuestion, Next
    <2>2. CASE ClickStop \/ ClickGoToLive \/ PlayTimer \/ SocketArrival
      BY <2>2, OneSession DEF ClickStop, ClickGoToLive, PlayTimer, SocketArrival
    <2>3. CASE OpenCompose \/ SwitchLayout \/ Render \/ Settle \/ DismissVerdict
      BY <2>3 DEF OpenCompose, SwitchLayout, Render, Settle, DismissVerdict
    <2>4. CASE UNCHANGED <<vars, appVars>>
      BY <2>4
    <2>5. QED
      BY <2>1, <2>2, <2>3, <2>4 DEF AppNext
  <1>3. QED
    BY <1>1, <1>2, PTL DEF AppSpec

=============================================================================
