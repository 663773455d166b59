------------------------- MODULE DebatePlayerProofs -------------------------
(***************************************************************************)
(* Proofs about DebatePlayer, for every panel, number of rounds and        *)
(* questions, cap and length of the texts: the recording is the session's  *)
(* own, turns are shown in order and in full by one speaker at a time, no  *)
(* wakeup is lost, and a debate that has ended stays as it ended.          *)
(*                                                                         *)
(* Inv is the inductive invariant: what the socket has carried (WireInv),  *)
(* the recording of it and its replay (PlayInv of DebateReplayProofs)      *)
(* while a debate is played, what holds of the debate on display in any    *)
(* case (PageInv), and that no wakeup is lost.                             *)
(***************************************************************************)
EXTENDS DebateReplayProofs, FiniteSetTheorems

-----------------------------------------------------------------------------
(* The stream. *)

\* The stream has ended, or the moderator's turn has: nothing can follow that
\* changes the recording.
Over ==
    \/ ~open
    \/ rounds > 0 /\ completed = rounds /\ settled[completed + 1][Moderator] # "pending"

\* What DebateStream lets a socket carry: rounds are completed one by one, the
\* panel speaks in the current round and the moderator behind the last, and a
\* verdict ends it.
WireInv ==
    /\ open \in BOOLEAN
    /\ rounds \in 0..MaxRounds
    /\ completed \in 0..rounds
    /\ said \in [Rounds -> [Agents -> Nat]]
    /\ settled \in [Rounds -> [Agents -> {"pending", "done", "failed"}]]
    /\ verdict \in Verdicts
    /\ \A r \in Rounds, p \in Panelists :
          said[r][p] # 0 => r <= completed + 1 /\ r <= rounds
    /\ \A r \in Rounds : said[r][Moderator] # 0 =>
          r = completed + 1 /\ completed = rounds /\ rounds > 0
    /\ verdict # NoVerdict =>
          rounds > 0 /\ completed = rounds /\ settled[completed + 1][Moderator] # "pending"

\* Ranges of the stream's counters.
LEMMA WireFacts ==
    ASSUME WireInv
    PROVE  /\ completed \in Nat /\ rounds \in Nat /\ completed <= rounds
           /\ completed \in 0..MaxRounds
           /\ completed + 1 \in Rounds
           /\ completed < rounds => completed + 1 \in 0..MaxRounds /\ completed + 1 <= rounds
           /\ Wire!current = completed + 1
  BY ConstantFacts DEF WireInv, Wire!current

\* A new socket has carried nothing (useDebate.ts ask).
LEMMA NewStreamIsWire == NewStream => WireInv'
  BY ConstantFacts DEF NewStream, WireInv, Silence, Verdicts

\* The question is accepted: the rounds are agreed.
LEMMA AcceptKeepsWire == WireInv /\ Wire!Accept => WireInv'
  <1> SUFFICES ASSUME WireInv, Wire!Accept PROVE WireInv'
    OBVIOUS
  <1>1. /\ rounds' \in 2..MaxRounds /\ rounds = 0 /\ completed = 0
        /\ open' = open /\ completed' = completed /\ said' = said /\ settled' = settled
        /\ verdict' = verdict
    BY ConstantFacts DEF WireInv, Wire!Accept
  <1>2. \A r \in Rounds, p \in Panelists : said[r][p] = 0
    <2>1. \A r \in Rounds : ~(r <= 0)
      BY ConstantFacts
    <2>2. QED
      BY <1>1, <2>1 DEF WireInv
  <1>3. (\A r \in Rounds : said[r][Moderator] = 0) /\ verdict = NoVerdict
    BY <1>1 DEF WireInv
  <1>4. rounds' \in 0..MaxRounds /\ completed \in 0..rounds'
    BY <1>1, ConstantFacts
  <1>5. QED
    BY <1>1, <1>2, <1>3, <1>4 DEF WireInv

\* What a token changes of the stream.
LEMMA TokenFields ==
    ASSUME WireInv, NEW a \in Agents, Wire!Token(a)
    PROVE  /\ open /\ rounds > 0
           /\ a = Moderator => completed = rounds
           /\ a # Moderator => completed < rounds
           /\ settled[completed + 1][a] = "pending"
           /\ said' \in [Rounds -> [Agents -> Nat]]
           /\ said'[completed + 1][a] = said[completed + 1][a] + 1
           /\ \A r \in Rounds, b \in Agents : ~(r = completed + 1 /\ b = a) => said'[r][b] = said[r][b]
           /\ open' = open /\ rounds' = rounds /\ completed' = completed /\ settled' = settled
           /\ verdict' = verdict
  <1>1. completed + 1 \in Rounds /\ Wire!current = completed + 1
    BY WireFacts
  <1>2. said \in [Rounds -> [Agents -> Nat]]
    BY DEF WireInv
  <1>3. said' = [said EXCEPT ![completed + 1][a] = @ + 1]
    BY <1>1 DEF Wire!Token
  <1>4. /\ said' \in [Rounds -> [Agents -> Nat]]
        /\ said'[completed + 1][a] = said[completed + 1][a] + 1
        /\ \A r \in Rounds, b \in Agents : ~(r = completed + 1 /\ b = a) => said'[r][b] = said[r][b]
    BY <1>1, <1>2, <1>3
  <1>5. /\ open /\ rounds > 0
        /\ a = Moderator => completed = rounds
        /\ a # Moderator => completed < rounds
        /\ settled[completed + 1][a] = "pending"
        /\ open' = open /\ rounds' = rounds /\ completed' = completed /\ settled' = settled
        /\ verdict' = verdict
    BY <1>1 DEF Wire!Token, Wire!HasFloor, Moderator
  <1>6. QED
    BY <1>4, <1>5

\* Closing a turn changes that turn only.
LEMMA SettleFields ==
    ASSUME WireInv, NEW a \in Agents, NEW how \in {"done", "failed"}
    PROVE  LET s == [settled EXCEPT ![completed + 1][a] = how]
           IN  /\ s \in [Rounds -> [Agents -> {"pending", "done", "failed"}]]
               /\ s[completed + 1][a] = how
               /\ \A r \in Rounds, b \in Agents :
                     ~(r = completed + 1 /\ b = a) => s[r][b] = settled[r][b]
  <1>1. completed + 1 \in Rounds
    BY WireFacts
  <1>2. QED
    BY <1>1 DEF WireInv

\* What a frame of the stream changes.
LEMMA FailFields ==
    ASSUME WireInv, NEW a \in Agents, Wire!Fail(a)
    PROVE  /\ open /\ rounds > 0
           /\ a = Moderator => completed = rounds
           /\ a # Moderator => completed < rounds
           /\ settled[completed + 1][a] = "pending"
           /\ settled' \in [Rounds -> [Agents -> {"pending", "done", "failed"}]]
           /\ settled'[completed + 1][a] = "failed"
           /\ \A r \in Rounds, b \in Agents :
                 ~(r = completed + 1 /\ b = a) => settled'[r][b] = settled[r][b]
           /\ open' = open /\ rounds' = rounds /\ completed' = completed /\ said' = said
           /\ verdict' = verdict
  <1> DEFINE s == [settled EXCEPT ![completed + 1][a] = "failed"]
  <1>1. Wire!current = completed + 1
    BY WireFacts
  <1>2. /\ open /\ rounds > 0
        /\ a = Moderator => completed = rounds
        /\ a # Moderator => completed < rounds
        /\ settled[completed + 1][a] = "pending"
        /\ settled' = s
        /\ open' = open /\ rounds' = rounds /\ completed' = completed /\ said' = said
        /\ verdict' = verdict
    BY <1>1 DEF Wire!Fail, Wire!HasFloor, Moderator
  <1>3. /\ s \in [Rounds -> [Agents -> {"pending", "done", "failed"}]]
        /\ s[completed + 1][a] = "failed"
        /\ \A r \in Rounds, b \in Agents :
              ~(r = completed + 1 /\ b = a) => s[r][b] = settled[r][b]
    BY SettleFields
  <1> HIDE DEF s
  <1>4. QED
    BY <1>2, <1>3

\* What persona_done changes of the stream.
LEMMA DoneFields ==
    ASSUME WireInv, NEW p \in Panelists, Wire!PersonaDone(p)
    PROVE  /\ open /\ rounds > 0 /\ completed < rounds
           /\ settled[completed + 1][p] = "pending"
           /\ settled' \in [Rounds -> [Agents -> {"pending", "done", "failed"}]]
           /\ settled'[completed + 1][p] = "done"
           /\ \A r \in Rounds, b \in Agents :
                 ~(r = completed + 1 /\ b = p) => settled'[r][b] = settled[r][b]
           /\ open' = open /\ rounds' = rounds /\ completed' = completed /\ said' = said
           /\ verdict' = verdict
  <1> DEFINE s == [settled EXCEPT ![completed + 1][p] = "done"]
  <1>1. Wire!current = completed + 1
    BY WireFacts
  <1>2. p \in Agents /\ p # Wire!Moderator
    BY ConstantFacts DEF Moderator
  <1>3. /\ open /\ rounds > 0
        /\ completed < rounds
        /\ settled[completed + 1][p] = "pending"
        /\ settled' = s
        /\ open' = open /\ rounds' = rounds /\ completed' = completed /\ said' = said
        /\ verdict' = verdict
    BY <1>1, <1>2 DEF Wire!PersonaDone, Wire!HasFloor
  <1>4. /\ s \in [Rounds -> [Agents -> {"pending", "done", "failed"}]]
        /\ s[completed + 1][p] = "done"
        /\ \A r \in Rounds, b \in Agents :
              ~(r = completed + 1 /\ b = p) => s[r][b] = settled[r][b]
    BY <1>2, SettleFields
  <1> HIDE DEF s
  <1>5. QED
    BY <1>3, <1>4

\* What a verdict changes of the stream.
LEMMA VerdictFields ==
    ASSUME WireInv, Wire!GiveVerdict
    PROVE  /\ open /\ rounds > 0 /\ completed = rounds
           /\ settled[completed + 1][Moderator] = "pending"
           /\ settled' \in [Rounds -> [Agents -> {"pending", "done", "failed"}]]
           /\ settled'[completed + 1][Moderator] = "done"
           /\ verdict' = said[completed + 1][Moderator]
           /\ verdict' \in Nat /\ verdict = NoVerdict
           /\ open' = open /\ rounds' = rounds /\ completed' = completed /\ said' = said
  <1> DEFINE s == [settled EXCEPT ![completed + 1][Moderator] = "done"]
  <1>1. completed + 1 \in Rounds /\ Wire!current = completed + 1 /\ Moderator \in Agents
    BY WireFacts, ConstantFacts
  <1>2. /\ open /\ rounds > 0 /\ completed = rounds
        /\ settled[completed + 1][Moderator] = "pending"
        /\ settled' = s
        /\ verdict' = said[completed + 1][Moderator]
        /\ open' = open /\ rounds' = rounds /\ completed' = completed /\ said' = said
    BY <1>1 DEF Wire!GiveVerdict, Wire!HasFloor, Moderator
  <1>3. said[completed + 1][Moderator] \in Nat /\ verdict = NoVerdict
    BY <1>1, <1>2 DEF WireInv
  <1>4. /\ s \in [Rounds -> [Agents -> {"pending", "done", "failed"}]]
        /\ s[completed + 1][Moderator] = "done"
    BY <1>1, SettleFields
  <1> HIDE DEF s
  <1>5. QED
    BY <1>2, <1>3, <1>4

\* A token keeps the invariant of the stream.
LEMMA TokenKeepsWire ==
    ASSUME WireInv, NEW a \in Agents, Wire!Token(a)
    PROVE  WireInv'
  <1>1. \A r \in Rounds, p \in Panelists :
           said'[r][p] # 0 => r <= completed + 1 /\ r <= rounds
    <2>1. ASSUME NEW r \in Rounds, NEW p \in Panelists, said'[r][p] # 0
          PROVE  r <= completed + 1 /\ r <= rounds
      <3>1. p \in Agents /\ p # Moderator
        BY ConstantFacts
      <3>2. CASE r = completed + 1 /\ p = a
        BY <3>1, <3>2, TokenFields, WireFacts
      <3>3. CASE ~(r = completed + 1 /\ p = a)
        BY <2>1, <3>1, <3>3, TokenFields DEF WireInv
      <3>4. QED
        BY <3>2, <3>3
    <2>2. QED
      BY <2>1
  <1>2. \A r \in Rounds :
           said'[r][Moderator] # 0 => r = completed + 1 /\ completed = rounds /\ rounds > 0
    <2>1. ASSUME NEW r \in Rounds, said'[r][Moderator] # 0
          PROVE  r = completed + 1 /\ completed = rounds /\ rounds > 0
      <3>1. Moderator \in Agents
        BY ConstantFacts
      <3>2. CASE r = completed + 1 /\ Moderator = a
        BY <3>2, TokenFields
      <3>3. CASE ~(r = completed + 1 /\ Moderator = a)
        BY <2>1, <3>1, <3>3, TokenFields DEF WireInv
      <3>4. QED
        BY <3>2, <3>3
    <2>2. QED
      BY <2>1
  <1>3. QED
    BY <1>1, <1>2, TokenFields DEF WireInv

\* An error frame keeps it.
LEMMA FailKeepsWire ==
    ASSUME WireInv, NEW a \in Agents, Wire!Fail(a)
    PROVE  WireInv'
  <1>1. completed + 1 \in Rounds /\ Moderator \in Agents
    BY WireFacts, ConstantFacts
  <1>2. settled[completed + 1][Moderator] # "pending" => settled'[completed + 1][Moderator] # "pending"
    BY <1>1, FailFields
  <1>3. verdict # NoVerdict =>
           rounds > 0 /\ completed = rounds /\ settled'[completed + 1][Moderator] # "pending"
    BY <1>2 DEF WireInv
  <1>4. QED
    BY <1>3, FailFields DEF WireInv

\* persona_done keeps it.
LEMMA DoneKeepsWire ==
    ASSUME WireInv, NEW p \in Panelists, Wire!PersonaDone(p)
    PROVE  WireInv'
  <1>1. completed < rounds
    BY DoneFields
  <1>2. verdict = NoVerdict
    BY <1>1, WireFacts DEF WireInv
  <1>3. QED
    BY <1>2, DoneFields DEF WireInv

\* round_complete keeps it: all turns of the round are closed.
LEMMA CompleteKeepsWire ==
    ASSUME WireInv, Wire!CompleteRound
    PROVE  WireInv'
  <1>1. /\ open /\ completed < rounds /\ completed' = completed + 1
        /\ open' = open /\ rounds' = rounds /\ said' = said /\ settled' = settled
        /\ verdict' = verdict
    BY DEF Wire!CompleteRound
  <1>2. verdict = NoVerdict /\ \A r \in Rounds : said[r][Moderator] = 0
    BY <1>1, WireFacts DEF WireInv
  <1>3. completed + 1 \in 0..rounds
    BY <1>1, WireFacts
  <1>4. \A r \in Rounds, p \in Panelists :
           said[r][p] # 0 => r <= (completed + 1) + 1 /\ r <= rounds
    BY WireFacts, ConstantFacts DEF WireInv
  <1>5. QED
    BY <1>1, <1>2, <1>3, <1>4 DEF WireInv

\* A verdict keeps it, also if its frame is dropped.
LEMMA VerdictKeepsWire ==
    ASSUME WireInv, Wire!GiveVerdict
    PROVE  WireInv'
  BY VerdictFields DEF WireInv, Verdicts

\* A lost connection and a refused question keep it.
LEMMA CutKeepsWire == WireInv /\ (Wire!Cut \/ Wire!Refuse) => WireInv'
  BY DEF WireInv, Wire!Cut, Wire!Refuse

-----------------------------------------------------------------------------
(* The inductive invariant. *)

\* What can be said of the debate on display in every phase: at most one
\* speaker, the one whom the phase and the round name and who has said
\* something; no text beyond the round; a verdict only when done; and an error
\* that ends the debate is the last in the list.
PageInv(d, most) ==
    /\ d \in Debates
    /\ \A a, b \in d.activeSpeakers : a = b
    /\ \A a \in d.activeSpeakers :
          /\ d.phase = IF a = Moderator THEN "moderating" ELSE "debating"
          /\ d.currentRound > 0
          /\ d.transcript[d.currentRound][a] > 0
    /\ d.phase = "moderating" => Moderator \in d.activeSpeakers
    /\ \A r \in Rounds, a \in Agents : d.transcript[r][a] > 0 => r <= d.currentRound
    /\ d.phase = "debating" => d.currentRound \in 1..most
    /\ d.verdict # NoVerdict => d.phase = "done"
    /\ d.phase = "error" =>
          d.errors # <<>> /\ d.errors[Len(d.errors)].persona \in {NoPersona, Moderator}
    /\ Len(d.errors) <= MaxErrors

\* The player has recorded what this session's socket has carried, and plays
\* it.
Recorded(p) ==
    /\ p.text = Transcript
    /\ p.verdict \in {NoVerdict, verdict}
    /\ p.moderatorRound # 0 => completed = rounds /\ rounds > 0
    /\ TerminalKnown(p) => Over
    /\ PlayInv(p, debate, completed)

\* A question was asked and not stopped: its client listens unless the close
\* was recorded.
Playing ==
    /\ session > 0
    /\ attached = IF player.closed THEN {} ELSE {session}
    /\ Recorded(player)

\* Nothing was asked yet, or the user stopped the debate.
AtRest ==
    /\ attached = {}
    /\ player = Blank
    /\ timer = FALSE
    /\ debate.phase = "idle" <=> session = 0
    /\ debate.phase \notin Live
    /\ debate.activeSpeakers = {}
    /\ TurnsAreShownInOrder
    /\ DoneIsComplete

\* The inductive invariant. RecordingIsOfThisSession or EndIsFinal alone are
\* not inductive: that a frame is recorded in the right round needs the
\* stream's side (WireInv), and that a step shows the right words needs all of
\* PlayInv.
Inv ==
    /\ session \in 0..MaxSessions
    /\ timer \in BOOLEAN
    /\ WireInv
    /\ PageInv(debate, rounds)
    /\ Playing \/ AtRest
    /\ NoLostWakeup

\* Adding a capped delta to capped deltas is capping their sum: appendText of
\* the player loses nothing a later delta could show.
LEMMA CapOfProduct ==
    ASSUME NEW n \in Nat
    PROVE  /\ Capped(n * DeltaWords, MaxTurnChars) \in Caps
           /\ Capped(Capped(n * DeltaWords, MaxTurnChars) + DeltaWords, MaxTurnChars) =
                 Capped((n + 1) * DeltaWords, MaxTurnChars)
           /\ Capped(0 * DeltaWords, MaxTurnChars) = 0
  <1> DEFINE m == n * DeltaWords
  <1>1. DeltaWords \in Nat /\ MaxTurnChars \in Nat
    BY DeltaWordsAssumption, ConstantFacts
  <1>2. m \in Nat /\ (n + 1) * DeltaWords = m + DeltaWords
    BY <1>1, ProductIsMonotonic
  <1>3. Capped(0 * DeltaWords, MaxTurnChars) = 0
    BY <1>1 DEF Capped
  <1> HIDE DEF m
  <1>4. Capped(m, MaxTurnChars) \in Caps
    BY <1>1, <1>2 DEF Capped, Caps
  <1>5. Capped(Capped(m, MaxTurnChars) + DeltaWords, MaxTurnChars) = Capped(m + DeltaWords, MaxTurnChars)
    BY <1>1, <1>2 DEF Capped
  <1>6. QED
    BY <1>2, <1>3, <1>4, <1>5 DEF m

\* What the stream has said is a text, for every agent and round.
LEMMA TranscriptFacts ==
    ASSUME WireInv
    PROVE  /\ Transcript \in Texts
           /\ \A r \in Rounds, a \in Agents :
                 /\ Transcript[r][a] = Capped(said[r][a] * DeltaWords, MaxTurnChars)
                 /\ said[r][a] = 0 => Transcript[r][a] = 0
  <1>1. \A r \in Rounds, a \in Agents : said[r][a] \in Nat
    BY DEF WireInv
  <1>2. \A r \in Rounds, a \in Agents :
           Capped(said[r][a] * DeltaWords, MaxTurnChars) \in Caps
    BY <1>1, CapOfProduct
  <1>3. Transcript \in Texts
    BY <1>2 DEF Transcript, Texts
  <1>4. \A r \in Rounds, a \in Agents :
           Transcript[r][a] = Capped(said[r][a] * DeltaWords, MaxTurnChars)
    BY DEF Transcript
  <1>5. \A r \in Rounds, a \in Agents : said[r][a] = 0 => Transcript[r][a] = 0
    BY <1>4, CapOfProduct
  <1>6. QED
    BY <1>3, <1>4, <1>5

\* What is played is fit for display, in every phase.
LEMMA PlayGivesPage ==
    ASSUME NEW p, NEW d, NEW c, NEW most \in Nat,
           PlayInv(p, d, c), c <= most
    PROVE  PageInv(d, most)
  <1>1. /\ p \in Players /\ d \in Debates /\ c \in 0..MaxRounds
        /\ ScheduleInv(p, c) /\ StageInv(p, d, c) /\ DisplayInv(p, d, c) /\ SpeakerInv(p, d)
    BY DEF PlayInv, RecordInv, DisplayInv
  <1>2. \A a, b \in d.activeSpeakers : a = b
    BY <1>1 DEF SpeakerInv
  <1>3. \A a \in d.activeSpeakers :
          /\ d.phase = IF a = Moderator THEN "moderating" ELSE "debating"
          /\ d.currentRound > 0
          /\ d.transcript[d.currentRound][a] > 0
    <2>1. CASE p.active # NoTurn
      <3>1. p.active \in Turns
        BY <1>1, <2>1, ActiveFacts
      <3>2. p.active.round \in Rounds /\ p.active.agent \in Agents
        BY <3>1 DEF Turns
      <3>3. d.transcript[p.active.round][p.active.agent] = p.active.pos
        <4>1. CASE p.active.agent = Moderator
          <5>1. d.phase # "done"
            BY <1>1, <2>1, <4>1 DEF SpeakerInv
          <5>2. QED
            BY <1>1, <2>1, <3>2, <4>1, <5>1 DEF DisplayInv, Revealed
        <4>2. CASE p.active.agent # Moderator
          <5>1. p.active.agent \in Panelists
            BY <3>2, <4>2, ConstantFacts
          <5>2. p.cursor.kind = "panelist"
            BY <1>1, <2>1, <4>2, CursorFacts DEF ScheduleInv
          <5>3. p.active.agent = p.cursor.seat /\ p.active.round = p.cursor.round
            BY <1>1, <2>1, <5>2 DEF ScheduleInv
          <5>4. ~Played(p, c, p.active.round, p.active.agent)
            BY <3>2, <5>1, <5>2, <5>3, ConstantFacts DEF Played, Precedes
          <5>5. QED
            BY <1>1, <2>1, <3>2, <5>1, <5>4 DEF DisplayInv, Revealed
        <4>3. QED
          BY <4>1, <4>2
      <3>4. d.currentRound = p.active.round /\ d.currentRound > 0 /\ p.active.pos > 0
        BY <1>1, <2>1, <3>2, ConstantFacts DEF SpeakerInv
      <3>5. QED
        BY <1>1, <2>1, <3>3, <3>4 DEF SpeakerInv
    <2>2. CASE p.active = NoTurn
      <3>1. SUFFICES ASSUME NEW a \in d.activeSpeakers
                     PROVE  /\ d.phase = IF a = Moderator THEN "moderating" ELSE "debating"
                            /\ d.currentRound > 0
                            /\ d.transcript[d.currentRound][a] > 0
        OBVIOUS
      <3>2. /\ p.pendingDone # NoDone /\ a = p.pendingDone[1]
            /\ d.phase = "debating"
            /\ d.currentRound = p.pendingDone[2]
            /\ d.transcript[d.currentRound][a] > 0
        BY <1>1, <2>2 DEF SpeakerInv
      <3>3. a \in Panelists /\ d.currentRound \in Rounds
        BY <1>1, <3>2 DEF Players
      <3>4. a # Moderator /\ d.currentRound > 0
        BY <3>3, ConstantFacts
      <3>5. QED
        BY <3>2, <3>4
    <2>3. QED
      BY <2>1, <2>2
  <1>4. d.phase = "moderating" => Moderator \in d.activeSpeakers
    BY <1>1 DEF SpeakerInv
  <1>5. d.phase = "debating" => d.currentRound \in 1..most
    <2>1. SUFFICES ASSUME d.phase = "debating" PROVE d.currentRound \in 1..most
      OBVIOUS
    <2>2. p.cursor.kind = "panelist"
      BY <1>1, <2>1, CursorFacts DEF StageInv, Terminal, ScheduleInv, SpeakerInv
    <2>3. d.currentRound <= c /\ d.currentRound > 0
      BY <1>1, <2>1, <2>2 DEF StageInv, SpeakerInv
    <2>4. d.currentRound \in Nat
      BY <1>1, ConstantFacts DEF Debates
    <2>5. QED
      BY <1>1, <2>3, <2>4, ConstantFacts
  <1>6. QED
    BY <1>1, <1>2, <1>3, <1>4, <1>5 DEF PageInv, StageInv

-----------------------------------------------------------------------------
(* What a frame leaves in the recording. *)

\* What is known while a debate is played: if the stream is not over, no
\* verdict or error is recorded and the schedule is still at the panel.
LEMMA PlayingFacts ==
    ASSUME Playing, WireInv
    PROVE  /\ player \in Players /\ debate \in Debates
           /\ RecordInv(player, completed) /\ PlayInv(player, debate, completed)
           /\ player.text = Transcript
           /\ ~Over => /\ ~TerminalKnown(player)
                       /\ player.cursor.kind = "panelist"
                       /\ player.verdict = NoVerdict
  <1>1. PlayInv(player, debate, completed) /\ RecordInv(player, completed)
        /\ ScheduleInv(player, completed)
    BY DEF Playing, Recorded, PlayInv
  <1>2. player \in Players /\ debate \in Debates
    BY <1>1 DEF PlayInv, RecordInv, DisplayInv
  <1>3. ASSUME ~Over PROVE ~TerminalKnown(player) /\ player.cursor.kind = "panelist"
                           /\ player.verdict = NoVerdict
    <2>1. ~TerminalKnown(player)
      BY <1>3 DEF Playing, Recorded
    <2>2. player.verdict = NoVerdict
      BY <2>1 DEF TerminalKnown
    <2>3. QED
      BY <1>1, <1>2, <2>1, <2>2, CursorFacts DEF ScheduleInv
  <1>4. QED
    BY <1>1, <1>2, <1>3 DEF Playing, Recorded

\* feed, token: the recorded text is again what the socket carried, and the
\* rounds already complete are not touched.
LEMMA TokenIsRecorded ==
    ASSUME Playing, WireInv, NEW a \in Agents, Wire!Token(a)
    PROVE  LET q == RecordToken(player, a, completed + 1)
           IN  /\ RecordInv(q, completed)
               /\ SameSchedule(player, q)
               /\ q.text = Transcript'
               /\ q.verdict = NoVerdict /\ q.closed = player.closed
               /\ q.moderatorRound # 0 => completed = rounds /\ rounds > 0
               /\ ~TerminalKnown(q)
               /\ \A r \in Rounds, b \in Agents : r <= completed => q.text[r][b] = player.text[r][b]
  <1> DEFINE R == completed + 1
             x == Capped(player.text[R][a] + DeltaWords, MaxTurnChars)
             text == [player.text EXCEPT ![R][a] = x]
             mod == IF a = Moderator THEN R ELSE player.moderatorRound
             q == [player EXCEPT !.text = text, !.moderatorRound = mod]
  <1>1. /\ player \in Players /\ RecordInv(player, completed) /\ player.text = Transcript
        /\ R \in Rounds /\ completed \in Nat
    BY PlayingFacts, WireFacts
  <1>2. ~Over
    <2>1. completed < rounds => completed # rounds
      BY WireFacts
    <2>2. QED
      BY <2>1, TokenFields DEF Over
  <1>3. ~TerminalKnown(player) /\ player.verdict = NoVerdict
    BY <1>2, PlayingFacts
  <1>4. RecordToken(player, a, R) = q
    BY DEF RecordToken, Players
  <1>5. WireInv'
    BY TokenKeepsWire
  <1>6. /\ Transcript \in Texts /\ Transcript' \in Texts
        /\ \A r \in Rounds, b \in Agents :
              Transcript[r][b] = Capped(said[r][b] * DeltaWords, MaxTurnChars)
        /\ \A r \in Rounds, b \in Agents :
              Transcript'[r][b] = Capped(said'[r][b] * DeltaWords, MaxTurnChars)
    <2>1. Transcript' \in Texts /\ \A r \in Rounds, b \in Agents :
              Transcript'[r][b] = Capped(said'[r][b] * DeltaWords, MaxTurnChars)
      <3>1. \A r \in Rounds, b \in Agents : said'[r][b] \in Nat
        BY TokenFields
      <3>2. \A r \in Rounds, b \in Agents :
               Capped(said'[r][b] * DeltaWords, MaxTurnChars) \in Caps
        BY <3>1, CapOfProduct
      <3>3. QED
        BY <3>2 DEF Transcript, Texts
    <2>2. QED
      BY <2>1, TranscriptFacts
  <1>7. x = Transcript'[R][a] /\ x \in Caps
    <2>1. said[R][a] \in Nat /\ said'[R][a] = said[R][a] + 1
      BY <1>1, TokenFields DEF WireInv
    <2>2. /\ player.text[R][a] = Capped(said[R][a] * DeltaWords, MaxTurnChars)
          /\ Transcript'[R][a] = Capped((said[R][a] + 1) * DeltaWords, MaxTurnChars)
      BY <1>1, <1>6, <2>1
    <2>3. x = Capped((said[R][a] + 1) * DeltaWords, MaxTurnChars)
      BY <2>1, <2>2, CapOfProduct
    <2>4. Transcript'[R][a] \in Caps
      BY <1>1, <1>6 DEF Texts
    <2>5. QED
      BY <2>2, <2>3, <2>4
  <1> HIDE DEF x
  <1>8. \A r \in Rounds, b \in Agents :
           ~(r = R /\ b = a) => Transcript'[r][b] = Transcript[r][b]
    BY <1>6, TokenFields
  <1>9. text \in Texts
    BY <1>1, <1>6, <1>7 DEF Texts
  <1>10. \A r \in Rounds, b \in Agents :
            text[r][b] = IF r = R /\ b = a THEN x ELSE player.text[r][b]
    BY <1>1, <1>6 DEF Texts
  <1> HIDE DEF text
  <1>11. text = Transcript'
    <2>1. \A r \in Rounds, b \in Agents : text[r][b] = Transcript'[r][b]
      BY <1>1, <1>7, <1>8, <1>10
    <2>2. \A f, g \in Texts : (\A r \in Rounds, b \in Agents : f[r][b] = g[r][b]) => f = g
      BY DEF Texts
    <2>3. QED
      BY <1>6, <1>9, <2>1, <2>2
  <1>12. mod \in {0, R} /\ (mod # 0 => completed = rounds /\ rounds > 0) /\ mod \in {0} \union Rounds
    BY <1>1, TokenFields DEF Playing, Recorded, RecordInv
  <1> HIDE DEF mod
  <1>13. /\ q \in Players
         /\ SameSchedule(player, q)
         /\ q.text = text /\ q.moderatorRound = mod
         /\ q.roundComplete = player.roundComplete
         /\ q.verdict = player.verdict /\ q.closed = player.closed
         /\ q.sessionError = player.sessionError
    BY <1>1, <1>9, <1>12 DEF Players, SameSchedule
  <1> HIDE DEF q
  <1>14. ~TerminalKnown(q)
    BY <1>3, <1>13 DEF TerminalKnown
  <1>15. \A r \in Rounds, b \in Agents : r <= completed => text[r][b] = player.text[r][b]
    BY <1>1, <1>10, ConstantFacts
  <1>16. RecordInv(q, completed)
    <2>1. Moderator \in Agents
      BY ConstantFacts
    <2>2. QED
      BY <1>1, <1>3, <1>12, <1>13, <1>15, <2>1 DEF RecordInv
  <1>17. QED
    BY <1>3, <1>4, <1>11, <1>12, <1>13, <1>14, <1>15, <1>16

\* feed, round_complete: one more round may be played.
LEMMA RoundCompleteIsRecorded ==
    ASSUME Playing, WireInv, Wire!CompleteRound
    PROVE  LET q == RecordRoundComplete(player, completed')
           IN  /\ RecordInv(q, completed')
               /\ SameSchedule(player, q)
               /\ q.text = player.text
               /\ q.verdict = NoVerdict /\ q.closed = player.closed
               /\ q.moderatorRound = 0
               /\ ~TerminalKnown(q)
  <1> DEFINE R == completed + 1
             done == player.roundComplete \union {R}
             q == [player EXCEPT !.roundComplete = done]
  <1>1. /\ open /\ completed < rounds /\ completed' = R
        /\ R \in Rounds /\ R \in 0..MaxRounds /\ completed \in Nat
    BY WireFacts DEF Wire!CompleteRound
  <1>2. player \in Players /\ RecordInv(player, completed) /\ player.text = Transcript
    BY PlayingFacts
  <1>3. ~Over /\ completed # rounds
    BY <1>1, WireFacts DEF Over
  <1>4. ~TerminalKnown(player) /\ player.verdict = NoVerdict
    BY <1>3, PlayingFacts
  <1>5. player.moderatorRound = 0
    BY <1>3 DEF Playing, Recorded
  <1>6. \A r \in Rounds : player.text[r][Moderator] = 0
    <2>1. Moderator \in Agents
      BY ConstantFacts
    <2>2. \A r \in Rounds : said[r][Moderator] = 0
      BY <1>3 DEF WireInv
    <2>3. QED
      BY <1>2, <2>1, <2>2, TranscriptFacts
  <1>7. done = 1..R /\ done \subseteq Rounds
    <2>1. player.roundComplete = 1..completed
      BY <1>2 DEF RecordInv
    <2>2. 1..R = (1..completed) \union {R}
      BY <1>1
    <2>3. QED
      BY <2>1, <2>2, <1>1, ConstantFacts
  <1> HIDE DEF done
  <1>8. /\ q \in Players
        /\ SameSchedule(player, q)
        /\ q.text = player.text /\ q.moderatorRound = player.moderatorRound
        /\ q.roundComplete = done
        /\ q.verdict = player.verdict /\ q.closed = player.closed
        /\ q.sessionError = player.sessionError
    BY <1>2, <1>7 DEF Players, SameSchedule
  <1>9. RecordRoundComplete(player, completed') = q
    BY <1>1 DEF RecordRoundComplete, done
  <1> HIDE DEF q
  <1>10. ~TerminalKnown(q)
    BY <1>4, <1>8 DEF TerminalKnown
  <1>11. RecordInv(q, R)
    BY <1>1, <1>4, <1>5, <1>6, <1>7, <1>8 DEF RecordInv
  <1>12. QED
    BY <1>1, <1>4, <1>5, <1>8, <1>9, <1>10, <1>11

\* feed, verdict: the end of the stream is known.
LEMMA VerdictIsRecorded ==
    ASSUME Playing, WireInv, Wire!GiveVerdict
    PROVE  LET q == RecordVerdict(player, verdict')
           IN  /\ RecordInv(q, completed)
               /\ SameSchedule(player, q)
               /\ q.text = player.text
               /\ q.verdict = verdict' /\ q.closed = player.closed
               /\ q.moderatorRound = player.moderatorRound
               /\ player.cursor.kind = "panelist" /\ ~TerminalKnown(player)
  <1> DEFINE v == verdict'
             q == [player EXCEPT !.verdict = v]
  <1>1. /\ open /\ rounds > 0 /\ completed = rounds /\ v \in Nat
        /\ settled[completed + 1][Moderator] = "pending"
    BY VerdictFields
  <1>2. player \in Players /\ RecordInv(player, completed) /\ player.text = Transcript
    BY PlayingFacts
  <1>3. ~Over
    BY <1>1 DEF Over
  <1>4. player.cursor.kind = "panelist" /\ ~TerminalKnown(player)
    BY <1>3, PlayingFacts
  <1>5. ASSUME NEW r \in Rounds, NEW a \in Agents, r > completed, r = completed + 1 => a # Moderator
        PROVE  player.text[r][a] = 0
    <2>1. completed \in Nat /\ r \in Nat /\ ~(r <= completed)
      BY <1>5, WireFacts, ConstantFacts
    <2>2. said[r][a] = 0
      <3>1. CASE a = Moderator
        BY <1>5, <3>1 DEF WireInv
      <3>2. CASE a # Moderator
        <4>1. a \in Panelists
          BY <3>2, ConstantFacts
        <4>2. QED
          BY <1>1, <2>1, <4>1 DEF WireInv
      <3>3. QED
        BY <3>1, <3>2
    <2>3. QED
      BY <1>2, <2>2, TranscriptFacts
  <1>6. v \in Verdicts
    BY <1>1 DEF Verdicts
  <1> HIDE DEF v
  <1>7. /\ q \in Players
        /\ SameSchedule(player, q)
        /\ q.text = player.text /\ q.moderatorRound = player.moderatorRound
        /\ q.roundComplete = player.roundComplete
        /\ q.verdict = v /\ q.closed = player.closed
        /\ q.sessionError = player.sessionError
    BY <1>2, <1>6 DEF Players, SameSchedule
  <1>8. RecordVerdict(player, v) = q
    BY DEF RecordVerdict
  <1> HIDE DEF q
  <1>9. completed > 0
    BY <1>1
  <1>10. RecordInv(q, completed)
    BY <1>2, <1>5, <1>7, <1>9 DEF RecordInv
  <1>11. QED
    BY <1>4, <1>7, <1>8, <1>10 DEF v

\* feed, error: a panelist's failure is kept for its turn, any other one ends
\* the stream.
LEMMA ErrorIsRecorded ==
    ASSUME Playing, WireInv,
           NEW err \in {SessionLevel, ModeratorFailed} \union PersonaErrors
    PROVE  LET q == RecordError(player, err)
           IN  /\ RecordInv(q, completed)
               /\ SameSchedule(player, q)
               /\ q.text = player.text /\ q.verdict = player.verdict
               /\ q.closed = player.closed
               /\ q.moderatorRound = player.moderatorRound
               /\ TerminalKnown(player) => TerminalKnown(q)
               /\ err \in PersonaErrors => (TerminalKnown(q) <=> TerminalKnown(player))
  <1>1. player \in Players /\ RecordInv(player, completed)
    BY PlayingFacts
  <1>2. /\ SessionLevel.persona = NoPersona /\ ModeratorFailed.persona = Moderator
        /\ SessionLevel # NoError /\ ModeratorFailed # NoError
        /\ \A e \in PersonaErrors : e.persona \in Panelists /\ e.persona \notin {NoPersona, Moderator}
    BY ConstantFacts DEF SessionLevel, ModeratorFailed, NoError, Error, NoPersona, PersonaErrors
  <1>3. CASE err \in {SessionLevel, ModeratorFailed}
    <2> DEFINE q == [player EXCEPT !.sessionError = err]
    <2>1. RecordError(player, err) = q
      BY <1>2, <1>3 DEF RecordError
    <2>2. /\ q \in Players
          /\ SameSchedule(player, q)
          /\ q.text = player.text /\ q.moderatorRound = player.moderatorRound
          /\ q.roundComplete = player.roundComplete
          /\ q.verdict = player.verdict /\ q.closed = player.closed
          /\ q.sessionError = err
      BY <1>1, <1>3 DEF Players, SameSchedule
    <2> HIDE DEF q
    <2>3. TerminalKnown(q) /\ err \notin PersonaErrors
      BY <1>2, <1>3, <2>2, ConstantFacts DEF TerminalKnown
    <2>4. RecordInv(q, completed)
      BY <1>1, <2>2 DEF RecordInv
    <2>5. QED
      BY <2>1, <2>2, <2>3, <2>4
  <1>4. CASE err \in PersonaErrors
    <2> DEFINE all == [player.personaErrors EXCEPT ![err.persona] = err]
               q == [player EXCEPT !.personaErrors = all]
    <2>1. RecordError(player, err) = q
      BY <1>2, <1>4 DEF RecordError
    <2>2. all \in [Panelists -> {NoError} \union PersonaErrors]
      BY <1>1, <1>4 DEF Players
    <2> HIDE DEF all
    <2>3. /\ q \in Players
          /\ SameSchedule(player, q)
          /\ q.text = player.text /\ q.moderatorRound = player.moderatorRound
          /\ q.roundComplete = player.roundComplete
          /\ q.verdict = player.verdict /\ q.closed = player.closed
          /\ q.sessionError = player.sessionError
      BY <1>1, <2>2 DEF Players, SameSchedule
    <2> HIDE DEF q
    <2>4. TerminalKnown(q) <=> TerminalKnown(player)
      BY <2>3 DEF TerminalKnown
    <2>5. RecordInv(q, completed)
      BY <1>1, <2>3 DEF RecordInv
    <2>6. QED
      BY <2>1, <2>3, <2>4, <2>5
  <1>5. QED
    BY <1>3, <1>4

\* feedStatus, closed: the end of the stream is known.
LEMMA CloseIsRecorded ==
    ASSUME Playing, WireInv
    PROVE  LET q == RecordClosed(player)
           IN  /\ RecordInv(q, completed)
               /\ SameSchedule(player, q)
               /\ q.text = player.text /\ q.verdict = player.verdict
               /\ q.closed = TRUE
               /\ q.moderatorRound = player.moderatorRound
               /\ TerminalKnown(q)
  <1> DEFINE q == [player EXCEPT !.closed = TRUE]
  <1>1. player \in Players /\ RecordInv(player, completed)
    BY PlayingFacts
  <1>2. RecordClosed(player) = q
    BY DEF RecordClosed
  <1>3. /\ q \in Players
        /\ SameSchedule(player, q)
        /\ q.text = player.text /\ q.moderatorRound = player.moderatorRound
        /\ q.roundComplete = player.roundComplete
        /\ q.verdict = player.verdict /\ q.closed = TRUE
        /\ q.sessionError = player.sessionError
    BY <1>1 DEF Players, SameSchedule
  <1> HIDE DEF q
  <1>4. RecordInv(q, completed)
    BY <1>1, <1>3 DEF RecordInv
  <1>5. QED
    BY <1>2, <1>3, <1>4 DEF TerminalKnown

-----------------------------------------------------------------------------
(* The steps. *)

\* The scheduler starts from the player and debate of this moment.
LEMMA NowIs ==
    ASSUME NEW p
    PROVE  Now(p).player = p /\ Now(p).debate = debate /\ Now(p).more = FALSE
  BY DEF Now

\* A recorded frame, played or left to the timer, keeps the invariant.
LEMMA PumpKeeps ==
    ASSUME NEW q, WireInv', timer \in BOOLEAN,
           session' = session, session > 0,
           attached' = IF q.closed THEN {} ELSE {session},
           q.text = Transcript',
           q.verdict \in {NoVerdict, verdict'},
           q.moderatorRound # 0 => completed' = rounds' /\ rounds' > 0,
           TerminalKnown(q) => Over',
           PlayInv(q, debate, completed'),
           Pump(q)
    PROVE  /\ Playing' /\ NoLostWakeup' /\ timer' \in BOOLEAN
           /\ PageInv(debate', rounds')
           /\ debate.currentRound <= debate'.currentRound
           /\ ~HasReadyWork(q) => debate' = debate
  <1>1. PICK s \in {IF timer THEN Now(q) ELSE Step(Now(q), ReducedMotion)} :
            player' = s.player /\ debate' = s.debate /\ timer' = (timer \/ s.more)
    BY DEF Pump
  <1>2. /\ PlayInv(player', debate', completed')
        /\ SameRecording(q, player')
        /\ ~timer' => ~HasReadyWork(player')
        /\ timer' \in BOOLEAN
        /\ debate.currentRound <= debate'.currentRound
        /\ ~HasReadyWork(q) => debate' = debate
    <2>1. CASE timer
      <3>1. player' = q /\ debate' = debate /\ timer' = TRUE
        BY <1>1, <2>1, NowIs
      <3>2. debate.currentRound <= debate.currentRound
        BY ConstantFacts DEF PlayInv, DisplayInv, Debates
      <3>3. QED
        BY <3>1, <3>2 DEF SameRecording
    <2>2. CASE ~timer
      <3> DEFINE t == Step(Now(q), ReducedMotion)
      <3>1. player' = t.player /\ debate' = t.debate /\ timer' = (timer \/ t.more)
        BY <1>1, <2>2
      <3>2. PlayInv(Now(q).player, Now(q).debate, completed')
        BY NowIs
      <3> DEFINE s0 == Now(q)
      <3>3. s0.player = q /\ s0.debate = debate
        BY NowIs
      <3> HIDE DEF s0
      <3>4. /\ t.more \in BOOLEAN
            /\ SameRecording(s0.player, t.player)
            /\ PlayInv(t.player, t.debate, completed')
            /\ s0.debate.currentRound <= t.debate.currentRound
            /\ ~t.more => ~HasReadyWork(t.player)
            /\ ~HasReadyWork(s0.player) => t.debate = s0.debate
        BY <3>2, StepKeeps, ReducedMotionAssumption DEF s0
      <3> HIDE DEF t
      <3>5. QED
        BY <2>2, <3>1, <3>3, <3>4
    <2>3. QED
      BY <2>1, <2>2
  <1>3. /\ player'.text = q.text /\ player'.verdict = q.verdict
        /\ player'.moderatorRound = q.moderatorRound /\ player'.closed = q.closed
        /\ TerminalKnown(player') <=> TerminalKnown(q)
    BY <1>2 DEF SameRecording, TerminalKnown
  <1>4. Recorded(player)'
    BY <1>2, <1>3 DEF Recorded
  <1>5. Playing'
    BY <1>3, <1>4 DEF Playing
  <1>6. rounds' \in Nat /\ completed' <= rounds'
    BY ConstantFacts DEF WireInv
  <1>7. PageInv(debate', rounds')
    BY <1>2, <1>6, PlayGivesPage
  <1>8. QED
    BY <1>2, <1>5, <1>7 DEF NoLostWakeup

\* Within one session what has ended stays as it ended, and the round shown
\* never goes back.
Kept ==
    /\ debate.phase \in Terminal =>
          /\ debate'.phase = debate.phase
          /\ debate'.transcript = debate.transcript
          /\ debate'.verdict = debate.verdict
    /\ debate.currentRound <= debate'.currentRound

\* A round is as far on as itself.
LEMMA RoundStands ==
    ASSUME Inv
    PROVE  debate.currentRound \in Nat /\ debate.currentRound <= debate.currentRound
  BY ConstantFacts DEF Inv, PageInv, Debates

\* A client that listens belongs to a debate that is played.
LEMMA ListeningFacts ==
    ASSUME Inv, Listening
    PROVE  /\ Playing /\ WireInv /\ session \in 0..MaxSessions /\ session > 0
           /\ ~player.closed /\ attached = {session}
           /\ player \in Players /\ debate \in Debates
           /\ RecordInv(player, completed) /\ PlayInv(player, debate, completed)
           /\ player.text = Transcript
           /\ timer \in BOOLEAN /\ NoLostWakeup /\ PageInv(debate, rounds)
  <1>1. Playing /\ WireInv
    BY DEF Inv, Listening, AtRest
  <1>2. attached = IF player.closed THEN {} ELSE {session}
    BY <1>1 DEF Playing
  <1>3. ~player.closed /\ attached = {session}
    BY <1>2 DEF Listening
  <1>4. QED
    BY <1>1, <1>3, PlayingFacts DEF Inv, Playing

\* When the debate on display has ended there is nothing left to play.
LEMMA EndedIsDone ==
    ASSUME NEW p, NEW d, NEW c, NEW q, PlayInv(p, d, c), SameSchedule(p, q),
           d.phase \in Terminal
    PROVE  ~HasReadyWork(q)
  BY DEF PlayInv, StageInv, ScheduleInv, SameSchedule, HasReadyWork

\* A frame that was recorded and played keeps the invariant.
LEMMA FrameKeeps ==
    ASSUME Inv, Listening, NEW q, WireInv', session' = session, attached' = attached,
           SameSchedule(player, q), RecordInv(q, completed'),
           completed <= completed',
           player.cursor.kind # "panelist" => completed' = completed /\ q.text = player.text,
           TerminalKnown(player) => TerminalKnown(q) /\ q.verdict = player.verdict,
           \A r \in Rounds, a \in Agents : r <= completed => q.text[r][a] = player.text[r][a],
           q.text = Transcript', q.closed = player.closed,
           q.verdict \in {NoVerdict, verdict'},
           q.moderatorRound # 0 => completed' = rounds' /\ rounds' > 0,
           TerminalKnown(q) => Over',
           Pump(q)
    PROVE  Inv' /\ Kept
  <1>1. /\ PlayInv(player, debate, completed) /\ timer \in BOOLEAN
        /\ session \in 0..MaxSessions /\ session > 0
        /\ ~player.closed /\ attached = {session}
    BY ListeningFacts
  <1>2. PlayInv(q, debate, completed')
    BY <1>1, RecordingKeeps
  <1>3. attached' = IF q.closed THEN {} ELSE {session}
    BY <1>1
  <1>4. /\ Playing' /\ NoLostWakeup' /\ timer' \in BOOLEAN
        /\ PageInv(debate', rounds')
        /\ debate.currentRound <= debate'.currentRound
        /\ ~HasReadyWork(q) => debate' = debate
    BY <1>1, <1>2, <1>3, PumpKeeps
  <1>5. Inv'
    BY <1>1, <1>4 DEF Inv
  <1>6. Kept
    BY <1>1, <1>4, EndedIsDone DEF Kept
  <1>7. QED
    BY <1>5, <1>6

\* Tokens, wherever the replay is.
LEMMA TokenKeeps ==
    ASSUME Inv, NEW a \in Agents, Token(a)
    PROVE  Inv' /\ Kept
  <1> DEFINE q == RecordToken(player, a, completed + 1)
  <1>1. /\ Listening /\ Wire!Token(a) /\ Pump(q)
        /\ session' = session /\ attached' = attached
    BY DEF Token
  <1>2. Playing /\ WireInv /\ player.text = Transcript
    BY <1>1, ListeningFacts
  <1>3. completed' = completed /\ rounds' = rounds /\ verdict' = verdict /\ WireInv'
    BY <1>1, <1>2, TokenFields, TokenKeepsWire
  <1>4. player.cursor.kind = "panelist" /\ ~TerminalKnown(player)
    <2>1. completed < rounds => completed # rounds
      BY <1>2, WireFacts
    <2>2. ~Over
      BY <1>1, <1>2, <2>1, TokenFields DEF Over
    <2>3. QED
      BY <1>2, <2>2, PlayingFacts
  <1>5. /\ RecordInv(q, completed)
        /\ SameSchedule(player, q)
        /\ q.text = Transcript'
        /\ q.verdict = NoVerdict /\ q.closed = player.closed
        /\ q.moderatorRound # 0 => completed = rounds /\ rounds > 0
        /\ ~TerminalKnown(q)
        /\ \A r \in Rounds, b \in Agents : r <= completed => q.text[r][b] = player.text[r][b]
    BY <1>1, <1>2, TokenIsRecorded
  <1> HIDE DEF q
  <1>6. completed <= completed'
    BY <1>2, <1>3, WireFacts
  <1>7. QED
    BY <1>1, <1>3, <1>4, <1>5, <1>6, FrameKeeps

\* round_complete, which may wake the player.
LEMMA RoundCompleteKeeps ==
    ASSUME Inv, RoundComplete
    PROVE  Inv' /\ Kept
  <1> DEFINE q == RecordRoundComplete(player, completed')
  <1>1. /\ Listening /\ Wire!CompleteRound /\ Pump(q)
        /\ session' = session /\ attached' = attached
    BY DEF RoundComplete
  <1>2. /\ open /\ completed < rounds /\ completed' = completed + 1
        /\ rounds' = rounds /\ said' = said /\ verdict' = verdict
    BY <1>1 DEF Wire!CompleteRound
  <1>3. Playing /\ WireInv /\ player.text = Transcript /\ Transcript' = Transcript
    BY <1>1, <1>2, ListeningFacts DEF Transcript
  <1>4. WireInv' /\ completed <= completed'
    BY <1>1, <1>2, <1>3, CompleteKeepsWire, WireFacts
  <1>5. player.cursor.kind = "panelist" /\ ~TerminalKnown(player)
    <2>1. completed # rounds
      BY <1>2, <1>3, WireFacts
    <2>2. ~Over
      BY <1>2, <2>1 DEF Over
    <2>3. QED
      BY <1>3, <2>2, PlayingFacts
  <1>6. /\ RecordInv(q, completed')
        /\ SameSchedule(player, q)
        /\ q.text = player.text
        /\ q.verdict = NoVerdict /\ q.closed = player.closed
        /\ q.moderatorRound = 0
        /\ ~TerminalKnown(q)
    BY <1>1, <1>3, RoundCompleteIsRecorded
  <1> HIDE DEF q
  <1>7. QED
    BY <1>1, <1>3, <1>4, <1>5, <1>6, FrameKeeps

\* The verdict, which may come long before the replay is through.
LEMMA VerdictKeeps ==
    ASSUME Inv, Verdict
    PROVE  Inv' /\ Kept
  <1> DEFINE q == RecordVerdict(player, verdict')
  <1>1. /\ Listening /\ Wire!GiveVerdict /\ Pump(q)
        /\ session' = session /\ attached' = attached
    BY DEF Verdict
  <1>2. Playing /\ WireInv /\ player.text = Transcript
    BY <1>1, ListeningFacts
  <1>3. /\ open /\ rounds > 0 /\ completed = rounds /\ rounds' = rounds /\ completed' = completed
        /\ said' = said /\ settled'[completed + 1][Moderator] = "done"
    BY <1>1, <1>2, VerdictFields
  <1>4. WireInv' /\ Over' /\ Transcript' = Transcript /\ completed <= completed'
    <2>1. Over'
      BY <1>3 DEF Over
    <2>2. QED
      BY <1>1, <1>2, <1>3, <2>1, VerdictKeepsWire, WireFacts DEF Transcript
  <1>5. /\ RecordInv(q, completed)
        /\ SameSchedule(player, q)
        /\ q.text = player.text
        /\ q.verdict = verdict' /\ q.closed = player.closed
        /\ q.moderatorRound = player.moderatorRound
        /\ player.cursor.kind = "panelist" /\ ~TerminalKnown(player)
    BY <1>1, <1>2, VerdictIsRecorded
  <1> HIDE DEF q
  <1>6. QED
    BY <1>1, <1>2, <1>3, <1>4, <1>5, FrameKeeps

\* persona_done, which the player is called for and ignores.
LEMMA PersonaDoneKeeps ==
    ASSUME Inv, NEW p \in Panelists, PersonaDone(p)
    PROVE  Inv' /\ Kept
  <1>1. /\ Listening /\ Wire!PersonaDone(p) /\ Pump(player)
        /\ session' = session /\ attached' = attached
    BY DEF PersonaDone
  <1>2. Playing /\ WireInv /\ player.text = Transcript /\ RecordInv(player, completed)
    BY <1>1, ListeningFacts
  <1>3. /\ open /\ completed < rounds /\ rounds' = rounds /\ completed' = completed
        /\ said' = said /\ verdict' = verdict
    BY <1>1, <1>2, DoneFields
  <1>4. WireInv' /\ Transcript' = Transcript /\ completed <= completed'
    BY <1>1, <1>2, <1>3, DoneKeepsWire, WireFacts DEF Transcript
  <1>5. ~TerminalKnown(player)
    <2>1. completed # rounds
      BY <1>2, <1>3, WireFacts
    <2>2. ~Over
      BY <1>3, <2>1 DEF Over
    <2>3. QED
      BY <1>2, <2>2, PlayingFacts
  <1>6. SameSchedule(player, player)
    BY DEF SameSchedule
  <1>7. /\ player.verdict \in {NoVerdict, verdict'}
        /\ player.moderatorRound # 0 => completed' = rounds' /\ rounds' > 0
    BY <1>2, <1>3 DEF Playing, Recorded
  <1>8. QED
    BY <1>1, <1>2, <1>3, <1>4, <1>5, <1>6, <1>7, FrameKeeps

\* The failure of a panelist or of the moderator.
LEMMA FailedKeeps ==
    ASSUME Inv, NEW a \in Agents, Failed(a)
    PROVE  Inv' /\ Kept
  <1> DEFINE err == IF a = Moderator THEN ModeratorFailed ELSE Error(a, completed + 1)
             q == RecordError(player, err)
  <1>1. /\ Listening /\ Wire!Fail(a) /\ Pump(q)
        /\ session' = session /\ attached' = attached
    BY DEF Failed
  <1>2. Playing /\ WireInv /\ player.text = Transcript
    BY <1>1, ListeningFacts
  <1>3. /\ open /\ rounds > 0 /\ rounds' = rounds /\ completed' = completed
        /\ a = Moderator => completed = rounds
        /\ a # Moderator => completed < rounds
        /\ settled[completed + 1][a] = "pending"
        /\ settled'[completed + 1][a] = "failed"
        /\ said' = said /\ verdict' = verdict
    BY <1>1, <1>2, FailFields
  <1>4. WireInv' /\ Transcript' = Transcript /\ completed <= completed'
    BY <1>1, <1>2, <1>3, FailKeepsWire, WireFacts DEF Transcript
  <1>5. player.cursor.kind = "panelist" /\ ~TerminalKnown(player)
    <2>1. completed < rounds => completed # rounds
      BY <1>2, WireFacts
    <2>2. ~Over
      BY <1>3, <2>1 DEF Over
    <2>3. QED
      BY <1>2, <2>2, PlayingFacts
  <1>6. /\ err \in {SessionLevel, ModeratorFailed} \union PersonaErrors
        /\ a # Moderator => err \in PersonaErrors
    <2>1. CASE a = Moderator
      BY <2>1
    <2>2. CASE a # Moderator
      <3>1. a \in Panelists /\ completed + 1 \in Int
        BY <1>2, <2>2, ConstantFacts, WireFacts
      <3>2. QED
        BY <2>2, <3>1 DEF Error, PersonaErrors
    <2>3. QED
      BY <2>1, <2>2
  <1> HIDE DEF err
  <1>7. /\ RecordInv(q, completed)
        /\ SameSchedule(player, q)
        /\ q.text = player.text /\ q.verdict = player.verdict
        /\ q.closed = player.closed
        /\ q.moderatorRound = player.moderatorRound
        /\ err \in PersonaErrors => (TerminalKnown(q) <=> TerminalKnown(player))
    BY <1>2, <1>6, ErrorIsRecorded
  <1> HIDE DEF q
  <1>8. TerminalKnown(q) => Over'
    BY <1>3, <1>5, <1>6, <1>7 DEF Over
  <1>9. /\ q.verdict \in {NoVerdict, verdict'}
        /\ q.moderatorRound # 0 => completed' = rounds' /\ rounds' > 0
    BY <1>2, <1>3, <1>7 DEF Playing, Recorded
  <1>10. QED
    BY <1>1, <1>2, <1>3, <1>4, <1>5, <1>7, <1>8, <1>9, FrameKeeps

\* The question was refused.
LEMMA RefusedKeeps ==
    ASSUME Inv, Refused
    PROVE  Inv' /\ Kept
  <1> DEFINE q == RecordError(player, SessionLevel)
  <1>1. /\ Listening /\ Wire!Refuse /\ Pump(q)
        /\ session' = session /\ attached' = attached
    BY DEF Refused
  <1>2. Playing /\ WireInv /\ player.text = Transcript
    BY <1>1, ListeningFacts
  <1>3. /\ open /\ rounds = 0 /\ open' = FALSE /\ rounds' = rounds /\ completed' = completed
        /\ said' = said /\ verdict' = verdict
    BY <1>1 DEF Wire!Refuse
  <1>4. WireInv' /\ Transcript' = Transcript /\ completed <= completed' /\ Over'
    BY <1>1, <1>2, <1>3, CutKeepsWire, WireFacts DEF Transcript, Over
  <1>5. player.cursor.kind = "panelist" /\ ~TerminalKnown(player)
    <2>1. ~Over
      BY <1>3 DEF Over
    <2>2. QED
      BY <1>2, <2>1, PlayingFacts
  <1>6. /\ RecordInv(q, completed)
        /\ SameSchedule(player, q)
        /\ q.text = player.text /\ q.verdict = player.verdict
        /\ q.closed = player.closed
        /\ q.moderatorRound = player.moderatorRound
    BY <1>2, ErrorIsRecorded
  <1> HIDE DEF q
  <1>7. /\ q.verdict \in {NoVerdict, verdict'}
        /\ q.moderatorRound # 0 => completed' = rounds' /\ rounds' > 0
    BY <1>2, <1>3, <1>6 DEF Playing, Recorded
  <1>8. QED
    BY <1>1, <1>2, <1>3, <1>4, <1>5, <1>6, <1>7, FrameKeeps

\* Only the stream moved: nothing has reached the browser yet.
LEMMA StreamKeeps ==
    ASSUME Inv, Listening, WireInv', UNCHANGED <<session, attached, player, timer, debate>>,
           said' = said, completed' = completed, verdict' = verdict, rounds <= rounds',
           player.moderatorRound # 0 => completed = rounds' /\ rounds' > 0,
           TerminalKnown(player) => Over'
    PROVE  Inv' /\ Kept
  <1>1. /\ Playing /\ WireInv /\ PageInv(debate, rounds)
        /\ player.text = Transcript /\ PlayInv(player, debate, completed)
    BY ListeningFacts
  <1>2. Transcript' = Transcript
    BY DEF Transcript
  <1>3. /\ player'.text = player.text /\ player'.verdict = player.verdict
        /\ player'.moderatorRound = player.moderatorRound
        /\ TerminalKnown(player') = TerminalKnown(player)
        /\ PlayInv(player', debate', completed')
    BY <1>1
  <1>4. Recorded(player)'
    BY <1>1, <1>2, <1>3 DEF Playing, Recorded
  <1>5. Playing'
    BY <1>1, <1>4 DEF Playing
  <1>6. rounds' \in Nat /\ completed' <= rounds'
    BY ConstantFacts DEF WireInv
  <1>7. PageInv(debate', rounds')
    BY <1>3, <1>6, PlayGivesPage
  <1>8. NoLostWakeup' /\ timer' \in BOOLEAN /\ session' \in 0..MaxSessions
    BY DEF Inv, NoLostWakeup
  <1>9. Inv'
    BY <1>5, <1>7, <1>8 DEF Inv
  <1>10. Kept
    BY RoundStands DEF Kept
  <1>11. QED
    BY <1>9, <1>10

\* The question was accepted.
LEMMA AcceptedKeeps ==
    ASSUME Inv, Accepted
    PROVE  Inv' /\ Kept
  <1>1. /\ Listening /\ Wire!Accept /\ UNCHANGED <<session, attached, player, timer, debate>>
    BY DEF Accepted
  <1>2. Playing /\ WireInv
    BY <1>1, ListeningFacts
  <1>3. /\ open /\ rounds = 0 /\ rounds' \in Nat
        /\ completed' = completed /\ said' = said /\ verdict' = verdict
    BY <1>1, ConstantFacts DEF Wire!Accept
  <1>4. ~Over
    BY <1>3 DEF Over
  <1>5. ~TerminalKnown(player)
    BY <1>2, <1>4, PlayingFacts
  <1>6. player.moderatorRound = 0
    BY <1>2, <1>3 DEF Playing, Recorded
  <1>7. WireInv' /\ rounds <= rounds'
    BY <1>1, <1>2, <1>3, AcceptKeepsWire
  <1>8. QED
    BY <1>1, <1>3, <1>5, <1>6, <1>7, StreamKeeps

\* The connection is gone, its close event still to come.
LEMMA CutKeeps ==
    ASSUME Inv, Cut
    PROVE  Inv' /\ Kept
  <1>1. /\ Listening /\ Wire!Cut /\ UNCHANGED <<session, attached, player, timer, debate>>
    BY DEF Cut
  <1>2. Playing /\ WireInv
    BY <1>1, ListeningFacts
  <1>3. /\ open' = FALSE /\ rounds' = rounds
        /\ completed' = completed /\ said' = said /\ verdict' = verdict
    BY <1>1 DEF Wire!Cut
  <1>4. Over' /\ WireInv' /\ rounds <= rounds'
    BY <1>1, <1>2, <1>3, CutKeepsWire, WireFacts DEF Over
  <1>5. player.moderatorRound # 0 => completed = rounds' /\ rounds' > 0
    BY <1>2, <1>3 DEF Playing, Recorded
  <1>6. QED
    BY <1>1, <1>3, <1>4, <1>5, StreamKeeps

\* The verdict's frame was dropped: an error is listed, the debate goes on.
LEMMA VerdictTooLargeKeeps ==
    ASSUME Inv, VerdictTooLarge
    PROVE  Inv' /\ Kept
  <1>1. /\ Listening /\ Wire!GiveVerdict /\ debate' = ReduceTransport(debate)
        /\ UNCHANGED <<session, attached, player, timer>>
    BY DEF VerdictTooLarge
  <1>2. /\ Playing /\ WireInv /\ PlayInv(player, debate, completed)
    BY <1>1, ListeningFacts
  <1>3. /\ open /\ rounds > 0 /\ completed = rounds /\ rounds' = rounds /\ completed' = completed
        /\ said' = said /\ settled'[completed + 1][Moderator] = "done"
        /\ settled[completed + 1][Moderator] = "pending"
    BY <1>1, <1>2, VerdictFields
  <1>4. WireInv' /\ Over' /\ Transcript' = Transcript
    BY <1>1, <1>2, <1>3, VerdictKeepsWire DEF Over, Transcript
  <1>5. ~Over
    BY <1>3 DEF Over
  <1>6. player.verdict = NoVerdict /\ player.text = Transcript
    BY <1>2, <1>5, PlayingFacts
  <1>7. /\ PlayInv(player, debate', completed)
        /\ debate'.phase = debate.phase /\ debate'.transcript = debate.transcript
        /\ debate'.verdict = debate.verdict /\ debate'.currentRound = debate.currentRound
    BY <1>1, <1>2, ReduceTransportKeeps
  <1>8. player.moderatorRound # 0 => completed = rounds /\ rounds > 0
    BY <1>2 DEF Playing, Recorded
  <1>9. player' = player /\ completed' = completed /\ rounds' = rounds
    BY <1>1, <1>3
  <1>10. Recorded(player)'
    <2>1. PlayInv(player', debate', completed')
      BY <1>7, <1>9
    <2>2. player'.text = Transcript'
      BY <1>4, <1>6, <1>9
    <2>3. player'.verdict \in {NoVerdict, verdict'}
      BY <1>6, <1>9
    <2>4. player'.moderatorRound # 0 => completed' = rounds' /\ rounds' > 0
      BY <1>8, <1>9
    <2>5. QED
      BY <1>4, <2>1, <2>2, <2>3, <2>4 DEF Recorded
  <1>11. Playing'
    BY <1>1, <1>2, <1>10 DEF Playing
  <1>12. rounds' \in Nat /\ completed' <= rounds' /\ PlayInv(player', debate', completed')
    BY <1>7, <1>9, <1>2, WireFacts
  <1>13. PageInv(debate', rounds')
    BY <1>12, PlayGivesPage
  <1>14. NoLostWakeup' /\ timer' \in BOOLEAN /\ session' \in 0..MaxSessions
    BY <1>1 DEF Inv, NoLostWakeup
  <1>15. Inv'
    BY <1>4, <1>11, <1>13, <1>14 DEF Inv
  <1>16. QED
    BY <1>7, <1>15, RoundStands DEF Kept

\* The close of the socket, of this session since earlier clients were
\* disposed.
LEMMA SocketClosedKeeps ==
    ASSUME Inv, NEW i, SocketClosed(i)
    PROVE  Inv' /\ Kept
  <1> DEFINE q == RecordClosed(player)
  <1>1. /\ i \in attached /\ (i = session => ~open)
        /\ attached' = attached \ {i} /\ Pump(q)
        /\ UNCHANGED <<open, refused, rounds, completed, said, settled, verdict, session>>
    BY DEF SocketClosed, wireVars
  <1>2. Playing /\ WireInv /\ timer \in BOOLEAN /\ session \in 0..MaxSessions
    BY <1>1 DEF Inv, AtRest
  <1>3. attached = {session} /\ session > 0 /\ i = session /\ ~open /\ attached' = {}
    BY <1>1, <1>2 DEF Playing
  <1>4. /\ RecordInv(q, completed)
        /\ SameSchedule(player, q)
        /\ q.text = player.text /\ q.verdict = player.verdict
        /\ q.closed = TRUE
        /\ q.moderatorRound = player.moderatorRound
        /\ TerminalKnown(q)
    BY <1>2, CloseIsRecorded
  <1> HIDE DEF q
  <1>5. PlayInv(player, debate, completed) /\ player.text = Transcript /\ completed <= completed
    BY <1>2, PlayingFacts, WireFacts
  <1>6. PlayInv(q, debate, completed)
    BY <1>4, <1>5, RecordingKeeps
  <1>7. Transcript' = Transcript /\ Over' /\ WireInv'
    BY <1>1, <1>2, <1>3 DEF Transcript, Over, WireInv
  <1>8. /\ q.verdict \in {NoVerdict, verdict'}
        /\ q.moderatorRound # 0 => completed' = rounds' /\ rounds' > 0
    BY <1>1, <1>2, <1>4 DEF Playing, Recorded
  <1>9. PlayInv(q, debate, completed')
    BY <1>1, <1>6
  <1>10. q.text = Transcript' /\ attached' = IF q.closed THEN {} ELSE {session}
    BY <1>3, <1>4, <1>5, <1>7
  <1>11. /\ Playing' /\ NoLostWakeup' /\ timer' \in BOOLEAN
         /\ PageInv(debate', rounds')
         /\ debate.currentRound <= debate'.currentRound
         /\ ~HasReadyWork(q) => debate' = debate
    BY <1>1, <1>2, <1>3, <1>7, <1>8, <1>9, <1>10, PumpKeeps
  <1>12. Inv'
    BY <1>1, <1>2, <1>7, <1>11 DEF Inv
  <1>13. Kept
    BY <1>4, <1>5, <1>11, EndedIsDone DEF Kept
  <1>14. QED
    BY <1>12, <1>13

\* A step of the scheduler from the state of this moment.
LEMMA StepNow ==
    ASSUME Playing, WireInv, NEW whole \in BOOLEAN, NEW t,
           t = Step(Now(player), whole)
    PROVE  /\ t.more \in BOOLEAN
           /\ SameRecording(player, t.player)
           /\ PlayInv(t.player, t.debate, completed)
           /\ debate.currentRound <= t.debate.currentRound
           /\ ~t.more => ~HasReadyWork(t.player)
           /\ HasReadyWork(player) => t.player # player
           /\ ~HasReadyWork(player) => t.player = player /\ t.debate = debate
  <1> DEFINE s == Now(player)
  <1>1. s.player = player /\ s.debate = debate /\ t = Step(s, whole)
    BY NowIs
  <1>2. PlayInv(player, debate, completed)
    BY PlayingFacts
  <1> HIDE DEF s
  <1>3. PlayInv(s.player, s.debate, completed)
    BY <1>1, <1>2
  <1>4. /\ t.more \in BOOLEAN
        /\ SameRecording(s.player, t.player)
        /\ PlayInv(t.player, t.debate, completed)
        /\ s.debate.currentRound <= t.debate.currentRound
        /\ ~t.more => ~HasReadyWork(t.player)
        /\ HasReadyWork(s.player) => t.player # s.player
        /\ ~HasReadyWork(s.player) => t.player = s.player /\ t.debate = s.debate
    BY <1>1, <1>3, StepKeeps
  <1>5. QED
    BY <1>1, <1>4

\* The player moved on by itself.
LEMMA PlayerKeeps ==
    ASSUME Inv, Playing, UNCHANGED <<wireVars, session, attached>>,
           SameRecording(player, player'), PlayInv(player', debate', completed),
           timer' \in BOOLEAN, ~timer' => ~HasReadyWork(player'),
           debate.currentRound <= debate'.currentRound,
           ~HasReadyWork(player) => debate' = debate
    PROVE  Inv' /\ Kept
  <1>1. WireInv /\ PlayInv(player, debate, completed) /\ player.text = Transcript
    BY PlayingFacts DEF Inv
  <1>2. UNCHANGED <<open, refused, rounds, completed, said, settled, verdict>>
    BY DEF wireVars
  <1>3. WireInv' /\ Transcript' = Transcript /\ (Over => Over')
    BY <1>1, <1>2 DEF WireInv, Transcript, Over
  <1>4. /\ player'.text = player.text /\ player'.verdict = player.verdict
        /\ player'.moderatorRound = player.moderatorRound /\ player'.closed = player.closed
        /\ TerminalKnown(player') <=> TerminalKnown(player)
    BY DEF SameRecording, TerminalKnown
  <1>5. Recorded(player)'
    BY <1>1, <1>2, <1>3, <1>4 DEF Playing, Recorded
  <1>6. Playing'
    BY <1>4, <1>5 DEF Playing
  <1>7. rounds' \in Nat /\ completed' <= rounds' /\ PlayInv(player', debate', completed')
    BY <1>1, <1>2, WireFacts
  <1>8. PageInv(debate', rounds')
    BY <1>7, PlayGivesPage
  <1>9. Inv'
    BY <1>3, <1>6, <1>8 DEF Inv, NoLostWakeup
  <1>10. SameSchedule(player, player)
    BY DEF SameSchedule
  <1>11. Kept
    BY <1>1, <1>10, EndedIsDone DEF Kept
  <1>12. QED
    BY <1>9, <1>11

\* The callback of the timer.
LEMMA TimerFiresKeeps ==
    ASSUME Inv, TimerFires
    PROVE  Inv' /\ Kept
  <1>1. /\ timer
        /\ UNCHANGED <<wireVars, session, attached>>
    BY DEF TimerFires
  <1>2. PICK t : /\ t = Step(Now(player), ReducedMotion)
                 /\ player' = t.player /\ debate' = t.debate /\ timer' = t.more
    BY DEF TimerFires
  <1>3. Playing /\ WireInv
    BY <1>1 DEF Inv, AtRest
  <1>4. /\ t.more \in BOOLEAN
        /\ SameRecording(player, t.player)
        /\ PlayInv(t.player, t.debate, completed)
        /\ debate.currentRound <= t.debate.currentRound
        /\ ~t.more => ~HasReadyWork(t.player)
        /\ ~HasReadyWork(player) => t.debate = debate
    BY <1>2, <1>3, StepNow, ReducedMotionAssumption
  <1>5. QED
    BY <1>1, <1>2, <1>3, <1>4, PlayerKeeps

\* skipToLive, while a debate is played and when nothing is.
LEMMA GoToLiveKeeps ==
    ASSUME Inv, GoToLive
    PROVE  Inv' /\ Kept
  <1>1. timer' = FALSE /\ UNCHANGED <<wireVars, session, attached>>
    BY DEF GoToLive
  <1> DEFINE s == Now(player)
             t == Drain(s)
  <1>2. player' = t.player /\ debate' = t.debate
    BY DEF GoToLive
  <1>3. s.player = player /\ s.debate = debate
    BY NowIs
  <1> HIDE DEF s
  <1>4. CASE Playing
    <2>1. PlayInv(s.player, s.debate, completed)
      BY <1>3, <1>4, PlayingFacts DEF Inv
    <2>2. /\ SameRecording(s.player, t.player)
          /\ PlayInv(t.player, t.debate, completed)
          /\ ~HasReadyWork(t.player)
          /\ s.debate.currentRound <= t.debate.currentRound
          /\ ~HasReadyWork(s.player) => t.debate = s.debate
      BY <2>1, DrainKeeps
    <2> HIDE DEF t
    <2>3. QED
      BY <1>1, <1>2, <1>3, <1>4, <2>2, PlayerKeeps
  <1>5. CASE AtRest
    <2>1. player = Blank
      BY <1>5 DEF AtRest
    <2>2. t.player = s.player /\ t.debate = s.debate
      BY <1>3, <2>1, BlankIsParked
    <2>3. player' = player /\ debate' = debate /\ timer' = timer
      BY <1>1, <1>2, <1>3, <1>5, <2>2 DEF AtRest
    <2>4. UNCHANGED <<open, refused, rounds, completed, said, settled, verdict>>
      BY <1>1 DEF wireVars
    <2>5. AtRest'
      BY <1>1, <1>5, <2>3, <2>4 DEF AtRest, TurnsAreShownInOrder, DoneIsComplete, Transcript
    <2>6. Inv'
      BY <1>1, <2>3, <2>4, <2>5 DEF Inv, NoLostWakeup, WireInv
    <2>7. QED
      BY <2>3, <2>6, RoundStands DEF Kept
  <1>6. QED
    BY <1>4, <1>5 DEF Inv

\* A new question disposes of the old client, recording and debate.
LEMMA AskKeeps ==
    ASSUME Inv, Ask
    PROVE  Inv'
  <1>1. /\ session < MaxSessions /\ session' = session + 1 /\ attached' = {session'}
        /\ NewStream /\ player' = Blank /\ timer' = FALSE
        /\ debate' = ReduceConnecting(debate)
    BY DEF Ask
  <1>2. /\ completed' = 0 /\ rounds' = 0 /\ said' = Silence /\ verdict' = NoVerdict
        /\ WireInv'
    BY <1>1, NewStreamIsWire DEF NewStream
  <1>3. PlayInv(player', debate', completed')
    BY <1>1, <1>2, BlankPlays
  <1>4. player'.text = Transcript'
    <2>1. Transcript' = [r \in Rounds |-> [a \in Agents |-> Capped(0 * DeltaWords, MaxTurnChars)]]
      BY <1>2 DEF Transcript, Silence
    <2>2. Capped(0 * DeltaWords, MaxTurnChars) = 0
      BY CapOfProduct
    <2>3. QED
      BY <1>1, <2>1, <2>2, BlankFacts DEF Silence
  <1>5. Recorded(player)'
    BY <1>1, <1>3, <1>4, BlankFacts DEF Recorded
  <1>6. session' \in 0..MaxSessions /\ session' > 0
    BY <1>1, MaxSessionsAssumption DEF Inv
  <1>7. Playing'
    BY <1>1, <1>5, <1>6, BlankFacts DEF Playing
  <1>8. rounds' \in Nat /\ completed' <= rounds'
    BY <1>2
  <1>9. PageInv(debate', rounds')
    BY <1>3, <1>8, PlayGivesPage
  <1>10. NoLostWakeup' /\ timer' \in BOOLEAN
    BY <1>1, BlankFacts DEF NoLostWakeup
  <1>11. QED
    BY <1>2, <1>6, <1>7, <1>9, <1>10 DEF Inv

\* What is on display of a debate that is played: texts in the order of play,
\* each in full before the next begins, and all of them when it is done.
LEMMA PlayingShowsInOrder ==
    ASSUME Playing, WireInv
    PROVE  TurnsAreShownInOrder /\ DoneIsComplete
  <1> DEFINE p == player
             d == debate
             c == completed
             text == Transcript
  <1>1. /\ p \in Players /\ d \in Debates /\ c \in 0..MaxRounds /\ p.text = text
        /\ RecordInv(p, c) /\ ScheduleInv(p, c) /\ DisplayInv(p, d, c) /\ StageInv(p, d, c)
    BY PlayingFacts, WireFacts DEF PlayInv
  <1>2. p.verdict \in {NoVerdict, verdict}
    BY DEF Playing, Recorded
  <1>3. /\ Moderator \in Agents /\ Moderator = 0
        /\ \A a \in Agents : a = Moderator \/ a \in Panelists
        /\ \A a \in Panelists : a > 0 /\ a \in Nat
    BY ConstantFacts
  <1>4. p.cursor.kind = "panelist" => p.cursor.round \in Rounds /\ p.cursor.seat \in Panelists
                                      /\ p.cursor.round <= c + 1
                                      /\ (p.cursor.round = c + 1 => p.cursor.seat = 1)
    BY <1>1, CursorFacts DEF ScheduleInv
  <1>5. p.active # NoTurn => p.active.round \in Rounds /\ p.active.agent \in Agents
    BY <1>1, ActiveFacts DEF Turns
  <1> HIDE DEF p, d, c, text
  \* A panel cell on the page is played or being played.
  <1>6. ASSUME NEW q \in Rounds, NEW b \in Panelists, d.transcript[q][b] > 0
        PROVE  /\ q <= c
               /\ p.cursor.kind = "panelist" =>
                     Precedes(q, b, p.cursor.round, p.cursor.seat)
                         \/ (q = p.cursor.round /\ b = p.cursor.seat)
    <2>1. CASE Played(p, c, q, b)
      BY <1>1, <1>4, <2>1, ConstantFacts DEF Played, Precedes
    <2>2. CASE ~Played(p, c, q, b)
      <3>1. d.transcript[q][b] = Revealed(p, q, b)
        BY <1>1, <2>2 DEF DisplayInv
      <3>2. p.active # NoTurn /\ p.active.agent = b /\ p.active.round = q
        BY <1>6, <3>1 DEF Revealed
      <3>3. p.cursor.kind = "panelist"
        BY <1>1, <1>3, <3>2, CursorFacts DEF ScheduleInv
      <3>4. q <= c /\ q = p.cursor.round /\ b = p.cursor.seat
        BY <1>1, <3>2, <3>3 DEF ScheduleInv
      <3>5. QED
        BY <3>4
    <2>3. QED
      BY <2>1, <2>2
  \* A cell of the moderator's on the page is its answer of the last round.
  <1>7. ASSUME NEW q \in Rounds, d.transcript[q][Moderator] > 0
        PROVE  q = c + 1 /\ p.cursor.kind # "panelist"
    <2>1. CASE d.phase = "done"
      <3>1. p.verdict # NoVerdict /\ p.cursor.kind = "done"
        BY <1>1, <2>1 DEF StageInv, Terminal
      <3>2. p.text[q][Moderator] > 0
        BY <1>1, <1>7, <2>1 DEF DisplayInv
      <3>3. ~(q <= c)
        BY <1>1, <3>2 DEF RecordInv
      <3>4. ~(q > c /\ q # c + 1)
        BY <1>1, <1>3, <3>1, <3>2 DEF RecordInv
      <3>5. QED
        BY <1>1, <3>1, <3>3, <3>4, ConstantFacts
    <2>2. CASE d.phase # "done"
      <3>1. p.active # NoTurn /\ p.active.agent = Moderator /\ p.active.round = q
        BY <1>1, <1>7, <2>2 DEF DisplayInv, Revealed
      <3>2. p.cursor.kind = "moderator"
        BY <1>1, <1>3, <1>4, <3>1, CursorFacts DEF ScheduleInv
      <3>3. QED
        BY <1>1, <3>1, <3>2 DEF ScheduleInv
    <2>3. QED
      BY <2>1, <2>2
  <1>8. ASSUME NEW r \in Rounds, r <= c
        PROVE  d.transcript[r][Moderator] = text[r][Moderator]
    <2>1. text[r][Moderator] = 0
      BY <1>1, <1>8 DEF RecordInv
    <2>2. CASE d.phase = "done"
      BY <1>1, <2>2 DEF DisplayInv
    <2>3. CASE d.phase # "done"
      <3>1. ~(p.active # NoTurn /\ p.active.agent = Moderator /\ p.active.round = r)
        <4>1. SUFFICES ASSUME p.active # NoTurn, p.active.agent = Moderator, p.active.round = r
                       PROVE  FALSE
          OBVIOUS
        <4>2. p.cursor.kind = "moderator"
          BY <1>1, <1>3, <1>4, <4>1, CursorFacts DEF ScheduleInv
        <4>3. r = c + 1
          BY <1>1, <4>1, <4>2 DEF ScheduleInv
        <4>4. QED
          BY <1>1, <1>8, <4>3, ConstantFacts
      <3>2. QED
        BY <1>1, <2>1, <2>3, <3>1 DEF DisplayInv, Revealed
    <2>4. QED
      BY <2>2, <2>3
  <1>9. ASSUME NEW r \in Rounds, NEW q \in Rounds, NEW a \in Agents, NEW b \in Agents,
               Precedes(r, a, q, b), d.transcript[q][b] > 0
        PROVE  d.transcript[r][a] = text[r][a]
    <2>1. r <= c
      <3>1. CASE b = Moderator
        <4>1. q = c + 1
          BY <1>7, <1>9, <3>1
        <4>2. ~(a < b)
          BY <1>3, <3>1, ConstantFacts
        <4>3. QED
          BY <1>1, <1>9, <4>1, <4>2, ConstantFacts DEF Precedes
      <3>2. CASE b \in Panelists
        BY <1>1, <1>6, <1>9, <3>2, ConstantFacts DEF Precedes
      <3>3. QED
        BY <1>3, <3>1, <3>2
    <2>2. CASE a = Moderator
      BY <1>8, <2>1, <2>2
    <2>3. CASE a \in Panelists
      <3>1. Played(p, c, r, a)
        <4>1. CASE p.cursor.kind # "panelist"
          BY <2>1, <4>1 DEF Played
        <4>2. CASE p.cursor.kind = "panelist"
          <5>1. b \in Panelists
            BY <1>3, <1>7, <1>9, <4>2
          <5>2. Precedes(q, b, p.cursor.round, p.cursor.seat)
                    \/ (q = p.cursor.round /\ b = p.cursor.seat)
            BY <1>6, <1>9, <4>2, <5>1
          <5>3. Precedes(r, a, p.cursor.round, p.cursor.seat)
            BY <1>4, <1>9, <2>3, <4>2, <5>1, <5>2, ConstantFacts DEF Precedes
          <5>4. QED
            BY <4>2, <5>3 DEF Played
        <4>3. QED
          BY <4>1, <4>2
      <3>2. QED
        BY <1>1, <2>3, <3>1 DEF DisplayInv
    <2>4. QED
      BY <1>3, <2>2, <2>3
  <1>10. TurnsAreShownInOrder
    BY <1>9 DEF TurnsAreShownInOrder, d, text
  <1>11. DoneIsComplete
    <2>1. SUFFICES ASSUME d.phase = "done"
                   PROVE  verdict # NoVerdict /\ d.verdict = verdict /\ d.transcript = text
      BY DEF DoneIsComplete, d, text
    <2>2. p.verdict # NoVerdict /\ d.verdict = p.verdict /\ p.cursor.kind = "done"
          /\ p.active = NoTurn
      BY <1>1, <2>1 DEF StageInv, Terminal, ScheduleInv
    <2>3. ASSUME NEW r \in Rounds, NEW a \in Agents PROVE d.transcript[r][a] = text[r][a]
      <3>1. CASE a = Moderator
        BY <1>1, <2>1, <3>1 DEF DisplayInv
      <3>2. CASE a \in Panelists /\ r <= c
        BY <1>1, <2>2, <3>2 DEF DisplayInv, Played
      <3>3. CASE a \in Panelists /\ ~(r <= c)
        <4>1. d.transcript[r][a] = 0
          BY <1>1, <2>2, <3>3 DEF DisplayInv, Played, Revealed
        <4>2. a # Moderator /\ r > c
          BY <1>1, <1>3, <3>3, ConstantFacts
        <4>3. text[r][a] = 0
          BY <1>1, <2>2, <4>2 DEF RecordInv
        <4>4. QED
          BY <4>1, <4>3
      <3>4. QED
        BY <1>3, <3>1, <3>2, <3>3
    <2>4. d.transcript \in Texts /\ text \in Texts
      BY <1>1 DEF Debates, Players
    <2>5. \A f, g \in Texts : (\A r \in Rounds, b \in Agents : f[r][b] = g[r][b]) => f = g
      BY DEF Texts
    <2>6. d.transcript = text
      BY <2>3, <2>4, <2>5
    <2>7. QED
      BY <1>2, <2>2, <2>6
  <1>12. QED
    BY <1>10, <1>11

\* The reducer's cancel: a debate that has ended is left alone.
LEMMA ReduceCancelFields ==
    ASSUME NEW d \in Debates
    PROVE  LET e == ReduceCancel(d)
           IN  /\ e \in Debates
               /\ d.phase \in Terminal => e = d
               /\ d.phase \notin Terminal => e.phase = "stopped" /\ e.activeSpeakers = {}
               /\ e.currentRound = d.currentRound /\ e.transcript = d.transcript
               /\ e.verdict = d.verdict /\ e.errors = d.errors
  BY DEF ReduceCancel, Debates, Terminal

\* Stop: the player is reset, what is on display stays.
LEMMA StopKeeps ==
    ASSUME Inv, Stop
    PROVE  Inv' /\ Kept
  <1> DEFINE e == ReduceCancel(debate)
  <1>1. /\ session > 0 /\ player' = Blank /\ timer' = FALSE /\ attached' = {} /\ debate' = e
        /\ session' = session
        /\ UNCHANGED <<open, refused, rounds, completed, said, settled, verdict>>
    BY DEF Stop, wireVars
  <1>2. debate \in Debates /\ PageInv(debate, rounds)
    BY DEF Inv, PageInv
  <1>3. /\ e \in Debates
        /\ debate.phase \in Terminal => e = debate
        /\ debate.phase \notin Terminal => e.phase = "stopped" /\ e.activeSpeakers = {}
        /\ e.currentRound = debate.currentRound /\ e.transcript = debate.transcript
        /\ e.verdict = debate.verdict /\ e.errors = debate.errors
    BY <1>2, ReduceCancelFields
  <1> HIDE DEF e
  <1>4. e.activeSpeakers = {} /\ e.phase \in Terminal
        /\ (e.phase # "stopped" => e = debate)
    <2>1. CASE debate.phase \in Terminal
      BY <1>2, <1>3, <2>1 DEF PageInv, Terminal
    <2>2. CASE debate.phase \notin Terminal
      BY <1>3, <2>2 DEF Terminal
    <2>3. QED
      BY <2>1, <2>2
  <1>5. TurnsAreShownInOrder /\ DoneIsComplete
    BY PlayingShowsInOrder DEF Inv, AtRest
  <1>6. PageInv(debate', rounds')
    <2>1. debate' = e /\ rounds' = rounds
      BY <1>1
    <2>2. PageInv(e, rounds)
      BY <1>2, <1>3, <1>4 DEF PageInv, Terminal
    <2>3. QED
      BY <2>1, <2>2
  <1>7. AtRest'
    <2>1. TurnsAreShownInOrder'
      BY <1>1, <1>3, <1>5 DEF TurnsAreShownInOrder, Transcript
    <2>2. DoneIsComplete'
      BY <1>1, <1>3, <1>4, <1>5 DEF DoneIsComplete, Transcript
    <2>3. debate'.phase \notin Live /\ debate'.phase # "idle" /\ session' # 0
      BY <1>1, <1>4 DEF Terminal, Live
    <2>4. QED
      BY <1>1, <1>4, <2>1, <2>2, <2>3 DEF AtRest
  <1>8. NoLostWakeup' /\ WireInv'
    BY <1>1, BlankFacts DEF NoLostWakeup, Inv, WireInv
  <1>9. Inv'
    BY <1>1, <1>6, <1>7, <1>8 DEF Inv
  <1>10. Kept
    BY <1>1, <1>3, RoundStands DEF Kept
  <1>11. QED
    BY <1>9, <1>10

\* A page that was just loaded.
LEMMA InitInv == Init => Inv
  <1> SUFFICES ASSUME Init PROVE Inv
    OBVIOUS
  <1>1. /\ session = 0 /\ attached = {} /\ player = Blank /\ timer = FALSE
        /\ debate = InitialState
    BY DEF Init
  <1>2. WireInv
    BY ConstantFacts DEF Init, Wire!Init, WireInv, Verdicts, Agents, Rounds, NoVerdict
  <1>3. /\ debate.phase = "idle" /\ debate.currentRound = 0 /\ debate.transcript = Silence
        /\ debate.activeSpeakers = {} /\ debate.verdict = NoVerdict /\ debate.errors = <<>>
        /\ debate \in Debates
    <2>1. NoVerdict \in Verdicts /\ <<>> \in Seq(Errors)
      BY DEF Verdicts
    <2>2. Silence \in Texts
      BY BlankFacts
    <2> HIDE DEF Silence
    <2>3. QED
      BY <1>1, <2>1, <2>2 DEF InitialState, Debates
  <1>4. \A r \in Rounds, a \in Agents : ~(debate.transcript[r][a] > 0)
    BY <1>3, BlankFacts
  <1>5. TurnsAreShownInOrder /\ DoneIsComplete
    BY <1>3, <1>4 DEF TurnsAreShownInOrder, DoneIsComplete
  <1>6. AtRest
    BY <1>1, <1>3, <1>5 DEF AtRest, Live
  <1>7. Len(debate.errors) <= MaxErrors
    BY <1>3, ConstantFacts
  <1>8. PageInv(debate, rounds)
    BY <1>3, <1>4, <1>7 DEF PageInv
  <1>9. NoLostWakeup /\ session \in 0..MaxSessions
    BY <1>1, BlankFacts, MaxSessionsAssumption DEF NoLostWakeup
  <1>10. QED
    BY <1>1, <1>2, <1>6, <1>8, <1>9 DEF Inv

\* No frame, timer, click or close breaks the invariant, and none but a new
\* question changes how a debate has ended.
LEMMA NextKeeps ==
    ASSUME Inv, [Next]_vars
    PROVE  Inv' /\ (session' = session => Kept)
  <1>1. CASE Ask
    <2>1. session' # session
      BY <1>1, MaxSessionsAssumption DEF Ask, Inv
    <2>2. QED
      BY <1>1, <2>1, AskKeeps
  <1>2. CASE Stop
    BY <1>2, StopKeeps
  <1>3. CASE GoToLive
    BY <1>3, GoToLiveKeeps
  <1>4. CASE TimerFires
    BY <1>4, TimerFiresKeeps
  <1>5. CASE Arrival
    <2>1. CASE Accepted
      BY <2>1, AcceptedKeeps
    <2>2. CASE Refused
      BY <2>2, RefusedKeeps
    <2>3. ASSUME NEW a \in Agents, Token(a) PROVE Inv' /\ Kept
      BY <2>3, TokenKeeps
    <2>4. ASSUME NEW a \in Agents, Failed(a) PROVE Inv' /\ Kept
      BY <2>4, FailedKeeps
    <2>5. ASSUME NEW p \in Panelists, PersonaDone(p) PROVE Inv' /\ Kept
      BY <2>5, PersonaDoneKeeps
    <2>6. CASE RoundComplete
      BY <2>6, RoundCompleteKeeps
    <2>7. CASE Verdict
      BY <2>7, VerdictKeeps
    <2>8. CASE VerdictTooLarge
      BY <2>8, VerdictTooLargeKeeps
    <2>9. CASE Cut
      BY <2>9, CutKeeps
    <2>10. ASSUME NEW i \in 1..MaxSessions, SocketClosed(i) PROVE Inv' /\ Kept
      BY <2>10, SocketClosedKeeps
    <2>11. QED
      BY <1>5, <2>1, <2>2, <2>3, <2>4, <2>5, <2>6, <2>7, <2>8, <2>9, <2>10 DEF Arrival
  <1>6. CASE UNCHANGED vars
    <2>1. UNCHANGED <<open, refused, rounds, completed, said, settled, verdict,
                      session, attached, player, timer, debate>>
      BY <1>6 DEF vars, wireVars
    <2>2. Inv'
      BY <2>1 DEF Inv, WireInv, Playing, Recorded, AtRest, Over, Transcript,
                  TurnsAreShownInOrder, DoneIsComplete, NoLostWakeup
    <2>3. QED
      BY <2>1, <2>2, RoundStands DEF Kept
  <1>7. QED
    BY <1>1, <1>2, <1>3, <1>4, <1>5, <1>6 DEF Next

\* The inductive invariant holds of every behaviour of the client, player and
\* reducer, for any number of seats, rounds and questions, any caps and any
\* lengths of texts.
THEOREM InvHolds == Spec => []Inv
  <1>1. Init => Inv
    BY InitInv
  <1>2. Inv /\ [Next]_vars => Inv'
    BY NextKeeps
  <1>3. QED
    BY <1>1, <1>2, PTL DEF Spec

\* Every variable keeps its type: texts and the list of errors stay within
\* their caps (appendText, appendDelta, withError), and the cursor on the
\* panel.
THEOREM TypeOKHolds == Spec => []TypeOK
  <1>1. Inv => TypeOK
    <2> SUFFICES ASSUME Inv PROVE TypeOK
      OBVIOUS
    <2>1. session \in 0..MaxSessions /\ timer \in BOOLEAN /\ debate \in Debates
          /\ Len(debate.errors) <= MaxErrors /\ WireInv /\ (Playing \/ AtRest)
      BY DEF Inv, PageInv
    <2>2. attached \subseteq 1..session
      <3>1. session \in Nat
        BY <2>1, MaxSessionsAssumption
      <3>2. session > 0 => session \in 1..session
        BY <3>1
      <3>3. QED
        BY <2>1, <3>2 DEF Playing, AtRest
    <2>3. player \in Players /\ player.active.pos <= player.active.text
          /\ player.roundComplete \subseteq 1..MaxRounds
      <3>1. CASE Playing
        <4>1. /\ player \in Players /\ ScheduleInv(player, completed)
              /\ player.roundComplete = 1..completed /\ completed \in 0..MaxRounds
          BY <2>1, <3>1, PlayingFacts DEF PlayInv, RecordInv
        <4>2. player.active = NoTurn => player.active.pos <= player.active.text
          BY DEF NoTurn
        <4>3. QED
          BY <4>1, <4>2, ConstantFacts DEF ScheduleInv
      <3>2. CASE AtRest
        BY <3>2, BlankFacts DEF AtRest, NoTurn
      <3>3. QED
        BY <2>1, <3>1, <3>2
    <2>4. /\ player.text \in [Rounds -> [Agents -> 0..MaxTurnChars]]
          /\ player.moderatorRound \in 0..(MaxRounds + 1)
      BY <2>3, ConstantFacts DEF Players, Texts, Caps
    <2>5. /\ debate.phase \in {"idle"} \union Live \union Terminal
          /\ debate.transcript \in [Rounds -> [Agents -> 0..MaxCellChars]]
          /\ debate.activeSpeakers \subseteq Agents
      BY <2>1, ConstantFacts DEF Debates, Texts, Caps
    <2>6. QED
      BY <2>1, <2>2, <2>3, <2>4, <2>5, CursorFacts DEF TypeOK
  <1>2. QED
    BY <1>1, InvHolds, PTL

\* While a session's client listens, the recording is exactly what its own
\* socket carried: dispose in useDebate.ask leaves nothing of an earlier
\* session.
THEOREM RecordingHolds == Spec => []RecordingIsOfThisSession
  <1>1. Inv => RecordingIsOfThisSession
    BY ListeningFacts DEF RecordingIsOfThisSession, RecordInv
  <1>2. QED
    BY <1>1, InvHolds, PTL

\* activeSpeakers never holds two: flushPending dispatches persona_done before
\* the next speaker's first token.
THEOREM OneSpeakerHolds == Spec => []OneSpeaker
  <1>1. Inv => OneSpeaker
    <2> SUFFICES ASSUME Inv PROVE OneSpeaker
      OBVIOUS
    <2> DEFINE S == debate.activeSpeakers
    <2>1. \A a, b \in S : a = b
      BY DEF Inv, PageInv
    <2>2. CASE S = {}
      BY <2>2, FS_EmptySet DEF OneSpeaker
    <2>3. CASE S # {}
      <3>1. PICK a : S = {a}
        BY <2>1, <2>3
      <3>2. Cardinality(S) = 1
        BY <3>1, FS_Singleton
      <3>3. QED
        BY <3>2 DEF OneSpeaker
    <2>4. QED
      BY <2>2, <2>3
  <1>2. QED
    BY <1>1, InvHolds, PTL

\* However the panel's tokens were interleaved and whenever the user skips to
\* live, a turn is shown only when all earlier ones were shown in full (step,
\* revealStep).
THEOREM ShownInOrderHolds == Spec => []TurnsAreShownInOrder
  <1>1. Inv => TurnsAreShownInOrder
    BY PlayingShowsInOrder DEF Inv, AtRest
  <1>2. QED
    BY <1>1, InvHolds, PTL

\* A debate shown as done has been shown in full: the verdict's input is
\* dispatched behind the moderator's last word (revealStep).
THEOREM DoneHolds == Spec => []DoneIsComplete
  <1>1. Inv => DoneIsComplete
    BY PlayingShowsInOrder DEF Inv, AtRest
  <1>2. QED
    BY <1>1, InvHolds, PTL

\* isAtLive offers "go to live" exactly if a step would change anything: it
\* mirrors prepareNextTurn's decision tree.
THEOREM AtLiveHolds == Spec => []AtLiveMirrorsStep
  <1>1. Inv => AtLiveMirrorsStep
    <2> SUFFICES ASSUME Inv PROVE AtLiveMirrorsStep
      OBVIOUS
    <2> DEFINE s == Step(Now(player), ReducedMotion)
    <2>1. CASE Playing
      <3>1. /\ HasReadyWork(player) => s.player # player
            /\ ~HasReadyWork(player) => s.player = player /\ s.debate = debate
        BY <2>1, StepNow, ReducedMotionAssumption DEF Inv
      <3> HIDE DEF s
      <3>2. HasReadyWork(player) <=> (s.player # player \/ s.debate # debate)
        BY <3>1
      <3>3. QED
        BY <3>2 DEF AtLiveMirrorsStep, s
    <2>2. CASE AtRest
      <3>1. player = Blank /\ ~HasReadyWork(player)
        BY <2>2, BlankFacts DEF AtRest
      <3>2. s.player = player /\ s.debate = debate
        <4> DEFINE now == Now(player)
        <4>1. now.player = player /\ now.debate = debate
          BY NowIs
        <4>2. now.player = Blank
          BY <3>1, <4>1
        <4> HIDE DEF now
        <4>3. Step(now, ReducedMotion).player = now.player
              /\ Step(now, ReducedMotion).debate = now.debate
          BY <4>2, BlankIsParked, ReducedMotionAssumption
        <4>4. QED
          BY <4>1, <4>3 DEF now
      <3> HIDE DEF s
      <3>3. HasReadyWork(player) <=> (s.player # player \/ s.debate # debate)
        BY <3>1, <3>2
      <3>4. QED
        BY <3>3 DEF AtLiveMirrorsStep, s
    <2>3. QED
      BY <2>1, <2>2 DEF Inv
  <1>2. QED
    BY <1>1, InvHolds, PTL

\* With no timer armed there is nothing left to play: every way a callback can
\* end arms the timer or leaves the scheduler parked (pump, skipToLive, reset).
THEOREM NoLostWakeupHolds == Spec => []NoLostWakeup
  <1>1. Inv => NoLostWakeup
    BY DEF Inv
  <1>2. QED
    BY <1>1, InvHolds, PTL

\* No timer, late frame, late close or click other than a new question changes
\* how a debate has ended (debateReducer.ts reduceStatus, cancel;
\* DebatePlayer.reset).
THEOREM EndIsFinalHolds == Spec => EndIsFinal
  <1>1. Inv /\ [Next]_vars =>
           [debate.phase \in Terminal /\ session' = session =>
               /\ debate'.phase = debate.phase
               /\ debate'.transcript = debate.transcript
               /\ debate'.verdict = debate.verdict]_vars
    BY NextKeeps DEF Kept
  <1>2. QED
    BY <1>1, InvHolds, PTL DEF Spec, EndIsFinal

=============================================================================
