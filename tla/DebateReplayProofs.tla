------------------------- MODULE DebateReplayProofs -------------------------
(***************************************************************************)
(* The replay of a recorded debate (DebatePlayer.step and what it calls),  *)
(* for every panel, number of rounds, cap and length of the texts: what    *)
(* the reducer makes of each input, what one step of the scheduler does to *)
(* a player and its debate, and that the loop of skipToLive ends.          *)
(*                                                                         *)
(* PlayInv(p, d, c) is what ties a player p to the debate d it dispatches  *)
(* to, when c rounds of the stream are complete. StepKeeps: a step of the  *)
(* scheduler keeps it, parks only when nothing is left to play, and else   *)
(* makes progress. DrainKeeps: so does a run of steps, which ends by       *)
(* itself. What arrives from the socket meanwhile is in                    *)
(* DebatePlayerProofs.                                                     *)
(***************************************************************************)
EXTENDS DebatePlayer, WellFoundedInduction, TLAPS

-----------------------------------------------------------------------------
(* The types. *)

\* Lengths of recorded and shown texts: both caps are the same.
Caps == 0..MaxTurnChars

\* A text for every agent and round.
Texts == [Rounds -> [Agents -> Caps]]

\* No verdict, or its length.
Verdicts == Nat \union {NoVerdict}

\* Errors of the stream and of the client; NoError stands for the absence of
\* one.
Errors == [persona : {NoPersona} \union Agents, message : Int] \ {NoError}

\* What error frames about panelists leave in personaErrors.
PersonaErrors == [persona : Panelists, message : Int]

\* Turns that may be played.
Turns == [agent : Agents, round : Rounds, text : Caps, pos : Caps]

\* Where the schedule may stand.
Cursors ==
    [kind : {"panelist"}, round : Rounds, seat : Panelists]
        \union {ModeratorTurn, NothingLeft}

\* The fields of a player.
Players ==
    [text : Texts, roundComplete : SUBSET Rounds,
     personaErrors : [Panelists -> {NoError} \union PersonaErrors],
     verdict : Verdicts, sessionError : {NoError, SessionLevel, ModeratorFailed},
     closed : BOOLEAN, moderatorRound : {0} \union Rounds,
     cursor : Cursors, active : {NoTurn} \union Turns,
     pendingDone : {NoDone} \union (Panelists \X Rounds),
     pendingRoundComplete : {0} \union Rounds, pendingErrors : Seq(PersonaErrors)]

\* The states of the reducer.
Debates ==
    [phase : {"idle"} \union Live \union Terminal, currentRound : {0} \union Rounds,
     transcript : Texts, activeSpeakers : SUBSET Agents, verdict : Verdicts,
     errors : Seq(Errors)]

-----------------------------------------------------------------------------
(* Numbers and sequences. *)

\* What the assumptions say of the sets the model is built from.
LEMMA ConstantFacts ==
    /\ N \in Nat /\ N > 0 /\ MaxRounds \in Nat /\ MaxRounds >= 2
    /\ Panelists = 1..N /\ Moderator = 0 /\ Agents = 0..N
    /\ Rounds = 1..(MaxRounds + 1) /\ NoVerdict = -1
    /\ MaxTurnChars \in Nat /\ MaxTurnChars > 0 /\ MaxCellChars = MaxTurnChars
    /\ MaxErrors \in Nat /\ MaxErrors > 0
  BY NAssumption, MaxRoundsAssumption, CapAssumption, MaxErrorsAssumption
     DEF Panelists, Moderator, Agents, Rounds, NoVerdict, Wire!Personas, Wire!Moderator,
         Wire!Agents, Wire!Rounds, Wire!NoVerdict

\* Every set of natural numbers that is not empty has a least element: what
\* takes the place of an induction in this module.
LEMMA LeastElement ==
    ASSUME NEW T, T \subseteq Nat, T # {}
    PROVE  \E m \in T : \A n \in T : m <= n
  <1>1. \E x \in T : \A y \in T : ~(<<y, x>> \in OpToRel(<, Nat))
    BY NatLessThanWellFounded, WFMin
  <1>2. \A x, y \in T : <<y, x>> \in OpToRel(<, Nat) <=> y < x
    BY DEF OpToRel
  <1>3. PICK m \in T : \A n \in T : ~(n < m)
    BY <1>1, <1>2
  <1>4. \A n \in T : n \in Nat /\ m \in Nat
    OBVIOUS
  <1>5. \A n \in T : m <= n
    BY <1>3, <1>4
  <1>6. QED
    BY <1>5

\* A sequence with elements has a first one.
LEMMA LenOfNonEmpty ==
    ASSUME NEW S, NEW s \in Seq(S)
    PROVE  s # <<>> <=> Len(s) >= 1
  OBVIOUS

\* A sequence of at most one element is empty or its element.
LEMMA SeqOfOne ==
    ASSUME NEW S, NEW s \in Seq(S)
    PROVE  s # <<>> /\ Len(s) <= 1 => s[1] \in S /\ s = <<s[1]>>
  <1>1. Len(s) \in Nat
    OBVIOUS
  <1>2. Len(s) >= 1 /\ Len(s) <= 1 => Len(s) = 1
    BY <1>1
  <1>3. ASSUME Len(s) = 1 PROVE s[1] \in S /\ s = <<s[1]>>
    <2>1. \A i \in 1..Len(s) : s[i] \in S
      OBVIOUS
    <2>2. s[1] \in S
      BY <2>1, <1>3
    <2>3. s = <<s[1]>>
      BY <1>3
    <2>4. QED
      BY <2>2, <2>3
  <1>4. QED
    BY <1>2, <1>3, LenOfNonEmpty

-----------------------------------------------------------------------------
(* The reducer. *)

\* The capped list of errors (debateReducer.ts withError) is never empty and
\* ends in the error that was added.
LEMMA WithErrorKeepsNewest ==
    ASSUME NEW d \in Debates, NEW err \in Errors, Len(d.errors) <= MaxErrors
    PROVE  /\ WithError(d, err) \in Seq(Errors)
           /\ WithError(d, err) # <<>>
           /\ Len(WithError(d, err)) <= MaxErrors
           /\ WithError(d, err)[Len(WithError(d, err))] = err
  <1> DEFINE errors == d.errors
             all == Append(errors, err)
  <1>1. errors \in Seq(Errors) /\ Len(errors) \in Nat
    BY DEF Debates
  <1>2. all \in Seq(Errors) /\ Len(all) = Len(errors) + 1 /\ all[Len(all)] = err
    BY <1>1
  <1>3. CASE Len(all) > MaxErrors
    <2>1. WithError(d, err) = Tail(all)
      BY <1>3 DEF WithError
    <2>2. Len(all) >= 2
      BY <1>3, ConstantFacts, <1>2, <1>1
    <2> HIDE DEF all
    <2>3. Tail(all) \in Seq(Errors) /\ Len(Tail(all)) = Len(all) - 1
      BY <1>2, <2>2
    <2>4. Tail(all)[Len(Tail(all))] = all[Len(all)]
      BY <1>2, <2>2
    <2>5. Len(Tail(all)) >= 1 /\ Len(Tail(all)) <= MaxErrors
      BY <2>2, <2>3, <1>1, <1>2, ConstantFacts
    <2>6. Tail(all) # <<>>
      BY <2>3, <2>5, LenOfNonEmpty
    <2>7. QED
      BY <2>1, <2>3, <2>4, <2>5, <2>6, <1>2
  <1>4. CASE ~(Len(all) > MaxErrors)
    <2>1. WithError(d, err) = all
      BY <1>4 DEF WithError
    <2> HIDE DEF all
    <2>2. QED
      BY <2>1, <1>1, <1>2, <1>4, ConstantFacts
  <1>5. QED
    BY <1>3, <1>4

\* The reducer, input by input: which fields of the debate each changes, and to
\* what (debateReducer.ts reduceEvent, reduceStatus).
LEMMA ReduceTokenFields ==
    ASSUME NEW d \in Debates, NEW a \in Agents, NEW r \in Rounds, NEW w \in Nat
    PROVE  /\ ReduceToken(d, a, r, w) \in Debates
           /\ ReduceToken(d, a, r, w).phase = IF a = Moderator THEN "moderating" ELSE "debating"
           /\ ReduceToken(d, a, r, w).currentRound = r
           /\ ReduceToken(d, a, r, w).transcript[r][a] =
                 Capped(d.transcript[r][a] + w, MaxCellChars)
           /\ \A q \in Rounds, b \in Agents : ~(q = r /\ b = a) =>
                 ReduceToken(d, a, r, w).transcript[q][b] = d.transcript[q][b]
           /\ ReduceToken(d, a, r, w).activeSpeakers = d.activeSpeakers \union {a}
           /\ ReduceToken(d, a, r, w).verdict = d.verdict
           /\ ReduceToken(d, a, r, w).errors = d.errors
  <1>1. AppendDelta(d.transcript, a, r, w) \in Texts
    <2>1. ASSUME NEW n \in Caps PROVE Capped(n + w, MaxCellChars) \in Caps
      BY ConstantFacts DEF Caps, Capped
    <2>2. QED
      BY <2>1 DEF AppendDelta, Debates, Texts
  <1>2. /\ AppendDelta(d.transcript, a, r, w)[r][a] = Capped(d.transcript[r][a] + w, MaxCellChars)
        /\ \A q \in Rounds, b \in Agents : ~(q = r /\ b = a) =>
              AppendDelta(d.transcript, a, r, w)[q][b] = d.transcript[q][b]
    BY DEF AppendDelta, Debates, Texts
  <1>3. ReduceToken(d, a, r, w).transcript = AppendDelta(d.transcript, a, r, w)
    BY DEF ReduceToken, Debates
  <1>4. /\ ReduceToken(d, a, r, w) \in Debates
        /\ ReduceToken(d, a, r, w).phase = IF a = Moderator THEN "moderating" ELSE "debating"
        /\ ReduceToken(d, a, r, w).currentRound = r
        /\ ReduceToken(d, a, r, w).activeSpeakers = d.activeSpeakers \union {a}
        /\ ReduceToken(d, a, r, w).verdict = d.verdict
        /\ ReduceToken(d, a, r, w).errors = d.errors
    BY <1>1 DEF ReduceToken, Debates, Live, Terminal
  <1>5. QED
    BY <1>2, <1>3, <1>4

\* reduceEvent, persona_done: one speaker less.
LEMMA ReducePersonaDoneFields ==
    ASSUME NEW d \in Debates, NEW p
    PROVE  LET e == ReducePersonaDone(d, p)
           IN  /\ e \in Debates
               /\ e.phase = d.phase /\ e.currentRound = d.currentRound
               /\ e.transcript = d.transcript /\ e.verdict = d.verdict /\ e.errors = d.errors
               /\ e.activeSpeakers = d.activeSpeakers \ {p}
  BY DEF ReducePersonaDone, Debates

\* reduceEvent, round_complete: the round is set.
LEMMA ReduceRoundCompleteFields ==
    ASSUME NEW d \in Debates, NEW r \in Rounds
    PROVE  LET e == ReduceRoundComplete(d, r)
           IN  /\ e \in Debates
               /\ e.phase = d.phase /\ e.currentRound = r
               /\ e.transcript = d.transcript /\ e.verdict = d.verdict /\ e.errors = d.errors
               /\ e.activeSpeakers = d.activeSpeakers
  BY DEF ReduceRoundComplete, Debates

\* reduceEvent, verdict: the debate is done, the moderator stops speaking.
LEMMA ReduceVerdictFields ==
    ASSUME NEW d \in Debates, NEW v \in Verdicts
    PROVE  LET e == ReduceVerdict(d, v)
           IN  /\ e \in Debates
               /\ e.phase = "done" /\ e.currentRound = d.currentRound
               /\ e.transcript = d.transcript /\ e.verdict = v /\ e.errors = d.errors
               /\ e.activeSpeakers = d.activeSpeakers \ {Moderator}
  BY DEF ReduceVerdict, Debates, Terminal

\* reduceEvent, error: fatal without a persona and for the moderator, else one
\* speaker less.
LEMMA ReduceErrorFields ==
    ASSUME NEW d \in Debates, NEW err \in Errors, Len(d.errors) <= MaxErrors
    PROVE  LET e == ReduceError(d, err)
               fatal == err.persona \in {NoPersona, Moderator}
           IN  /\ e \in Debates
               /\ e.phase = IF fatal THEN "error" ELSE d.phase
               /\ e.currentRound = d.currentRound
               /\ e.transcript = d.transcript /\ e.verdict = d.verdict
               /\ e.errors = WithError(d, err)
               /\ e.activeSpeakers = IF fatal THEN {} ELSE d.activeSpeakers \ {err.persona}
  BY WithErrorKeepsNewest DEF ReduceError, Debates, Terminal

\* reduceStatus, closed, of a debate that has not ended.
LEMMA ReduceClosedFields ==
    ASSUME NEW d \in Debates, Len(d.errors) <= MaxErrors, d.phase \notin Terminal
    PROVE  LET e == ReduceClosed(d)
           IN  /\ e \in Debates
               /\ e.phase = "error"
               /\ e.currentRound = d.currentRound
               /\ e.transcript = d.transcript /\ e.verdict = d.verdict
               /\ e.errors = WithError(d, Disconnected)
               /\ e.activeSpeakers = {}
  <1>1. Disconnected \in Errors
    BY DEF Disconnected, Errors, Error, NoError, NoPersona
  <1>2. QED
    BY <1>1, WithErrorKeepsNewest DEF ReduceClosed, Debates, Terminal

\* Without a deferred error nothing is dispatched.
LEMMA FoldOfNone ==
    ASSUME NEW d
    PROVE  FoldLeft(ReduceError, d, <<>>) = d
  <1> DEFINE F(g) == [s \in SUBSET {} |-> IF s = {} THEN d
                         ELSE ReduceError(g[s \ {Max(s)}], <<>>[Max(s)])]
             iter == CHOOSE g : g = F(g)
  <1>1. [s \in SUBSET {} |-> d] = F([s \in SUBSET {} |-> d])
    OBVIOUS
  <1>2. iter = F(iter)
    BY <1>1
  <1>3. iter[{}] = d
    BY <1>2
  <1>4. FoldLeft(ReduceError, d, <<>>) = iter[{}]
    BY DEF FoldLeft, MapThenFoldSet
  <1>5. QED
    BY <1>3, <1>4

\* One deferred error is one input of the reducer.
LEMMA FoldOfOne ==
    ASSUME NEW d, NEW e
    PROVE  FoldLeft(ReduceError, d, <<e>>) = ReduceError(d, e)
  <1> DEFINE F(g) == [s \in SUBSET {1} |-> IF s = {} THEN d
                         ELSE ReduceError(g[s \ {Max(s)}], <<e>>[Max(s)])]
             iter == CHOOSE g : g = F(g)
             h == [s \in SUBSET {1} |-> IF s = {} THEN d ELSE ReduceError(d, e)]
  <1>1. Max({1}) = 1
    BY DEF Max
  <1>2. h = F(h)
    <2>1. ASSUME NEW s \in SUBSET {1} PROVE h[s] = F(h)[s]
      <3>1. s = {} \/ s = {1}
        OBVIOUS
      <3>2. CASE s = {}
        BY <3>2
      <3>3. CASE s = {1}
        <4>1. h[s \ {1}] = d /\ h[s] = ReduceError(d, e)
          BY <3>3
        <4>2. QED
          BY <4>1, <3>3, <1>1
      <3>4. QED
        BY <3>1, <3>2, <3>3
    <2>2. QED
      BY <2>1
  <1>3. iter = F(iter)
    BY <1>2
  <1>4. iter[{}] = d
    BY <1>3
  <1>5. iter[{1}] = ReduceError(d, e)
    <2> HIDE DEF iter
    <2>1. iter[{1}] = ReduceError(iter[{1} \ {Max({1})}], <<e>>[Max({1})])
      BY <1>3
    <2>2. {1} \ {Max({1})} = {} /\ <<e>>[Max({1})] = e
      BY <1>1
    <2>3. QED
      BY <2>1, <2>2, <1>4
  <1>6. FoldLeft(ReduceError, d, <<e>>) = iter[{1}]
    BY DEF FoldLeft, MapThenFoldSet
  <1>7. QED
    BY <1>5, <1>6

\* flushPending of at most one deferred error changes neither the phase nor any
\* text.
LEMMA FlushedDebateFields ==
    ASSUME NEW p \in Players, NEW d \in Debates,
           Len(p.pendingErrors) <= 1, Len(d.errors) <= MaxErrors
    PROVE  LET e == FlushedDebate(p, d)
           IN  /\ e \in Debates
               /\ e.phase = d.phase /\ e.transcript = d.transcript /\ e.verdict = d.verdict
               /\ e.currentRound = IF p.pendingRoundComplete = 0 THEN d.currentRound
                                   ELSE p.pendingRoundComplete
               /\ e.activeSpeakers \subseteq d.activeSpeakers
               /\ p.pendingDone # NoDone => p.pendingDone[1] \notin e.activeSpeakers
               /\ Len(e.errors) <= MaxErrors
  <1> DEFINE d1 == IF p.pendingDone = NoDone THEN d ELSE ReducePersonaDone(d, p.pendingDone[1])
             d2 == IF p.pendingRoundComplete = 0 THEN d1
                   ELSE ReduceRoundComplete(d1, p.pendingRoundComplete)
             d3 == FoldLeft(ReduceError, d2, p.pendingErrors)
  <1>1. /\ d1 \in Debates
        /\ d1.phase = d.phase /\ d1.currentRound = d.currentRound
        /\ d1.transcript = d.transcript /\ d1.verdict = d.verdict /\ d1.errors = d.errors
        /\ d1.activeSpeakers \subseteq d.activeSpeakers
        /\ p.pendingDone # NoDone => p.pendingDone[1] \notin d1.activeSpeakers
    BY ReducePersonaDoneFields
  <1> HIDE DEF d1
  <1>2. p.pendingRoundComplete \in {0} \union Rounds
    BY DEF Players
  <1>3. /\ d2 \in Debates
        /\ d2.phase = d.phase /\ d2.transcript = d.transcript /\ d2.verdict = d.verdict
        /\ d2.currentRound = IF p.pendingRoundComplete = 0 THEN d.currentRound
                             ELSE p.pendingRoundComplete
        /\ d2.errors = d.errors
        /\ d2.activeSpeakers = d1.activeSpeakers
    BY <1>1, <1>2, ReduceRoundCompleteFields
  <1> HIDE DEF d2
  <1>4. p.pendingErrors \in Seq(PersonaErrors)
    BY DEF Players
  <1>5. CASE p.pendingErrors = <<>>
    <2>1. d3 = d2
      BY <1>5, FoldOfNone
    <2>2. QED
      BY <2>1, <1>1, <1>3 DEF FlushedDebate, d1, d2
  <1>6. CASE p.pendingErrors # <<>>
    <2>1. PICK e \in PersonaErrors : p.pendingErrors = <<e>>
      <3>1. p.pendingErrors[1] \in PersonaErrors /\ p.pendingErrors = <<p.pendingErrors[1]>>
        BY <1>4, <1>6, SeqOfOne
      <3>2. QED
        BY <3>1
    <2>2. d3 = ReduceError(d2, e)
      BY <2>1, FoldOfOne
    <2>3. e \in Errors /\ e.persona \notin {NoPersona, Moderator}
      BY ConstantFacts DEF PersonaErrors, Errors, Error, NoError, NoPersona
    <2>4. /\ d3 \in Debates
          /\ d3.phase = d2.phase /\ d3.currentRound = d2.currentRound
          /\ d3.transcript = d2.transcript /\ d3.verdict = d2.verdict
          /\ d3.errors = WithError(d2, e)
          /\ d3.activeSpeakers \subseteq d2.activeSpeakers
      <3> HIDE DEF d3
      <3>1. Len(d2.errors) <= MaxErrors
        BY <1>3
      <3>2. QED
        BY <2>2, <2>3, <1>3, <3>1, ReduceErrorFields
    <2>5. Len(d3.errors) <= MaxErrors
      BY <2>3, <2>4, <1>3, WithErrorKeepsNewest
    <2>6. FlushedDebate(p, d) = d3
      BY DEF FlushedDebate, d1, d2
    <2> HIDE DEF d3
    <2>7. QED
      BY <2>4, <2>5, <2>6, <1>1, <1>3
  <1>7. QED
    BY <1>5, <1>6

\* flushPending empties what was deferred and leaves the rest of the player.
LEMMA FlushedPlayerFields ==
    ASSUME NEW p \in Players
    PROVE  LET q == FlushedPlayer(p)
           IN  /\ q \in Players
               /\ q.text = p.text /\ q.roundComplete = p.roundComplete
               /\ q.personaErrors = p.personaErrors /\ q.verdict = p.verdict
               /\ q.sessionError = p.sessionError /\ q.closed = p.closed
               /\ q.moderatorRound = p.moderatorRound
               /\ q.cursor = p.cursor /\ q.active = p.active
               /\ q.pendingDone = NoDone /\ q.pendingRoundComplete = 0
               /\ q.pendingErrors = <<>>
  <1>1. <<>> \in Seq(PersonaErrors)
    OBVIOUS
  <1>2. QED
    BY <1>1 DEF FlushedPlayer, Players

\* The recording, with c rounds complete: they are the rounds before the
\* current one, the moderator has spoken in the round behind the last only, and
\* once there is a verdict no text is left beyond it.
RecordInv(p, c) ==
    /\ p \in Players
    /\ c \in 0..MaxRounds
    /\ p.roundComplete = 1..c
    /\ p.moderatorRound \in {0, c + 1}
    /\ \A r \in Rounds : r <= c => p.text[r][Moderator] = 0
    /\ p.verdict # NoVerdict =>
          /\ c > 0
          /\ \A r \in Rounds, a \in Agents :
              r > c /\ (r = c + 1 => a # Moderator) => p.text[r][a] = 0

\* The schedule: the cursor is at a round that is complete or at the start of
\* the next; an open turn is the one at the cursor; what is deferred belongs to
\* the turn just closed.
ScheduleInv(p, c) ==
    /\ p.cursor.kind = "panelist" =>
          /\ p.cursor.round <= c + 1
          /\ p.cursor.round = c + 1 => p.cursor.seat = 1
          /\ p.active # NoTurn =>
                /\ p.active.agent = p.cursor.seat
                /\ p.active.round = p.cursor.round
                /\ p.active.round <= c
    /\ p.cursor.kind = "moderator" =>
          /\ p.verdict # NoVerdict
          /\ p.active # NoTurn
          /\ p.active.agent = Moderator
          /\ p.active.round = c + 1
    /\ p.cursor.kind = "done" => p.active = NoTurn /\ TerminalKnown(p)
    /\ p.active # NoTurn =>
          /\ p.active.text = p.text[p.active.round][p.active.agent]
          /\ p.active.pos <= p.active.text
    /\ p.pendingDone # NoDone =>
          /\ p.active = NoTurn
          /\ p.cursor = After(p.pendingDone[2], p.pendingDone[1])
    /\ p.pendingRoundComplete # 0 =>
          /\ p.pendingDone # NoDone
          /\ p.pendingRoundComplete = p.pendingDone[2]
          /\ p.cursor.seat = 1
    /\ Len(p.pendingErrors) <= 1
    /\ p.pendingErrors # <<>> => p.pendingDone # NoDone

\* The panel's turns before the cursor.
Played(p, c, r, a) ==
    IF p.cursor.kind = "panelist" THEN Precedes(r, a, p.cursor.round, p.cursor.seat)
                                  ELSE r <= c

\* Words of an open turn that are shown.
Revealed(p, r, a) ==
    IF p.active # NoTurn /\ p.active.agent = a /\ p.active.round = r THEN p.active.pos ELSE 0

\* What is on display: turns before the cursor in full, the open turn as far as
\* it is revealed, and nothing else; the moderator's text in full once the
\* debate is done.
DisplayInv(p, d, c) ==
    /\ d \in Debates
    /\ \A r \in Rounds : \A a \in Panelists :
          d.transcript[r][a] = IF Played(p, c, r, a) THEN p.text[r][a] ELSE Revealed(p, r, a)
    /\ \A r \in Rounds :
          d.transcript[r][Moderator] =
              IF d.phase = "done" THEN p.text[r][Moderator] ELSE Revealed(p, r, Moderator)

\* The phase, the round and the errors of a debate that is played: it has ended
\* exactly if the schedule has, and the round shown is not ahead of the cursor.
StageInv(p, d, c) ==
    /\ d.phase # "idle"
    /\ p.cursor.kind = "done" <=> d.phase \in Terminal
    /\ d.phase = "done" => p.verdict # NoVerdict /\ d.verdict = p.verdict
    /\ d.phase # "done" => d.verdict = NoVerdict
    /\ d.phase = "error" =>
          d.errors # <<>> /\ d.errors[Len(d.errors)].persona \in {NoPersona, Moderator}
    /\ Len(d.errors) <= MaxErrors
    /\ \A r \in Rounds, a \in Agents : d.transcript[r][a] > 0 => r <= d.currentRound
    /\ p.cursor.kind = "panelist" =>
          /\ d.currentRound <= c
          /\ d.currentRound <= p.cursor.round
          /\ p.pendingRoundComplete # 0 => d.currentRound <= p.pendingRoundComplete
    /\ p.cursor.kind # "panelist" => d.currentRound <= c + 1

\* Between two callbacks whoever has the open turn speaks, alone; without one
\* only the speaker of the turn just closed may still be highlighted.
SpeakerInv(p, d) ==
    /\ p.active # NoTurn =>
          /\ p.active.pos > 0
          /\ d.activeSpeakers = {p.active.agent}
          /\ d.currentRound = p.active.round
          /\ d.phase = IF p.active.agent = Moderator THEN "moderating" ELSE "debating"
    /\ p.active = NoTurn =>
          /\ d.phase # "moderating"
          /\ \A a \in d.activeSpeakers :
                /\ p.pendingDone # NoDone
                /\ a = p.pendingDone[1]
                /\ d.phase = "debating"
                /\ d.currentRound = p.pendingDone[2]
                /\ d.transcript[d.currentRound][a] > 0
    /\ d.phase = "debating" => d.currentRound > 0

\* A debate d, played by player p, of a stream with c rounds complete.
PlayInv(p, d, c) ==
    /\ RecordInv(p, c)
    /\ ScheduleInv(p, c)
    /\ DisplayInv(p, d, c)
    /\ StageInv(p, d, c)
    /\ SpeakerInv(p, d)

\* A turn is open and its next chunk may be revealed.
OpenInv(p, d) ==
    /\ p.active # NoTurn
    /\ p.active.agent = Moderator => p.active.text > 0
    /\ d.phase = "moderating" => p.active.agent = Moderator
    /\ d.phase = "debating" => d.currentRound > 0
    /\ \A a \in d.activeSpeakers :
          /\ a = p.active.agent
          /\ p.active.pos > 0
          /\ d.currentRound = p.active.round
          /\ d.phase = IF a = Moderator THEN "moderating" ELSE "debating"

\* The scheduler does not touch the recording.
SameRecording(p, q) ==
    /\ q.text = p.text
    /\ q.roundComplete = p.roundComplete
    /\ q.verdict = p.verdict
    /\ q.sessionError = p.sessionError
    /\ q.closed = p.closed
    /\ q.moderatorRound = p.moderatorRound

-----------------------------------------------------------------------------
(* The cases of a step (prepareNextTurn, revealStep). *)

\* The kinds of cursors.
LEMMA CursorFacts ==
    ASSUME NEW p \in Players
    PROVE  /\ p.cursor.kind \in {"panelist", "moderator", "done"}
           /\ p.cursor.kind = "panelist" => p.cursor.round \in Rounds /\ p.cursor.seat \in Panelists
           /\ p.cursor.kind = "moderator" => p.cursor = ModeratorTurn
           /\ p.cursor.kind = "done" => p.cursor = NothingLeft
           /\ ModeratorTurn.kind = "moderator" /\ NothingLeft.kind = "done"
  BY DEF Players, Cursors, ModeratorTurn, NothingLeft

\* NoTurn is no turn.
LEMMA ActiveFacts ==
    ASSUME NEW p \in Players
    PROVE  /\ NoTurn.agent = -1
           /\ p.active # NoTurn => p.active \in Turns
           /\ \A t \in Turns : t # NoTurn
  BY ConstantFacts DEF Players, Turns, NoTurn, NoPersona

\* The invariant of the recording is about the recording alone.
LEMMA SameRecordingKeeps ==
    ASSUME NEW p, NEW c, RecordInv(p, c), NEW q \in Players, SameRecording(p, q)
    PROVE  RecordInv(q, c)
  BY DEF RecordInv, SameRecording

\* A turn that is opened has the recorded text, and starts at its beginning.
LEMMA TurnIsTurn ==
    ASSUME NEW p \in Players, NEW a \in Agents, NEW r \in Rounds
    PROVE  /\ Turn(p, a, r) \in Turns
           /\ Turn(p, a, r).agent = a /\ Turn(p, a, r).round = r
           /\ Turn(p, a, r).text = p.text[r][a] /\ Turn(p, a, r).pos = 0
  <1>1. p.text[r][a] \in Caps
    BY DEF Players, Texts
  <1>2. 0 \in Caps
    BY ConstantFacts DEF Caps
  <1>3. QED
    BY <1>1, <1>2 DEF Turn, Turns

\* The last of the rounds 1..c is c.
LEMMA LastOfInterval ==
    ASSUME NEW c \in Nat, c # 0
    PROVE  /\ 1..c # {} /\ c \in 1..c
           /\ \A r \in 1..c : (\A q \in 1..c : q <= r) <=> r = c
  <1>1. c \in 1..c /\ 1..c # {}
    OBVIOUS
  <1>2. ASSUME NEW r \in 1..c PROVE (\A q \in 1..c : q <= r) <=> r = c
    BY <1>1
  <1>3. QED
    BY <1>1, <1>2

\* The moderator's round is the one behind the last complete round, whether it
\* was heard of in a token or is worked out (prepareNextTurn).
LEMMA ModeratorRoundIsNext ==
    ASSUME NEW p, NEW c, RecordInv(p, c)
    PROVE  ModeratorRound(p) = c + 1 /\ c + 1 \in Rounds
  <1>1. c \in 0..MaxRounds /\ p.roundComplete = 1..c /\ p.moderatorRound \in {0, c + 1}
    BY DEF RecordInv
  <1>2. MaxPanelRound(p) = c
    <2>1. CASE c = 0
      BY <1>1, <2>1, ConstantFacts DEF MaxPanelRound
    <2>2. CASE c # 0
      <3>1. c \in Nat
        BY <1>1, ConstantFacts
      <3>2. /\ p.roundComplete # {} /\ c \in p.roundComplete
            /\ \A r \in p.roundComplete : (\A q \in p.roundComplete : q <= r) <=> r = c
        BY <1>1, <2>2, <3>1, LastOfInterval
      <3>3. QED
        BY <3>2 DEF MaxPanelRound
    <2>3. QED
      BY <2>1, <2>2
  <1>3. QED
    BY <1>1, <1>2, ConstantFacts DEF ModeratorRound

\* What prepareNextTurn finds when no turn is open.
LEMMA PlayableTurnCases ==
    ASSUME NEW p, NEW c, RecordInv(p, c), ScheduleInv(p, c), p.active = NoTurn
    PROVE  \/ /\ p.cursor.kind = "panelist"
              /\ p.cursor.round \in 1..c
              /\ PlayableTurn(p) = Turn(p, p.cursor.seat, p.cursor.round)
              /\ HasBufferedTurn(p)
           \/ /\ p.cursor = PanelTurn(c + 1, 1)
              /\ p.verdict # NoVerdict
              /\ p.text[c + 1][Moderator] > 0
              /\ PlayableTurn(p) = Turn(p, Moderator, c + 1)
              /\ ~HasBufferedTurn(p)
           \/ /\ PlayableTurn(p) = NoTurn
              /\ p.cursor = PanelTurn(c + 1, 1)
              /\ p.verdict # NoVerdict => p.text[c + 1][Moderator] = 0
              /\ ~HasBufferedTurn(p)
           \/ /\ PlayableTurn(p) = NoTurn
              /\ p.cursor.kind = "done"
  <1>1. p \in Players /\ c \in 0..MaxRounds /\ p.roundComplete = 1..c
    BY DEF RecordInv
  <1>2. p.cursor.kind # "moderator"
    BY DEF ScheduleInv
  <1>3. CASE p.cursor.kind = "done"
    BY <1>3 DEF PlayableTurn
  <1>4. CASE p.cursor.kind = "panelist" /\ p.cursor.round <= c
    <2>1. p.cursor.round \in 1..c
      BY <1>4, <1>1, CursorFacts, ConstantFacts
    <2>2. HasBufferedTurn(p)
      BY <1>4, <2>1, <1>1 DEF HasBufferedTurn
    <2>3. QED
      BY <1>4, <2>1, <2>2 DEF PlayableTurn
  <1>5. CASE p.cursor.kind = "panelist" /\ ~(p.cursor.round <= c)
    <2>1. p.cursor.round = c + 1 /\ p.cursor.seat = 1
      BY <1>5, <1>1, CursorFacts, ConstantFacts DEF ScheduleInv
    <2>2. p.cursor = PanelTurn(c + 1, 1)
      BY <1>1, <1>5, <2>1 DEF Players, Cursors, PanelTurn, ModeratorTurn, NothingLeft
    <2>3. ~HasBufferedTurn(p)
      BY <1>5, <2>1, <1>1 DEF HasBufferedTurn
    <2>4. ModeratorRound(p) = c + 1 /\ p.text[c + 1][Moderator] \in Nat
      <3>1. ModeratorRound(p) = c + 1 /\ c + 1 \in Rounds /\ Moderator \in Agents
        BY ModeratorRoundIsNext, ConstantFacts
      <3>2. p.text \in [Rounds -> [Agents -> Caps]]
        BY <1>1 DEF Players, Texts
      <3>3. p.text[c + 1][Moderator] \in Caps
        BY <3>1, <3>2
      <3>4. Caps \subseteq Nat
        BY ConstantFacts DEF Caps
      <3>5. QED
        BY <3>1, <3>3, <3>4
    <2>5. CASE p.verdict # NoVerdict /\ p.text[c + 1][Moderator] > 0
      <3>1. PlayableTurn(p) = Turn(p, Moderator, c + 1)
        BY <1>5, <2>3, <2>4, <2>5 DEF PlayableTurn
      <3>2. QED
        BY <3>1, <2>2, <2>3, <2>5
    <2>6. CASE ~(p.verdict # NoVerdict /\ p.text[c + 1][Moderator] > 0)
      <3>1. PlayableTurn(p) = NoTurn
        BY <1>5, <2>3, <2>4, <2>6 DEF PlayableTurn
      <3>2. p.verdict # NoVerdict => p.text[c + 1][Moderator] = 0
        BY <2>4, <2>6
      <3>3. QED
        BY <3>1, <3>2, <2>2, <2>3
    <2>7. QED
      BY <2>5, <2>6
  <1>6. QED
    BY <1>1, <1>2, <1>3, <1>4, <1>5, CursorFacts

\* Revealing moves the position in the open turn and nothing else.
LEMMA RevealPlayerFields ==
    ASSUME NEW p \in Players, p.active # NoTurn, NEW to \in Caps
    PROVE  LET q == [p EXCEPT !.active.pos = to]
           IN  /\ q \in Players
               /\ SameRecording(p, q)
               /\ q.cursor = p.cursor
               /\ q.active \in Turns /\ q.active # NoTurn
               /\ q.active.agent = p.active.agent /\ q.active.round = p.active.round
               /\ q.active.text = p.active.text /\ q.active.pos = to
               /\ q.pendingDone = p.pendingDone
               /\ q.pendingRoundComplete = p.pendingRoundComplete
               /\ q.pendingErrors = p.pendingErrors
               /\ q.personaErrors = p.personaErrors
  <1> DEFINE t == [p.active EXCEPT !.pos = to]
             q == [p EXCEPT !.active = t]
  <1>1. p.active \in Turns
    BY ActiveFacts
  <1>2. /\ t \in Turns /\ t.agent = p.active.agent /\ t.round = p.active.round
        /\ t.text = p.active.text /\ t.pos = to
    BY <1>1 DEF Turns
  <1>3. t # NoTurn
    BY <1>2, ActiveFacts
  <1> HIDE DEF t
  <1>4. q \in Players
    BY <1>2 DEF Players
  <1>5. /\ SameRecording(p, q)
        /\ q.cursor = p.cursor /\ q.active = t
        /\ q.pendingDone = p.pendingDone
        /\ q.pendingRoundComplete = p.pendingRoundComplete
        /\ q.pendingErrors = p.pendingErrors
        /\ q.personaErrors = p.personaErrors
    BY DEF Players, SameRecording
  <1>6. [p EXCEPT !.active.pos = to] = q
    BY DEF t
  <1> HIDE DEF q
  <1>7. QED
    BY <1>2, <1>3, <1>4, <1>5, <1>6

\* revealStep, a chunk: what is dispatched to the reducer is what was revealed,
\* and its speaker is the one of the open turn.
LEMMA RevealKeeps ==
    ASSUME NEW s, NEW c, NEW to,
           RecordInv(s.player, c), ScheduleInv(s.player, c), DisplayInv(s.player, s.debate, c),
           StageInv(s.player, s.debate, c), OpenInv(s.player, s.debate),
           to \in Nat, s.player.active.pos < to, to <= s.player.active.text
    PROVE  LET t == Reveal(s, s.player.active, to)
           IN  /\ t.more = TRUE
               /\ SameRecording(s.player, t.player)
               /\ PlayInv(t.player, t.debate, c)
               /\ t.player.cursor = s.player.cursor
               /\ t.player.active # NoTurn
               /\ t.player.active.pos = to
               /\ t.player.active.text = s.player.active.text
               /\ s.debate.currentRound <= t.debate.currentRound
  <1> DEFINE p == s.player
             d == s.debate
             R == p.active.round
             A == p.active.agent
             pos == p.active.pos
             q == [p EXCEPT !.active.pos = to]
             words == to - pos
             e == ReduceToken(d, A, R, words)
  <1>1. p \in Players /\ d \in Debates /\ c \in 0..MaxRounds /\ p.active # NoTurn
    BY DEF RecordInv, DisplayInv, OpenInv
  <1>2. p.active \in Turns
    BY <1>1, ActiveFacts
  <1>3. /\ R \in Rounds /\ A \in Agents /\ pos \in Caps /\ p.active.text \in Caps
        /\ to \in Caps /\ words \in Nat
    <2>1. R \in Rounds /\ A \in Agents /\ pos \in Caps /\ p.active.text \in Caps
      BY <1>2 DEF Turns
    <2>2. \A n, m \in Caps : n < to /\ to <= m => to \in Caps /\ to - n \in Nat
      BY ConstantFacts DEF Caps
    <2>3. QED
      BY <2>1, <2>2
  <1>4. /\ Reveal(s, s.player.active, to).more = TRUE
        /\ Reveal(s, s.player.active, to).player = q
        /\ Reveal(s, s.player.active, to).debate = e
    BY DEF Reveal, Continue
  <1>5. /\ q \in Players
        /\ SameRecording(p, q)
        /\ q.cursor = p.cursor
        /\ q.active # NoTurn
        /\ q.active.agent = A /\ q.active.round = R
        /\ q.active.text = p.active.text /\ q.active.pos = to
        /\ q.pendingDone = p.pendingDone
        /\ q.pendingRoundComplete = p.pendingRoundComplete
        /\ q.pendingErrors = p.pendingErrors
    BY <1>1, <1>3, RevealPlayerFields
  <1>6. /\ e \in Debates
        /\ e.phase = IF A = Moderator THEN "moderating" ELSE "debating"
        /\ e.currentRound = R
        /\ e.transcript[R][A] = Capped(d.transcript[R][A] + words, MaxCellChars)
        /\ \A r \in Rounds, a \in Agents :
              ~(r = R /\ a = A) => e.transcript[r][a] = d.transcript[r][a]
        /\ e.activeSpeakers = d.activeSpeakers \union {A}
        /\ e.verdict = d.verdict
        /\ e.errors = d.errors
    <2> HIDE DEF words, A, R, d
    <2>1. QED
      BY <1>1, <1>3, ReduceTokenFields
  <1> HIDE DEF q, e
  \* Where the turn stands.
  <1>7. /\ p.cursor.kind # "done"
        /\ p.cursor.kind = "panelist" => A = p.cursor.seat /\ R = p.cursor.round /\ R <= c
        /\ p.cursor.kind = "moderator" => A = Moderator /\ R = c + 1
        /\ d.phase \notin Terminal /\ d.phase # "done"
        /\ p.pendingDone = NoDone /\ p.pendingRoundComplete = 0
        /\ p.cursor.kind \in {"panelist", "moderator"}
    BY <1>1, CursorFacts DEF ScheduleInv, StageInv, Terminal
  <1>8. A = Moderator <=> p.cursor.kind = "moderator"
    BY <1>1, <1>7, CursorFacts, ConstantFacts
  <1>9. d.transcript[R][A] = pos
    <2>1. CASE A = Moderator
      BY <2>1, <1>1, <1>3, <1>7 DEF DisplayInv, Revealed
    <2>2. CASE A # Moderator
      <3>1. A \in Panelists /\ p.cursor.kind = "panelist"
        BY <2>2, <1>7, <1>8, <1>1, CursorFacts
      <3>2. ~Played(p, c, R, A)
        BY <3>1, <1>3, <1>7, ConstantFacts DEF Played, Precedes
      <3>3. QED
        BY <3>1, <3>2, <1>1, <1>3 DEF DisplayInv, Revealed
    <2>3. QED
      BY <2>1, <2>2
  <1>10. /\ e.transcript[R][A] = to
         /\ \A r \in Rounds, a \in Agents :
               ~(r = R /\ a = A) => e.transcript[r][a] = d.transcript[r][a]
    <2>1. Capped(pos + words, MaxCellChars) = to
      BY <1>3, ConstantFacts DEF Capped, Caps
    <2>2. QED
      BY <2>1, <1>6, <1>9
  <1>11. /\ \A r \in Rounds, a \in Agents : Played(q, c, r, a) = Played(p, c, r, a)
         /\ \A r \in Rounds, a \in Agents :
               Revealed(q, r, a) = IF r = R /\ a = A THEN to ELSE Revealed(p, r, a)
    BY <1>1, <1>5 DEF Played, Revealed
  <1>12. RecordInv(q, c)
    BY <1>5, SameRecordingKeeps
  <1>13. ScheduleInv(q, c)
    <2>1. q.text = p.text /\ q.verdict = p.verdict
      BY <1>5 DEF SameRecording
    <2>2. QED
      BY <2>1, <1>1, <1>5, <1>7 DEF ScheduleInv
  <1>14. DisplayInv(q, e, c)
    <2>0. q.text = p.text
      BY <1>5 DEF SameRecording
    <2>1. ASSUME NEW r \in Rounds, NEW a \in Panelists
          PROVE  e.transcript[r][a] = IF Played(q, c, r, a) THEN q.text[r][a] ELSE Revealed(q, r, a)
      <3>0. a \in Agents
        BY ConstantFacts
      <3>1. CASE r = R /\ a = A
        <4>1. p.cursor.kind = "panelist"
          BY <3>1, <1>7, <1>8, ConstantFacts
        <4>2. ~Played(p, c, R, A)
          BY <4>1, <1>3, <1>7, ConstantFacts DEF Played, Precedes
        <4>3. QED
          BY <3>0, <3>1, <4>2, <1>10, <1>11
      <3>2. CASE ~(r = R /\ a = A)
        BY <3>0, <3>2, <2>0, <1>10, <1>11 DEF DisplayInv
      <3>3. QED
        BY <3>1, <3>2
    <2>2. ASSUME NEW r \in Rounds
          PROVE  e.transcript[r][Moderator] =
                    IF e.phase = "done" THEN q.text[r][Moderator] ELSE Revealed(q, r, Moderator)
      <3>1. e.phase # "done" /\ Moderator \in Agents
        BY <1>6, ConstantFacts
      <3>2. QED
        BY <3>1, <1>7, <1>10, <1>11 DEF DisplayInv
    <2>3. QED
      BY <2>1, <2>2, <1>6 DEF DisplayInv
  <1>15. d.currentRound <= R /\ d.currentRound \in Nat
    BY <1>1, <1>3, <1>7, ConstantFacts DEF StageInv, Debates
  <1>16. StageInv(q, e, c)
    <2>1. e.phase \notin Terminal /\ e.phase \notin {"idle", "done", "error"}
      BY <1>6 DEF Terminal
    <2>2. ASSUME NEW r \in Rounds, NEW a \in Agents, e.transcript[r][a] > 0
          PROVE  r <= e.currentRound
      <3>1. CASE r = R /\ a = A
        BY <3>1, <1>6, <1>3, ConstantFacts
      <3>2. CASE ~(r = R /\ a = A)
        <4>1. r <= d.currentRound
          BY <2>2, <3>2, <1>10 DEF StageInv
        <4>2. QED
          BY <4>1, <1>6, <1>15, <1>3, ConstantFacts
      <3>3. QED
        BY <3>1, <3>2
    <2>3. e.verdict = NoVerdict /\ Len(e.errors) <= MaxErrors
      BY <1>6, <1>7 DEF StageInv
    <2>4. q.cursor.kind = "panelist" => e.currentRound <= c /\ e.currentRound <= q.cursor.round
      BY <1>5, <1>6, <1>7, <1>1, <1>3, ConstantFacts
    <2>5. q.cursor.kind # "panelist" => e.currentRound <= c + 1
      BY <1>5, <1>6, <1>7, <1>1, <1>3, ConstantFacts
    <2>6. q.cursor.kind # "done" /\ q.pendingRoundComplete = 0
      BY <1>5, <1>7
    <2>7. QED
      BY <2>1, <2>2, <2>3, <2>4, <2>5, <2>6 DEF StageInv
  <1>17. SpeakerInv(q, e)
    <2>1. e.activeSpeakers = {A}
      BY <1>6 DEF OpenInv
    <2>2. to > 0
      BY <1>3, ConstantFacts DEF Caps
    <2>3. R > 0
      BY <1>3, ConstantFacts
    <2>4. QED
      BY <2>1, <2>2, <2>3, <1>5, <1>6 DEF SpeakerInv
  <1>18. QED
    BY <1>4, <1>5, <1>6, <1>12, <1>13, <1>14, <1>15, <1>16, <1>17 DEF PlayInv

\* The cursor moves seat by seat, then to the next round: the turns before it
\* are those before it earlier, and the one just played.
LEMMA AfterFacts ==
    ASSUME NEW r \in Rounds, NEW p \in Panelists, r <= MaxRounds
    PROVE  /\ After(r, p).kind = "panelist"
           /\ After(r, p).round = IF p < N THEN r ELSE r + 1
           /\ After(r, p).seat = IF p < N THEN p + 1 ELSE 1
           /\ After(r, p) \in Cursors
           /\ \A q \in Rounds, a \in Panelists :
                 Precedes(q, a, After(r, p).round, After(r, p).seat) <=>
                     Precedes(q, a, r, p) \/ (q = r /\ a = p)
  <1>1. /\ After(r, p).kind = "panelist"
        /\ After(r, p).round = IF p < N THEN r ELSE r + 1
        /\ After(r, p).seat = IF p < N THEN p + 1 ELSE 1
    BY DEF After, PanelTurn
  <1>2. After(r, p) \in Cursors
    BY ConstantFacts DEF After, PanelTurn, Cursors
  <1>3. ASSUME NEW q \in Rounds, NEW a \in Panelists
        PROVE  Precedes(q, a, After(r, p).round, After(r, p).seat) <=>
                   Precedes(q, a, r, p) \/ (q = r /\ a = p)
    <2>1. CASE p < N
      BY <2>1, <1>1, ConstantFacts DEF Precedes
    <2>2. CASE ~(p < N)
      BY <2>2, <1>1, ConstantFacts DEF Precedes
    <2>3. QED
      BY <2>1, <2>2
  <1>4. QED
    BY <1>1, <1>2, <1>3

\* revealStep, the end of a panelist's turn: the turn counts as played, and its
\* closing inputs are deferred.
LEMMA CloseTurnKeeps ==
    ASSUME NEW s, NEW c,
           RecordInv(s.player, c), ScheduleInv(s.player, c), DisplayInv(s.player, s.debate, c),
           StageInv(s.player, s.debate, c), OpenInv(s.player, s.debate),
           s.player.active.pos = s.player.active.text, s.player.active.agent # Moderator
    PROVE  LET t == CloseTurn(s, s.player.active)
           IN  /\ t.more = TRUE
               /\ SameRecording(s.player, t.player)
               /\ PlayInv(t.player, t.debate, c)
               /\ s.player.cursor.kind = "panelist"
               /\ s.player.cursor.round \in 1..c /\ s.player.cursor.seat \in Panelists
               /\ t.player.cursor = After(s.player.cursor.round, s.player.cursor.seat)
               /\ t.player.active = NoTurn
               /\ t.debate = s.debate
  <1> DEFINE p == s.player
             d == s.debate
             R == p.active.round
             A == p.active.agent
             err == p.personaErrors[A]
             done == <<A, R>>
             errs == IF err = NoError THEN p.pendingErrors ELSE Append(p.pendingErrors, err)
             rc == IF A = N THEN R ELSE p.pendingRoundComplete
             q == [p EXCEPT !.pendingDone = done, !.pendingErrors = errs,
                            !.personaErrors[A] = NoError, !.pendingRoundComplete = rc,
                            !.cursor = After(R, A), !.active = NoTurn]
  <1>1. p \in Players /\ d \in Debates /\ c \in 0..MaxRounds /\ p.active # NoTurn
    BY DEF RecordInv, DisplayInv, OpenInv
  <1>2. p.active \in Turns
    BY <1>1, ActiveFacts
  <1>3. R \in Rounds /\ A \in Panelists /\ p.active.pos \in Caps
    BY <1>2, ConstantFacts DEF Turns
  <1>4. /\ p.cursor.kind = "panelist" /\ A = p.cursor.seat /\ R = p.cursor.round
        /\ R \in 1..c /\ R <= MaxRounds
        /\ p.pendingDone = NoDone /\ p.pendingRoundComplete = 0 /\ p.pendingErrors = <<>>
        /\ d.phase \notin Terminal /\ d.phase # "done" /\ p.active.text = p.text[R][A]
    <2>1. p.cursor.kind # "done" /\ p.cursor.kind # "moderator"
      BY <1>1, CursorFacts DEF ScheduleInv
    <2>2. p.cursor.kind = "panelist" /\ A = p.cursor.seat /\ R = p.cursor.round /\ R <= c
      BY <1>1, <2>1, CursorFacts DEF ScheduleInv
    <2>3. R \in 1..c /\ R <= MaxRounds
      BY <1>1, <1>3, <2>2, ConstantFacts
    <2>4. p.pendingDone = NoDone
      BY <1>1 DEF ScheduleInv
    <2>5. p.pendingRoundComplete = 0 /\ p.pendingErrors = <<>>
      BY <2>4 DEF ScheduleInv
    <2>6. d.phase \notin Terminal /\ d.phase # "done"
      BY <2>1 DEF StageInv, Terminal
    <2>7. p.active.text = p.text[R][A]
      BY <1>1 DEF ScheduleInv
    <2>8. QED
      BY <2>2, <2>3, <2>4, <2>5, <2>6, <2>7
  <1>5. /\ CloseTurn(s, s.player.active).more = TRUE
        /\ CloseTurn(s, s.player.active).player = q
        /\ CloseTurn(s, s.player.active).debate = d
    BY DEF CloseTurn, Continue
  <1>6. err \in {NoError} \union PersonaErrors
    BY <1>1, <1>3 DEF Players
  <1>7. errs \in Seq(PersonaErrors) /\ Len(errs) <= 1
    <2>1. <<>> \in Seq(PersonaErrors) /\ Len(<<>>) <= 1
      OBVIOUS
    <2>2. CASE err = NoError
      BY <2>1, <2>2, <1>4
    <2>3. CASE err # NoError
      <3>1. err \in PersonaErrors
        BY <2>3, <1>6
      <3>2. errs = <<err>>
        BY <2>3, <1>4
      <3>3. <<err>> \in Seq(PersonaErrors) /\ Len(<<err>>) <= 1
        BY <3>1
      <3>4. QED
        BY <3>2, <3>3
    <2>4. QED
      BY <2>2, <2>3
  <1>8. /\ done \in Panelists \X Rounds /\ rc \in {0} \union Rounds
        /\ done[1] = A /\ done[2] = R /\ done # NoDone
    BY <1>3, <1>4 DEF NoDone
  <1>9. /\ After(R, A) \in Cursors
        /\ After(R, A).kind = "panelist"
        /\ After(R, A).round = IF A < N THEN R ELSE R + 1
        /\ After(R, A).seat = IF A < N THEN A + 1 ELSE 1
        /\ \A r \in Rounds, a \in Panelists :
              Precedes(r, a, After(R, A).round, After(R, A).seat) <=>
                  Precedes(r, a, R, A) \/ (r = R /\ a = A)
    BY <1>3, <1>4, AfterFacts
  <1> HIDE DEF done, errs, rc, err
  <1>10. /\ q \in Players
         /\ SameRecording(p, q)
         /\ q.pendingDone = done /\ q.pendingErrors = errs
         /\ q.pendingRoundComplete = rc /\ q.cursor = After(R, A) /\ q.active = NoTurn
    <2> DEFINE cur == After(R, A)
               none == [p.personaErrors EXCEPT ![A] = NoError]
    <2>1. cur \in Cursors
      BY <1>9
    <2>2. none \in [Panelists -> {NoError} \union PersonaErrors]
      BY <1>1, <1>3 DEF Players
    <2> HIDE DEF cur, none
    <2>3. q = [p EXCEPT !.pendingDone = done, !.pendingErrors = errs,
                        !.personaErrors = none, !.pendingRoundComplete = rc,
                        !.cursor = cur, !.active = NoTurn]
      <3> HIDE DEF A, p
      <3>1. QED
        BY <1>1 DEF cur, none, Players
    <2> HIDE DEF A, p, q
    <2>4. q \in Players
      BY <1>1, <1>7, <1>8, <2>1, <2>2, <2>3 DEF Players
    <2>5. SameRecording(p, q)
      BY <1>1, <2>3 DEF Players, SameRecording
    <2>6. /\ q.pendingDone = done /\ q.pendingErrors = errs
          /\ q.pendingRoundComplete = rc /\ q.cursor = cur /\ q.active = NoTurn
      BY <1>1, <2>3 DEF Players
    <2>7. QED
      BY <2>4, <2>5, <2>6 DEF cur
  <1> HIDE DEF q
  <1>11. q.text = p.text /\ q.verdict = p.verdict
    BY <1>10 DEF SameRecording
  <1>12. RecordInv(q, c)
    BY <1>10, SameRecordingKeeps
  <1>13. ScheduleInv(q, c)
    <2>1. q.cursor.round <= c + 1 /\ (q.cursor.round = c + 1 => q.cursor.seat = 1)
      BY <1>1, <1>3, <1>4, <1>9, <1>10, ConstantFacts
    <2>2. rc # 0 => rc = R /\ q.cursor.seat = 1
      BY <1>3, <1>4, <1>9, <1>10, ConstantFacts DEF rc
    <2>3. QED
      BY <2>1, <2>2, <1>7, <1>8, <1>9, <1>10 DEF ScheduleInv
  <1>14. d.transcript[R][A] = p.active.pos
    <2>1. ~Played(p, c, R, A)
      BY <1>3, <1>4, ConstantFacts DEF Played, Precedes
    <2>2. QED
      BY <2>1, <1>1, <1>3 DEF DisplayInv, Revealed
  <1>15. DisplayInv(q, d, c)
    <2>1. ASSUME NEW r \in Rounds, NEW a \in Panelists
          PROVE  d.transcript[r][a] = IF Played(q, c, r, a) THEN q.text[r][a] ELSE Revealed(q, r, a)
      <3>1. Played(q, c, r, a) <=> Played(p, c, r, a) \/ (r = R /\ a = A)
        BY <1>4, <1>9, <1>10 DEF Played
      <3>2. Revealed(q, r, a) = 0
        BY <1>10 DEF Revealed
      <3>3. CASE r = R /\ a = A
        BY <3>1, <3>3, <1>4, <1>11, <1>14
      <3>4. CASE ~(r = R /\ a = A)
        <4>1. Revealed(p, r, a) = 0
          BY <3>4 DEF Revealed
        <4>2. QED
          BY <3>1, <3>2, <3>4, <4>1, <1>11 DEF DisplayInv
      <3>5. QED
        BY <3>3, <3>4
    <2>2. ASSUME NEW r \in Rounds
          PROVE  d.transcript[r][Moderator] =
                    IF d.phase = "done" THEN q.text[r][Moderator] ELSE Revealed(q, r, Moderator)
      <3>1. Revealed(q, r, Moderator) = 0 /\ Revealed(p, r, Moderator) = 0
        BY <1>10 DEF Revealed
      <3>2. QED
        BY <3>1, <1>4 DEF DisplayInv
    <2>3. QED
      BY <2>1, <2>2, <1>1 DEF DisplayInv
  <1>16. StageInv(q, d, c)
    <2>1. d.currentRound \in Nat /\ d.currentRound <= R
      BY <1>1, <1>4, ConstantFacts DEF StageInv, Debates
    <2>2. d.currentRound <= c /\ d.currentRound <= q.cursor.round
      BY <2>1, <1>1, <1>3, <1>4, <1>9, <1>10, ConstantFacts
    <2>3. q.pendingRoundComplete # 0 => d.currentRound <= q.pendingRoundComplete
      BY <2>1, <1>10, <1>4 DEF rc
    <2>4. QED
      BY <2>2, <2>3, <1>4, <1>9, <1>10 DEF StageInv
  <1>17. SpeakerInv(q, d)
    <2>1. d.phase # "moderating"
      BY <1>3, ConstantFacts DEF OpenInv
    <2>2. ASSUME NEW a \in d.activeSpeakers
          PROVE  a = A /\ d.phase = "debating" /\ d.currentRound = R /\ d.transcript[R][A] > 0
      BY <1>14 DEF OpenInv
    <2>3. d.phase = "debating" => d.currentRound > 0
      BY DEF OpenInv
    <2>4. QED
      BY <2>1, <2>2, <2>3, <1>8, <1>10 DEF SpeakerInv
  <1>18. QED
    BY <1>3, <1>4, <1>5, <1>10, <1>12, <1>13, <1>15, <1>16, <1>17 DEF PlayInv

\* revealStep, the end of the moderator's turn: the debate is done and has been
\* shown in full.
LEMMA DeliverVerdictKeeps ==
    ASSUME NEW s, NEW c,
           RecordInv(s.player, c), ScheduleInv(s.player, c), DisplayInv(s.player, s.debate, c),
           StageInv(s.player, s.debate, c), OpenInv(s.player, s.debate),
           s.player.active.pos = s.player.active.text, s.player.active.agent = Moderator
    PROVE  LET t == DeliverVerdict(s)
           IN  /\ t.more = FALSE
               /\ SameRecording(s.player, t.player)
               /\ PlayInv(t.player, t.debate, c)
               /\ t.player.active = NoTurn
               /\ t.player.cursor = NothingLeft
               /\ t.debate.currentRound = s.debate.currentRound
  <1> DEFINE p == s.player
             d == s.debate
             q == [p EXCEPT !.active = NoTurn, !.cursor = NothingLeft]
             e == ReduceVerdict(d, p.verdict)
  <1>1. p \in Players /\ d \in Debates /\ c \in 0..MaxRounds /\ p.active # NoTurn
    BY DEF RecordInv, DisplayInv, OpenInv
  <1>2. /\ p.cursor.kind = "moderator" /\ p.active.round = c + 1 /\ p.verdict # NoVerdict
        /\ p.active.text = p.text[c + 1][Moderator]
        /\ p.pendingDone = NoDone /\ p.pendingRoundComplete = 0 /\ p.pendingErrors = <<>>
        /\ d.phase \notin Terminal /\ d.phase # "done"
    <2>1. p.cursor.kind # "done"
      BY <1>1 DEF ScheduleInv
    <2>2. p.cursor.kind # "panelist"
      BY <1>1, CursorFacts, ConstantFacts DEF ScheduleInv
    <2>3. p.cursor.kind = "moderator"
      BY <1>1, <2>1, <2>2, CursorFacts
    <2>4. p.active.round = c + 1 /\ p.verdict # NoVerdict /\ p.active.text = p.text[c + 1][Moderator]
      BY <1>1, <2>3 DEF ScheduleInv
    <2>5. p.pendingDone = NoDone
      BY <1>1 DEF ScheduleInv
    <2>6. p.pendingRoundComplete = 0 /\ p.pendingErrors = <<>>
      BY <2>5 DEF ScheduleInv
    <2>7. d.phase \notin Terminal /\ d.phase # "done"
      BY <2>1 DEF StageInv, Terminal
    <2>8. QED
      BY <2>3, <2>4, <2>5, <2>6, <2>7
  <1>3. /\ DeliverVerdict(s).more = FALSE
        /\ DeliverVerdict(s).player = q
        /\ DeliverVerdict(s).debate = e
    BY DEF DeliverVerdict, Park
  <1>4. /\ q \in Players
        /\ SameRecording(p, q)
        /\ q.active = NoTurn /\ q.cursor = NothingLeft
        /\ q.pendingDone = NoDone /\ q.pendingRoundComplete = 0 /\ q.pendingErrors = <<>>
    BY <1>1, <1>2 DEF Players, Cursors, SameRecording
  <1>5. p.verdict \in Verdicts
    BY <1>1 DEF Players
  <1>6. /\ e \in Debates
        /\ e.phase = "done" /\ e.currentRound = d.currentRound
        /\ e.transcript = d.transcript /\ e.verdict = p.verdict /\ e.errors = d.errors
        /\ e.activeSpeakers = d.activeSpeakers \ {Moderator}
    BY <1>1, <1>5, ReduceVerdictFields
  <1> HIDE DEF q, e
  <1>7. q.text = p.text /\ q.verdict = p.verdict
    BY <1>4 DEF SameRecording
  <1>8. RecordInv(q, c)
    BY <1>4, SameRecordingKeeps
  <1>9. q.cursor.kind = "done"
    BY <1>4 DEF NothingLeft
  <1>10. ScheduleInv(q, c)
    <2>1. TerminalKnown(q)
      BY <1>2, <1>7 DEF TerminalKnown
    <2>2. QED
      BY <1>4, <1>9, <2>1 DEF ScheduleInv
  <1>11. DisplayInv(q, e, c)
    <2>1. ASSUME NEW r \in Rounds, NEW a \in Panelists
          PROVE  e.transcript[r][a] = IF Played(q, c, r, a) THEN q.text[r][a] ELSE Revealed(q, r, a)
      <3>1. Played(q, c, r, a) = Played(p, c, r, a)
        BY <1>2, <1>9 DEF Played
      <3>2. Revealed(q, r, a) = 0 /\ Revealed(p, r, a) = 0
        BY <1>4, ConstantFacts DEF Revealed
      <3>3. QED
        BY <3>1, <3>2, <1>6, <1>7 DEF DisplayInv
    <2>2. ASSUME NEW r \in Rounds
          PROVE  e.transcript[r][Moderator] = q.text[r][Moderator]
      <3>1. d.transcript[r][Moderator] = Revealed(p, r, Moderator)
        BY <1>2 DEF DisplayInv
      <3>2. CASE r = c + 1
        BY <3>1, <3>2, <1>1, <1>2, <1>6, <1>7 DEF Revealed
      <3>3. CASE r # c + 1
        <4>1. Revealed(p, r, Moderator) = 0
          BY <3>3, <1>2 DEF Revealed
        <4>2. p.text[r][Moderator] = 0
          <5>1. CASE r <= c
            BY <5>1 DEF RecordInv
          <5>2. CASE r > c
            <6>1. Moderator \in Agents
              BY ConstantFacts
            <6>2. QED
              BY <5>2, <6>1, <3>3, <1>2 DEF RecordInv
          <5>3. QED
            BY <5>1, <5>2, <1>1, ConstantFacts
        <4>3. QED
          BY <3>1, <4>1, <4>2, <1>6, <1>7
      <3>4. QED
        BY <3>2, <3>3
    <2>3. QED
      BY <2>1, <2>2, <1>6 DEF DisplayInv
  <1>12. StageInv(q, e, c)
    <2>1. d.currentRound <= c + 1
      BY <1>2 DEF StageInv
    <2>2. QED
      BY <2>1, <1>2, <1>6, <1>7, <1>9 DEF StageInv, Terminal
  <1>13. SpeakerInv(q, e)
    <2>1. e.activeSpeakers = {}
      BY <1>6 DEF OpenInv
    <2>2. QED
      BY <2>1, <1>4, <1>6 DEF SpeakerInv
  <1>14. QED
    BY <1>3, <1>4, <1>6, <1>8, <1>10, <1>11, <1>12, <1>13 DEF PlayInv

\* What is left to be said of the last turn, once it has been said.
LEMMA FlushFacts ==
    ASSUME NEW p, NEW d, NEW c, PlayInv(p, d, c),
           p.active = NoTurn, p.cursor.kind = "panelist"
    PROVE  LET e == FlushedDebate(p, d)
           IN  /\ e \in Debates
               /\ e.phase = d.phase /\ e.transcript = d.transcript /\ e.verdict = d.verdict
               /\ e.activeSpeakers = {}
               /\ d.currentRound <= e.currentRound
               /\ e.currentRound <= c /\ e.currentRound <= p.cursor.round
               /\ d.phase = "debating" => e.currentRound > 0
               /\ Len(e.errors) <= MaxErrors
  <1>1. p \in Players /\ d \in Debates /\ c \in 0..MaxRounds
    BY DEF PlayInv, RecordInv, DisplayInv
  <1>2. Len(p.pendingErrors) <= 1 /\ Len(d.errors) <= MaxErrors
    BY DEF PlayInv, ScheduleInv, StageInv
  <1> DEFINE e == FlushedDebate(p, d)
  <1>3. /\ e \in Debates
        /\ e.phase = d.phase /\ e.transcript = d.transcript /\ e.verdict = d.verdict
        /\ e.currentRound = IF p.pendingRoundComplete = 0 THEN d.currentRound
                            ELSE p.pendingRoundComplete
        /\ e.activeSpeakers \subseteq d.activeSpeakers
        /\ p.pendingDone # NoDone => p.pendingDone[1] \notin e.activeSpeakers
        /\ Len(e.errors) <= MaxErrors
    BY <1>1, <1>2, FlushedDebateFields
  <1> HIDE DEF e
  <1>4. e.activeSpeakers = {}
    BY <1>3 DEF PlayInv, SpeakerInv
  <1>5. /\ d.currentRound \in Nat /\ d.currentRound <= c /\ d.currentRound <= p.cursor.round
        /\ d.phase = "debating" => d.currentRound > 0
        /\ p.pendingRoundComplete # 0 => d.currentRound <= p.pendingRoundComplete
    BY <1>1, ConstantFacts DEF Debates, PlayInv, StageInv, SpeakerInv
  <1>6. CASE p.pendingRoundComplete = 0
    BY <1>3, <1>4, <1>5, <1>6 DEF e
  <1>7. CASE p.pendingRoundComplete # 0
    <2>1. /\ p.pendingDone # NoDone /\ p.pendingRoundComplete = p.pendingDone[2]
          /\ p.cursor = After(p.pendingDone[2], p.pendingDone[1]) /\ p.cursor.seat = 1
          /\ p.cursor.round <= c + 1
      BY <1>7 DEF PlayInv, ScheduleInv
    <2>2. p.pendingDone[1] \in Panelists /\ p.pendingRoundComplete \in Rounds
      BY <1>1, <1>7, <2>1 DEF Players
    <2>3. p.cursor.round = p.pendingRoundComplete + 1
      BY <2>1, <2>2, ConstantFacts DEF After, PanelTurn
    <2>4. p.pendingRoundComplete <= c /\ p.pendingRoundComplete > 0
          /\ p.pendingRoundComplete <= p.cursor.round
      BY <2>1, <2>2, <2>3, <1>1, ConstantFacts
    <2>5. QED
      BY <2>4, <1>3, <1>4, <1>5, <1>7 DEF e
  <1>8. QED
    BY <1>6, <1>7

\* Behind the last complete round all of the panel has been played.
LEMMA PlayedFromNextRound ==
    ASSUME NEW c \in 0..MaxRounds, NEW r \in Rounds, NEW a \in Panelists
    PROVE  Precedes(r, a, c + 1, 1) <=> r <= c
  BY ConstantFacts DEF Precedes

\* prepareNextTurn with a turn to open: the previous speaker is done before the
\* next one begins.
LEMMA OpenTurnKeeps ==
    ASSUME NEW s, NEW c, PlayInv(s.player, s.debate, c),
           s.player.active = NoTurn, PlayableTurn(s.player) # NoTurn
    PROVE  LET t == OpenTurn(s)
           IN  /\ SameRecording(s.player, t.player)
               /\ RecordInv(t.player, c)
               /\ ScheduleInv(t.player, c)
               /\ DisplayInv(t.player, t.debate, c)
               /\ StageInv(t.player, t.debate, c)
               /\ OpenInv(t.player, t.debate)
               /\ t.player.active = PlayableTurn(s.player)
               /\ t.player.active.pos = 0
               /\ s.player.cursor.kind = "panelist"
               /\ t.player.cursor \in {s.player.cursor, ModeratorTurn}
               /\ s.debate.currentRound <= t.debate.currentRound
  <1> DEFINE p == s.player
             d == s.debate
             turn == PlayableTurn(p)
             f == FlushedPlayer(p)
             cur == IF turn.agent = Moderator THEN ModeratorTurn ELSE f.cursor
             q == [f EXCEPT !.active = turn, !.cursor = cur]
             e == FlushedDebate(p, d)
  <1>1. /\ p \in Players /\ d \in Debates /\ c \in 0..MaxRounds
        /\ RecordInv(p, c) /\ ScheduleInv(p, c)
    BY DEF PlayInv, RecordInv, DisplayInv
  <1>2. \/ /\ p.cursor.kind = "panelist"
           /\ p.cursor.round \in 1..c
           /\ turn = Turn(p, p.cursor.seat, p.cursor.round)
        \/ /\ p.cursor = PanelTurn(c + 1, 1)
           /\ p.verdict # NoVerdict
           /\ p.text[c + 1][Moderator] > 0
           /\ turn = Turn(p, Moderator, c + 1)
    BY <1>1, PlayableTurnCases
  <1>3. p.cursor.kind = "panelist"
    BY <1>2 DEF PanelTurn
  <1>4. /\ p.cursor.round \in Rounds /\ p.cursor.seat \in Panelists
        /\ c + 1 \in Rounds /\ Moderator \in Agents /\ p.cursor.seat \in Agents
        /\ p.cursor.seat # Moderator
    BY <1>1, <1>3, CursorFacts, ConstantFacts
  <1>5. /\ turn \in Turns /\ turn.pos = 0 /\ turn.text = p.text[turn.round][turn.agent]
        /\ turn.agent = Moderator =>
              /\ turn.round = c + 1 /\ p.cursor = PanelTurn(c + 1, 1)
              /\ p.verdict # NoVerdict /\ turn.text > 0
        /\ turn.agent # Moderator =>
              /\ turn.agent = p.cursor.seat /\ turn.round = p.cursor.round
              /\ turn.round <= c
    <2>1. CASE turn = Turn(p, p.cursor.seat, p.cursor.round) /\ p.cursor.round \in 1..c
      BY <2>1, <1>1, <1>4, TurnIsTurn
    <2>2. CASE /\ p.cursor = PanelTurn(c + 1, 1)
               /\ p.verdict # NoVerdict
               /\ p.text[c + 1][Moderator] > 0
               /\ turn = Turn(p, Moderator, c + 1)
      BY <2>2, <1>1, <1>4, TurnIsTurn
    <2>3. QED
      BY <1>2, <2>1, <2>2
  <1>6. turn # NoTurn
    BY <1>5, ActiveFacts, <1>1
  <1>7. /\ OpenTurn(s).player = q
        /\ OpenTurn(s).debate = e
    BY DEF OpenTurn, Continue
  <1>8. /\ f \in Players
        /\ SameRecording(p, f)
        /\ f.cursor = p.cursor
        /\ f.pendingDone = NoDone /\ f.pendingRoundComplete = 0
        /\ f.pendingErrors = <<>>
    BY <1>1, FlushedPlayerFields DEF SameRecording
  <1>9. /\ e \in Debates
        /\ e.phase = d.phase /\ e.transcript = d.transcript /\ e.verdict = d.verdict
        /\ e.activeSpeakers = {}
        /\ d.currentRound <= e.currentRound
        /\ e.currentRound <= c /\ e.currentRound <= p.cursor.round
        /\ d.phase = "debating" => e.currentRound > 0
        /\ Len(e.errors) <= MaxErrors
    BY <1>3, FlushFacts
  <1>10. cur \in Cursors /\ cur = IF turn.agent = Moderator THEN ModeratorTurn ELSE p.cursor
    BY <1>1, <1>8 DEF Players, Cursors
  <1> HIDE DEF f, turn, cur
  <1>11. /\ q \in Players
         /\ SameRecording(f, q)
         /\ q.active = turn /\ q.cursor = cur
         /\ q.pendingDone = NoDone /\ q.pendingRoundComplete = 0
         /\ q.pendingErrors = <<>>
    BY <1>5, <1>8, <1>10 DEF Players, SameRecording
  <1> HIDE DEF q, e
  <1>12. SameRecording(p, q)
    BY <1>8, <1>11 DEF SameRecording
  <1>13. q.text = p.text /\ q.verdict = p.verdict
    BY <1>12 DEF SameRecording
  <1>14. RecordInv(q, c)
    BY <1>1, <1>11, <1>12, SameRecordingKeeps
  <1>15. /\ turn.agent = Moderator => q.cursor.kind = "moderator"
         /\ turn.agent # Moderator => q.cursor = p.cursor
    BY <1>10, <1>11 DEF ModeratorTurn
  <1>16. turn.round \in Rounds /\ turn.agent \in Agents /\ turn.pos = 0 /\ turn.text \in Nat
    BY <1>5, ConstantFacts DEF Turns, Caps
  <1>17. ScheduleInv(q, c)
    <2>1. q.cursor.kind = "panelist" =>
             /\ q.cursor.round <= c + 1
             /\ q.cursor.round = c + 1 => q.cursor.seat = 1
             /\ q.active.agent = q.cursor.seat
             /\ q.active.round = q.cursor.round
             /\ q.active.round <= c
      BY <1>1, <1>5, <1>11, <1>15 DEF ScheduleInv
    <2>2. q.cursor.kind = "moderator" =>
             /\ q.verdict # NoVerdict
             /\ q.active.agent = Moderator
             /\ q.active.round = c + 1
      BY <1>3, <1>5, <1>11, <1>13, <1>15
    <2>3. q.cursor.kind # "done"
      BY <1>3, <1>15
    <2>4. q.active.text = q.text[q.active.round][q.active.agent] /\ q.active.pos <= q.active.text
      BY <1>5, <1>11, <1>13, <1>16
    <2>5. QED
      BY <2>1, <2>2, <2>3, <2>4, <1>6, <1>11 DEF ScheduleInv
  <1>18. DisplayInv(q, e, c)
    <2>1. \A r \in Rounds, a \in Agents : Revealed(p, r, a) = 0 /\ Revealed(q, r, a) = 0
      BY <1>5, <1>11 DEF Revealed
    <2>2. ASSUME NEW r \in Rounds, NEW a \in Panelists
          PROVE  Played(q, c, r, a) <=> Played(p, c, r, a)
      <3>1. CASE turn.agent # Moderator
        BY <3>1, <1>15 DEF Played
      <3>2. CASE turn.agent = Moderator
        <4>1. p.cursor.round = c + 1 /\ p.cursor.seat = 1
          BY <3>2, <1>5 DEF PanelTurn
        <4>2. QED
          BY <3>2, <4>1, <1>1, <1>3, <1>15, PlayedFromNextRound DEF Played
      <3>3. QED
        BY <3>1, <3>2
    <2>3. Moderator \in Agents /\ \A a \in Panelists : a \in Agents
      BY ConstantFacts
    <2>4. DisplayInv(p, d, c)
      BY DEF PlayInv
    <2>5. \A r \in Rounds, a \in Panelists :
             e.transcript[r][a] = IF Played(q, c, r, a) THEN q.text[r][a] ELSE Revealed(q, r, a)
      BY <2>1, <2>2, <2>3, <2>4, <1>9, <1>13 DEF DisplayInv
    <2>6. \A r \in Rounds :
             e.transcript[r][Moderator] =
                 IF e.phase = "done" THEN q.text[r][Moderator] ELSE Revealed(q, r, Moderator)
      BY <2>1, <2>3, <2>4, <1>9, <1>13 DEF DisplayInv
    <2>7. QED
      BY <2>5, <2>6, <1>9 DEF DisplayInv
  <1>19. StageInv(q, e, c)
    <2>1. StageInv(p, d, c)
      BY DEF PlayInv
    <2>2. d.phase \notin Terminal /\ q.cursor.kind # "done" /\ d.phase \notin {"idle", "done", "error"}
      BY <2>1, <1>3, <1>15 DEF StageInv, Terminal
    <2>3. \A r \in Rounds, a \in Agents : e.transcript[r][a] > 0 => r <= e.currentRound
      <3>1. d.currentRound \in Nat /\ e.currentRound \in Nat
        BY <1>1, <1>9, ConstantFacts DEF Debates
      <3>2. \A r \in Rounds, a \in Agents : d.transcript[r][a] > 0 => r <= d.currentRound
        BY <2>1 DEF StageInv
      <3>3. \A r \in Rounds : r <= d.currentRound => r <= e.currentRound
        BY <3>1, <1>9, ConstantFacts
      <3>4. QED
        BY <3>2, <3>3, <1>9
    <2>4. e.currentRound <= c + 1
      BY <1>1, <1>9, ConstantFacts DEF Debates
    <2>5. e.verdict = NoVerdict
      BY <2>1, <2>2, <1>9 DEF StageInv
    <2>6. q.cursor.kind = "panelist" => q.cursor = p.cursor
      BY <1>15
    <2>7. QED
      BY <2>2, <2>3, <2>4, <2>5, <2>6, <1>9, <1>11 DEF StageInv
  <1>20. OpenInv(q, e)
    <2>1. d.phase # "moderating"
      BY DEF PlayInv, SpeakerInv
    <2>2. QED
      BY <2>1, <1>5, <1>6, <1>9, <1>11 DEF OpenInv
  <1>21. q.cursor \in {p.cursor, ModeratorTurn}
    BY <1>10, <1>11
  <1>22. q.active = PlayableTurn(p) /\ q.active.pos = 0
    BY <1>11, <1>5 DEF turn
  <1>23. QED
    BY <1>3, <1>7, <1>9, <1>12, <1>14, <1>17, <1>18, <1>19, <1>20, <1>21, <1>22

\* finalizeTerminal of a debate that goes on: it ends with the verdict, with
\* the recorded error, or as a disconnect.
LEMMA ConcludedDebate ==
    ASSUME NEW p \in Players, NEW d \in Debates, Len(d.errors) <= MaxErrors,
           d.phase \notin Terminal, d.activeSpeakers = {}, d.verdict = NoVerdict,
           TerminalKnown(p)
    PROVE  LET e == CASE p.verdict # NoVerdict -> ReduceVerdict(d, p.verdict)
                      [] p.verdict = NoVerdict /\ p.sessionError # NoError ->
                             ReduceError(d, p.sessionError)
                      [] OTHER -> ReduceClosed(d)
           IN  /\ e \in Debates
               /\ e.phase = IF p.verdict # NoVerdict THEN "done" ELSE "error"
               /\ e.verdict = p.verdict
               /\ e.currentRound = d.currentRound /\ e.transcript = d.transcript
               /\ e.activeSpeakers = {}
               /\ Len(e.errors) <= MaxErrors
               /\ e.phase = "error" => /\ e.errors # <<>>
                                       /\ e.errors[Len(e.errors)].persona \in {NoPersona, Moderator}
  <1> DEFINE e == CASE p.verdict # NoVerdict -> ReduceVerdict(d, p.verdict)
                    [] p.verdict = NoVerdict /\ p.sessionError # NoError ->
                           ReduceError(d, p.sessionError)
                    [] OTHER -> ReduceClosed(d)
  <1>1. CASE p.verdict # NoVerdict
    <2>1. e = ReduceVerdict(d, p.verdict)
      BY <1>1
    <2>2. p.verdict \in Verdicts
      BY DEF Players
    <2> HIDE DEF e
    <2>3. QED
      BY <1>1, <2>1, <2>2, ReduceVerdictFields DEF e
  <1>2. CASE p.verdict = NoVerdict /\ p.sessionError # NoError
    <2>1. e = ReduceError(d, p.sessionError)
      BY <1>2
    <2>2. p.sessionError \in {SessionLevel, ModeratorFailed}
      BY <1>2 DEF Players
    <2>3. p.sessionError \in Errors /\ p.sessionError.persona \in {NoPersona, Moderator}
      BY <2>2, ConstantFacts DEF SessionLevel, ModeratorFailed, Error, Errors, NoError, NoPersona
    <2> HIDE DEF e
    <2>4. /\ e \in Debates /\ e.phase = "error"
          /\ e.currentRound = d.currentRound
          /\ e.transcript = d.transcript /\ e.verdict = d.verdict
          /\ e.errors = WithError(d, p.sessionError)
          /\ e.activeSpeakers = {}
      BY <2>1, <2>3, ReduceErrorFields
    <2>5. /\ e.errors # <<>>
          /\ Len(e.errors) <= MaxErrors
          /\ e.errors[Len(e.errors)] = p.sessionError
      BY <2>3, <2>4, WithErrorKeepsNewest
    <2>6. QED
      BY <1>2, <2>3, <2>4, <2>5 DEF e
  <1>3. CASE p.verdict = NoVerdict /\ ~(p.sessionError # NoError)
    <2>1. e = ReduceClosed(d)
      BY <1>3
    <2>2. Disconnected \in Errors /\ Disconnected.persona = NoPersona
      BY DEF Disconnected, Error, Errors, NoError, NoPersona
    <2> HIDE DEF e
    <2>3. /\ e \in Debates /\ e.phase = "error"
          /\ e.currentRound = d.currentRound
          /\ e.transcript = d.transcript /\ e.verdict = d.verdict
          /\ e.errors = WithError(d, Disconnected)
          /\ e.activeSpeakers = {}
      BY <2>1, ReduceClosedFields
    <2>4. /\ e.errors # <<>>
          /\ Len(e.errors) <= MaxErrors
          /\ e.errors[Len(e.errors)] = Disconnected
      BY <2>2, <2>3, WithErrorKeepsNewest
    <2>5. QED
      BY <1>3, <2>2, <2>3, <2>4 DEF e
  <1>4. QED
    BY <1>1, <1>2, <1>3

\* prepareNextTurn without a turn to open: the debate is concluded if the
\* stream has ended, else the player parks, and in either case there is nothing
\* left to do.
LEMMA ConcludeKeeps ==
    ASSUME NEW s, NEW c, PlayInv(s.player, s.debate, c),
           s.player.active = NoTurn, PlayableTurn(s.player) = NoTurn
    PROVE  LET t == Conclude(s)
           IN  /\ t.more = FALSE
               /\ SameRecording(s.player, t.player)
               /\ PlayInv(t.player, t.debate, c)
               /\ ~HasReadyWork(t.player)
               /\ HasReadyWork(s.player) => t.player.cursor # s.player.cursor
               /\ ~HasReadyWork(s.player) => t.player = s.player /\ t.debate = s.debate
               /\ s.debate.currentRound <= t.debate.currentRound
  <1> DEFINE p == s.player
             d == s.debate
             f == FlushedPlayer(p)
             q == [f EXCEPT !.cursor = NothingLeft]
             g == FlushedDebate(p, d)
             e == CASE p.verdict # NoVerdict -> ReduceVerdict(g, p.verdict)
                    [] p.verdict = NoVerdict /\ p.sessionError # NoError ->
                           ReduceError(g, p.sessionError)
                    [] OTHER -> ReduceClosed(g)
  <1>1. /\ p \in Players /\ d \in Debates /\ c \in 0..MaxRounds
        /\ RecordInv(p, c) /\ ScheduleInv(p, c) /\ StageInv(p, d, c) /\ DisplayInv(p, d, c)
        /\ SpeakerInv(p, d)
    BY DEF PlayInv, RecordInv, DisplayInv
  <1>2. \/ /\ p.cursor = PanelTurn(c + 1, 1)
           /\ p.verdict # NoVerdict => p.text[c + 1][Moderator] = 0
           /\ ~HasBufferedTurn(p)
        \/ p.cursor.kind = "done"
    <2>1. \A a \in Agents, r \in Rounds : Turn(p, a, r) # NoTurn
      BY <1>1, TurnIsTurn, ActiveFacts
    <2>2. /\ p.cursor.kind = "panelist" /\ p.cursor.round \in 1..c =>
                Turn(p, p.cursor.seat, p.cursor.round) # NoTurn
          /\ Turn(p, Moderator, c + 1) # NoTurn
      BY <2>1, <1>1, CursorFacts, ConstantFacts
    <2>3. QED
      BY <2>2, <1>1, PlayableTurnCases
  <1>3. CASE p.cursor.kind = "done" \/ ~TerminalKnown(p)
    <2>1. Conclude(s).more = FALSE /\ Conclude(s).player = p /\ Conclude(s).debate = d
      BY <1>3 DEF Conclude, Park
    <2>2. ~HasReadyWork(p)
      BY <1>2, <1>3 DEF HasReadyWork
    <2>3. SameRecording(p, p)
      BY DEF SameRecording
    <2>4. d.currentRound <= d.currentRound
      BY <1>1, ConstantFacts DEF Debates
    <2>5. QED
      BY <2>1, <2>2, <2>3, <2>4
  <1>4. CASE p.cursor.kind # "done" /\ TerminalKnown(p)
    <2>1. /\ p.cursor = PanelTurn(c + 1, 1) /\ p.cursor.kind = "panelist"
          /\ p.cursor.round = c + 1 /\ p.cursor.seat = 1
          /\ p.verdict # NoVerdict => p.text[c + 1][Moderator] = 0
      BY <1>2, <1>4 DEF PanelTurn
    <2>2. /\ Conclude(s).more = FALSE /\ Conclude(s).player = q /\ Conclude(s).debate = e
      BY <1>4 DEF Conclude, Park
    <2>3. /\ g \in Debates
          /\ g.phase = d.phase /\ g.transcript = d.transcript /\ g.verdict = d.verdict
          /\ g.activeSpeakers = {}
          /\ d.currentRound <= g.currentRound
          /\ g.currentRound <= c
          /\ Len(g.errors) <= MaxErrors
      BY <2>1, FlushFacts
    <2>4. d.phase \notin Terminal /\ d.phase # "done" /\ d.verdict = NoVerdict
      BY <1>1, <1>4 DEF StageInv, Terminal
    <2> HIDE DEF g
    <2>5. /\ e \in Debates
          /\ e.phase = IF p.verdict # NoVerdict THEN "done" ELSE "error"
          /\ e.verdict = p.verdict
          /\ e.currentRound = g.currentRound /\ e.transcript = d.transcript
          /\ e.activeSpeakers = {}
          /\ Len(e.errors) <= MaxErrors
          /\ e.phase = "error" => /\ e.errors # <<>>
                                  /\ e.errors[Len(e.errors)].persona \in {NoPersona, Moderator}
      BY <1>1, <1>4, <2>3, <2>4, ConcludedDebate
    <2>6. /\ f \in Players
          /\ SameRecording(p, f)
          /\ f.active = NoTurn
          /\ f.pendingDone = NoDone /\ f.pendingRoundComplete = 0
          /\ f.pendingErrors = <<>>
      BY <1>1, FlushedPlayerFields DEF SameRecording
    <2> HIDE DEF f
    <2>7. /\ q \in Players
          /\ SameRecording(f, q)
          /\ q.cursor = NothingLeft /\ q.active = NoTurn
          /\ q.pendingDone = NoDone /\ q.pendingRoundComplete = 0
          /\ q.pendingErrors = <<>>
      BY <2>6 DEF Players, Cursors, SameRecording
    <2> HIDE DEF q, e
    <2>8. SameRecording(p, q) /\ q.text = p.text /\ q.verdict = p.verdict
      BY <2>6, <2>7 DEF SameRecording
    <2>9. RecordInv(q, c)
      BY <1>1, <2>7, <2>8, SameRecordingKeeps
    <2>10. q.cursor.kind = "done"
      BY <2>7 DEF NothingLeft
    <2>11. ScheduleInv(q, c)
      <3>1. TerminalKnown(q)
        BY <1>4, <2>8 DEF TerminalKnown, SameRecording
      <3>2. QED
        BY <2>7, <2>10, <3>1 DEF ScheduleInv
    <2>12. DisplayInv(q, e, c)
      <3>1. \A r \in Rounds, a \in Agents : Revealed(p, r, a) = 0 /\ Revealed(q, r, a) = 0
        BY <2>7 DEF Revealed
      <3>2. \A r \in Rounds, a \in Panelists : Played(q, c, r, a) <=> Played(p, c, r, a)
        BY <1>1, <2>1, <2>10, PlayedFromNextRound DEF Played
      <3>3. Moderator \in Agents /\ \A a \in Panelists : a \in Agents
        BY ConstantFacts
      <3>4. \A r \in Rounds, a \in Panelists :
               e.transcript[r][a] = IF Played(q, c, r, a) THEN q.text[r][a] ELSE Revealed(q, r, a)
        BY <1>1, <2>5, <2>8, <3>1, <3>2, <3>3 DEF DisplayInv
      <3>5. ASSUME NEW r \in Rounds
            PROVE  e.transcript[r][Moderator] =
                      IF e.phase = "done" THEN q.text[r][Moderator] ELSE Revealed(q, r, Moderator)
        <4>1. e.transcript[r][Moderator] = 0
          BY <1>1, <2>4, <2>5, <3>1, <3>3 DEF DisplayInv
        <4>2. CASE e.phase # "done"
          BY <4>1, <4>2, <3>1, <3>3
        <4>3. CASE e.phase = "done"
          <5>1. p.verdict # NoVerdict
            BY <4>3, <2>5
          <5>2. p.text[r][Moderator] = 0
            <6>1. CASE r <= c
              BY <6>1, <1>1 DEF RecordInv
            <6>2. CASE r > c /\ r # c + 1
              BY <6>2, <5>1, <1>1, <3>3 DEF RecordInv
            <6>3. CASE r = c + 1
              BY <6>3, <5>1, <2>1
            <6>4. QED
              BY <6>1, <6>2, <6>3, <1>1, ConstantFacts
          <5>3. QED
            BY <4>1, <4>3, <5>2, <2>8
        <4>4. QED
          BY <4>2, <4>3
      <3>6. QED
        BY <3>4, <3>5, <2>5 DEF DisplayInv
    <2>13. StageInv(q, e, c)
      <3>1. d.currentRound \in Nat /\ g.currentRound \in Nat
        BY <1>1, <2>3, ConstantFacts DEF Debates
      <3>2. e.currentRound <= c + 1
        BY <3>1, <2>3, <2>5, <1>1, ConstantFacts
      <3>3. \A r \in Rounds, a \in Agents : e.transcript[r][a] > 0 => r <= e.currentRound
        <4>1. \A r \in Rounds, a \in Agents : d.transcript[r][a] > 0 => r <= d.currentRound
          BY <1>1 DEF StageInv
        <4>2. \A r \in Rounds : r <= d.currentRound => r <= e.currentRound
          BY <3>1, <2>3, <2>5, ConstantFacts
        <4>3. QED
          BY <4>1, <4>2, <2>5
      <3>4. e.phase \in {"done", "error"} /\ e.phase \in Terminal
        BY <2>5 DEF Terminal
      <3>5. QED
        BY <3>2, <3>3, <3>4, <2>5, <2>8, <2>10 DEF StageInv
    <2>14. SpeakerInv(q, e)
      BY <2>5, <2>7 DEF SpeakerInv
    <2>15. ~HasReadyWork(q)
      BY <2>7, <2>10 DEF HasReadyWork
    <2>16. HasReadyWork(p) /\ q.cursor # p.cursor
      BY <1>4, <2>10 DEF HasReadyWork
    <2>17. QED
      BY <2>2, <2>3, <2>5, <2>8, <2>9, <2>11, <2>12, <2>13, <2>14, <2>15, <2>16 DEF PlayInv
  <1>5. QED
    BY <1>3, <1>4

\* revealStep, whichever case it takes, keeps the invariant, and the replay
\* gets on.
LEMMA RevealStepKeeps ==
    ASSUME NEW s, NEW c, NEW whole \in BOOLEAN,
           RecordInv(s.player, c), ScheduleInv(s.player, c), DisplayInv(s.player, s.debate, c),
           StageInv(s.player, s.debate, c), OpenInv(s.player, s.debate)
    PROVE  LET t == RevealStep(s, s.player.active, whole)
           IN  /\ SameRecording(s.player, t.player)
               /\ PlayInv(t.player, t.debate, c)
               /\ s.debate.currentRound <= t.debate.currentRound
               /\ \/ /\ t.more = TRUE
                     /\ t.player.active # NoTurn
                     /\ s.player.active.pos < s.player.active.text
                     /\ t.player.cursor = s.player.cursor
                     /\ t.player.active.pos # s.player.active.pos
                     /\ whole => t.player.active.pos = t.player.active.text
                  \/ /\ t.more = TRUE
                     /\ t.player.active = NoTurn
                     /\ s.player.active.pos = s.player.active.text
                     /\ s.player.cursor.kind = "panelist"
                     /\ s.player.cursor.round \in 1..c /\ s.player.cursor.seat \in Panelists
                     /\ t.player.cursor = After(s.player.cursor.round, s.player.cursor.seat)
                  \/ /\ t.more = FALSE
                     /\ t.player.active = NoTurn
                     /\ t.player.cursor = NothingLeft
                     /\ s.player.cursor.kind # "done"
  <1> DEFINE p == s.player
             turn == p.active
             t == RevealStep(s, turn, whole)
             to == IF whole THEN turn.text ELSE turn.pos + 1
  <1>1. /\ p \in Players /\ s.debate \in Debates /\ c \in 0..MaxRounds /\ turn # NoTurn
        /\ turn.pos <= turn.text /\ p.cursor.kind # "done"
    BY DEF RecordInv, DisplayInv, OpenInv, ScheduleInv
  <1>2. turn.pos \in Nat /\ turn.text \in Nat
    BY <1>1, ActiveFacts, ConstantFacts DEF Turns, Caps
  <1>3. s.debate.currentRound \in Nat
    BY <1>1, ConstantFacts DEF Debates
  <1>4. CASE turn.pos < turn.text
    <2>1. t = Reveal(s, turn, to)
      <3>1. ~(turn.pos >= turn.text)
        BY <1>2, <1>4
      <3>2. RevealStep(s, turn, whole) = Reveal(s, turn, IF whole THEN turn.text ELSE turn.pos + 1)
        BY <1>4, <3>1 DEF RevealStep
      <3>3. QED
        BY <3>2
    <2>2. to \in Nat /\ turn.pos < to /\ to <= turn.text /\ to # turn.pos
      BY <1>2, <1>4
    <2> HIDE DEF t, to
    <2>3. /\ t.more = TRUE
          /\ SameRecording(p, t.player)
          /\ PlayInv(t.player, t.debate, c)
          /\ t.player.cursor = p.cursor
          /\ t.player.active # NoTurn
          /\ t.player.active.pos = to
          /\ t.player.active.text = turn.text
          /\ s.debate.currentRound <= t.debate.currentRound
      <3>1. \A n \in Nat : p.active.pos < n /\ n <= p.active.text =>
               LET u == Reveal(s, p.active, n)
               IN  /\ u.more = TRUE
                   /\ SameRecording(p, u.player)
                   /\ PlayInv(u.player, u.debate, c)
                   /\ u.player.cursor = p.cursor
                   /\ u.player.active # NoTurn
                   /\ u.player.active.pos = n
                   /\ u.player.active.text = p.active.text
                   /\ s.debate.currentRound <= u.debate.currentRound
        BY RevealKeeps
      <3>2. QED
        BY <2>1, <2>2, <3>1
    <2>4. whole => t.player.active.pos = t.player.active.text
      BY <2>3 DEF to
    <2>5. t.player.active.pos # turn.pos
      BY <2>2, <2>3
    <2>6. QED
      BY <1>4, <2>3, <2>4, <2>5 DEF t
  <1>5. CASE ~(turn.pos < turn.text) /\ turn.agent = Moderator
    <2>1. turn.pos = turn.text /\ turn.pos >= turn.text
      BY <1>1, <1>2, <1>5
    <2>2. t = DeliverVerdict(s)
      BY <1>5, <2>1 DEF RevealStep
    <2> HIDE DEF t
    <2>3. /\ t.more = FALSE
          /\ SameRecording(p, t.player)
          /\ PlayInv(t.player, t.debate, c)
          /\ t.player.active = NoTurn
          /\ t.player.cursor = NothingLeft
          /\ t.debate.currentRound = s.debate.currentRound
      BY <1>5, <2>1, <2>2, DeliverVerdictKeeps
    <2>4. QED
      BY <1>1, <1>3, <2>3 DEF t
  <1>6. CASE ~(turn.pos < turn.text) /\ turn.agent # Moderator
    <2>1. turn.pos = turn.text /\ turn.pos >= turn.text
      BY <1>1, <1>2, <1>6
    <2>2. t = CloseTurn(s, turn)
      BY <1>6, <2>1 DEF RevealStep
    <2> HIDE DEF t
    <2>3. /\ t.more = TRUE
          /\ SameRecording(p, t.player)
          /\ PlayInv(t.player, t.debate, c)
          /\ p.cursor.kind = "panelist"
          /\ p.cursor.round \in 1..c /\ p.cursor.seat \in Panelists
          /\ t.player.cursor = After(p.cursor.round, p.cursor.seat)
          /\ t.player.active = NoTurn
          /\ t.debate = s.debate
      BY <1>6, <2>1, <2>2, CloseTurnKeeps
    <2>4. QED
      BY <1>3, <2>1, <2>3 DEF t
  <1>7. QED
    BY <1>4, <1>5, <1>6

-----------------------------------------------------------------------------
(* Whole steps, and the loop of skipToLive. *)

\* How far the replay is: it counts the ends of turns and of their reveals.
Place(cursor) ==
    IF cursor.kind = "panelist" THEN (cursor.round - 1) * N + cursor.seat - 1 ELSE MaxRounds * N

\* Where in the replay a player is: two steps for each turn.
Progress(p) ==
    2 * Place(p.cursor) + (IF p.active # NoTurn /\ p.active.pos = p.active.text THEN 1 ELSE 0)

\* Multiplication by a number of seats.
LEMMA ProductIsMonotonic ==
    ASSUME NEW i \in Nat, NEW j \in Nat, NEW n \in Nat, i <= j
    PROVE  /\ i * n \in Nat /\ i * n <= j * n
           /\ (i + 1) * n = i * n + n
  <1>1. PICK k \in Nat : j = i + k
    BY j - i \in Nat
  <1>2. k * n \in Nat /\ i * n \in Nat
    OBVIOUS
  <1>3. j * n = i * n + k * n
    BY <1>1
  <1>4. (i + 1) * n = i * n + n
    OBVIOUS
  <1>5. QED
    BY <1>2, <1>3, <1>4

\* A turn that is closed is one place further on; no place is behind the last
\* turn of the panel.
LEMMA PlaceFacts ==
    /\ \A r \in Rounds, a \in Panelists :
          /\ Place(PanelTurn(r, a)) \in Nat
          /\ r <= MaxRounds => /\ Place(After(r, a)) = Place(PanelTurn(r, a)) + 1
                               /\ Place(PanelTurn(r, a)) + 1 <= MaxRounds * N
          /\ a = 1 => Place(PanelTurn(r, a)) <= MaxRounds * N
    /\ Place(ModeratorTurn) = MaxRounds * N /\ Place(NothingLeft) = MaxRounds * N
    /\ MaxRounds * N \in Nat
  <1>1. ASSUME NEW r \in Rounds, NEW a \in Panelists
        PROVE  /\ Place(PanelTurn(r, a)) \in Nat
               /\ r <= MaxRounds => /\ Place(After(r, a)) = Place(PanelTurn(r, a)) + 1
                                    /\ Place(PanelTurn(r, a)) + 1 <= MaxRounds * N
               /\ a = 1 => Place(PanelTurn(r, a)) <= MaxRounds * N
    <2> DEFINE before == (r - 1) * N
               all == MaxRounds * N
    <2>1. r \in Nat /\ r - 1 \in Nat /\ r - 1 <= MaxRounds /\ a \in Nat /\ a >= 1 /\ a <= N /\ N \in Nat
          /\ MaxRounds \in Nat
      BY ConstantFacts
    <2>2. before \in Nat /\ all \in Nat /\ before <= all /\ r * N = before + N
      <3>1. ((r - 1) + 1) * N = (r - 1) * N + N
        BY <2>1, ProductIsMonotonic
      <3>2. (r - 1) + 1 = r
        <4>1. \A n \in Nat : (n - 1) + 1 = n
          OBVIOUS
        <4>2. QED
          BY <2>1, <4>1
      <3>3. before \in Nat /\ before <= all
        BY <2>1, ProductIsMonotonic
      <3>4. all \in Nat
        BY <2>1, ProductIsMonotonic
      <3>5. QED
        BY <3>1, <3>2, <3>3, <3>4
    <2>3. r <= MaxRounds => r * N <= all
      BY <2>1, ProductIsMonotonic
    <2>4. Place(PanelTurn(r, a)) = before + a - 1
      BY DEF Place, PanelTurn
    <2>5. Place(After(r, a)) = IF a < N THEN before + (a + 1) - 1 ELSE r * N + 1 - 1
      <3>1. (r + 1) - 1 = r
        <4>1. \A n \in Nat : (n + 1) - 1 = n
          OBVIOUS
        <4>2. QED
          BY <2>1, <4>1
      <3>2. QED
        BY <3>1 DEF Place, PanelTurn, After
    <2> HIDE DEF before, all
    <2>6. QED
      BY <2>1, <2>2, <2>3, <2>4, <2>5 DEF all
  <1>2. Place(ModeratorTurn) = MaxRounds * N /\ Place(NothingLeft) = MaxRounds * N
    BY DEF Place, ModeratorTurn, NothingLeft
  <1>3. MaxRounds * N \in Nat
    BY ConstantFacts, ProductIsMonotonic
  <1>4. QED
    BY <1>1, <1>2, <1>3

\* The progress of a replay is bounded by the number of its turns.
LEMMA PlaceOfCursor ==
    ASSUME NEW p, NEW c, RecordInv(p, c), ScheduleInv(p, c)
    PROVE  /\ Place(p.cursor) \in Nat
           /\ Place(p.cursor) <= MaxRounds * N
           /\ Progress(p) \in Nat
           /\ Progress(p) <= 2 * (MaxRounds * N) + 1
           /\ p.active = NoTurn => Progress(p) = 2 * Place(p.cursor)
           /\ p.active # NoTurn /\ p.active.pos = p.active.text =>
                 Progress(p) = 2 * Place(p.cursor) + 1
           /\ p.active # NoTurn /\ p.active.pos # p.active.text =>
                 Progress(p) = 2 * Place(p.cursor)
  <1> DEFINE place == Place(p.cursor)
             all == MaxRounds * N
  <1>1. p \in Players /\ c \in 0..MaxRounds
    BY DEF RecordInv
  <1>2. all \in Nat
    BY PlaceFacts
  <1>3. place \in Nat /\ place <= all
    <2>1. CASE p.cursor.kind = "panelist"
      <3>1. /\ p.cursor = PanelTurn(p.cursor.round, p.cursor.seat)
            /\ p.cursor.round \in Rounds /\ p.cursor.seat \in Panelists
        BY <1>1, <2>1 DEF Players, Cursors, PanelTurn, ModeratorTurn, NothingLeft
      <3>2. p.cursor.round <= MaxRounds \/ p.cursor.seat = 1
        BY <1>1, <2>1, <3>1, ConstantFacts DEF ScheduleInv
      <3>3. /\ Place(PanelTurn(p.cursor.round, p.cursor.seat)) \in Nat
            /\ \/ Place(PanelTurn(p.cursor.round, p.cursor.seat)) + 1 <= all
               \/ Place(PanelTurn(p.cursor.round, p.cursor.seat)) <= all
        BY <3>1, <3>2, PlaceFacts
      <3>4. place \in Nat /\ (place + 1 <= all \/ place <= all)
        BY <3>1, <3>3
      <3> HIDE DEF place, all
      <3>5. QED
        BY <3>4, <1>2
    <2>2. CASE p.cursor.kind # "panelist"
      <3>1. place = all
        BY <2>2 DEF Place
      <3> HIDE DEF place, all
      <3>2. QED
        BY <3>1, <1>2
    <2>3. QED
      BY <2>1, <2>2
  <1>4. /\ p.active = NoTurn => Progress(p) = 2 * place + 0
        /\ p.active # NoTurn /\ p.active.pos = p.active.text => Progress(p) = 2 * place + 1
        /\ p.active # NoTurn /\ p.active.pos # p.active.text => Progress(p) = 2 * place + 0
    BY DEF Progress
  <1> HIDE DEF place, all
  <1>5. Progress(p) \in {2 * place, 2 * place + 1}
    BY <1>3, <1>4
  <1>6. 2 * place \in Nat /\ 2 * place + 0 = 2 * place /\ 2 * place <= 2 * all
    BY <1>2, <1>3
  <1>7. QED
    BY <1>2, <1>3, <1>4, <1>5, <1>6 DEF place, all

\* A step of the scheduler (DebatePlayer.step) keeps the invariant; if it asks
\* not to be called again there is nothing left to play; it changes something
\* exactly if there was work; and if it goes on the replay has made progress.
THEOREM StepKeeps ==
    ASSUME NEW s, NEW c, NEW whole \in BOOLEAN, PlayInv(s.player, s.debate, c)
    PROVE  LET t == Step(s, whole)
           IN  /\ t.more \in BOOLEAN
               /\ SameRecording(s.player, t.player)
               /\ PlayInv(t.player, t.debate, c)
               /\ s.debate.currentRound <= t.debate.currentRound
               /\ ~t.more => ~HasReadyWork(t.player)
               /\ HasReadyWork(s.player) => t.player # s.player
               /\ ~HasReadyWork(s.player) =>
                     t.player = s.player /\ t.debate = s.debate /\ ~t.more
               /\ whole /\ t.more => Progress(t.player) >= Progress(s.player) + 1
  <1> DEFINE p == s.player
             d == s.debate
             t == Step(s, whole)
  <1>1. /\ p \in Players /\ d \in Debates /\ c \in 0..MaxRounds
        /\ RecordInv(p, c) /\ ScheduleInv(p, c) /\ StageInv(p, d, c) /\ DisplayInv(p, d, c)
        /\ SpeakerInv(p, d)
    BY DEF PlayInv, RecordInv, DisplayInv
  <1>2. Place(p.cursor) \in Nat /\ Place(p.cursor) <= MaxRounds * N /\ MaxRounds * N \in Nat
    BY <1>1, PlaceOfCursor, PlaceFacts
  <1>3. NothingLeft.kind = "done" /\ ModeratorTurn.kind = "moderator"
        /\ Place(ModeratorTurn) = MaxRounds * N
    BY PlaceFacts DEF NothingLeft, ModeratorTurn
  <1>4. ASSUME NEW r \in 1..c, NEW a \in Panelists, p.cursor.kind = "panelist",
               p.cursor.round = r, p.cursor.seat = a
        PROVE  Place(After(r, a)) = Place(p.cursor) + 1 /\ After(r, a) # p.cursor
    <2>1. p.cursor = PanelTurn(r, a)
      BY <1>1, <1>4 DEF Players, Cursors, PanelTurn, ModeratorTurn, NothingLeft
    <2>2. r \in Rounds /\ r <= MaxRounds
      BY <1>1, ConstantFacts
    <2>3. Place(After(r, a)) = Place(PanelTurn(r, a)) + 1
      BY <2>2, PlaceFacts
    <2>4. QED
      BY <1>2, <2>1, <2>3
  <1>5. CASE p.active # NoTurn
    <2>1. t = RevealStep(s, p.active, whole)
      BY <1>5 DEF Step
    <2>2. OpenInv(p, d)
      <3>1. p.active.text \in Nat /\ p.active.pos \in Nat
        BY <1>1, <1>5, ActiveFacts, ConstantFacts DEF Turns, Caps
      <3>2. p.active.pos > 0 /\ p.active.pos <= p.active.text
        BY <1>1, <1>5 DEF SpeakerInv, ScheduleInv
      <3>3. p.active.text > 0
        BY <3>1, <3>2
      <3>4. QED
        BY <1>1, <1>5, <3>2, <3>3 DEF SpeakerInv, OpenInv
    <2> HIDE DEF t
    <2>3. /\ SameRecording(p, t.player)
          /\ PlayInv(t.player, t.debate, c)
          /\ d.currentRound <= t.debate.currentRound
          /\ \/ /\ t.more = TRUE
                /\ t.player.active # NoTurn
                /\ p.active.pos < p.active.text
                /\ t.player.cursor = p.cursor
                /\ t.player.active.pos # p.active.pos
                /\ whole => t.player.active.pos = t.player.active.text
             \/ /\ t.more = TRUE
                /\ t.player.active = NoTurn
                /\ p.active.pos = p.active.text
                /\ p.cursor.kind = "panelist"
                /\ p.cursor.round \in 1..c /\ p.cursor.seat \in Panelists
                /\ t.player.cursor = After(p.cursor.round, p.cursor.seat)
             \/ /\ t.more = FALSE
                /\ t.player.active = NoTurn
                /\ t.player.cursor = NothingLeft
                /\ p.cursor.kind # "done"
      BY <1>1, <2>1, <2>2, RevealStepKeeps
    <2>4. HasReadyWork(p) /\ t.player # p
      BY <1>5, <2>3 DEF HasReadyWork
    <2>5. ~t.more => ~HasReadyWork(t.player)
      BY <1>3, <2>3 DEF HasReadyWork
    <2>6. RecordInv(t.player, c) /\ ScheduleInv(t.player, c)
      BY <2>3 DEF PlayInv
    <2>7. ASSUME whole, t.more PROVE Progress(t.player) >= Progress(p) + 1
      <3>1. CASE t.player.active # NoTurn
        <4>1. Progress(t.player) = 2 * Place(p.cursor) + 1
          BY <2>3, <2>6, <2>7, <3>1, PlaceOfCursor
        <4>2. p.active.pos # p.active.text
          BY <2>3, <3>1, <2>7, <1>1, <1>5, ActiveFacts, ConstantFacts DEF Turns, Caps
        <4>3. Progress(p) = 2 * Place(p.cursor)
          BY <1>1, <1>5, <4>2, PlaceOfCursor
        <4>4. QED
          BY <1>2, <4>1, <4>3
      <3>2. CASE t.player.active = NoTurn
        <4>1. Progress(t.player) = 2 * Place(t.player.cursor)
          BY <2>6, <3>2, PlaceOfCursor
        <4>2. Place(t.player.cursor) = Place(p.cursor) + 1
          BY <2>3, <2>7, <3>2, <1>4
        <4>3. Progress(p) = 2 * Place(p.cursor) + 1
          BY <1>1, <1>5, <2>3, <2>7, <3>2, PlaceOfCursor
        <4>4. QED
          BY <1>2, <4>1, <4>2, <4>3
      <3>3. QED
        BY <3>1, <3>2
    <2>8. QED
      BY <2>3, <2>4, <2>5, <2>7 DEF t
  <1>6. CASE p.active = NoTurn /\ PlayableTurn(p) # NoTurn
    <2> DEFINE u == OpenTurn(s)
    <2>1. t = RevealStep(u, PlayableTurn(p), whole)
      BY <1>6 DEF Step
    <2> HIDE DEF u, t
    <2>2. /\ SameRecording(p, u.player)
          /\ RecordInv(u.player, c)
          /\ ScheduleInv(u.player, c)
          /\ DisplayInv(u.player, u.debate, c)
          /\ StageInv(u.player, u.debate, c)
          /\ OpenInv(u.player, u.debate)
          /\ u.player.active = PlayableTurn(p)
          /\ p.cursor.kind = "panelist"
          /\ u.player.cursor \in {p.cursor, ModeratorTurn}
          /\ d.currentRound <= u.debate.currentRound
      BY <1>6, OpenTurnKeeps DEF u
    <2>3. /\ SameRecording(u.player, t.player)
          /\ PlayInv(t.player, t.debate, c)
          /\ u.debate.currentRound <= t.debate.currentRound
          /\ \/ /\ t.more = TRUE
                /\ t.player.active # NoTurn
                /\ t.player.cursor = u.player.cursor
                /\ whole => t.player.active.pos = t.player.active.text
             \/ /\ t.more = TRUE
                /\ t.player.active = NoTurn
                /\ u.player.cursor.kind = "panelist"
                /\ u.player.cursor.round \in 1..c /\ u.player.cursor.seat \in Panelists
                /\ t.player.cursor = After(u.player.cursor.round, u.player.cursor.seat)
             \/ /\ t.more = FALSE
                /\ t.player.active = NoTurn
                /\ t.player.cursor = NothingLeft
      <3>1. t = RevealStep(u, u.player.active, whole)
        BY <2>1, <2>2
      <3>2. QED
        BY <2>2, <3>1, RevealStepKeeps
    <2>4. SameRecording(p, t.player)
      BY <2>2, <2>3 DEF SameRecording
    <2>5. d.currentRound <= t.debate.currentRound
      <3>1. u.debate \in Debates /\ t.debate \in Debates
        BY <2>2, <2>3 DEF DisplayInv, PlayInv
      <3>2. d.currentRound \in Nat /\ u.debate.currentRound \in Nat /\ t.debate.currentRound \in Nat
        <4>1. \A e \in Debates : e.currentRound \in Nat
          BY ConstantFacts DEF Debates
        <4>2. QED
          BY <1>1, <3>1, <4>1
      <3>3. QED
        BY <3>2, <2>2, <2>3
    <2>6. HasReadyWork(p)
      <3>1. HasBufferedTurn(p) \/ p.verdict # NoVerdict
        BY <1>1, <1>6, PlayableTurnCases
      <3>2. QED
        BY <3>1, <2>2 DEF HasReadyWork, TerminalKnown
    <2>7. u.player.cursor.kind = "panelist" => u.player.cursor = p.cursor
      BY <1>3, <2>2
    <2>8. t.player # p
      BY <1>3, <1>4, <1>6, <2>2, <2>3, <2>7
    <2>9. ~t.more => ~HasReadyWork(t.player)
      BY <1>3, <2>3 DEF HasReadyWork
    <2>10. RecordInv(t.player, c) /\ ScheduleInv(t.player, c)
      BY <2>3 DEF PlayInv
    <2>11. Progress(p) = 2 * Place(p.cursor)
      BY <1>1, <1>6, PlaceOfCursor
    <2>12. ASSUME whole, t.more PROVE Progress(t.player) >= Progress(p) + 1
      <3>1. CASE t.player.active # NoTurn
        <4>1. Progress(t.player) = 2 * Place(u.player.cursor) + 1
          BY <2>3, <2>10, <2>12, <3>1, PlaceOfCursor
        <4>2. Place(u.player.cursor) \in Nat /\ Place(p.cursor) <= Place(u.player.cursor)
          BY <1>2, <1>3, <2>2
        <4>3. QED
          BY <1>2, <2>11, <4>1, <4>2
      <3>2. CASE t.player.active = NoTurn
        <4>1. Progress(t.player) = 2 * Place(t.player.cursor)
          BY <2>10, <3>2, PlaceOfCursor
        <4>2. Place(t.player.cursor) = Place(p.cursor) + 1
          BY <2>2, <2>3, <2>7, <2>12, <3>2, <1>4
        <4>3. QED
          BY <1>2, <2>11, <4>1, <4>2
      <3>3. QED
        BY <3>1, <3>2
    <2>13. t.more \in BOOLEAN
      BY <2>3
    <2>14. QED
      BY <2>3, <2>4, <2>5, <2>6, <2>8, <2>9, <2>12, <2>13 DEF t
  <1>7. CASE p.active = NoTurn /\ PlayableTurn(p) = NoTurn
    <2>1. t = Conclude(s)
      BY <1>7 DEF Step
    <2> HIDE DEF t
    <2>2. /\ t.more = FALSE
          /\ SameRecording(p, t.player)
          /\ PlayInv(t.player, t.debate, c)
          /\ ~HasReadyWork(t.player)
          /\ HasReadyWork(p) => t.player.cursor # p.cursor
          /\ ~HasReadyWork(p) => t.player = p /\ t.debate = d
          /\ d.currentRound <= t.debate.currentRound
      BY <1>7, <2>1, ConcludeKeeps
    <2>3. HasReadyWork(p) => t.player # p
      BY <2>2
    <2>4. QED
      BY <2>2, <2>3 DEF t
  <1>8. QED
    BY <1>5, <1>6, <1>7

\* The recursion of Drain has a solution on every initial segment.
LEMMA RunExists ==
    ASSUME NEW s, NEW K \in Nat
    PROVE  \E g : g = [i \in 0..K |-> IF i = 0 THEN Step(s, TRUE) ELSE Again(g[i - 1])]
  <1> DEFINE F(g, k) == [i \in 0..k |-> IF i = 0 THEN Step(s, TRUE) ELSE Again(g[i - 1])]
             Bad == {k \in Nat : ~ \E g : g = F(g, k)}
  <1>1. Bad = {}
    <2>1. SUFFICES ASSUME Bad # {} PROVE FALSE
      OBVIOUS
    <2>2. PICK k \in Bad : \A j \in Bad : k <= j
      BY <2>1, LeastElement
    <2>3. CASE k = 0
      <3>1. [i \in 0..0 |-> Step(s, TRUE)] = F([i \in 0..0 |-> Step(s, TRUE)], 0)
        OBVIOUS
      <3>2. QED
        BY <3>1, <2>3
    <2>4. CASE k # 0
      <3>1. k \in Nat /\ k - 1 \in Nat /\ k - 1 \notin Bad
        <4>1. k \in Nat
          BY <2>2
        <4> HIDE DEF Bad
        <4>2. k - 1 \in Nat /\ ~(k <= k - 1)
          BY <2>4, <4>1
        <4>3. QED
          BY <2>2, <4>1, <4>2
      <3>2. PICK g : g = F(g, k - 1)
        BY <3>1
      <3> DEFINE h == [i \in 0..k |-> IF i = k THEN Again(g[k - 1]) ELSE g[i]]
      <3>3. h = F(h, k)
        <4>1. ASSUME NEW i \in 0..k PROVE h[i] = IF i = 0 THEN Step(s, TRUE) ELSE Again(h[i - 1])
          <5>1. CASE i = k
            BY <5>1, <3>1, <2>4
          <5>2. CASE i # k /\ i # 0
            <6>1. i \in 0..(k-1) /\ i - 1 \in 0..k /\ i - 1 # k
              BY <5>2, <3>1
            <6>2. g[i] = Again(g[i - 1])
              BY <6>1, <3>2, <5>2
            <6>3. QED
              BY <6>1, <6>2, <5>2
          <5>3. CASE i = 0
            <6>1. i # k /\ i \in 0..(k - 1)
              BY <5>3, <2>4, <3>1
            <6>2. g[i] = Step(s, TRUE)
              BY <6>1, <3>2, <5>3
            <6>3. QED
              BY <6>1, <6>2, <5>3
          <5>4. QED
            BY <5>1, <5>2, <5>3
        <4>2. QED
          BY <4>1
      <3>4. QED
        BY <3>3, <3>1
    <2>5. QED
      BY <2>3, <2>4
  <1>2. QED
    BY <1>1

\* skipToLive is a run of steps, each after the first only if the one before it
\* asked for it, of more steps than a replay has.
LEMMA DrainIsRun ==
    ASSUME NEW s
    PROVE  /\ MostSteps \in Nat
           /\ MostSteps > 2 * (MaxRounds * N) + 1
           /\ \E g : /\ g[0] = Step(s, TRUE)
                     /\ \A i \in 1..MostSteps : g[i] = Again(g[i - 1])
                     /\ Drain(s) = g[MostSteps]
  <1> DEFINE F(g) == [i \in 0..MostSteps |-> IF i = 0 THEN Step(s, TRUE) ELSE Again(g[i - 1])]
             run == CHOOSE g : g = F(g)
  <1>1. MostSteps \in Nat /\ MostSteps > 2 * (MaxRounds * N) + 1
    <2>1. \A n \in Nat : 2 * (n + 1) + 1 \in Nat /\ 2 * (n + 1) + 1 > 2 * n + 1
      OBVIOUS
    <2>2. MaxRounds * N \in Nat /\ N * MaxRounds = MaxRounds * N
      BY PlaceFacts, ConstantFacts
    <2>3. QED
      BY <2>1, <2>2 DEF MostSteps
  <1>2. run = F(run)
    BY <1>1, RunExists
  <1>3. Drain(s) = run[MostSteps]
    BY DEF Drain
  <1> HIDE DEF run
  <1>4. run[0] = Step(s, TRUE)
    BY <1>1, <1>2
  <1>5. \A i \in 1..MostSteps : run[i] = Again(run[i - 1])
    <2>1. ASSUME NEW i \in 1..MostSteps PROVE run[i] = Again(run[i - 1])
      <3>1. i \in 0..MostSteps /\ i # 0
        BY <1>1
      <3>2. run[i] = F(run)[i]
        BY <1>2
      <3>3. QED
        BY <3>1, <3>2
    <2>2. QED
      BY <2>1
  <1>6. QED
    BY <1>1, <1>3, <1>4, <1>5

\* skipToLive plays everything that is recorded: the loop ends because the
\* scheduler has parked, not because it was bounded.
THEOREM DrainKeeps ==
    ASSUME NEW s, NEW c, PlayInv(s.player, s.debate, c)
    PROVE  LET t == Drain(s)
           IN  /\ ~t.more
               /\ SameRecording(s.player, t.player)
               /\ PlayInv(t.player, t.debate, c)
               /\ s.debate.currentRound <= t.debate.currentRound
               /\ ~HasReadyWork(t.player)
               /\ ~HasReadyWork(s.player) => t.player = s.player /\ t.debate = s.debate
  <1> DEFINE p == s.player
             d == s.debate
             Good(u, i) ==
                /\ u.more \in BOOLEAN
                /\ SameRecording(p, u.player)
                /\ PlayInv(u.player, u.debate, c)
                /\ d.currentRound <= u.debate.currentRound
                /\ ~u.more => ~HasReadyWork(u.player)
                /\ ~HasReadyWork(p) => u.player = p /\ u.debate = d /\ ~u.more
                /\ u.more => Progress(u.player) >= i + 1
  <1>1. MostSteps \in Nat /\ MostSteps > 2 * (MaxRounds * N) + 1 /\ MaxRounds * N \in Nat
    BY DrainIsRun, PlaceFacts
  <1>2. PICK g : /\ g[0] = Step(s, TRUE)
                 /\ \A i \in 1..MostSteps : g[i] = Again(g[i - 1])
                 /\ Drain(s) = g[MostSteps]
    BY DrainIsRun
  <1>3. Good(g[0], 0)
    <2>1. RecordInv(p, c) /\ ScheduleInv(p, c)
      BY DEF PlayInv
    <2>2. Progress(p) \in Nat
      BY <2>1, PlaceOfCursor
    <2>3. RecordInv(g[0].player, c) /\ ScheduleInv(g[0].player, c)
      BY <1>2, StepKeeps DEF PlayInv
    <2>4. Progress(g[0].player) \in Nat
      BY <2>3, PlaceOfCursor
    <2> DEFINE u == g[0]
    <2>5. u = Step(s, TRUE)
      BY <1>2
    <2> HIDE DEF u
    <2>6. /\ u.more \in BOOLEAN
          /\ SameRecording(p, u.player)
          /\ PlayInv(u.player, u.debate, c)
          /\ d.currentRound <= u.debate.currentRound
          /\ ~u.more => ~HasReadyWork(u.player)
          /\ ~HasReadyWork(p) => u.player = p /\ u.debate = d /\ ~u.more
          /\ u.more => Progress(u.player) >= Progress(p) + 1
      BY <2>5, StepKeeps
    <2>7. u.more => Progress(u.player) >= 0 + 1
      BY <2>2, <2>4, <2>6 DEF u
    <2>8. QED
      BY <2>6, <2>7 DEF u
  <1>4. ASSUME NEW i \in 1..MostSteps, Good(g[i - 1], i - 1) PROVE Good(g[i], i)
    <2> DEFINE u == g[i - 1]
               v == g[i]
    <2>1. v = Again(u)
      BY <1>2
    <2> HIDE DEF u, v
    <2>2. Good(u, i - 1) /\ i \in Nat
      BY <1>4, <1>1 DEF u
    <2> HIDE DEF p, d
    <2>3. CASE ~u.more
      BY <2>1, <2>2, <2>3 DEF Again, v
    <2>4. CASE u.more
      <3>1. v = Step(u, TRUE)
        BY <2>1, <2>4 DEF Again
      <3>2. /\ v.more \in BOOLEAN
            /\ SameRecording(u.player, v.player)
            /\ PlayInv(v.player, v.debate, c)
            /\ u.debate.currentRound <= v.debate.currentRound
            /\ ~v.more => ~HasReadyWork(v.player)
            /\ v.more => Progress(v.player) >= Progress(u.player) + 1
        BY <3>1, <2>2, StepKeeps
      <3>3. SameRecording(p, v.player)
        BY <2>2, <3>2 DEF SameRecording
      <3>4. /\ RecordInv(u.player, c) /\ ScheduleInv(u.player, c) /\ DisplayInv(u.player, u.debate, c)
            /\ RecordInv(v.player, c) /\ ScheduleInv(v.player, c) /\ DisplayInv(v.player, v.debate, c)
            /\ DisplayInv(p, d, c)
        BY <2>2, <3>2 DEF PlayInv, p, d
      <3>5. Progress(u.player) \in Nat /\ Progress(v.player) \in Nat
        BY <3>4, PlaceOfCursor
      <3>6. \A e \in Debates : e.currentRound \in Nat
        BY ConstantFacts DEF Debates
      <3>7. d.currentRound \in Nat /\ u.debate.currentRound \in Nat /\ v.debate.currentRound \in Nat
        BY <3>4, <3>6 DEF DisplayInv
      <3>8. d.currentRound <= v.debate.currentRound
        BY <3>7, <2>2, <3>2
      <3>9. v.more => Progress(v.player) >= i + 1
        BY <2>2, <2>4, <3>2, <3>5
      <3>10. HasReadyWork(p)
        BY <2>2, <2>4
      <3>11. QED
        BY <3>2, <3>3, <3>8, <3>9, <3>10 DEF v
    <2>5. QED
      BY <2>2, <2>3, <2>4
  <1>5. Good(g[MostSteps], MostSteps)
    <2> DEFINE Bad == {i \in 0..MostSteps : ~Good(g[i], i)}
    <2>1. Bad = {}
      <3>1. SUFFICES ASSUME Bad # {} PROVE FALSE
        OBVIOUS
      <3>2. Bad \subseteq Nat
        BY <1>1
      <3> HIDE DEF Bad
      <3>3. PICK i \in Bad : \A j \in Bad : i <= j
        BY <3>1, <3>2, LeastElement
      <3>4. i \in 0..MostSteps /\ ~Good(g[i], i)
        BY <3>3 DEF Bad
      <3> HIDE DEF Good
      <3>5. i # 0
        BY <3>4, <1>3
      <3>6. i - 1 \in 0..MostSteps /\ i \in 1..MostSteps /\ ~(i <= i - 1)
        BY <1>1, <3>4, <3>5
      <3>7. Good(g[i - 1], i - 1)
        BY <3>3, <3>6 DEF Bad
      <3>8. QED
        BY <1>4, <3>4, <3>6, <3>7
    <2> HIDE DEF Good
    <2>2. QED
      BY <1>1, <2>1
  <1>6. ~g[MostSteps].more
    <2>1. SUFFICES ASSUME g[MostSteps].more PROVE FALSE
      OBVIOUS
    <2>2. Progress(g[MostSteps].player) >= MostSteps + 1
      BY <1>5, <2>1
    <2>3. RecordInv(g[MostSteps].player, c) /\ ScheduleInv(g[MostSteps].player, c)
      BY <1>5 DEF PlayInv
    <2>4. /\ Progress(g[MostSteps].player) \in Nat
          /\ Progress(g[MostSteps].player) <= 2 * (MaxRounds * N) + 1
      BY <2>3, PlaceOfCursor
    <2>5. QED
      BY <1>1, <2>2, <2>4
  <1>7. QED
    BY <1>2, <1>5, <1>6

-----------------------------------------------------------------------------
(* What does not disturb a replay, and a new one. *)

\* A frame that is recorded does not touch the schedule.
SameSchedule(p, q) ==
    /\ q.cursor = p.cursor
    /\ q.active = p.active
    /\ q.pendingDone = p.pendingDone
    /\ q.pendingRoundComplete = p.pendingRoundComplete
    /\ q.pendingErrors = p.pendingErrors

\* What arrives does not touch what has been played.
LEMMA RecordingKeeps ==
    ASSUME NEW p, NEW d, NEW c, NEW q, NEW b,
           PlayInv(p, d, c), RecordInv(q, b), SameSchedule(p, q), c <= b,
           p.cursor.kind # "panelist" => b = c /\ q.text = p.text,
           TerminalKnown(p) => TerminalKnown(q) /\ q.verdict = p.verdict,
           \A r \in Rounds, a \in Agents : r <= c => q.text[r][a] = p.text[r][a]
    PROVE  PlayInv(q, d, b)
  <1>1. /\ p \in Players /\ d \in Debates /\ c \in 0..MaxRounds
        /\ q \in Players /\ b \in 0..MaxRounds
        /\ ScheduleInv(p, c) /\ DisplayInv(p, d, c) /\ StageInv(p, d, c) /\ SpeakerInv(p, d)
    BY DEF PlayInv, RecordInv, DisplayInv
  <1>2. p.verdict # NoVerdict => q.verdict = p.verdict
    BY DEF TerminalKnown
  <1>3. p.cursor.kind = "done" => TerminalKnown(p)
    BY <1>1 DEF ScheduleInv
  <1>4. p.cursor.kind = "panelist" => p.cursor.round \in Rounds /\ p.cursor.seat \in Panelists
    BY <1>1, CursorFacts
  <1>5. p.active # NoTurn => p.active.round \in Rounds /\ p.active.agent \in Agents
    BY <1>1, ActiveFacts DEF Turns
  <1>6. p.cursor.kind \in {"panelist", "moderator", "done"}
    BY <1>1, CursorFacts
  <1>7. ScheduleInv(q, b)
    <2>1. q.cursor.kind = "panelist" =>
             /\ q.cursor.round <= b + 1
             /\ q.cursor.round = b + 1 => q.cursor.seat = 1
             /\ q.active # NoTurn =>
                   /\ q.active.agent = q.cursor.seat
                   /\ q.active.round = q.cursor.round
                   /\ q.active.round <= b
      <3>1. SUFFICES ASSUME p.cursor.kind = "panelist"
                     PROVE  /\ p.cursor.round <= b + 1
                            /\ p.cursor.round = b + 1 => p.cursor.seat = 1
                            /\ p.active # NoTurn =>
                                  /\ p.active.agent = p.cursor.seat
                                  /\ p.active.round = p.cursor.round
                                  /\ p.active.round <= b
        BY DEF SameSchedule
      <3>2. /\ p.cursor.round <= c + 1
            /\ p.cursor.round = c + 1 => p.cursor.seat = 1
            /\ p.active # NoTurn =>
                  /\ p.active.agent = p.cursor.seat
                  /\ p.active.round = p.cursor.round
                  /\ p.active.round <= c
        BY <1>1, <3>1 DEF ScheduleInv
      <3>3. /\ \A r \in Rounds : r <= c => r <= b
            /\ \A r \in Rounds : r <= c + 1 => r <= b + 1
            /\ \A r \in Rounds : r = b + 1 /\ r <= c + 1 => r = c + 1
        BY <1>1, ConstantFacts
      <3>4. QED
        BY <1>4, <1>5, <3>1, <3>2, <3>3
    <2>2. q.cursor.kind = "moderator" =>
             /\ q.verdict # NoVerdict
             /\ q.active # NoTurn
             /\ q.active.agent = Moderator
             /\ q.active.round = b + 1
      BY <1>1, <1>2 DEF ScheduleInv, SameSchedule
    <2>3. q.cursor.kind = "done" => q.active = NoTurn /\ TerminalKnown(q)
      BY <1>1 DEF ScheduleInv, SameSchedule
    <2>4. q.active # NoTurn =>
             /\ q.active.text = q.text[q.active.round][q.active.agent]
             /\ q.active.pos <= q.active.text
      <3>1. SUFFICES ASSUME p.active # NoTurn
                     PROVE  /\ p.active.text = q.text[p.active.round][p.active.agent]
                            /\ p.active.pos <= p.active.text
        BY DEF SameSchedule
      <3>2. /\ p.active.text = p.text[p.active.round][p.active.agent]
            /\ p.active.pos <= p.active.text
            /\ p.cursor.kind = "panelist" => p.active.round <= c
        BY <1>1, <3>1 DEF ScheduleInv
      <3>3. QED
        BY <1>5, <3>1, <3>2
    <2>5. /\ q.pendingDone # NoDone =>
                /\ q.active = NoTurn
                /\ q.cursor = After(q.pendingDone[2], q.pendingDone[1])
          /\ q.pendingRoundComplete # 0 =>
                /\ q.pendingDone # NoDone
                /\ q.pendingRoundComplete = q.pendingDone[2]
                /\ q.cursor.seat = 1
          /\ Len(q.pendingErrors) <= 1
          /\ q.pendingErrors # <<>> => q.pendingDone # NoDone
      BY <1>1 DEF ScheduleInv, SameSchedule
    <2>6. QED
      BY <2>1, <2>2, <2>3, <2>4, <2>5 DEF ScheduleInv
  <1>8. DisplayInv(q, d, b)
    <2>1. ASSUME NEW r \in Rounds, NEW a \in Panelists
          PROVE  d.transcript[r][a] = IF Played(q, b, r, a) THEN q.text[r][a] ELSE Revealed(q, r, a)
      <3>1. /\ Played(q, b, r, a) <=> Played(p, c, r, a)
            /\ Revealed(q, r, a) = Revealed(p, r, a)
        BY DEF Played, Revealed, SameSchedule
      <3>2. a \in Agents
        BY ConstantFacts
      <3>3. Played(p, c, r, a) => q.text[r][a] = p.text[r][a]
        <4>1. CASE p.cursor.kind = "panelist"
          <5>1. p.cursor.round <= c + 1 /\ (p.cursor.round = c + 1 => p.cursor.seat = 1)
            BY <1>1, <4>1 DEF ScheduleInv
          <5>2. Precedes(r, a, p.cursor.round, p.cursor.seat) => r <= c
            BY <1>1, <1>4, <4>1, <5>1, ConstantFacts DEF Precedes
          <5>3. QED
            BY <3>2, <4>1, <5>2 DEF Played
        <4>2. CASE p.cursor.kind # "panelist"
          BY <4>2
        <4>3. QED
          BY <4>1, <4>2
      <3>4. QED
        BY <1>1, <3>1, <3>3 DEF DisplayInv
    <2>2. ASSUME NEW r \in Rounds
          PROVE  d.transcript[r][Moderator] =
                    IF d.phase = "done" THEN q.text[r][Moderator] ELSE Revealed(q, r, Moderator)
      <3>1. Revealed(q, r, Moderator) = Revealed(p, r, Moderator)
        BY DEF Revealed, SameSchedule
      <3>2. d.phase = "done" => q.text = p.text
        BY <1>1 DEF StageInv, Terminal
      <3>3. QED
        BY <1>1, <3>1, <3>2 DEF DisplayInv
    <2>3. QED
      BY <1>1, <2>1, <2>2 DEF DisplayInv
  <1>9. StageInv(q, d, b)
    <2>1. d.currentRound \in Nat
      BY <1>1, ConstantFacts DEF Debates
    <2>2. d.phase = "done" => q.verdict # NoVerdict /\ d.verdict = q.verdict
      BY <1>1, <1>2 DEF StageInv
    <2>3. \A n \in Nat : n <= c => n <= b
      BY <1>1, ConstantFacts
    <2>4. q.cursor.kind = "panelist" =>
             /\ d.currentRound <= b
             /\ d.currentRound <= q.cursor.round
             /\ q.pendingRoundComplete # 0 => d.currentRound <= q.pendingRoundComplete
      BY <1>1, <2>1, <2>3 DEF StageInv, SameSchedule
    <2>5. q.cursor.kind # "panelist" => d.currentRound <= b + 1
      BY <1>1 DEF StageInv, SameSchedule
    <2>6. q.cursor.kind = "done" <=> d.phase \in Terminal
      BY <1>1 DEF StageInv, SameSchedule
    <2>7. QED
      BY <1>1, <2>2, <2>4, <2>5, <2>6 DEF StageInv
  <1>10. SpeakerInv(q, d)
    BY <1>1 DEF SpeakerInv, SameSchedule
  <1>11. QED
    BY <1>7, <1>8, <1>9, <1>10 DEF PlayInv

\* A frame that was dropped only adds an error to the list.
LEMMA ReduceTransportKeeps ==
    ASSUME NEW p, NEW d, NEW c, PlayInv(p, d, c)
    PROVE  LET e == ReduceTransport(d)
           IN  /\ PlayInv(p, e, c)
               /\ e.phase = d.phase /\ e.transcript = d.transcript /\ e.verdict = d.verdict
               /\ e.currentRound = d.currentRound /\ e.activeSpeakers = d.activeSpeakers
  <1> DEFINE all == WithError(d, BadFrame)
             e == [d EXCEPT !.errors = all]
  <1>1. /\ d \in Debates /\ Len(d.errors) <= MaxErrors
        /\ RecordInv(p, c) /\ ScheduleInv(p, c)
        /\ DisplayInv(p, d, c) /\ StageInv(p, d, c) /\ SpeakerInv(p, d)
    BY DEF PlayInv, DisplayInv, StageInv
  <1>2. BadFrame \in Errors /\ BadFrame.persona = NoPersona
    BY DEF BadFrame, Error, Errors, NoError, NoPersona
  <1>3. all \in Seq(Errors) /\ all # <<>> /\ Len(all) <= MaxErrors /\ all[Len(all)] = BadFrame
    BY <1>1, <1>2, WithErrorKeepsNewest
  <1> HIDE DEF all
  <1>4. /\ e \in Debates /\ e.errors = all
        /\ e.phase = d.phase /\ e.transcript = d.transcript /\ e.verdict = d.verdict
        /\ e.currentRound = d.currentRound /\ e.activeSpeakers = d.activeSpeakers
    BY <1>1, <1>3 DEF Debates
  <1>5. ReduceTransport(d) = e
    BY DEF ReduceTransport, all
  <1> HIDE DEF e
  <1>6. DisplayInv(p, e, c)
    BY <1>1, <1>4 DEF DisplayInv
  <1>7. StageInv(p, e, c)
    BY <1>1, <1>2, <1>3, <1>4 DEF StageInv
  <1>8. SpeakerInv(p, e)
    BY <1>1, <1>4 DEF SpeakerInv
  <1>9. QED
    BY <1>1, <1>4, <1>5, <1>6, <1>7, <1>8 DEF PlayInv

\* The fields of a player after reset.
LEMMA BlankFacts ==
    /\ Blank \in Players /\ Silence \in Texts
    /\ Blank.text = Silence /\ Blank.roundComplete = {}
    /\ Blank.verdict = NoVerdict /\ Blank.sessionError = NoError /\ Blank.closed = FALSE
    /\ Blank.moderatorRound = 0 /\ Blank.active = NoTurn
    /\ Blank.cursor = PanelTurn(1, 1) /\ Blank.cursor.kind = "panelist"
    /\ Blank.cursor.round = 1 /\ Blank.cursor.seat = 1
    /\ Blank.pendingDone = NoDone /\ Blank.pendingRoundComplete = 0
    /\ Blank.pendingErrors = <<>>
    /\ \A r \in Rounds, a \in Agents : Silence[r][a] = 0
    /\ ~TerminalKnown(Blank) /\ ~HasReadyWork(Blank)
  <1>1. 0 \in Caps /\ 1 \in Rounds /\ 1 \in Panelists /\ NoVerdict \in Verdicts
    BY ConstantFacts DEF Caps, Verdicts
  <1>2. Silence \in Texts /\ \A r \in Rounds, a \in Agents : Silence[r][a] = 0
    BY <1>1 DEF Silence, Texts
  <1>3. /\ Blank.text = Silence /\ Blank.roundComplete = {}
        /\ Blank.verdict = NoVerdict /\ Blank.sessionError = NoError /\ Blank.closed = FALSE
        /\ Blank.moderatorRound = 0 /\ Blank.active = NoTurn
        /\ Blank.cursor = PanelTurn(1, 1) /\ Blank.cursor.kind = "panelist"
        /\ Blank.cursor.round = 1 /\ Blank.cursor.seat = 1
        /\ Blank.pendingDone = NoDone /\ Blank.pendingRoundComplete = 0
        /\ Blank.pendingErrors = <<>>
        /\ Blank.personaErrors = [q \in Panelists |-> NoError]
    BY DEF Blank, PanelTurn
  <1>4. Blank \in Players
    <2>1. PanelTurn(1, 1) \in Cursors
      BY <1>1 DEF PanelTurn, Cursors
    <2>2. <<>> \in Seq(PersonaErrors) /\ {} \in SUBSET Rounds
      OBVIOUS
    <2>3. [q \in Panelists |-> NoError] \in [Panelists -> {NoError} \union PersonaErrors]
      OBVIOUS
    <2> HIDE DEF Silence
    <2>4. QED
      BY <1>1, <1>2, <2>1, <2>2, <2>3 DEF Blank, Players
  <1>5. ~TerminalKnown(Blank) /\ ~HasReadyWork(Blank)
    BY <1>3 DEF TerminalKnown, HasReadyWork, HasBufferedTurn
  <1>6. QED
    BY <1>2, <1>3, <1>4, <1>5

\* A new question starts the replay of an empty recording.
LEMMA BlankPlays ==
    ASSUME NEW d
    PROVE  PlayInv(Blank, ReduceConnecting(d), 0)
  <1> DEFINE e == ReduceConnecting(d)
  <1>1. /\ e.phase = "connecting" /\ e.currentRound = 0 /\ e.transcript = Silence
        /\ e.activeSpeakers = {} /\ e.verdict = NoVerdict /\ e.errors = <<>>
        /\ e \in Debates
    <2>1. NoVerdict \in Verdicts /\ <<>> \in Seq(Errors)
      BY DEF Verdicts
    <2>2. Silence \in Texts
      BY BlankFacts
    <2> HIDE DEF Silence
    <2>3. QED
      BY <2>1, <2>2 DEF ReduceConnecting, InitialState, Debates, Live
  <1> HIDE DEF e
  <1>2. 0 \in 0..MaxRounds /\ 1..0 = {}
    BY ConstantFacts
  <1>3. \A r \in Rounds, a \in Agents : Silence[r][a] = 0
    BY BlankFacts
  <1>4. Moderator \in Agents /\ \A a \in Panelists : a \in Agents
    BY ConstantFacts
  <1>5. RecordInv(Blank, 0)
    BY <1>2, <1>3, <1>4, BlankFacts DEF RecordInv
  <1>6. ScheduleInv(Blank, 0)
    BY BlankFacts DEF ScheduleInv
  <1>7. DisplayInv(Blank, e, 0)
    <2>1. \A r \in Rounds, a \in Agents : Revealed(Blank, r, a) = 0
      BY BlankFacts DEF Revealed
    <2>2. QED
      BY <1>1, <1>3, <1>4, <2>1, BlankFacts DEF DisplayInv
  <1>8. StageInv(Blank, e, 0)
    <2>1. \A r \in Rounds, a \in Agents : ~(e.transcript[r][a] > 0)
      BY <1>1, <1>3
    <2>2. Len(e.errors) <= MaxErrors
      BY <1>1, ConstantFacts
    <2>3. e.currentRound <= 0 /\ e.currentRound <= 1
      BY <1>1
    <2>4. QED
      BY <1>1, <2>1, <2>2, <2>3, BlankFacts DEF StageInv, Terminal
  <1>9. SpeakerInv(Blank, e)
    BY <1>1, BlankFacts DEF SpeakerInv
  <1>10. QED
    BY <1>5, <1>6, <1>7, <1>8, <1>9 DEF PlayInv, e

\* A player that is parked stays so, also in the loop of skipToLive.
LEMMA DrainOfParked ==
    ASSUME NEW s, ~Step(s, TRUE).more
    PROVE  Drain(s) = Step(s, TRUE)
  <1>1. PICK g : /\ g[0] = Step(s, TRUE)
                 /\ \A i \in 1..MostSteps : g[i] = Again(g[i - 1])
                 /\ Drain(s) = g[MostSteps]
    BY DrainIsRun
  <1> DEFINE Parked(i) == g[i] = Step(s, TRUE)
             Bad == {i \in 0..MostSteps : ~Parked(i)}
  <1>2. MostSteps \in Nat
    BY DrainIsRun
  <1>3. Bad = {}
    <2>1. SUFFICES ASSUME Bad # {} PROVE FALSE
      OBVIOUS
    <2> HIDE DEF Parked
    <2>2. Bad \subseteq Nat
      BY <1>2
    <2> HIDE DEF Bad
    <2>3. PICK i \in Bad : \A j \in Bad : i <= j
      BY <2>1, <2>2, LeastElement
    <2>4. i \in 0..MostSteps /\ g[i] # Step(s, TRUE)
      BY <2>3 DEF Bad, Parked
    <2>5. i # 0
      BY <2>4, <1>1
    <2>6. i - 1 \in 0..MostSteps /\ i \in 1..MostSteps /\ ~(i <= i - 1)
      BY <1>2, <2>4, <2>5
    <2>7. g[i - 1] = Step(s, TRUE)
      BY <2>3, <2>6 DEF Bad, Parked
    <2>8. g[i] = Step(s, TRUE)
      BY <1>1, <2>6, <2>7 DEF Again
    <2>9. QED
      BY <2>4, <2>8
  <1>4. MostSteps \in 0..MostSteps
    BY <1>2
  <1>5. Parked(MostSteps)
    <2> HIDE DEF Parked
    <2>1. QED
      BY <1>3, <1>4
  <1>6. QED
    BY <1>1, <1>5

\* A player with nothing recorded has nothing to play, for a timer as for
\* skipToLive.
LEMMA BlankIsParked ==
    ASSUME NEW s, s.player = Blank
    PROVE  /\ \A whole \in BOOLEAN :
                 /\ Step(s, whole).player = s.player /\ Step(s, whole).debate = s.debate
                 /\ ~Step(s, whole).more
           /\ Drain(s).player = s.player /\ Drain(s).debate = s.debate
  <1>1. ~HasBufferedTurn(Blank)
    BY BlankFacts DEF HasBufferedTurn
  <1>2. PlayableTurn(Blank) = NoTurn
    BY <1>1, BlankFacts DEF PlayableTurn
  <1>3. ASSUME NEW whole \in BOOLEAN
        PROVE  /\ Step(s, whole).player = s.player /\ Step(s, whole).debate = s.debate
               /\ ~Step(s, whole).more
    <2>1. Step(s, whole) = Conclude(s)
      BY <1>2, BlankFacts DEF Step
    <2>2. Conclude(s) = Park(s.player, s.debate)
      BY BlankFacts DEF Conclude
    <2>3. QED
      BY <2>1, <2>2 DEF Park
  <1>4. Drain(s) = Step(s, TRUE)
    BY <1>3, DrainOfParked
  <1>5. QED
    BY <1>3, <1>4

=============================================================================
