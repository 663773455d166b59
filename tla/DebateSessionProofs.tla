------------------------ MODULE DebateSessionProofs ------------------------
(***************************************************************************)
(* Proofs about DebateSession, for every panel size, limit, number of      *)
(* rounds and length of the answers.                                       *)
(*                                                                         *)
(* The inductive invariant IInv adds to the types where the goroutines of  *)
(* one session can be relative to each other (ControlInv), what a provider *)
(* that has returned says about the context (ProviderInv), and what the    *)
(* event in the handler's hand was when it was emitted (InHandInv).        *)
(***************************************************************************)
EXTENDS DebateSession, TLAPS

\* The goroutine of Run against its workers: which of them exist in each of
\* its states, and how far the transcript is.
ControlInv ==
    /\ handler = "read" => run = "none"
    /\ run = "none" => /\ handler \in {"read", "returned"}
                       /\ rounds = 0
                       /\ round = 0
                       /\ transcript = <<>>
                       /\ \A a \in Agents : worker[a] = "none"
    /\ run \in {"launch", "emitRound"} => /\ round \in 1..rounds
                                          /\ worker[Moderator] = "none"
    /\ run = "launch" => /\ \A p \in Personas : worker[p] = "none" <=> p >= next
                         /\ Len(transcript) = round - 1
    /\ run = "emitRound" => /\ \A p \in Personas : worker[p] = "done"
                            /\ Len(transcript) = round
    /\ run = "moderate" => /\ rounds >= 1
                           /\ round = rounds + 1
                           /\ \A p \in Personas : worker[p] = "done"
                           /\ worker[Moderator] # "none"
                           /\ Len(transcript) = rounds
    /\ run = "closed" => /\ \A a \in Agents : worker[a] \in {"none", "done"}
                         /\ handler # "read"

\* The connection is closed before the context is done, a provider quits only
\* on a done context, and no answer is requested before its round.
ProviderInv ==
    /\ cancelled => conn = "closed"
    /\ handler = "returned" => cancelled
    /\ \A r \in Rounds, a \in Agents : prov[r][a] = "aborted" => cancelled
    /\ \A r \in Rounds, a \in Agents : r > round => prov[r][a] = "idle"
    /\ \A a \in Agents : worker[a] \in {"none", "start"} =>
          \A r \in Rounds : r = round => prov[r][a] = "idle"
    /\ conn = "open" => \A a \in Agents : worker[a] = "emitDone" =>
          \A r \in Rounds : r = round => prov[r][a] = "eof"

\* The event the handler holds is one that was emitted.
InHandInv ==
    /\ inHand.round <= round
    /\ handler = "write" <=> inHand.type # "none"
    /\ inHand.type # "none" => inHand.round \in Rounds
    /\ inHand.type = "round_complete" => inHand.round <= MaxRounds
    /\ conn = "open" /\ inHand.type \in {"persona_done", "verdict"} =>
          prov[inHand.round][inHand.agent] = "eof"

IInv ==
    /\ TypeOK
    /\ ControlInv
    /\ ProviderInv
    /\ InHandInv
    /\ OnlyWholeAnswersAreDone

-----------------------------------------------------------------------------
(***************************************************************************)
(* Facts about the index sets and about updates of one cell of a table.    *)
(***************************************************************************)
\* The moderator is agent 0, the personas are the indices of the slice.
LEMMA AgentFacts ==
    /\ Moderator \in Agents
    /\ Personas \subseteq Agents
    /\ Agents \subseteq Nat
    /\ \A p \in Personas : p # Moderator
    /\ \A a \in Agents : a = Moderator \/ a \in Personas
BY NAssumption DEF Agents, Personas, Moderator

\* Run numbers its rounds from 1; the moderator comes one after the last.
LEMMA RoundFacts ==
    /\ Rounds = 1..(MaxRounds + 1)
    /\ MaxRounds \in Nat
    /\ MaxRounds >= 2
BY MaxRoundsAssumption DEF Rounds

\* An update of one cell of a table leaves the others alone.
LEMMA UpdateCell ==
    ASSUME NEW S, NEW T, NEW V, NEW f \in [S -> [T -> V]],
           NEW s \in S, NEW t \in T, NEW v \in V,
           NEW g, g = [f EXCEPT ![s][t] = v]
    PROVE  /\ g \in [S -> [T -> V]]
           /\ g[s][t] = v
           /\ \A x \in S, y \in T : (x # s \/ y # t) => g[x][y] = f[x][y]
OBVIOUS

\* An update of one entry of a function leaves the others alone.
LEMMA UpdateEntry ==
    ASSUME NEW S, NEW V, NEW f \in [S -> V], NEW s \in S, NEW v \in V,
           NEW g, g = [f EXCEPT ![s] = v]
    PROVE  /\ g \in [S -> V]
           /\ g[s] = v
           /\ \A x \in S : x # s => g[x] = f[x]
OBVIOUS

\* A running worker belongs to the round under way: a persona's while the
\* round is launched and awaited, the moderator's after the last round.
LEMMA WorkerIsCurrent ==
    ASSUME TypeOK, ControlInv, NEW a \in Agents, Running(a)
    PROVE  /\ round \in Rounds
           /\ run = IF a = Moderator THEN "moderate" ELSE "launch"
           /\ a \in Personas => a < next
<1>1. worker[a] \notin {"none", "done"}
  BY DEF Running, Emitting
<1>2. run = IF a = Moderator THEN "moderate" ELSE "launch"
  BY <1>1, AgentFacts DEF TypeOK, ControlInv, RunStates
<1>3. round \in Rounds
  BY <1>2, RoundFacts DEF TypeOK, ControlInv
<1>4. a \in Personas => a < next
  BY <1>1, <1>2, AgentFacts DEF TypeOK, ControlInv
<1> QED
  BY <1>2, <1>3, <1>4

\* What a prompt quotes has the type of quotes.
LEMMA RequestType ==
    ASSUME TypeOK, ControlInv, NEW a \in Agents, worker[a] = "start"
    PROVE  BuildRequest(a) \in [own : Seq(Nat), quotes : Quotes]
<1>1. /\ run = IF a = Moderator THEN "moderate" ELSE "launch"
      /\ round \in Rounds
  BY WorkerIsCurrent DEF Running
<1>2. Len(transcript) = round - 1
  BY <1>1 DEF ControlInv, TypeOK
<1>3. DOMAIN transcript = 1..(round - 1)
  BY <1>2 DEF TypeOK
<1>4. \A r \in DOMAIN transcript : r \in Rounds /\ transcript[r] \in Answers
  BY <1>1, <1>3, RoundFacts DEF TypeOK
<1>5. ASSUME NEW r \in DOMAIN transcript, NEW S \in SUBSET Personas
      PROVE  RenderAnswers(r, S) \in Quotes
  BY <1>4 DEF RenderAnswers, Quotes, Answers
<1>6. CASE a = Moderator
  BY <1>5, <1>6 DEF BuildRequest, Quotes
<1>7. CASE a # Moderator /\ round = 1
  BY <1>7 DEF BuildRequest, NoRequest, Quotes
<1>8. CASE a # Moderator /\ round # 1
  <2>1. Len(transcript) \in DOMAIN transcript
    BY <1>1, <1>2, <1>3, <1>8, RoundFacts
  <2>2. a \in Personas
    BY <1>8, AgentFacts
  <2>3. transcript[Len(transcript)][a] \in Nat
    BY <1>4, <2>1, <2>2 DEF Answers
  <2>4. RenderAnswers(Len(transcript), Personas \ {a}) \in Quotes
    BY <1>5, <2>1
  <2> QED
    BY <1>8, <2>3, <2>4 DEF BuildRequest
<1> QED
  BY <1>6, <1>7, <1>8

\* What one frame changes of the wire, by its type.
LEMMA FrameWritten ==
    ASSUME WriteFrame
    PROVE  /\ inHand.type = "token" =>
                /\ said' = [said EXCEPT ![inHand.round][inHand.agent]
                                       = said[inHand.round][inHand.agent] + 1]
                /\ UNCHANGED <<completed, refused, settled, verdict>>
           /\ inHand.type = "error" =>
                /\ settled' = [settled EXCEPT ![inHand.round][inHand.agent] = "failed"]
                /\ UNCHANGED <<completed, refused, said, verdict>>
           /\ inHand.type = "persona_done" =>
                /\ settled' = [settled EXCEPT ![inHand.round][inHand.agent] = "done"]
                /\ UNCHANGED <<completed, refused, said, verdict>>
           /\ inHand.type = "verdict" =>
                /\ settled' = [settled EXCEPT ![inHand.round][inHand.agent] = "done"]
                /\ verdict' = inHand.text
                /\ UNCHANGED <<completed, refused, said>>
           /\ inHand.type = "round_complete" =>
                /\ completed' = inHand.round
                /\ UNCHANGED <<refused, said, settled, verdict>>
BY DEF WriteFrame, RecordFrame

\* The placeholder for "the handler holds no event" is an event.
LEMMA NoEventType == NoEvent \in Events
BY AgentFacts DEF NoEvent, Event, Events

\* Append, as Run uses it to add a round to the transcript.
LEMMA AppendType ==
    ASSUME NEW S, NEW s \in Seq(S), NEW e \in S
    PROVE  /\ Append(s, e) \in Seq(S)
           /\ Len(Append(s, e)) = Len(s) + 1
OBVIOUS

\* Every step keeps the types; the events in flight and the rounds of the
\* transcript stay in range because of ControlInv and InHandInv.
LEMMA TypeStep ==
    ASSUME TypeOK, ControlInv, InHandInv, [Next]_vars
    PROVE  TypeOK'
<1>1. ASSUME ClientGone PROVE TypeOK'
  BY <1>1
  DEF TypeOK, ClientGone, internalVars, wireVars
<1>2. ASSUME ReaderCancels PROVE TypeOK'
  BY <1>2
  DEF TypeOK, ReaderCancels, internalVars, wireVars
<1>3. ASSUME AcceptAsk PROVE TypeOK'
  <2>1. PICK k \in AskRounds : /\ ValidRounds(k)
                               /\ rounds' = IF k = 0 THEN DefaultRounds ELSE k
    BY <1>3 DEF AcceptAsk
  <2>2. rounds' \in 0..MaxRounds
    BY <2>1, RoundFacts DEF ValidRounds, DefaultRounds
  <2> QED
    BY <1>3, <2>2, NAssumption, RoundFacts DEF TypeOK, RunStates, AcceptAsk, wireVars
<1>4. ASSUME RefuseAsk PROVE TypeOK'
  BY <1>4
  DEF TypeOK, RefuseAsk, internalVars, wireVars, Return
<1>5. ASSUME ReadFails PROVE TypeOK'
  BY <1>5
  DEF TypeOK, ReadFails, internalVars, wireVars, Return
<1>6. ASSUME WriteFrame PROVE TypeOK'
  <2>1. /\ inHand.type \in {"token", "error", "persona_done", "verdict", "round_complete"}
        /\ inHand.round \in Rounds
        /\ inHand.agent \in Agents
        /\ inHand.text \in Nat
    BY <1>6 DEF WriteFrame, InHandInv, TypeOK, Events
  <2>2. /\ completed' \in 0..MaxRounds
        /\ refused' \in BOOLEAN
        /\ said' \in [Rounds -> [Agents -> Nat]]
        /\ settled' \in [Rounds -> [Agents -> {"pending", "done", "failed"}]]
        /\ verdict' \in Nat \union {NoVerdict}
    <3>1. CASE inHand.type = "token"
      <4>1. /\ said' = [said EXCEPT ![inHand.round][inHand.agent]
                                    = said[inHand.round][inHand.agent] + 1]
            /\ UNCHANGED <<completed, refused, settled, verdict>>
        BY <1>6, <3>1, FrameWritten
      <4>2. said[inHand.round][inHand.agent] + 1 \in Nat
        BY <2>1 DEF TypeOK
      <4>3. said' \in [Rounds -> [Agents -> Nat]]
        BY <2>1, <4>1, <4>2, UpdateCell DEF TypeOK
      <4> QED
        BY <4>1, <4>3 DEF TypeOK
    <3>2. CASE inHand.type = "error"
      <4>1. /\ settled' = [settled EXCEPT ![inHand.round][inHand.agent] = "failed"]
            /\ UNCHANGED <<completed, refused, said, verdict>>
        BY <1>6, <3>2, FrameWritten
      <4>2. settled' \in [Rounds -> [Agents -> {"pending", "done", "failed"}]]
        BY <2>1, <4>1, UpdateCell DEF TypeOK
      <4> QED
        BY <4>1, <4>2 DEF TypeOK
    <3>3. CASE inHand.type = "persona_done"
      <4>1. /\ settled' = [settled EXCEPT ![inHand.round][inHand.agent] = "done"]
            /\ UNCHANGED <<completed, refused, said, verdict>>
        BY <1>6, <3>3, FrameWritten
      <4>2. settled' \in [Rounds -> [Agents -> {"pending", "done", "failed"}]]
        BY <2>1, <4>1, UpdateCell DEF TypeOK
      <4> QED
        BY <4>1, <4>2 DEF TypeOK
    <3>4. CASE inHand.type = "verdict"
      <4>1. /\ settled' = [settled EXCEPT ![inHand.round][inHand.agent] = "done"]
            /\ verdict' = inHand.text
            /\ UNCHANGED <<completed, refused, said>>
        BY <1>6, <3>4, FrameWritten
      <4>2. settled' \in [Rounds -> [Agents -> {"pending", "done", "failed"}]]
        BY <2>1, <4>1, UpdateCell DEF TypeOK
      <4> QED
        BY <2>1, <4>1, <4>2 DEF TypeOK
    <3>5. CASE inHand.type = "round_complete"
      <4>1. /\ completed' = inHand.round
            /\ UNCHANGED <<refused, said, settled, verdict>>
        BY <1>6, <3>5, FrameWritten
      <4>2. inHand.round \in 0..MaxRounds
        BY <2>1, <3>5, RoundFacts DEF InHandInv
      <4> QED
        BY <4>1, <4>2 DEF TypeOK
    <3> QED
      BY <2>1, <3>1, <3>2, <3>3, <3>4, <3>5
  <2> QED
    BY <1>6, <2>2, NoEventType DEF TypeOK, WriteFrame, internalVars
<1>7. ASSUME WriteFails PROVE TypeOK'
  BY <1>7, NoEventType DEF TypeOK, WriteFails, Return, internalVars, wireVars
<1>8. ASSUME EventsEnd PROVE TypeOK'
  BY <1>8
  DEF TypeOK, EventsEnd, internalVars, wireVars, Return
<1>9. ASSUME Launch PROVE TypeOK'
  <2>1. /\ next \in Personas
        /\ next + 1 \in 1..(N + 1)
    BY <1>9, NAssumption DEF Launch, TypeOK, Personas
  <2>2. worker' \in [Agents -> WorkerStates] /\ text' \in [Agents -> Nat]
    BY <1>9, <2>1, AgentFacts, UpdateEntry DEF Launch, TypeOK, WorkerStates
  <2> QED
    BY <1>9, <2>1, <2>2 DEF TypeOK, Launch, wireVars
<1>10. ASSUME RoundHeld PROVE TypeOK'
  <2>1. [p \in Personas |-> text[p]] \in Answers
    BY AgentFacts DEF TypeOK, Answers
  <2>2. transcript' \in Seq(Answers)
    BY <1>10, <2>1, AppendType DEF RoundHeld, TypeOK
  <2> QED
    BY <1>10, <2>2 DEF TypeOK, RoundHeld, RunStates, wireVars
<1>11. ASSUME EmitRoundComplete PROVE TypeOK'
  <2>1. /\ round \in 1..rounds
        /\ round + 1 \in 0..(MaxRounds + 1)
    BY <1>11, RoundFacts DEF EmitRoundComplete, ControlInv, TypeOK
  <2>2. inHand' \in Events
    BY <1>11, <2>1, AgentFacts DEF EmitRoundComplete, Event, Events, TypeOK
  <2>3. /\ worker' \in [Agents -> WorkerStates]
        /\ text' \in [Agents -> Nat]
        /\ run' \in RunStates
    <3>1. CASE AnotherRound(round)
      BY <1>11, <3>1 DEF EmitRoundComplete, TypeOK, WorkerStates, RunStates
    <3>2. CASE ~AnotherRound(round)
      <4>1. /\ worker' = [worker EXCEPT ![Moderator] = "start"]
            /\ text' = [text EXCEPT ![Moderator] = 0]
            /\ run' = "moderate"
        BY <1>11, <3>2 DEF EmitRoundComplete
      <4>2. worker' \in [Agents -> WorkerStates]
        BY <4>1, AgentFacts DEF TypeOK, WorkerStates
      <4>3. text' \in [Agents -> Nat]
        BY <4>1, AgentFacts DEF TypeOK
      <4> QED
        BY <4>1, <4>2, <4>3 DEF RunStates
    <3> QED
      BY <3>1, <3>2
  <2> QED
    BY <1>11, <2>1, <2>2, <2>3, NAssumption
    DEF TypeOK, EmitRoundComplete, wireVars
<1>12. ASSUME AbandonRounds PROVE TypeOK'
  BY <1>12 DEF TypeOK, AbandonRounds, RunStates, wireVars
<1>13. ASSUME CloseEvents PROVE TypeOK'
  BY <1>13 DEF TypeOK, CloseEvents, RunStates, wireVars
<1>14. ASSUME NEW a \in Agents, StartStream(a) PROVE TypeOK'
  <2>1. round \in Rounds
    BY <1>14, WorkerIsCurrent DEF StartStream, Running
  <2>2. request' \in [Agents -> [own : Seq(Nat), quotes : Quotes]]
    BY <1>14, RequestType, UpdateEntry DEF StartStream, TypeOK
  <2>3. prov' \in [Rounds -> [Agents -> ProviderStates]]
    BY <1>14, <2>1, UpdateCell DEF StartStream, TypeOK, ProviderStates
  <2> QED
    BY <1>14, <2>2, <2>3 DEF TypeOK, StartStream, WorkerStates, wireVars
<1>15. ASSUME NEW a \in Agents, StreamStartFails(a) PROVE TypeOK'
  <2>1. request' \in [Agents -> [own : Seq(Nat), quotes : Quotes]]
    BY <1>15, RequestType, UpdateEntry DEF StreamStartFails, TypeOK
  <2> QED
    BY <1>15, <2>1 DEF TypeOK, StreamStartFails, WorkerStates, wireVars
<1>16. ASSUME NEW a \in Agents, ReceiveDelta(a) PROVE TypeOK'
  <2>1. round \in Rounds
    BY <1>16, WorkerIsCurrent DEF ReceiveDelta, Running
  <2>2. prov' \in [Rounds -> [Agents -> ProviderStates]]
    BY <1>16, <2>1, UpdateCell DEF ReceiveDelta, TypeOK, ProviderStates
  <2> QED
    BY <1>16, <2>2 DEF TypeOK, ReceiveDelta, WorkerStates, wireVars
<1>17. ASSUME NEW a \in Agents, ReceiveErr(a) PROVE TypeOK'
  <2>1. round \in Rounds
    BY <1>17, WorkerIsCurrent DEF ReceiveErr, Running
  <2>2. prov' \in [Rounds -> [Agents -> ProviderStates]]
    BY <1>17, <2>1, UpdateCell DEF ReceiveErr, TypeOK, ProviderStates
  <2> QED
    BY <1>17, <2>2 DEF TypeOK, ReceiveErr, WorkerStates, wireVars
<1>18. ASSUME NEW a \in Agents, RangeEnds(a) PROVE TypeOK'
  BY <1>18 DEF TypeOK, RangeEnds, WorkerStates, wireVars
<1>19. ASSUME NEW a \in Agents, Emit(a) PROVE TypeOK'
  <2>1. round \in Rounds
    BY <1>19, WorkerIsCurrent DEF Emit, Running, Emitting
  <2>2. inHand' \in Events
    BY <1>19, <2>1, RoundFacts DEF Emit, Emitting, Pending, Event, Events, TypeOK
  <2> QED
    BY <1>19, <2>2 DEF TypeOK, Emit, WorkerStates, wireVars
<1>20. ASSUME NEW a \in Agents, EmitCancelled(a) PROVE TypeOK'
  BY <1>20 DEF TypeOK, EmitCancelled, WorkerStates, wireVars
<1>21. ASSUME NEW r \in Rounds, NEW a \in Agents, UpstreamDelta(r, a) PROVE TypeOK'
  <2>1. prov' \in [Rounds -> [Agents -> ProviderStates]]
    BY <1>21, UpdateCell DEF UpstreamDelta, TypeOK, ProviderStates
  <2> QED
    BY <1>21, <2>1 DEF TypeOK, UpstreamDelta, provRest, internalVars, wireVars
<1>22. ASSUME NEW r \in Rounds, NEW a \in Agents, UpstreamDone(r, a) PROVE TypeOK'
  <2>1. prov' \in [Rounds -> [Agents -> ProviderStates]]
    BY <1>22, UpdateCell DEF UpstreamDone, TypeOK, ProviderStates
  <2> QED
    BY <1>22, <2>1 DEF TypeOK, UpstreamDone, provRest, internalVars, wireVars
<1>23. ASSUME NEW r \in Rounds, NEW a \in Agents, UpstreamFails(r, a) PROVE TypeOK'
  <2>1. prov' \in [Rounds -> [Agents -> ProviderStates]]
    BY <1>23, UpdateCell DEF UpstreamFails, TypeOK, ProviderStates
  <2> QED
    BY <1>23, <2>1 DEF TypeOK, UpstreamFails, provRest, internalVars, wireVars
<1>24. ASSUME NEW r \in Rounds, NEW a \in Agents, ProviderQuits(r, a) PROVE TypeOK'
  <2>1. prov' \in [Rounds -> [Agents -> ProviderStates]]
    BY <1>24, UpdateCell DEF ProviderQuits, TypeOK, ProviderStates
  <2> QED
    BY <1>24, <2>1 DEF TypeOK, ProviderQuits, provRest, internalVars, wireVars
<1>25. ASSUME NEW r \in Rounds, NEW a \in Agents, ProviderReturns(r, a) PROVE TypeOK'
  <2>1. prov' \in [Rounds -> [Agents -> ProviderStates]]
    BY <1>25, UpdateCell DEF ProviderReturns, TypeOK, ProviderStates
  <2> QED
    BY <1>25, <2>1 DEF TypeOK, ProviderReturns, provRest, internalVars, wireVars
<1>26. CASE UNCHANGED vars
  BY <1>26 DEF TypeOK, vars, internalVars, wireVars
<1> QED
  BY <1>1, <1>2, <1>3, <1>4, <1>5, <1>6, <1>7, <1>8, <1>9, <1>10, <1>11,
     <1>12, <1>13, <1>14, <1>15, <1>16, <1>17, <1>18, <1>19, <1>20, <1>21,
     <1>22, <1>23, <1>24, <1>25, <1>26
  DEF Next, HandlerStep, RunStep, WorkerStep, Upstream, Finished

\* The launch loop of runRound has not come to a persona twice.
LEMMA NextAbove ==
    ASSUME TypeOK, NEW p \in Personas, p < next
    PROVE  ~(p >= next)
BY DEF Personas, TypeOK

\* The round barrier: only g.Wait lets Run leave a round, and nobody but Run
\* starts a worker.
LEMMA ControlStep ==
    ASSUME TypeOK, ControlInv, [Next]_vars
    PROVE  ControlInv'
<1>1. ASSUME ClientGone PROVE ControlInv'
  BY <1>1
  DEF ControlInv, ClientGone, internalVars, wireVars
<1>2. ASSUME ReaderCancels PROVE ControlInv'
  BY <1>2
  DEF ControlInv, ReaderCancels, internalVars, wireVars
<1>3. ASSUME AcceptAsk PROVE ControlInv'
  <2>1. PICK k \in AskRounds : /\ ValidRounds(k)
                               /\ rounds' = IF k = 0 THEN DefaultRounds ELSE k
    BY <1>3 DEF AcceptAsk
  <2>2. 1 \in 1..rounds'
    BY <2>1 DEF ValidRounds, DefaultRounds
  <2> QED
    BY <1>3, <2>2, AgentFacts, NAssumption DEF AcceptAsk, ControlInv, Personas
<1>4. ASSUME RefuseAsk PROVE ControlInv'
  BY <1>4
  DEF ControlInv, RefuseAsk, internalVars, wireVars, Return
<1>5. ASSUME ReadFails PROVE ControlInv'
  BY <1>5
  DEF ControlInv, ReadFails, internalVars, wireVars, Return
<1>6. ASSUME WriteFrame PROVE ControlInv'
  BY <1>6
  DEF ControlInv, WriteFrame, internalVars, wireVars
<1>7. ASSUME WriteFails PROVE ControlInv'
  BY <1>7
  DEF ControlInv, WriteFails, internalVars, wireVars, Return
<1>8. ASSUME EventsEnd PROVE ControlInv'
  BY <1>8
  DEF ControlInv, EventsEnd, internalVars, wireVars, Return
<1>9. ASSUME Launch PROVE ControlInv'
  <2>1. next \in Personas /\ next # Moderator
    BY <1>9, NAssumption DEF Launch, TypeOK, Personas, Moderator
  <2>2. \A p \in Personas : worker'[p] = "none" <=> p >= next'
    <3>1. \A p \in Personas : p >= next + 1 <=> p >= next /\ p # next
      BY DEF Personas, TypeOK
    <3> QED
      BY <1>9, <2>1, <3>1, AgentFacts DEF Launch, ControlInv, TypeOK
  <2>3. worker'[Moderator] = worker[Moderator]
    BY <1>9, <2>1, AgentFacts DEF Launch, TypeOK
  <2> QED
    BY <1>9, <2>2, <2>3 DEF Launch, ControlInv
<1>10. ASSUME RoundHeld PROVE ControlInv'
  <2>1. Len(transcript') = Len(transcript) + 1
    BY <1>10 DEF RoundHeld, TypeOK
  <2> QED
    BY <1>10, <2>1 DEF RoundHeld, ControlInv, TypeOK
<1>11. ASSUME EmitRoundComplete PROVE ControlInv'
  <2>1. round \in 1..rounds /\ rounds \in Nat /\ Len(transcript) = round
    BY <1>11 DEF EmitRoundComplete, ControlInv, TypeOK
  <2>2. CASE AnotherRound(round)
    <3>1. \A p \in Personas : p >= 1
      BY DEF Personas
    <3> QED
      BY <1>11, <2>1, <2>2, <3>1, AgentFacts DEF EmitRoundComplete, AnotherRound, ControlInv
  <2>3. CASE ~AnotherRound(round)
    <3>1. round = rounds
      BY <2>1, <2>3 DEF AnotherRound
    <3>2. /\ worker'[Moderator] = "start"
          /\ \A p \in Personas : worker'[p] = worker[p]
      BY <1>11, <2>3, AgentFacts DEF EmitRoundComplete, TypeOK
    <3> QED
      BY <1>11, <2>1, <2>3, <3>1, <3>2 DEF EmitRoundComplete, ControlInv
  <2> QED
    BY <2>2, <2>3
<1>12. ASSUME AbandonRounds PROVE ControlInv'
  <2>1. \A a \in Agents : worker[a] \in {"none", "done"}
    BY <1>12, AgentFacts DEF AbandonRounds, ControlInv
  <2> QED
    BY <1>12, <2>1 DEF AbandonRounds, ControlInv
<1>13. ASSUME CloseEvents PROVE ControlInv'
  <2>1. \A a \in Agents : worker[a] \in {"none", "done"}
    BY <1>13, AgentFacts DEF CloseEvents, ControlInv
  <2> QED
    BY <1>13, <2>1 DEF CloseEvents, ControlInv
<1>14. ASSUME NEW a \in Agents, StartStream(a) PROVE ControlInv'
  <2>1. /\ Running(a)
        /\ run = IF a = Moderator THEN "moderate" ELSE "launch"
        /\ a \in Personas => a < next
    BY <1>14, WorkerIsCurrent DEF StartStream, Running, Emitting
  <2>2. /\ worker'[a] # "none"
        /\ \A b \in Agents : b # a => worker'[b] = worker[b]
    BY <1>14 DEF StartStream, TypeOK
  <2> QED
    BY <1>14, <2>1, <2>2, AgentFacts, NextAbove DEF StartStream, ControlInv
<1>15. ASSUME NEW a \in Agents, StreamStartFails(a) PROVE ControlInv'
  <2>1. /\ Running(a)
        /\ run = IF a = Moderator THEN "moderate" ELSE "launch"
        /\ a \in Personas => a < next
    BY <1>15, WorkerIsCurrent DEF StreamStartFails, Running, Emitting
  <2>2. /\ worker'[a] # "none"
        /\ \A b \in Agents : b # a => worker'[b] = worker[b]
    BY <1>15 DEF StreamStartFails, TypeOK
  <2> QED
    BY <1>15, <2>1, <2>2, AgentFacts, NextAbove DEF StreamStartFails, ControlInv
<1>16. ASSUME NEW a \in Agents, ReceiveDelta(a) PROVE ControlInv'
  <2>1. /\ Running(a)
        /\ run = IF a = Moderator THEN "moderate" ELSE "launch"
        /\ a \in Personas => a < next
    BY <1>16, WorkerIsCurrent DEF ReceiveDelta, Running, Emitting
  <2>2. /\ worker'[a] # "none"
        /\ \A b \in Agents : b # a => worker'[b] = worker[b]
    BY <1>16 DEF ReceiveDelta, TypeOK
  <2> QED
    BY <1>16, <2>1, <2>2, AgentFacts, NextAbove DEF ReceiveDelta, ControlInv
<1>17. ASSUME NEW a \in Agents, ReceiveErr(a) PROVE ControlInv'
  <2>1. /\ Running(a)
        /\ run = IF a = Moderator THEN "moderate" ELSE "launch"
        /\ a \in Personas => a < next
    BY <1>17, WorkerIsCurrent DEF ReceiveErr, Running, Emitting
  <2>2. /\ worker'[a] # "none"
        /\ \A b \in Agents : b # a => worker'[b] = worker[b]
    BY <1>17 DEF ReceiveErr, TypeOK
  <2> QED
    BY <1>17, <2>1, <2>2, AgentFacts, NextAbove DEF ReceiveErr, ControlInv
<1>18. ASSUME NEW a \in Agents, RangeEnds(a) PROVE ControlInv'
  <2>1. /\ Running(a)
        /\ run = IF a = Moderator THEN "moderate" ELSE "launch"
        /\ a \in Personas => a < next
    BY <1>18, WorkerIsCurrent DEF RangeEnds, Running, Emitting
  <2>2. /\ worker'[a] # "none"
        /\ \A b \in Agents : b # a => worker'[b] = worker[b]
    BY <1>18 DEF RangeEnds, TypeOK
  <2> QED
    BY <1>18, <2>1, <2>2, AgentFacts, NextAbove DEF RangeEnds, ControlInv
<1>19. ASSUME NEW a \in Agents, Emit(a) PROVE ControlInv'
  <2>1. /\ Running(a)
        /\ run = IF a = Moderator THEN "moderate" ELSE "launch"
        /\ a \in Personas => a < next
    BY <1>19, WorkerIsCurrent DEF Emit, Running, Emitting
  <2>2. /\ worker'[a] # "none"
        /\ \A b \in Agents : b # a => worker'[b] = worker[b]
    BY <1>19 DEF Emit, TypeOK
  <2> QED
    BY <1>19, <2>1, <2>2, AgentFacts, NextAbove DEF Emit, ControlInv
<1>20. ASSUME NEW a \in Agents, EmitCancelled(a) PROVE ControlInv'
  <2>1. /\ Running(a)
        /\ run = IF a = Moderator THEN "moderate" ELSE "launch"
        /\ a \in Personas => a < next
    BY <1>20, WorkerIsCurrent DEF EmitCancelled, Running, Emitting
  <2>2. /\ worker'[a] # "none"
        /\ \A b \in Agents : b # a => worker'[b] = worker[b]
    BY <1>20 DEF EmitCancelled, TypeOK
  <2> QED
    BY <1>20, <2>1, <2>2, AgentFacts, NextAbove DEF EmitCancelled, ControlInv
<1>21. ASSUME NEW r \in Rounds, NEW a \in Agents, UpstreamDelta(r, a) PROVE ControlInv'
  BY <1>21
  DEF ControlInv, UpstreamDelta, provRest, internalVars, wireVars
<1>22. ASSUME NEW r \in Rounds, NEW a \in Agents, UpstreamDone(r, a) PROVE ControlInv'
  BY <1>22
  DEF ControlInv, UpstreamDone, provRest, internalVars, wireVars
<1>23. ASSUME NEW r \in Rounds, NEW a \in Agents, UpstreamFails(r, a) PROVE ControlInv'
  BY <1>23
  DEF ControlInv, UpstreamFails, provRest, internalVars, wireVars
<1>24. ASSUME NEW r \in Rounds, NEW a \in Agents, ProviderQuits(r, a) PROVE ControlInv'
  BY <1>24
  DEF ControlInv, ProviderQuits, provRest, internalVars, wireVars
<1>25. ASSUME NEW r \in Rounds, NEW a \in Agents, ProviderReturns(r, a) PROVE ControlInv'
  BY <1>25
  DEF ControlInv, ProviderReturns, provRest, internalVars, wireVars
<1>26. CASE UNCHANGED vars
  BY <1>26 DEF ControlInv, vars, internalVars, wireVars
<1> QED
  BY <1>1, <1>2, <1>3, <1>4, <1>5, <1>6, <1>7, <1>8, <1>9, <1>10, <1>11,
     <1>12, <1>13, <1>14, <1>15, <1>16, <1>17, <1>18, <1>19, <1>20, <1>21,
     <1>22, <1>23, <1>24, <1>25, <1>26
  DEF Next, HandlerStep, RunStep, WorkerStep, Upstream, Finished

\* One provider changes state, no other does.
LEMMA ProviderCell ==
    ASSUME TypeOK, NEW r \in Rounds, NEW a \in Agents, NEW v \in ProviderStates,
           prov' = [prov EXCEPT ![r][a] = v]
    PROVE  /\ prov'[r][a] = v
           /\ \A x \in Rounds, y \in Agents :
                 x # r \/ y # a => prov'[x][y] = prov[x][y]
BY UpdateCell DEF TypeOK

\* One worker changes state, no other does.
LEMMA WorkerCell ==
    ASSUME TypeOK, NEW a \in Agents, NEW v, worker' = [worker EXCEPT ![a] = v]
    PROVE  /\ worker'[a] = v
           /\ \A b \in Agents : b # a => worker'[b] = worker[b]
BY DEF TypeOK

\* A provider is started by a worker of the round under way, and can give up
\* only after the connection is gone.
LEMMA ProviderStep ==
    ASSUME TypeOK, ControlInv, ProviderInv, [Next]_vars
    PROVE  ProviderInv'
<1>1. ASSUME ClientGone PROVE ProviderInv'
  BY <1>1, AgentFacts, RoundFacts
  DEF ProviderInv, ClientGone, internalVars, wireVars
<1>2. ASSUME ReaderCancels PROVE ProviderInv'
  BY <1>2, AgentFacts, RoundFacts
  DEF ProviderInv, ReaderCancels, internalVars, wireVars
<1>3. ASSUME AcceptAsk PROVE ProviderInv'
  <2>1. run = "none"
    BY <1>3 DEF AcceptAsk, ControlInv
  <2>2. \A a \in Agents, r \in Rounds : worker[a] = "none" /\ r > 0 /\ prov[r][a] = "idle"
    BY <2>1, RoundFacts DEF ControlInv, ProviderInv
  <2> QED
    BY <1>3, <2>2, RoundFacts DEF AcceptAsk, ProviderInv
<1>4. ASSUME RefuseAsk PROVE ProviderInv'
  BY <1>4, AgentFacts, RoundFacts
  DEF ProviderInv, RefuseAsk, internalVars, wireVars, Return
<1>5. ASSUME ReadFails PROVE ProviderInv'
  BY <1>5, AgentFacts, RoundFacts
  DEF ProviderInv, ReadFails, internalVars, wireVars, Return
<1>6. ASSUME WriteFrame PROVE ProviderInv'
  <2>1. UNCHANGED <<conn, cancelled, worker, round, prov>> /\ handler' = "recv"
    BY <1>6 DEF WriteFrame, internalVars
  <2> QED
    BY <2>1 DEF ProviderInv
<1>7. ASSUME WriteFails PROVE ProviderInv'
  BY <1>7, AgentFacts, RoundFacts
  DEF ProviderInv, WriteFails, internalVars, wireVars, Return
<1>8. ASSUME EventsEnd PROVE ProviderInv'
  BY <1>8, AgentFacts, RoundFacts
  DEF ProviderInv, EventsEnd, internalVars, wireVars, Return
<1>9. ASSUME Launch PROVE ProviderInv'
  <2>1. next \in Agents /\ worker[next] = "none"
    <3>1. next \in Personas
      BY <1>9, NAssumption DEF Launch, TypeOK, Personas
    <3> QED
      BY <1>9, <3>1, AgentFacts DEF Launch, ControlInv, TypeOK
  <2>2. /\ worker'[next] = "start"
        /\ \A b \in Agents : b # next => worker'[b] = worker[b]
    BY <1>9, <2>1, WorkerCell DEF Launch
  <2> QED
    BY <1>9, <2>1, <2>2 DEF Launch, ProviderInv
<1>10. ASSUME RoundHeld PROVE ProviderInv'
  BY <1>10, AgentFacts, RoundFacts
  DEF ProviderInv, RoundHeld, internalVars, wireVars
<1>11. ASSUME EmitRoundComplete PROVE ProviderInv'
  <2>1. \A a \in Agents : worker'[a] \in {"none", "start", "done"}
    <3>1. CASE AnotherRound(round)
      BY <1>11, <3>1 DEF EmitRoundComplete
    <3>2. CASE ~AnotherRound(round)
      <4>1. /\ worker'[Moderator] = "start"
            /\ \A b \in Agents : b # Moderator => worker'[b] = worker[b]
        BY <1>11, <3>2, AgentFacts, WorkerCell DEF EmitRoundComplete
      <4> QED
        BY <1>11, <4>1, AgentFacts DEF EmitRoundComplete, ControlInv
    <3> QED
      BY <3>1, <3>2
  <2>2. round' = round + 1 /\ round \in Nat
    BY <1>11 DEF EmitRoundComplete, TypeOK
  <2>3. \A r \in Rounds : r >= round' => r > round
    BY <2>2, RoundFacts
  <2>4. \A r \in Rounds : r > round' => r > round
    BY <2>2, RoundFacts
  <2>5. \A r \in Rounds : r = round' => r > round
    BY <2>2, RoundFacts
  <2> QED
    BY <1>11, <2>1, <2>4, <2>5 DEF EmitRoundComplete, ProviderInv
<1>12. ASSUME AbandonRounds PROVE ProviderInv'
  BY <1>12, AgentFacts, RoundFacts
  DEF ProviderInv, AbandonRounds, internalVars, wireVars
<1>13. ASSUME CloseEvents PROVE ProviderInv'
  BY <1>13, AgentFacts, RoundFacts
  DEF ProviderInv, CloseEvents, internalVars, wireVars
<1>14. ASSUME NEW a \in Agents, StartStream(a) PROVE ProviderInv'
  <2>1. round \in Rounds
    BY <1>14, WorkerIsCurrent DEF StartStream, Running, Emitting
  <2>2. /\ prov'[round][a] = "reading"
        /\ \A x \in Rounds, y \in Agents :
              x # round \/ y # a => prov'[x][y] = prov[x][y]
    BY <1>14, <2>1, ProviderCell DEF StartStream, ProviderStates
  <2>3. /\ worker'[a] = "range"
        /\ \A b \in Agents : b # a => worker'[b] = worker[b]
    BY <1>14, WorkerCell DEF StartStream
  <2>4. \A r \in Rounds, b \in Agents : prov'[r][b] = "aborted" => cancelled
    BY <2>1, <2>2 DEF ProviderInv
  <2>5. \A r \in Rounds, b \in Agents : r > round => prov'[r][b] = "idle"
    BY <2>1, <2>2, RoundFacts DEF ProviderInv
  <2>6. \A b \in Agents : worker'[b] \in {"none", "start"} =>
           \A r \in Rounds : r = round => prov'[r][b] = "idle"
    BY <2>1, <2>2, <2>3 DEF ProviderInv
  <2>7. conn = "open" => \A b \in Agents : worker'[b] = "emitDone" =>
           \A r \in Rounds : r = round => prov'[r][b] = "eof"
    BY <2>1, <2>2, <2>3 DEF ProviderInv
  <2> QED
    BY <1>14, <2>4, <2>5, <2>6, <2>7 DEF StartStream, ProviderInv, wireVars
<1>15. ASSUME NEW a \in Agents, StreamStartFails(a) PROVE ProviderInv'
  <2>1. /\ worker'[a] = "emitError"
        /\ \A b \in Agents : b # a => worker'[b] = worker[b]
    BY <1>15, WorkerCell DEF StreamStartFails
  <2> QED
    BY <1>15, <2>1 DEF StreamStartFails, ProviderInv
<1>16. ASSUME NEW a \in Agents, ReceiveDelta(a) PROVE ProviderInv'
  <2>1. round \in Rounds
    BY <1>16, WorkerIsCurrent DEF ReceiveDelta, Running, Emitting
  <2>2. /\ prov'[round][a] = "reading"
        /\ \A x \in Rounds, y \in Agents :
              x # round \/ y # a => prov'[x][y] = prov[x][y]
    BY <1>16, <2>1, ProviderCell DEF ReceiveDelta, ProviderStates
  <2>3. /\ worker'[a] = "emitToken"
        /\ \A b \in Agents : b # a => worker'[b] = worker[b]
    BY <1>16, WorkerCell DEF ReceiveDelta
  <2> QED
    BY <1>16, <2>1, <2>2, <2>3, RoundFacts DEF ReceiveDelta, ProviderInv, TypeOK
<1>17. ASSUME NEW a \in Agents, ReceiveErr(a) PROVE ProviderInv'
  <2>1. round \in Rounds
    BY <1>17, WorkerIsCurrent DEF ReceiveErr, Running, Emitting
  <2>2. /\ prov'[round][a] = "returning"
        /\ \A x \in Rounds, y \in Agents :
              x # round \/ y # a => prov'[x][y] = prov[x][y]
    BY <1>17, <2>1, ProviderCell DEF ReceiveErr, ProviderStates
  <2>3. /\ worker'[a] = "emitError"
        /\ \A b \in Agents : b # a => worker'[b] = worker[b]
    BY <1>17, WorkerCell DEF ReceiveErr
  <2> QED
    BY <1>17, <2>1, <2>2, <2>3, RoundFacts DEF ReceiveErr, ProviderInv, TypeOK
<1>18. ASSUME NEW a \in Agents, RangeEnds(a) PROVE ProviderInv'
  <2>1. round \in Rounds
    BY <1>18, WorkerIsCurrent DEF RangeEnds, Running, Emitting
  <2>2. /\ worker'[a] = "emitDone"
        /\ \A b \in Agents : b # a => worker'[b] = worker[b]
    BY <1>18, WorkerCell DEF RangeEnds
  <2>3. conn = "open" => prov[round][a] = "eof"
    BY <1>18, <2>1 DEF RangeEnds, ProviderInv
  <2> QED
    BY <1>18, <2>1, <2>2, <2>3 DEF RangeEnds, ProviderInv
<1>19. ASSUME NEW a \in Agents, Emit(a) PROVE ProviderInv'
  <2>1. /\ worker'[a] \in {"range", "done"}
        /\ \A b \in Agents : b # a => worker'[b] = worker[b]
    BY <1>19, WorkerCell DEF Emit
  <2> QED
    BY <1>19, <2>1 DEF Emit, ProviderInv
<1>20. ASSUME NEW a \in Agents, EmitCancelled(a) PROVE ProviderInv'
  <2>1. /\ worker'[a] = "done"
        /\ \A b \in Agents : b # a => worker'[b] = worker[b]
    BY <1>20, WorkerCell DEF EmitCancelled
  <2> QED
    BY <1>20, <2>1 DEF EmitCancelled, ProviderInv
<1>21. ASSUME NEW r \in Rounds, NEW a \in Agents, UpstreamDelta(r, a) PROVE ProviderInv'
  <2>1. /\ prov'[r][a] = "delta"
        /\ \A x \in Rounds, y \in Agents :
              x # r \/ y # a => prov'[x][y] = prov[x][y]
    BY <1>21, ProviderCell DEF UpstreamDelta, ProviderStates
  <2>2. prov[r][a] \notin {"idle", "eof"}
    BY <1>21 DEF UpstreamDelta
  <2> QED
    BY <1>21, <2>1, <2>2 DEF UpstreamDelta, provRest, internalVars, ProviderInv
<1>22. ASSUME NEW r \in Rounds, NEW a \in Agents, UpstreamDone(r, a) PROVE ProviderInv'
  <2>1. /\ prov'[r][a] = "eof"
        /\ \A x \in Rounds, y \in Agents :
              x # r \/ y # a => prov'[x][y] = prov[x][y]
    BY <1>22, ProviderCell DEF UpstreamDone, ProviderStates
  <2>2. prov[r][a] \notin {"idle", "eof"}
    BY <1>22 DEF UpstreamDone
  <2> QED
    BY <1>22, <2>1, <2>2 DEF UpstreamDone, provRest, internalVars, ProviderInv
<1>23. ASSUME NEW r \in Rounds, NEW a \in Agents, UpstreamFails(r, a) PROVE ProviderInv'
  <2>1. /\ prov'[r][a] = "error"
        /\ \A x \in Rounds, y \in Agents :
              x # r \/ y # a => prov'[x][y] = prov[x][y]
    BY <1>23, ProviderCell DEF UpstreamFails, ProviderStates
  <2>2. prov[r][a] \notin {"idle", "eof"}
    BY <1>23 DEF UpstreamFails
  <2> QED
    BY <1>23, <2>1, <2>2 DEF UpstreamFails, provRest, internalVars, ProviderInv
<1>24. ASSUME NEW r \in Rounds, NEW a \in Agents, ProviderQuits(r, a) PROVE ProviderInv'
  <2>1. /\ prov'[r][a] = "aborted"
        /\ \A x \in Rounds, y \in Agents :
              x # r \/ y # a => prov'[x][y] = prov[x][y]
    BY <1>24, ProviderCell DEF ProviderQuits, ProviderStates
  <2>2. prov[r][a] \notin {"idle", "eof"}
    BY <1>24 DEF ProviderQuits
  <2> QED
    BY <1>24, <2>1, <2>2 DEF ProviderQuits, provRest, internalVars, ProviderInv
<1>25. ASSUME NEW r \in Rounds, NEW a \in Agents, ProviderReturns(r, a) PROVE ProviderInv'
  <2>1. /\ prov'[r][a] = "errored"
        /\ \A x \in Rounds, y \in Agents :
              x # r \/ y # a => prov'[x][y] = prov[x][y]
    BY <1>25, ProviderCell DEF ProviderReturns, ProviderStates
  <2>2. prov[r][a] \notin {"idle", "eof"}
    BY <1>25 DEF ProviderReturns
  <2> QED
    BY <1>25, <2>1, <2>2 DEF ProviderReturns, provRest, internalVars, ProviderInv
<1>26. CASE UNCHANGED vars
  BY <1>26 DEF ProviderInv, vars, internalVars, wireVars
<1> QED
  BY <1>1, <1>2, <1>3, <1>4, <1>5, <1>6, <1>7, <1>8, <1>9, <1>10, <1>11,
     <1>12, <1>13, <1>14, <1>15, <1>16, <1>17, <1>18, <1>19, <1>20, <1>21,
     <1>22, <1>23, <1>24, <1>25, <1>26
  DEF Next, HandlerStep, RunStep, WorkerStep, Upstream, Finished

\* A provider that ended with the answer complete stays so: its slot is never
\* reused.
LEMMA CompleteStays ==
    ASSUME TypeOK, ControlInv, ProviderInv, [Next]_vars,
           NEW x \in Rounds, NEW y \in Agents, prov[x][y] = "eof"
    PROVE  prov'[x][y] = "eof"
<1>1. ASSUME NEW a \in Agents, StartStream(a) PROVE prov'[x][y] = "eof"
  <2>1. round \in Rounds
    BY <1>1, WorkerIsCurrent DEF StartStream, Running, Emitting
  <2>2. prov[round][a] = "idle"
    BY <1>1, <2>1 DEF StartStream, ProviderInv
  <2>3. \A s \in Rounds, b \in Agents :
          s # round \/ b # a => prov'[s][b] = prov[s][b]
    BY <1>1, <2>1, ProviderCell DEF StartStream, ProviderStates
  <2> QED
    BY <2>1, <2>2, <2>3
<1>2. ASSUME NEW a \in Agents, ReceiveDelta(a) PROVE prov'[x][y] = "eof"
  <2>1. round \in Rounds
    BY <1>2, WorkerIsCurrent DEF ReceiveDelta, Running, Emitting
  <2>2. prov[round][a] = "delta"
    BY <1>2, <2>1 DEF ReceiveDelta, ProviderInv
  <2>3. \A s \in Rounds, b \in Agents :
          s # round \/ b # a => prov'[s][b] = prov[s][b]
    BY <1>2, <2>1, ProviderCell DEF ReceiveDelta, ProviderStates
  <2> QED
    BY <2>1, <2>2, <2>3
<1>3. ASSUME NEW a \in Agents, ReceiveErr(a) PROVE prov'[x][y] = "eof"
  <2>1. round \in Rounds
    BY <1>3, WorkerIsCurrent DEF ReceiveErr, Running, Emitting
  <2>2. prov[round][a] = "error"
    BY <1>3, <2>1 DEF ReceiveErr, ProviderInv
  <2>3. \A s \in Rounds, b \in Agents :
          s # round \/ b # a => prov'[s][b] = prov[s][b]
    BY <1>3, <2>1, ProviderCell DEF ReceiveErr, ProviderStates
  <2> QED
    BY <2>1, <2>2, <2>3
<1>4. ASSUME NEW r \in Rounds, NEW a \in Agents, UpstreamDelta(r, a) PROVE prov'[x][y] = "eof"
  <2>1. /\ prov'[r][a] = "delta"
        /\ \A s \in Rounds, b \in Agents :
              s # r \/ b # a => prov'[s][b] = prov[s][b]
    BY <1>4, ProviderCell DEF UpstreamDelta, ProviderStates
  <2> QED
    BY <1>4, <2>1 DEF UpstreamDelta
<1>5. ASSUME NEW r \in Rounds, NEW a \in Agents, UpstreamDone(r, a) PROVE prov'[x][y] = "eof"
  <2>1. /\ prov'[r][a] = "eof"
        /\ \A s \in Rounds, b \in Agents :
              s # r \/ b # a => prov'[s][b] = prov[s][b]
    BY <1>5, ProviderCell DEF UpstreamDone, ProviderStates
  <2> QED
    BY <1>5, <2>1 DEF UpstreamDone
<1>6. ASSUME NEW r \in Rounds, NEW a \in Agents, UpstreamFails(r, a) PROVE prov'[x][y] = "eof"
  <2>1. /\ prov'[r][a] = "error"
        /\ \A s \in Rounds, b \in Agents :
              s # r \/ b # a => prov'[s][b] = prov[s][b]
    BY <1>6, ProviderCell DEF UpstreamFails, ProviderStates
  <2> QED
    BY <1>6, <2>1 DEF UpstreamFails
<1>7. ASSUME NEW r \in Rounds, NEW a \in Agents, ProviderQuits(r, a) PROVE prov'[x][y] = "eof"
  <2>1. /\ prov'[r][a] = "aborted"
        /\ \A s \in Rounds, b \in Agents :
              s # r \/ b # a => prov'[s][b] = prov[s][b]
    BY <1>7, ProviderCell DEF ProviderQuits, ProviderStates
  <2> QED
    BY <1>7, <2>1 DEF ProviderQuits
<1>8. ASSUME NEW r \in Rounds, NEW a \in Agents, ProviderReturns(r, a) PROVE prov'[x][y] = "eof"
  <2>1. /\ prov'[r][a] = "errored"
        /\ \A s \in Rounds, b \in Agents :
              s # r \/ b # a => prov'[s][b] = prov[s][b]
    BY <1>8, ProviderCell DEF ProviderReturns, ProviderStates
  <2> QED
    BY <1>8, <2>1 DEF ProviderReturns
<1>9. CASE UNCHANGED prov
  BY <1>9
<1> QED
  BY <1>1, <1>2, <1>3, <1>4, <1>5, <1>6, <1>7, <1>8, <1>9
  DEF Next, HandlerStep, RunStep, WorkerStep, Upstream, Finished, vars,
      ClientGone, ReaderCancels, AcceptAsk, RefuseAsk, ReadFails, WriteFrame,
      WriteFails, EventsEnd, Launch, RoundHeld, EmitRoundComplete, AbandonRounds,
      CloseEvents, StreamStartFails, RangeEnds, Emit, EmitCancelled

\* The steps that change neither what the handler holds nor where it is.
handOver == <<handler, inHand, round>>

\* The handler holds an event exactly between a receive and its write.
LEMMA InHandStep ==
    ASSUME TypeOK, ControlInv, ProviderInv, InHandInv, [Next]_vars
    PROVE  InHandInv'
<1>1. ASSUME AcceptAsk PROVE InHandInv'
  BY <1>1, CompleteStays DEF AcceptAsk, InHandInv, ControlInv, TypeOK, Events
<1>2. ASSUME RefuseAsk \/ ReadFails \/ EventsEnd PROVE InHandInv'
  BY <1>2 DEF RefuseAsk, ReadFails, EventsEnd, Return, internalVars, InHandInv
<1>3. ASSUME WriteFrame \/ WriteFails PROVE InHandInv'
  BY <1>3 DEF WriteFrame, WriteFails, Return, internalVars, InHandInv, NoEvent,
              Event, TypeOK
<1>4. ASSUME EmitRoundComplete PROVE InHandInv'
  <2>1. round \in 1..rounds /\ rounds \in 0..MaxRounds /\ round' = round + 1
    BY <1>4 DEF EmitRoundComplete, ControlInv, TypeOK
  <2>2. /\ inHand'.type = "round_complete"
        /\ inHand'.round = round
        /\ handler' = "write"
    BY <1>4 DEF EmitRoundComplete, Event
  <2> QED
    BY <2>1, <2>2, RoundFacts DEF InHandInv
<1>5. ASSUME NEW a \in Agents, Emit(a) PROVE InHandInv'
  <2>1. round \in Rounds
    BY <1>5, WorkerIsCurrent DEF Emit, Running
  <2>2. /\ inHand'.type \in {"token", "error", "persona_done", "verdict"}
        /\ inHand'.type \in {"persona_done", "verdict"} => worker[a] = "emitDone"
        /\ inHand'.round = round
        /\ inHand'.agent = a
    BY <1>5 DEF Emit, Emitting, Pending, Event
  <2>3. /\ handler' = "write"
        /\ UNCHANGED <<conn, round, prov>>
    BY <1>5 DEF Emit
  <2>4. round' \in Nat /\ inHand'.round <= round'
    BY <2>1, <2>2, <2>3, RoundFacts
  <2> QED
    BY <2>1, <2>2, <2>3, <2>4 DEF InHandInv, ProviderInv
<1>6. ASSUME UNCHANGED handOver, conn' = "open" => conn = "open" PROVE InHandInv'
  <2>1. inHand.agent \in Agents
    BY DEF TypeOK, Events
  <2> QED
    BY <1>6, <2>1, CompleteStays DEF handOver, InHandInv
<1>7. \/ AcceptAsk \/ RefuseAsk \/ ReadFails \/ EventsEnd
      \/ WriteFrame \/ WriteFails \/ EmitRoundComplete
      \/ \E a \in Agents : Emit(a)
      \/ UNCHANGED handOver /\ (conn' = "open" => conn = "open")
  BY DEF Next, HandlerStep, RunStep, WorkerStep, Upstream, Finished, vars, handOver,
      internalVars, provRest, ClientGone, ReaderCancels, Launch, RoundHeld,
      AbandonRounds, CloseEvents, StartStream, StreamStartFails, ReceiveDelta,
      ReceiveErr, RangeEnds, EmitCancelled, UpstreamDelta, UpstreamDone,
      UpstreamFails, ProviderQuits, ProviderReturns
<1> QED
  BY <1>1, <1>2, <1>3, <1>4, <1>5, <1>6, <1>7

\* Only a written event closes a turn, and a provider that is through stays so.
LEMMA WholeStep ==
    ASSUME TypeOK, ControlInv, ProviderInv, InHandInv, OnlyWholeAnswersAreDone,
           [Next]_vars
    PROVE  OnlyWholeAnswersAreDone'
<1>1. CASE WriteFrame
  <2>1. /\ inHand.type \in {"token", "error", "persona_done", "verdict", "round_complete"}
        /\ inHand.round \in Rounds
        /\ inHand.agent \in Agents
        /\ UNCHANGED prov
        /\ conn = "open"
    BY <1>1 DEF WriteFrame, InHandInv, TypeOK, Events
  <2>2. CASE inHand.type \in {"token", "round_complete"}
    <3>1. UNCHANGED settled
      BY <1>1, <2>2, FrameWritten
    <3> QED
      BY <2>1, <3>1 DEF OnlyWholeAnswersAreDone
  <2>3. CASE inHand.type = "error"
    <3>1. settled' = [settled EXCEPT ![inHand.round][inHand.agent] = "failed"]
      BY <1>1, <2>3, FrameWritten
    <3>2. /\ settled'[inHand.round][inHand.agent] = "failed"
          /\ \A x \in Rounds, y \in Agents : x # inHand.round \/ y # inHand.agent
                => settled'[x][y] = settled[x][y]
      BY <2>1, <3>1, UpdateCell DEF TypeOK
    <3> QED
      BY <2>1, <3>2 DEF OnlyWholeAnswersAreDone
  <2>4. CASE inHand.type \in {"persona_done", "verdict"}
    <3>1. settled' = [settled EXCEPT ![inHand.round][inHand.agent] = "done"]
      BY <1>1, <2>4, FrameWritten
    <3>2. \A x \in Rounds, y \in Agents : x # inHand.round \/ y # inHand.agent
                => settled'[x][y] = settled[x][y]
      BY <2>1, <3>1, UpdateCell DEF TypeOK
    <3>3. prov[inHand.round][inHand.agent] = "eof"
      BY <2>1, <2>4 DEF InHandInv
    <3> QED
      BY <2>1, <3>2, <3>3 DEF OnlyWholeAnswersAreDone
  <2> QED
    BY <2>1, <2>2, <2>3, <2>4
<1>2. CASE UNCHANGED settled
  BY <1>2, CompleteStays DEF OnlyWholeAnswersAreDone
<1>3. WriteFrame \/ UNCHANGED settled
  BY DEF Next, HandlerStep, RunStep, WorkerStep, Upstream, Finished, vars, wireVars,
      provRest, ClientGone, ReaderCancels, AcceptAsk, RefuseAsk, ReadFails,
      WriteFails, EventsEnd, Launch, RoundHeld, EmitRoundComplete, AbandonRounds,
      CloseEvents, StartStream, StreamStartFails, ReceiveDelta, ReceiveErr,
      RangeEnds, Emit, EmitCancelled, UpstreamDelta, UpstreamDone, UpstreamFails,
      ProviderQuits, ProviderReturns
<1> QED
  BY <1>1, <1>2, <1>3

-----------------------------------------------------------------------------
\* An upgraded connection before its ask satisfies the invariant.
LEMMA InitInv == Init => IInv
<1> SUFFICES ASSUME Init PROVE IInv
  OBVIOUS
<1>1. TypeOK
  <2>1. /\ 1 \in 1..(N + 1)
        /\ inHand \in Events
        /\ round \in 0..(MaxRounds + 1)
        /\ rounds \in 0..MaxRounds
        /\ completed \in 0..MaxRounds
    BY RoundFacts, NAssumption, NoEventType DEF Init
  <2>2. /\ NoRequest \in [own : Seq(Nat), quotes : Quotes]
        /\ <<>> \in Seq(Answers)
    BY DEF NoRequest, Quotes
  <2> QED
    BY <2>1, <2>2 DEF Init, TypeOK, RunStates, WorkerStates, ProviderStates
<1>2. ControlInv
  BY DEF Init, ControlInv
<1>3. ProviderInv /\ OnlyWholeAnswersAreDone
  BY RoundFacts, AgentFacts DEF Init, ProviderInv, OnlyWholeAnswersAreDone
<1>4. InHandInv
  BY DEF Init, InHandInv, NoEvent, Event
<1> QED
  BY <1>1, <1>2, <1>3, <1>4 DEF IInv

\* The five parts of the invariant hold in every state of every session.
THEOREM Invariance == SafetySpec => []IInv
<1>1. IInv /\ [Next]_vars => IInv'
  BY TypeStep, ControlStep, ProviderStep, InHandStep, WholeStep DEF IInv
<1> QED
  BY InitInv, <1>1, PTL DEF SafetySpec

\* Every variable of the session keeps its type, and the loops of Run and
\* runRound stay within the rounds agreed and the panel.
THEOREM TypeCorrect == SafetySpec => []TypeOK
<1>1. IInv => TypeOK
  BY DEF IInv
<1> QED
  BY Invariance, <1>1, PTL

\* Run closes the event channel only after every goroutine that could send on
\* it has returned: no send can panic.
THEOREM NoPanic == SafetySpec => []NoSendOnClosedChannel
<1>1. IInv => NoSendOnClosedChannel
  BY DEF IInv, ControlInv, NoSendOnClosedChannel, Running, Emitting
<1> QED
  BY Invariance, <1>1, PTL

\* No truncated answer is presented to the client as complete, whichever way
\* select decides once the context is done.
THEOREM WholeAnswers == SafetySpec => []OnlyWholeAnswersAreDone
<1>1. IInv => OnlyWholeAnswersAreDone
  BY DEF IInv
<1> QED
  BY Invariance, <1>1, PTL

=============================================================================
