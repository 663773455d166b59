-------------------------- MODULE DebateWireProofs --------------------------
(***************************************************************************)
(* What the socket carries, proved for every panel, limit, number of       *)
(* rounds and length of the answers: the session implements DebateStream,  *)
(* hangs up only after the debate is concluded, shows its models what the  *)
(* client was shown, keeps the upstream calls within the limit, and writes *)
(* frames the browser understands.                                         *)
(*                                                                         *)
(* WireInv says what each part of the program has contributed to the wire. *)
(* It holds while the connection is open; afterwards nothing is written.   *)
(***************************************************************************)
EXTENDS DebateSessionProofs, FiniteSetTheorems

Closing == {"error", "persona_done", "verdict"}

\* The agents whose turns are those of the loop variable's round.
Current(a) ==
    IF a = Moderator THEN run \in {"moderate", "closed"}
                     ELSE run \in {"launch", "emitRound"}

TokenInHand(a) == inHand.type = "token" /\ inHand.agent = a
ClosingInHand(a) == inHand.type \in Closing /\ inHand.agent = a

\* Deltas an agent has received and the socket has not carried yet.
Unwritten(a) ==
    (IF worker[a] = "emitToken" THEN 1 ELSE 0) + (IF TokenInHand(a) THEN 1 ELSE 0)

\* Rounds are completed one by one, by a frame that Run emits after the last
\* frame of their answers was written.
BarrierInv ==
    /\ run = "closed" => /\ rounds >= 1
                         /\ round = rounds + 1
                         /\ worker[Moderator] = "done"
    /\ run = "none" => completed = 0
    /\ run # "none" =>
          completed = IF inHand.type = "round_complete" THEN round - 2 ELSE round - 1
    /\ inHand.type = "round_complete" =>
          /\ inHand.round = round - 1
          /\ \A p \in Personas : settled[inHand.round][p] # "pending"

\* A worker's event in hand is of this round, and its worker has gone on.
HandInv ==
    LET a == inHand.agent
    IN  /\ inHand.type \in Closing \union {"token"} => inHand.round = round /\ Current(a)
        /\ inHand.type = "token" => worker[a] \notin {"none", "start", "done"}
        /\ inHand.type \in Closing => worker[a] = "done"
        /\ inHand.type = "persona_done" => a \in Personas
        /\ inHand.type = "verdict" => /\ a = Moderator
                                      /\ inHand.text = said[inHand.round][a]

\* A turn is open on the wire until its worker is done and its last event
\* written, and the worker's text is what the wire and the hands hold.
TurnInv ==
    \A r \in Rounds, a \in Agents : r = round /\ Current(a) =>
        /\ settled[r][a] = "pending" <=> worker[a] # "done" \/ ClosingInHand(a)
        /\ worker[a] = "none" => said[r][a] = 0
        /\ worker[a] # "none" => text[a] = said[r][a] + Unwritten(a)

\* Nothing is on the wire of the rounds to come.
FutureInv ==
    \A r \in Rounds, a \in Agents : r > round =>
        settled[r][a] = "pending" /\ said[r][a] = 0

\* The transcript is what the client was shown.
TranscriptInv ==
    \A r \in Rounds, p \in Personas : r <= Len(transcript) =>
        transcript[r][p] = said[r][p]

WireInv ==
    conn = "open" => BarrierInv /\ HandInv /\ TurnInv /\ FutureInv /\ TranscriptInv

-----------------------------------------------------------------------------
(***************************************************************************)
(* A step, action by action.                                               *)
(***************************************************************************)
\* What WireInv is about.
wireState == <<conn, run, round, rounds, worker, text, inHand, transcript,
               completed, said, settled>>

\* Whoever closes the connection, nothing is written after.
LEMMA ClosedOrStill ==
    ASSUME WireInv, conn' = "closed" \/ UNCHANGED wireState
    PROVE  WireInv'
<1>1. CASE conn' = "closed"
  BY <1>1 DEF WireInv
<1>2. CASE UNCHANGED wireState
  BY <1>2 DEF wireState, WireInv, BarrierInv, HandInv, TurnInv, FutureInv,
              TranscriptInv, Current, TokenInHand, ClosingInHand, Unwritten
<1> QED
  BY <1>1, <1>2

\* The ask is accepted: the first round begins with an empty wire.
LEMMA AcceptKeepsWire ==
    ASSUME IInv, WireInv, AcceptAsk
    PROVE  WireInv'
<1>1. /\ run = "none" /\ round = 0 /\ transcript = <<>> /\ \A a \in Agents : worker[a] = "none"
      /\ inHand.type = "none"
  BY DEF AcceptAsk, IInv, ControlInv, InHandInv
<1>2. /\ run' = "launch" /\ round' = 1 /\ conn = "open"
      /\ UNCHANGED <<conn, inHand, worker, text, transcript, completed, said, settled>>
  BY DEF AcceptAsk, wireVars
<1>3. BarrierInv /\ FutureInv
  BY <1>2 DEF WireInv
<1>4. BarrierInv' /\ HandInv' /\ TranscriptInv'
  <2>1. BarrierInv'
    BY <1>1, <1>2, <1>3 DEF BarrierInv
  <2>2. HandInv'
    BY <1>1, <1>2 DEF HandInv, Closing
  <2>3. Len(transcript') = 0 /\ \A r \in Rounds : ~(r <= 0)
    BY <1>1, <1>2, RoundFacts
  <2> QED
    BY <2>1, <2>2, <2>3 DEF TranscriptInv
<1>5. \A r \in Rounds, a \in Agents : settled[r][a] = "pending" /\ said[r][a] = 0
  BY <1>1, <1>3, RoundFacts DEF FutureInv
<1>6. TurnInv' /\ FutureInv'
  BY <1>1, <1>2, <1>5 DEF TurnInv, FutureInv, ClosingInHand, Closing
<1> QED
  BY <1>4, <1>6 DEF WireInv

\* A persona's turn begins with an empty builder.
LEMMA LaunchKeepsWire ==
    ASSUME IInv, WireInv, Launch
    PROVE  WireInv'
<1> SUFFICES ASSUME conn = "open" PROVE WireInv'
  BY DEF WireInv, Launch
<1>1. /\ next \in Personas /\ next \in Agents /\ next # Moderator /\ worker[next] = "none"
      /\ run = "launch"
  BY NAssumption, AgentFacts DEF Launch, IInv, TypeOK, ControlInv, Personas, Moderator
<1>2. /\ worker'[next] = "start" /\ text'[next] = 0
      /\ \A a \in Agents : a # next => worker'[a] = worker[a] /\ text'[a] = text[a]
      /\ UNCHANGED <<conn, run, round, rounds, inHand, transcript, completed, said, settled>>
  BY <1>1 DEF Launch, IInv, TypeOK, wireVars
<1>3. BarrierInv /\ HandInv /\ TurnInv /\ FutureInv /\ TranscriptInv
  BY DEF WireInv
<1>4. inHand.agent \in Agents
  BY DEF IInv, TypeOK, Events
<1>5. BarrierInv'
  BY <1>1, <1>2, <1>3 DEF BarrierInv
<1>6. HandInv'
  BY <1>1, <1>2, <1>3, <1>4 DEF HandInv, Current, Closing
<1>7. FutureInv' /\ TranscriptInv'
  BY <1>2, <1>3 DEF FutureInv, TranscriptInv
<1>8. ~TokenInHand(next) /\ ~ClosingInHand(next)
  BY <1>1, <1>3 DEF HandInv, TokenInHand, ClosingInHand
<1>9. ASSUME NEW r \in Rounds, NEW a \in Agents, r = round, Current(a)'
      PROVE  /\ settled'[r][a] = "pending" <=> worker'[a] # "done" \/ ClosingInHand(a)'
             /\ worker'[a] = "none" => said'[r][a] = 0
             /\ worker'[a] # "none" => text'[a] = said'[r][a] + Unwritten(a)'
  <2>1. Current(a)
    BY <1>2, <1>9 DEF Current
  <2>2. CASE a = next
    BY <1>1, <1>2, <1>3, <1>8, <1>9, <2>1, <2>2 DEF TurnInv, ClosingInHand, TokenInHand, Unwritten
  <2>3. CASE a # next
    BY <1>1, <1>2, <1>3, <1>9, <2>1, <2>3 DEF TurnInv, ClosingInHand, TokenInHand, Unwritten
  <2> QED
    BY <2>2, <2>3
<1>10. TurnInv'
  BY <1>2, <1>9 DEF TurnInv
<1> QED
  BY <1>5, <1>6, <1>7, <1>10 DEF WireInv

\* A worker that ranges or ends, with or without a new delta to emit.
LEMMA WorkingKeepsWire ==
    ASSUME IInv, WireInv,
           NEW a \in Agents, Running(a), worker[a] # "emitToken",
           NEW w \in {"range", "emitToken", "emitError", "emitDone"},
           worker' = [worker EXCEPT ![a] = w],
           text' = [text EXCEPT ![a] = text[a] + (IF w = "emitToken" THEN 1 ELSE 0)],
           UNCHANGED <<conn, run, round, rounds, inHand, transcript, completed, said, settled>>
    PROVE  WireInv'
<1> SUFFICES ASSUME conn = "open" PROVE WireInv'
  BY DEF WireInv
<1>1. worker[a] \notin {"none", "done", "emitToken"} /\ w \notin {"none", "start", "done"}
  BY DEF Running, Emitting
<1>2. /\ worker'[a] = w /\ text'[a] = text[a] + (IF w = "emitToken" THEN 1 ELSE 0)
      /\ \A b \in Agents : b # a => worker'[b] = worker[b] /\ text'[b] = text[b]
  BY DEF IInv, TypeOK
<1>3. BarrierInv /\ HandInv /\ TurnInv /\ FutureInv /\ TranscriptInv
  BY DEF WireInv
<1>4. inHand.agent \in Agents
  BY DEF IInv, TypeOK, Events
<1>5. BarrierInv'
  <2>1. run = "closed" => a # Moderator
    BY <1>1, <1>3 DEF BarrierInv
  <2>2. run = "closed" => worker'[Moderator] = worker[Moderator]
    BY <1>2, <2>1, AgentFacts
  <2> QED
    BY <1>3, <2>2 DEF BarrierInv
<1>6. HandInv'
  BY <1>1, <1>2, <1>3, <1>4 DEF HandInv, Current, Closing
<1>7. FutureInv' /\ TranscriptInv'
  BY <1>3 DEF FutureInv, TranscriptInv
<1>8. ASSUME NEW r \in Rounds, NEW b \in Agents, r = round, Current(b)'
      PROVE  /\ settled'[r][b] = "pending" <=> worker'[b] # "done" \/ ClosingInHand(b)'
             /\ worker'[b] = "none" => said'[r][b] = 0
             /\ worker'[b] # "none" => text'[b] = said'[r][b] + Unwritten(b)'
  <2>1. Current(b)
    BY <1>8 DEF Current
  <2>2. text[b] \in Nat /\ said[r][b] \in Nat
    BY DEF IInv, TypeOK
  <2>3. CASE b = a
    <3>1. settled[r][b] = "pending"
      BY <1>1, <1>3, <1>8, <2>1, <2>3 DEF TurnInv
    <3>2. text[b] = said[r][b] + (IF TokenInHand(b) THEN 1 ELSE 0)
      BY <1>1, <1>3, <1>8, <2>1, <2>2, <2>3 DEF TurnInv, Unwritten
    <3>3. text'[b] = said[r][b] + Unwritten(b)'
      BY <1>2, <2>2, <2>3, <3>2 DEF Unwritten, TokenInHand
    <3> QED
      BY <1>1, <1>2, <2>3, <3>1, <3>3
  <2>4. CASE b # a
    BY <1>2, <1>3, <1>8, <2>1, <2>4 DEF TurnInv, ClosingInHand, TokenInHand, Unwritten
  <2> QED
    BY <2>3, <2>4
<1>9. TurnInv'
  BY <1>8 DEF TurnInv
<1> QED
  BY <1>5, <1>6, <1>7, <1>9 DEF WireInv

\* g.Wait has returned: what the builders hold is what the socket carried.
LEMMA RoundKeepsWire ==
    ASSUME IInv, WireInv, RoundHeld
    PROVE  WireInv'
<1> SUFFICES ASSUME conn = "open" PROVE WireInv'
  BY DEF WireInv, RoundHeld
<1>1. /\ run = "launch" /\ run' = "emitRound"
      /\ transcript' = Append(transcript, [p \in Personas |-> text[p]])
      /\ UNCHANGED <<conn, round, rounds, worker, text, inHand, completed, said, settled>>
      /\ \A p \in Personas : worker[p] = "done"
  BY DEF RoundHeld, wireVars
<1>2. BarrierInv /\ HandInv /\ TurnInv /\ FutureInv /\ TranscriptInv
  BY DEF WireInv
<1>3. /\ Len(transcript) = round - 1 /\ round \in Rounds /\ transcript \in Seq(Answers)
      /\ inHand.agent \in Agents
  BY <1>1, RoundFacts DEF IInv, ControlInv, TypeOK, Events
<1>4. BarrierInv' /\ HandInv' /\ TurnInv' /\ FutureInv'
  <2>1. \A a : Current(a)' <=> Current(a)
    BY <1>1 DEF Current
  <2> QED
    BY <1>1, <1>2, <2>1 DEF BarrierInv, HandInv, TurnInv, FutureInv, TokenInHand,
                            ClosingInHand, Unwritten
<1>5. ASSUME NEW p \in Personas PROVE text[p] = said[round][p]
  <2>1. p \in Agents /\ Current(p) /\ worker[p] = "done"
    BY <1>1, AgentFacts DEF Current
  <2>2. ~TokenInHand(p)
    BY <1>2, <2>1 DEF HandInv, TokenInHand
  <2>3. said[round][p] \in Nat /\ Unwritten(p) = 0
    BY <1>3, <2>1, <2>2 DEF IInv, TypeOK, Unwritten
  <2> QED
    BY <1>2, <1>3, <2>1, <2>3 DEF TurnInv
<1>6. ASSUME NEW r \in Rounds, NEW p \in Personas, r <= Len(transcript')
      PROVE  transcript'[r][p] = said'[r][p]
  <2>1. Len(transcript') = round /\ r \in 1..round
    BY <1>1, <1>3, <1>6, RoundFacts
  <2>2. CASE r = round
    <3>1. transcript'[r] = [q \in Personas |-> text[q]]
      <4>1. r = Len(transcript) + 1
        BY <1>3, <2>2, RoundFacts
      <4>2. \A e : Append(transcript, e)[Len(transcript) + 1] = e
        BY <1>3
      <4> QED
        BY <1>1, <4>1, <4>2
    <3> QED
      BY <1>1, <1>5, <2>2, <3>1
  <2>3. CASE r # round
    <3>1. r \in 1..Len(transcript) /\ transcript'[r] = transcript[r]
      BY <1>1, <1>3, <2>1, <2>3
    <3> QED
      BY <1>1, <1>2, <3>1 DEF TranscriptInv
  <2> QED
    BY <2>2, <2>3
<1>7. TranscriptInv'
  BY <1>6 DEF TranscriptInv
<1> QED
  BY <1>4, <1>7 DEF WireInv

\* round_complete is in the handler's hand, the next round or the moderator's
\* turn begins.
LEMMA BarrierKeepsWire ==
    ASSUME IInv, WireInv, EmitRoundComplete
    PROVE  WireInv'
<1> SUFFICES ASSUME conn = "open" PROVE WireInv'
  BY DEF WireInv, EmitRoundComplete
<1>1. /\ run = "emitRound" /\ handler = "recv" /\ round' = round + 1
      /\ inHand'.type = "round_complete" /\ inHand'.round = round
      /\ UNCHANGED <<conn, rounds, transcript, completed, said, settled>>
  BY DEF EmitRoundComplete, Event, wireVars
<1>2. BarrierInv /\ HandInv /\ TurnInv /\ FutureInv /\ TranscriptInv
  BY DEF WireInv
<1>3. /\ round \in 1..rounds /\ rounds \in 0..MaxRounds
      /\ round \in Rounds /\ inHand.type = "none"
      /\ \A p \in Personas : worker[p] = "done"
  BY <1>1, RoundFacts DEF IInv, ControlInv, TypeOK, InHandInv
<1>4. run' \in {"launch", "moderate"}
  BY DEF EmitRoundComplete
<1>5. \A p \in Personas : settled[round][p] # "pending"
  <2>1. ASSUME NEW p \in Personas PROVE settled[round][p] # "pending"
    <3>1. p \in Agents /\ Current(p) /\ worker[p] = "done" /\ ~ClosingInHand(p)
      BY <1>1, <1>3, AgentFacts DEF Current, ClosingInHand, Closing
    <3> QED
      BY <1>2, <1>3, <3>1 DEF TurnInv
  <2> QED
    BY <2>1
<1>6. BarrierInv'
  BY <1>1, <1>2, <1>3, <1>4, <1>5 DEF BarrierInv
<1>7. HandInv'
  BY <1>1 DEF HandInv, Closing
<1>8. FutureInv' /\ TranscriptInv'
  BY <1>1, <1>2, <1>3, RoundFacts DEF FutureInv, TranscriptInv
<1>9. ASSUME NEW a \in Agents, Current(a)'
      PROVE  \/ worker'[a] = "none"
             \/ worker'[a] = "start" /\ text'[a] = 0
  <2>1. CASE AnotherRound(round)
    BY <2>1 DEF EmitRoundComplete
  <2>2. CASE ~AnotherRound(round)
    <3>1. a = Moderator
      BY <1>9, <2>2 DEF EmitRoundComplete, Current
    <3> QED
      BY <2>2, <3>1 DEF EmitRoundComplete, IInv, TypeOK
  <2> QED
    BY <2>1, <2>2
<1>10. ASSUME NEW r \in Rounds, NEW a \in Agents, r = round + 1, Current(a)'
       PROVE  /\ settled'[r][a] = "pending" <=> worker'[a] # "done" \/ ClosingInHand(a)'
              /\ worker'[a] = "none" => said'[r][a] = 0
              /\ worker'[a] # "none" => text'[a] = said'[r][a] + Unwritten(a)'
  <2>1. settled[r][a] = "pending" /\ said[r][a] = 0
    BY <1>2, <1>3, <1>10 DEF FutureInv
  <2>2. ~TokenInHand(a)'
    BY <1>1 DEF TokenInHand
  <2> QED
    BY <1>1, <1>9, <1>10, <2>1, <2>2 DEF Unwritten
<1>11. TurnInv'
  BY <1>1, <1>10 DEF TurnInv
<1> QED
  BY <1>6, <1>7, <1>8, <1>11 DEF WireInv

\* The moderator is done when the channel is closed.
LEMMA CloseKeepsWire ==
    ASSUME IInv, WireInv, CloseEvents
    PROVE  WireInv'
<1>1. /\ run = "moderate" /\ run' = "closed" /\ worker[Moderator] = "done"
      /\ UNCHANGED <<conn, round, rounds, worker, text, inHand, transcript, completed,
                     said, settled>>
  BY DEF CloseEvents, wireVars
<1>2. round = rounds + 1 /\ rounds >= 1
  BY <1>1 DEF IInv, ControlInv
<1>3. \A a : Current(a)' <=> Current(a)
  BY <1>1 DEF Current
<1> QED
  BY <1>1, <1>2, <1>3 DEF WireInv, BarrierInv, HandInv, TurnInv, FutureInv,
                          TranscriptInv, TokenInHand, ClosingInHand, Unwritten

\* A worker hands its event over.
LEMMA EmitKeepsWire ==
    ASSUME IInv, WireInv, NEW a \in Agents, Emit(a)
    PROVE  WireInv'
<1> SUFFICES ASSUME conn = "open" PROVE WireInv'
  BY DEF WireInv, Emit
<1>1. /\ worker[a] \in {"emitToken", "emitError", "emitDone"} /\ handler = "recv"
      /\ inHand' = Pending(a)
      /\ UNCHANGED <<conn, run, round, rounds, text, transcript, completed, said, settled>>
  BY DEF Emit, Emitting, wireVars
<1>2. /\ worker'[a] = IF worker[a] = "emitToken" THEN "range" ELSE "done"
      /\ \A b \in Agents : b # a => worker'[b] = worker[b]
  BY DEF Emit, IInv, TypeOK
<1>3. BarrierInv /\ HandInv /\ TurnInv /\ FutureInv /\ TranscriptInv
  BY DEF WireInv
<1>4. /\ round \in Rounds
      /\ Current(a)
      /\ inHand.type = "none"
  BY <1>1, WorkerIsCurrent, AgentFacts DEF IInv, Running, Emitting, Current, InHandInv
<1>5. /\ inHand'.agent = a /\ inHand'.round = round
      /\ worker[a] = "emitToken" => inHand'.type = "token"
      /\ worker[a] = "emitError" => inHand'.type = "error"
      /\ worker[a] = "emitDone" =>
            inHand'.type = IF a = Moderator THEN "verdict" ELSE "persona_done"
      /\ inHand'.type = "verdict" => inHand'.text = text[a]
  BY <1>1 DEF Pending, Event
<1>6. BarrierInv'
  <2>1. run = "closed" => a # Moderator
    BY <1>1, <1>3 DEF BarrierInv
  <2>2. run = "closed" => worker'[Moderator] = worker[Moderator]
    BY <1>2, <2>1, AgentFacts
  <2> QED
    BY <1>1, <1>3, <1>4, <1>5, <2>2 DEF BarrierInv
<1>7. settled[round][a] = "pending" /\ said[round][a] \in Nat
      /\ text[a] = said[round][a] + (IF worker[a] = "emitToken" THEN 1 ELSE 0)
  <2>1. ~TokenInHand(a) /\ said[round][a] \in Nat
    BY <1>4 DEF TokenInHand, IInv, TypeOK
  <2> QED
    BY <1>1, <1>3, <1>4, <2>1 DEF TurnInv, Unwritten
<1>8. HandInv'
  <2>1. Current(a)'
    BY <1>1, <1>4 DEF Current
  <2> QED
    BY <1>1, <1>2, <1>5, <1>7, <2>1, AgentFacts DEF HandInv, Closing
<1>9. FutureInv' /\ TranscriptInv'
  BY <1>1, <1>3 DEF FutureInv, TranscriptInv
<1>10. ASSUME NEW r \in Rounds, NEW b \in Agents, r = round, Current(b)'
       PROVE  /\ settled'[r][b] = "pending" <=> worker'[b] # "done" \/ ClosingInHand(b)'
              /\ worker'[b] = "none" => said'[r][b] = 0
              /\ worker'[b] # "none" => text'[b] = said'[r][b] + Unwritten(b)'
  <2>1. Current(b)
    BY <1>1, <1>10 DEF Current
  <2>2. CASE b = a
    BY <1>1, <1>2, <1>5, <1>7, <1>10, <2>2 DEF ClosingInHand, TokenInHand, Unwritten, Closing
  <2>3. CASE b # a
    <3>1. ~TokenInHand(b) /\ ~ClosingInHand(b) /\ ~TokenInHand(b)' /\ ~ClosingInHand(b)'
      BY <1>4, <1>5, <2>3 DEF TokenInHand, ClosingInHand, Closing
    <3> QED
      BY <1>1, <1>2, <1>3, <1>10, <2>1, <2>3, <3>1 DEF TurnInv, Unwritten
  <2> QED
    BY <2>2, <2>3
<1>11. TurnInv'
  BY <1>1, <1>10 DEF TurnInv
<1> QED
  BY <1>6, <1>8, <1>9, <1>11 DEF WireInv

\* A frame is on the wire, and the handler's hand is empty.
LEMMA WriteKeepsWire ==
    ASSUME IInv, WireInv, WriteFrame
    PROVE  WireInv'
<1> DEFINE ev == inHand
<1>1. /\ handler = "write" /\ conn = "open" /\ inHand'.type = "none"
      /\ UNCHANGED <<conn, run, round, rounds, worker, text, transcript>>
  BY DEF WriteFrame, internalVars, NoEvent, Event
<1>2. BarrierInv /\ HandInv /\ TurnInv /\ FutureInv /\ TranscriptInv
  BY <1>1 DEF WireInv
<1>3. /\ ev.type \in Closing \union {"token", "round_complete"}
      /\ ev.round \in Rounds /\ ev.agent \in Agents /\ round \in Nat
      /\ ev.type \in Closing \union {"token"} => round \in Rounds
  BY <1>1, <1>2 DEF IInv, InHandInv, TypeOK, Events, Closing, HandInv
<1>4. HandInv'
  BY <1>1 DEF HandInv, Closing
<1>5. \A a : /\ Current(a)' <=> Current(a)
             /\ ~TokenInHand(a)' /\ ~ClosingInHand(a)'
  BY <1>1 DEF Current, TokenInHand, ClosingInHand, Closing
<1>6. CASE ev.type = "token"
  <2>1. /\ said' = [said EXCEPT ![ev.round][ev.agent] = said[ev.round][ev.agent] + 1]
        /\ UNCHANGED <<completed, settled>>
    BY <1>6, FrameWritten
  <2>2. /\ ev.round = round /\ Current(ev.agent) /\ round \in Rounds
        /\ worker[ev.agent] \notin {"none", "start", "done"}
    BY <1>2, <1>3, <1>6 DEF HandInv
  <2>3. /\ \A r \in Rounds, a \in Agents : said[r][a] \in Nat /\ text[a] \in Nat
        /\ said'[round][ev.agent] = said[round][ev.agent] + 1
        /\ \A r \in Rounds, a \in Agents :
              r # round \/ a # ev.agent => said'[r][a] = said[r][a]
    <3>1. said \in [Rounds -> [Agents -> Nat]] /\ text \in [Agents -> Nat]
      BY DEF IInv, TypeOK
    <3>2. said[round][ev.agent] + 1 \in Nat
      BY <1>3, <2>2, <3>1
    <3> QED
      BY <1>3, <2>1, <2>2, <3>1, <3>2, UpdateCell
  <2>4. BarrierInv'
    BY <1>1, <1>2, <1>6, <2>1 DEF BarrierInv
  <2>5. FutureInv'
    <3>1. \A r \in Rounds : r > round => r # round
      BY <2>2, RoundFacts
    <3> QED
      BY <1>1, <1>2, <2>1, <2>3, <3>1 DEF FutureInv
  <2>6. Len(transcript) < round \/ \A p \in Personas : p # ev.agent
    BY <1>3, <2>2, AgentFacts DEF IInv, ControlInv, Current
  <2>7. TranscriptInv'
    <3>1. ASSUME NEW r \in Rounds, NEW p \in Personas, r <= Len(transcript)
          PROVE  said'[r][p] = said[r][p]
      <4>1. Len(transcript) \in Nat /\ p \in Agents /\ r \in Nat
        BY AgentFacts, RoundFacts DEF IInv, TypeOK
      <4> QED
        BY <1>3, <2>3, <2>6, <3>1, <4>1
    <3> QED
      BY <1>1, <1>2, <3>1 DEF TranscriptInv
  <2>8. ASSUME NEW r \in Rounds, NEW b \in Agents, r = round, Current(b)
        PROVE  /\ settled'[r][b] = "pending" <=> worker'[b] # "done" \/ ClosingInHand(b)'
               /\ worker'[b] = "none" => said'[r][b] = 0
               /\ worker'[b] # "none" => text'[b] = said'[r][b] + Unwritten(b)'
    <3>1. ~ClosingInHand(b)
      BY <1>6 DEF ClosingInHand, Closing
    <3>2. CASE b = ev.agent
      <4>1. TokenInHand(b)
        BY <1>6, <3>2 DEF TokenInHand
      <4> QED
        BY <1>1, <1>2, <1>5, <2>1, <2>2, <2>3, <2>8, <3>1, <3>2, <4>1 DEF TurnInv, Unwritten
    <3>3. CASE b # ev.agent
      <4>1. ~TokenInHand(b)
        BY <3>3 DEF TokenInHand
      <4> QED
        BY <1>1, <1>2, <1>5, <2>1, <2>3, <2>8, <3>1, <3>3, <4>1 DEF TurnInv, Unwritten
    <3> QED
      BY <3>2, <3>3
  <2>9. TurnInv'
    BY <1>1, <1>5, <2>8 DEF TurnInv
  <2> QED
    BY <1>4, <2>4, <2>5, <2>7, <2>9 DEF WireInv
<1>7. CASE ev.type \in Closing
  <2>1. PICK how \in {"done", "failed"} :
           /\ settled' = [settled EXCEPT ![ev.round][ev.agent] = how]
           /\ UNCHANGED <<completed, said>>
    BY <1>7, FrameWritten DEF Closing
  <2>2. ev.round = round /\ round \in Rounds /\ worker[ev.agent] = "done"
    BY <1>2, <1>3, <1>7 DEF HandInv
  <2>3. /\ settled'[round][ev.agent] # "pending"
        /\ \A r \in Rounds, a \in Agents :
              r # round \/ a # ev.agent => settled'[r][a] = settled[r][a]
    BY <1>3, <2>1, <2>2, UpdateCell DEF IInv, TypeOK
  <2>4. BarrierInv'
    BY <1>1, <1>2, <1>7, <2>1 DEF BarrierInv, Closing
  <2>5. FutureInv' /\ TranscriptInv'
    <3>1. \A r \in Rounds : r > round => r # round
      BY <2>2, RoundFacts
    <3> QED
      BY <1>1, <1>2, <2>1, <2>3, <3>1 DEF FutureInv, TranscriptInv
  <2>6. ASSUME NEW r \in Rounds, NEW b \in Agents, r = round, Current(b)
        PROVE  /\ settled'[r][b] = "pending" <=> worker'[b] # "done" \/ ClosingInHand(b)'
               /\ worker'[b] = "none" => said'[r][b] = 0
               /\ worker'[b] # "none" => text'[b] = said'[r][b] + Unwritten(b)'
    <3>1. ~TokenInHand(b)
      BY <1>7 DEF TokenInHand, Closing
    <3>2. CASE b = ev.agent
      BY <1>1, <1>2, <1>5, <2>1, <2>2, <2>3, <2>6, <3>1, <3>2 DEF TurnInv, Unwritten
    <3>3. CASE b # ev.agent
      <4>1. ~ClosingInHand(b)
        BY <3>3 DEF ClosingInHand
      <4> QED
        BY <1>1, <1>2, <1>5, <2>1, <2>3, <2>6, <3>1, <3>3, <4>1 DEF TurnInv, Unwritten
    <3> QED
      BY <3>2, <3>3
  <2>7. TurnInv'
    BY <1>1, <1>5, <2>6 DEF TurnInv
  <2> QED
    BY <1>4, <2>4, <2>5, <2>7 DEF WireInv
<1>8. CASE ev.type = "round_complete"
  <2>1. completed' = ev.round /\ UNCHANGED <<said, settled>>
    BY <1>8, FrameWritten
  <2>2. ev.round = round - 1 /\ run # "none"
    BY <1>1, <1>2, <1>8 DEF BarrierInv, IInv, ControlInv
  <2>3. BarrierInv'
    BY <1>1, <1>2, <2>1, <2>2 DEF BarrierInv
  <2>4. FutureInv' /\ TranscriptInv'
    BY <1>1, <1>2, <2>1 DEF FutureInv, TranscriptInv
  <2>5. \A a : ~TokenInHand(a) /\ ~ClosingInHand(a)
    BY <1>8 DEF TokenInHand, ClosingInHand, Closing
  <2>6. TurnInv'
    BY <1>1, <1>2, <1>5, <2>1, <2>5 DEF TurnInv, Unwritten
  <2> QED
    BY <1>4, <2>3, <2>4, <2>6 DEF WireInv
<1> QED
  BY <1>3, <1>6, <1>7, <1>8

-----------------------------------------------------------------------------
\* Every step keeps the wire in order.
LEMMA WireStep ==
    ASSUME IInv, WireInv, [Next]_vars
    PROVE  WireInv'
<1>1. ASSUME NEW a \in Agents,
             \/ StartStream(a) \/ StreamStartFails(a) \/ ReceiveErr(a) \/ RangeEnds(a)
      PROVE  WireInv'
  <2>1. /\ Running(a) /\ worker[a] # "emitToken"
        /\ UNCHANGED <<conn, run, round, rounds, text, inHand, transcript, completed,
                       said, settled>>
    BY <1>1 DEF StartStream, StreamStartFails, ReceiveErr, RangeEnds, Running, wireVars
  <2>2. PICK w \in {"range", "emitError", "emitDone"} : worker' = [worker EXCEPT ![a] = w]
    BY <1>1 DEF StartStream, StreamStartFails, ReceiveErr, RangeEnds
  <2>3. text' = [text EXCEPT ![a] = text[a] + (IF w = "emitToken" THEN 1 ELSE 0)]
    BY <2>1 DEF IInv, TypeOK
  <2> QED
    BY <2>1, <2>2, <2>3, WorkingKeepsWire
<1>2. ASSUME NEW a \in Agents, ReceiveDelta(a) PROVE WireInv'
  <2>1. /\ Running(a) /\ worker[a] # "emitToken"
        /\ worker' = [worker EXCEPT ![a] = "emitToken"]
        /\ text' = [text EXCEPT ![a] = text[a] + (IF "emitToken" = "emitToken" THEN 1 ELSE 0)]
        /\ UNCHANGED <<conn, run, round, rounds, inHand, transcript, completed,
                       said, settled>>
    BY <1>2 DEF ReceiveDelta, Running, wireVars
  <2> QED
    BY <2>1, WorkingKeepsWire
<1>3. ASSUME ClientGone \/ RefuseAsk \/ ReadFails \/ WriteFails \/ EventsEnd
      PROVE  WireInv'
  BY <1>3, ClosedOrStill DEF ClientGone, RefuseAsk, ReadFails, WriteFails, EventsEnd, Return
<1>4. ASSUME AbandonRounds \/ \E a \in Agents : EmitCancelled(a)
      PROVE  WireInv'
  BY <1>4 DEF AbandonRounds, EmitCancelled, WireInv, IInv, ProviderInv, TypeOK
<1>5. ASSUME \/ ReaderCancels \/ UNCHANGED vars
             \/ \E r \in Rounds, a \in Agents :
                   Upstream(r, a) \/ ProviderQuits(r, a) \/ ProviderReturns(r, a)
      PROVE  WireInv'
  <2>1. UNCHANGED wireState
    BY <1>5 DEF ReaderCancels, Upstream, UpstreamDelta, UpstreamDone, UpstreamFails,
                ProviderQuits, ProviderReturns, provRest, internalVars, wireVars, vars,
                wireState
  <2> QED
    BY <2>1, ClosedOrStill
<1> QED
  BY <1>1, <1>2, <1>3, <1>4, <1>5, AcceptKeepsWire, WriteKeepsWire, LaunchKeepsWire,
     RoundKeepsWire, BarrierKeepsWire, CloseKeepsWire, EmitKeepsWire
  DEF Next, HandlerStep, RunStep, WorkerStep, Finished

\* Before its ask a session has written nothing.
LEMMA WireInit == Init => WireInv
<1> SUFFICES ASSUME Init PROVE WireInv
  OBVIOUS
<1>1. BarrierInv /\ HandInv
  BY DEF Init, BarrierInv, HandInv, NoEvent, Event, Closing
<1>2. TurnInv /\ FutureInv
  BY RoundFacts DEF Init, TurnInv, FutureInv, Current
<1>3. TranscriptInv
  BY RoundFacts DEF Init, TranscriptInv
<1> QED
  BY <1>1, <1>2, <1>3 DEF WireInv

\* What the socket carried agrees with what each goroutine did.
THEOREM WireInvariance == SafetySpec => [](IInv /\ WireInv)
<1>1. IInv /\ WireInv /\ [Next]_vars => WireInv'
  BY WireStep
<1> QED
  BY WireInit, Invariance, <1>1, PTL DEF SafetySpec

-----------------------------------------------------------------------------
(***************************************************************************)
(* The session implements DebateStream.                                    *)
(***************************************************************************)
\* Which step of the stream the write of a frame is.
LEMMA FrameIsStreamStep ==
    ASSUME IInv, WireInv, WriteFrame
    PROVE  Stream!Next
<1> DEFINE ev == inHand
<1> USE DEF Stream!Personas, Stream!Agents, Stream!Moderator
<1>1. /\ conn = "open" /\ conn' = "open" /\ rounds' = rounds /\ handler = "write"
      /\ BarrierInv /\ HandInv /\ TurnInv
  BY DEF WriteFrame, internalVars, WireInv
<1>2. /\ ev.type \in Closing \union {"token", "round_complete"}
      /\ ev.round \in Rounds /\ ev.agent \in Agents
      /\ round \in Nat /\ rounds \in Nat /\ run # "none"
      /\ run \in {"launch", "emitRound"} => round \in 1..rounds
      /\ run = "moderate" => round = rounds + 1 /\ rounds >= 1
      /\ round - 1 <= rounds
  BY <1>1, RoundFacts DEF IInv, InHandInv, ControlInv, BarrierInv, TypeOK, RunStates, Events, Closing
<1>3. ASSUME ev.type \in Closing \union {"token"}
      PROVE  /\ Stream!HasFloor(ev.agent)
             /\ ev.round = Stream!current
             /\ settled[Stream!current][ev.agent] = "pending"
             /\ ev.agent = 0 \/ ev.agent \in 1..N
  <2>1. ev.round = round /\ Current(ev.agent) /\ completed = round - 1
    BY <1>1, <1>2, <1>3 DEF HandInv, BarrierInv, Closing
  <2>2. ev.round = Stream!current
    BY <1>2, <2>1 DEF Stream!current
  <2>3. Stream!HasFloor(ev.agent)
    <3>1. CASE ev.agent = Moderator
      <4>1. round = rounds + 1 /\ rounds >= 1
        BY <1>1, <1>2, <2>1, <3>1 DEF Current, BarrierInv, IInv, ControlInv
      <4> QED
        BY <1>1, <1>2, <2>1, <3>1, <4>1 DEF Stream!HasFloor, Moderator
    <3>2. CASE ev.agent # Moderator
      BY <1>1, <1>2, <2>1, <3>2 DEF Stream!HasFloor, Moderator, Current
    <3> QED
      BY <3>1, <3>2
  <2>4. settled[round][ev.agent] = "pending"
    <3>1. worker[ev.agent] # "done" \/ ClosingInHand(ev.agent)
      BY <1>1, <1>3 DEF HandInv, ClosingInHand, Closing
    <3> QED
      BY <1>1, <1>2, <2>1, <3>1 DEF TurnInv
  <2>5. ev.agent = 0 \/ ev.agent \in 1..N
    BY <1>2, AgentFacts DEF Moderator, Personas
  <2> QED
    BY <2>1, <2>2, <2>3, <2>4, <2>5
<1>4. CASE ev.type = "token"
  <2>1. Stream!Token(ev.agent)
    BY <1>1, <1>3, <1>4, FrameWritten DEF Stream!Token
  <2> QED
    BY <1>2, <2>1 DEF Stream!Next, Agents, Personas, Moderator
<1>5. CASE ev.type = "error"
  <2>1. Stream!Fail(ev.agent)
    BY <1>1, <1>3, <1>5, FrameWritten DEF Stream!Fail, Closing
  <2> QED
    BY <1>2, <2>1 DEF Stream!Next, Agents, Personas, Moderator
<1>6. CASE ev.type = "persona_done"
  <2>1. ev.agent \in Personas
    BY <1>1, <1>6 DEF HandInv
  <2>2. Stream!PersonaDone(ev.agent)
    BY <1>1, <1>3, <1>6, FrameWritten DEF Stream!PersonaDone, Closing
  <2> QED
    BY <2>1, <2>2 DEF Stream!Next, Personas
<1>7. CASE ev.type = "verdict"
  <2>1. ev.agent = 0 /\ ev.text = said[ev.round][0]
    BY <1>1, <1>7 DEF HandInv, Moderator
  <2>2. Stream!GiveVerdict
    BY <1>1, <1>3, <1>7, <2>1, FrameWritten DEF Stream!GiveVerdict, Closing
  <2> QED
    BY <2>2 DEF Stream!Next
<1>8. CASE ev.type = "round_complete"
  <2>1. /\ ev.round = round - 1 /\ completed = round - 2
        /\ \A p \in Personas : settled[ev.round][p] # "pending"
    BY <1>1, <1>2, <1>8 DEF BarrierInv
  <2>2. ev.round = Stream!current /\ completed < rounds
    BY <1>2, <2>1 DEF Stream!current
  <2>3. Stream!CompleteRound
    BY <1>1, <1>2, <1>8, <2>1, <2>2, FrameWritten
    DEF Stream!CompleteRound, Stream!current, Personas
  <2> QED
    BY <2>3 DEF Stream!Next
<1> QED
  BY <1>2, <1>4, <1>5, <1>6, <1>7, <1>8 DEF Closing

\* What a reader of the socket can tell.
socket == <<conn, refused, rounds, completed, said, settled, verdict>>

\* An ask that is accepted is an accepted ask.
LEMMA AskIsStreamStep ==
    ASSUME IInv, AcceptAsk \/ RefuseAsk
    PROVE  Stream!Next
<1>1. rounds = 0 /\ conn = "open"
  BY DEF AcceptAsk, RefuseAsk, IInv, ControlInv
<1>2. CASE AcceptAsk
  <2>1. PICK k \in AskRounds : /\ ValidRounds(k)
                               /\ rounds' = IF k = 0 THEN DefaultRounds ELSE k
    BY <1>2 DEF AcceptAsk
  <2>2. rounds' \in {j \in 2..MaxRounds : j % 2 = 0}
    BY <2>1, RoundFacts DEF ValidRounds, DefaultRounds
  <2>3. Stream!Accept
    BY <1>1, <1>2, <2>2 DEF AcceptAsk, Stream!Accept, wireVars
  <2> QED
    BY <2>3 DEF Stream!Next
<1>3. CASE RefuseAsk
  <2>1. Stream!Refuse
    BY <1>1, <1>3 DEF RefuseAsk, Return, internalVars, Stream!Refuse
  <2> QED
    BY <2>1 DEF Stream!Next
<1> QED
  BY <1>2, <1>3

\* Every step of the session is one of the stream, or none.
LEMMA StepIsStreamStep ==
    ASSUME IInv, WireInv, [Next]_vars
    PROVE  [Stream!Next]_(Stream!vars)
<1>1. CASE WriteFrame
  BY <1>1, FrameIsStreamStep
<1>2. CASE AcceptAsk \/ RefuseAsk
  BY <1>2, AskIsStreamStep
<1>3. CASE conn' = "closed" /\ UNCHANGED <<refused, rounds, completed, said, settled, verdict>>
  <2>1. CASE conn = "open"
    <3>1. Stream!Cut
      BY <1>3, <2>1 DEF Stream!Cut
    <3> QED
      BY <3>1 DEF Stream!Next
  <2>2. CASE conn # "open"
    <3>1. UNCHANGED Stream!vars
      BY <1>3, <2>2 DEF Stream!vars
    <3> QED
      BY <3>1
  <2> QED
    BY <2>1, <2>2
<1>4. CASE UNCHANGED socket
  <2>1. UNCHANGED Stream!vars
    BY <1>4 DEF socket, Stream!vars
  <2> QED
    BY <2>1
<1>5. \/ WriteFrame \/ AcceptAsk \/ RefuseAsk
      \/ conn' = "closed" /\ UNCHANGED <<refused, rounds, completed, said, settled, verdict>>
      \/ UNCHANGED socket
  BY DEF Next, HandlerStep, RunStep, WorkerStep, Upstream, Finished, vars, socket,
      internalVars, wireVars, provRest, Return, ClientGone, ReaderCancels, ReadFails,
      WriteFails, EventsEnd, Launch, RoundHeld, EmitRoundComplete, AbandonRounds,
      CloseEvents, StartStream, StreamStartFails, ReceiveDelta, ReceiveErr, RangeEnds,
      Emit, EmitCancelled, UpstreamDelta, UpstreamDone, UpstreamFails, ProviderQuits,
      ProviderReturns
<1> QED
  BY <1>1, <1>2, <1>3, <1>4, <1>5

\* Whatever the goroutines, the upstream model and the client do, the socket
\* carries a debate stream: rounds in order behind a barrier, each turn closed
\* once, nothing after the verdict (HandleSession, Run, runRound, stream).
THEOREM ImplementsDebateStream == SafetySpec => RefinesDebateStream
<1>1. Init => Stream!Init
  BY DEF Init, Stream!Init, Rounds, Agents, Personas, Moderator, NoVerdict,
         Stream!Rounds, Stream!Agents, Stream!Personas, Stream!Moderator, Stream!NoVerdict
<1>2. IInv /\ WireInv /\ [Next]_vars => [Stream!Next]_(Stream!vars)
  BY StepIsStreamStep
<1> QED
  BY <1>1, <1>2, WireInvariance, PTL DEF SafetySpec, RefinesDebateStream, Stream!Spec

\* The handler's range over the events of a client that is still there ends
\* only behind the moderator's last frame (session.go HandleSession,
\* orchestrator.go Run).
THEOREM ConcludesBeforeHangUp == SafetySpec => HangsUpAfterConclusion
<1>1. ASSUME IInv, WireInv, [Next]_vars,
             handler = "recv", handler' = "returned", conn = "open"
      PROVE  settled[rounds + 1][Moderator] # "pending"
  <2>1. run = "closed"
    BY <1>1 DEF Next, HandlerStep, RunStep, WorkerStep, Upstream, Finished, vars,
      provRest, Return, ClientGone, ReaderCancels, AcceptAsk, RefuseAsk, ReadFails,
      WriteFrame, WriteFails, EventsEnd, Launch, RoundHeld, EmitRoundComplete,
      AbandonRounds, CloseEvents, StartStream, StreamStartFails, ReceiveDelta,
      ReceiveErr, RangeEnds, Emit, EmitCancelled, UpstreamDelta, UpstreamDone,
      UpstreamFails, ProviderQuits,
      ProviderReturns
  <2>2. /\ round = rounds + 1 /\ worker[Moderator] = "done" /\ inHand.type = "none"
        /\ Moderator \in Agents /\ Current(Moderator) /\ TurnInv
    BY <1>1, <2>1, AgentFacts DEF WireInv, BarrierInv, IInv, InHandInv, Current
  <2>3. round \in Rounds
    BY <1>1, <2>2, RoundFacts DEF IInv, TypeOK
  <2>4. ~ClosingInHand(Moderator)
    BY <2>2 DEF ClosingInHand, Closing
  <2> QED
    BY <2>2, <2>3, <2>4 DEF TurnInv
<1>2. IInv /\ WireInv /\ [Next]_vars =>
        [handler = "recv" /\ handler' = "returned" /\ conn = "open"
            => settled[rounds + 1][Moderator] # "pending"]_vars
  BY <1>1
<1> QED
  BY <1>2, WireInvariance, PTL DEF SafetySpec, HangsUpAfterConclusion

-----------------------------------------------------------------------------
(***************************************************************************)
(* The prompts.                                                            *)
(***************************************************************************)
\* What agent a is to be told of the rounds rs.
Heard(rs, a) ==
    {q \in {<<r, p, said[r][p]>> : r \in rs, p \in Personas \ {a}} : q[3] > 0}

\* That a request quotes it.
Quotation(q, a) ==
    IF a = Moderator
    THEN q.quotes = Heard(1..rounds, a)
    ELSE /\ q.quotes = Heard({round - 1} \ {0}, a)
         /\ round > 1 => q.own = <<said[round - 1][a]>>

Asked(a) == worker[a] \notin {"none", "start", "done"}

PromptInv == conn = "open" => \A a \in Agents : Asked(a) => Quotation(request[a], a)

\* A prompt is built from the transcript, and that is what was shown.
LEMMA PromptIsShown ==
    ASSUME IInv, WireInv, conn = "open", NEW a \in Agents, worker[a] = "start"
    PROVE  Quotation(BuildRequest(a), a)
<1>1. /\ run = IF a = Moderator THEN "moderate" ELSE "launch"
      /\ round \in Rounds
  BY WorkerIsCurrent DEF Running, IInv
<1>2. /\ Len(transcript) = round - 1 /\ transcript \in Seq(Answers)
      /\ rounds \in 0..MaxRounds
      /\ a = Moderator => Len(transcript) = rounds
  BY <1>1 DEF IInv, ControlInv, TypeOK
<1>3. DOMAIN transcript = 1..(round - 1) /\ DOMAIN transcript \subseteq Rounds
  BY <1>1, <1>2, RoundFacts
<1>4. \A r \in DOMAIN transcript, p \in Personas : transcript[r][p] = said[r][p]
  BY <1>2, <1>3 DEF WireInv, TranscriptInv
<1>5. ASSUME NEW r \in DOMAIN transcript, NEW S \in SUBSET Personas
      PROVE  RenderAnswers(r, S) = {<<r, p, said[r][p]>> : p \in {q \in S : said[r][q] > 0}}
  BY <1>4 DEF RenderAnswers
<1>6. CASE a = Moderator
  <2>1. \A p \in Personas : p # a
    BY <1>6, AgentFacts
  <2>2. DOMAIN transcript = 1..rounds
    BY <1>2, <1>3, <1>6
  <2>3. UNION {RenderAnswers(r, Personas) : r \in 1..rounds} = Heard(1..rounds, a)
    BY <1>5, <2>1, <2>2 DEF Heard
  <2> QED
    BY <1>6, <2>2, <2>3 DEF Quotation, BuildRequest
<1>7. CASE a # Moderator /\ round = 1
  <2>1. Heard({round - 1} \ {0}, a) = {}
    BY <1>7 DEF Heard
  <2> QED
    BY <1>7, <2>1 DEF Quotation, BuildRequest, NoRequest
<1>8. CASE a # Moderator /\ round # 1
  <2>1. round - 1 \in DOMAIN transcript /\ a \in Personas /\ round - 1 # 0
    BY <1>1, <1>3, <1>8, RoundFacts, AgentFacts
  <2>2. RenderAnswers(round - 1, Personas \ {a}) = Heard({round - 1} \ {0}, a)
    <3>1. {round - 1} \ {0} = {round - 1}
      BY <2>1
    <3>2. RenderAnswers(round - 1, Personas \ {a}) =
            {<<round - 1, p, said[round - 1][p]>> :
                p \in {q \in Personas \ {a} : said[round - 1][q] > 0}}
      BY <1>5, <2>1
    <3>3. Heard({round - 1}, a) =
            {<<round - 1, p, said[round - 1][p]>> :
                p \in {q \in Personas \ {a} : said[round - 1][q] > 0}}
      BY DEF Heard
    <3> QED
      BY <3>1, <3>2, <3>3
  <2>3. transcript[round - 1][a] = said[round - 1][a]
    BY <1>4, <2>1
  <2> QED
    BY <1>2, <1>8, <2>2, <2>3 DEF Quotation, BuildRequest
<1> QED
  BY <1>6, <1>7, <1>8

\* While an agent streams, what it was told stays what was shown: only the
\* round under way is added to.
LEMMA PromptStep ==
    ASSUME IInv, WireInv, PromptInv, [Next]_vars
    PROVE  PromptInv'
<1> SUFFICES ASSUME conn' = "open" PROVE PromptInv'
  BY DEF PromptInv
<1>1. ASSUME NEW a \in Agents, StartStream(a) \/ StreamStartFails(a)
      PROVE  PromptInv'
  <2>1. /\ conn = "open" /\ worker[a] = "start"
        /\ request'[a] = BuildRequest(a)
        /\ \A b \in Agents : b # a => request'[b] = request[b] /\ worker'[b] = worker[b]
        /\ UNCHANGED <<rounds, round, said>>
    BY <1>1 DEF StartStream, StreamStartFails, IInv, TypeOK, wireVars
  <2>2. Quotation(BuildRequest(a), a)
    BY <2>1, PromptIsShown
  <2>3. ASSUME NEW b \in Agents, Asked(b)'
        PROVE  Quotation(request[b], b)'
    <3>1. Quotation(request'[b], b)
      <4>1. CASE b = a
        BY <2>1, <2>2, <4>1
      <4>2. CASE b # a
        BY <2>1, <2>3, <4>2 DEF PromptInv, Asked
      <4> QED
        BY <4>1, <4>2
    <3>2. /\ Heard(1..rounds, b)' = Heard(1..rounds, b)
          /\ Heard({round - 1} \ {0}, b)' = Heard({round - 1} \ {0}, b)
      BY <2>1 DEF Heard
    <3> QED
      BY <2>1, <3>1, <3>2 DEF Quotation
  <2> QED
    BY <2>3 DEF PromptInv
<1>2. CASE WriteFrame
  <2>1. /\ conn = "open" /\ UNCHANGED <<rounds, round, request, worker>> /\ HandInv
        /\ inHand.round \in Rounds /\ inHand.agent \in Agents
        /\ round \in Nat
    BY <1>2 DEF WriteFrame, internalVars, IInv, InHandInv, TypeOK, Events, WireInv
  <2>2. \A r \in Rounds, p \in Personas :
            r # round \/ p # inHand.agent => said'[r][p] = said[r][p]
    <3>1. CASE inHand.type = "token"
      <4>1. said' = [said EXCEPT ![inHand.round][inHand.agent]
                                    = said[inHand.round][inHand.agent] + 1]
        BY <1>2, <3>1, FrameWritten
      <4>2. said \in [Rounds -> [Agents -> Nat]] /\ inHand.round = round
        BY <2>1, <3>1 DEF IInv, TypeOK, HandInv
      <4>3. said[inHand.round][inHand.agent] + 1 \in Nat
        BY <2>1, <4>2
      <4> QED
        BY <2>1, <4>1, <4>2, <4>3, UpdateCell, AgentFacts
    <3>2. CASE inHand.type # "token"
      <4>1. said' = said
        BY <1>2, <3>2, FrameWritten DEF IInv, WriteFrame, InHandInv, TypeOK, Events
      <4> QED
        BY <4>1
    <3> QED
      BY <3>1, <3>2
  <2>3. ASSUME NEW b \in Agents, Asked(b)'
        PROVE  Quotation(request[b], b)'
    <3>1. Quotation(request[b], b)
      BY <2>1, <2>3 DEF PromptInv, Asked
    <3>2. Running(b)
      BY <2>1, <2>3 DEF Asked, Running, Emitting, IInv, TypeOK, WorkerStates
    <3>3. /\ run = IF b = Moderator THEN "moderate" ELSE "launch"
          /\ round \in Rounds
      BY <3>2, WorkerIsCurrent DEF IInv
    <3>4. CASE b = Moderator
      <4>1. round = rounds + 1 /\ rounds \in 0..MaxRounds
        BY <3>3, <3>4 DEF IInv, ControlInv, TypeOK
      <4>2. \A r \in 1..rounds, p \in Personas : said'[r][p] = said[r][p]
        BY <2>2, <4>1, RoundFacts
      <4>3. Heard(1..rounds, b)' = Heard(1..rounds, b)
        BY <2>1, <4>2 DEF Heard
      <4> QED
        BY <2>1, <3>1, <3>4, <4>3 DEF Quotation
    <3>5. CASE b # Moderator
      <4>1. b \in Personas
        BY <3>5, AgentFacts
      <4>2. \A r \in {round - 1} \ {0}, p \in Personas : said'[r][p] = said[r][p]
        BY <2>2, <3>3, RoundFacts
      <4>3. Heard({round - 1} \ {0}, b)' = Heard({round - 1} \ {0}, b)
        BY <2>1, <4>2 DEF Heard
      <4>4. round > 1 => said'[round - 1][b] = said[round - 1][b]
        BY <2>1, <4>1, <4>2
      <4> QED
        BY <2>1, <3>1, <3>5, <4>3, <4>4 DEF Quotation
    <3> QED
      BY <3>4, <3>5
  <2> QED
    BY <2>3 DEF PromptInv
<1>3. CASE AcceptAsk \/ EmitRoundComplete
  <2>1. ASSUME NEW b \in Agents PROVE ~Asked(b)'
    <3>1. CASE AcceptAsk
      BY <3>1 DEF AcceptAsk, IInv, ControlInv, Asked
    <3>2. CASE EmitRoundComplete
      <4>1. /\ worker \in [Agents -> WorkerStates] /\ Moderator \in Agents
            /\ \A p \in Personas : worker[p] = "done"
        BY <3>2, AgentFacts DEF EmitRoundComplete, IInv, TypeOK, ControlInv
      <4>2. worker' = [x \in Agents |-> "none"] \/ worker' = [worker EXCEPT ![Moderator] = "start"]
        BY <3>2 DEF EmitRoundComplete
      <4> QED
        BY <4>1, <4>2, AgentFacts DEF Asked
    <3> QED
      BY <1>3, <3>1, <3>2
  <2> QED
    BY <2>1 DEF PromptInv
<1>4. CASE Launch
  <2>1. /\ conn = "open" /\ UNCHANGED <<rounds, round, said, request>>
        /\ \A b \in Agents : Asked(b)' => Asked(b)
    BY <1>4 DEF Launch, wireVars, Asked, IInv, TypeOK
  <2> QED
    BY <2>1 DEF PromptInv, Quotation, Heard
<1>5. ASSUME NEW a \in Agents,
             \/ ReceiveDelta(a) \/ ReceiveErr(a) \/ RangeEnds(a)
             \/ Emit(a) \/ EmitCancelled(a)
      PROVE  PromptInv'
  <2>1. /\ conn = "open" /\ UNCHANGED <<rounds, round, said, request>>
        /\ \A b \in Agents : Asked(b)' => Asked(b)
    BY <1>5 DEF ReceiveDelta, ReceiveErr, RangeEnds, Emit, EmitCancelled, Emitting,
                wireVars, Asked, IInv, TypeOK
  <2> QED
    BY <2>1 DEF PromptInv, Quotation, Heard
<1>6. CASE UNCHANGED <<conn, rounds, round, said, request, worker>>
  BY <1>6 DEF PromptInv, Quotation, Heard, Asked
<1>7. \/ \E a \in Agents : WorkerStep(a)
      \/ WriteFrame \/ AcceptAsk \/ EmitRoundComplete \/ Launch
      \/ UNCHANGED <<conn, rounds, round, said, request, worker>>
  BY DEF Next, HandlerStep, RunStep, Upstream, Finished, vars, internalVars, wireVars,
      provRest, Return, ClientGone, ReaderCancels, RefuseAsk, ReadFails, WriteFails,
      EventsEnd, RoundHeld, AbandonRounds, CloseEvents, UpstreamDelta, UpstreamDone,
      UpstreamFails, ProviderQuits,
      ProviderReturns
<1> QED
  BY <1>1, <1>2, <1>3, <1>4, <1>5, <1>6, <1>7 DEF WorkerStep

\* Every model is told exactly what the client was shown of its colleagues,
\* also of an answer that broke off (transcript.go, orchestrator.go runRound,
\* runModerator).
THEOREM PromptsAreShown == SafetySpec => []PromptQuotesTheDebate
<1>1. Init => PromptInv
  BY DEF Init, PromptInv, Asked
<1>2. IInv /\ WireInv /\ PromptInv /\ [Next]_vars => PromptInv'
  BY PromptStep
<1>3. PromptInv => PromptQuotesTheDebate
  BY DEF PromptInv, PromptQuotesTheDebate, Quotation, Heard, Asked
<1> QED
  BY <1>1, <1>2, <1>3, WireInvariance, PTL DEF SafetySpec

-----------------------------------------------------------------------------
(***************************************************************************)
(* The limit.                                                              *)
(***************************************************************************)
RunningPersonas == {p \in Personas : Running(p)}
AnsweringCalls == {s \in Rounds \X Agents : Answering(s[1], s[2])}

\* The panel is finite, and the limit at least one.
LEMMA PanelFacts ==
    /\ SetLimit \in Nat /\ SetLimit >= 1
    /\ \A S \in SUBSET Personas : IsFiniteSet(S) /\ Cardinality(S) \in Nat
<1>1. SetLimit \in Nat /\ SetLimit >= 1
  BY LimitAssumption DEF SetLimit
<1>2. IsFiniteSet(Personas)
  BY FS_Interval, NAssumption DEF Personas
<1> QED
  BY <1>1, <1>2, FS_Subset, FS_CardinalityType

\* An answer that is under way belongs to a worker that waits for it.
AnswersHaveWorkers ==
    ~cancelled => \A r \in Rounds, a \in Agents :
        Answering(r, a) => r = round /\ worker[a] \in {"range", "emitToken"}

LimitInv == AnswersHaveWorkers /\ Cardinality(RunningPersonas) <= SetLimit

\* Answers begin with their workers, and a worker stays until its answer is
\* over; what its provider does after an error is not part of the answer.
LEMMA AnswersStep ==
    ASSUME IInv, AnswersHaveWorkers, [Next]_vars
    PROVE  AnswersHaveWorkers'
<1> SUFFICES ASSUME ~cancelled', NEW r \in Rounds, NEW b \in Agents, Answering(r, b)'
             PROVE  r = round' /\ worker'[b] \in {"range", "emitToken"}
  BY DEF AnswersHaveWorkers
<1> USE DEF Answering
<1>1. ASSUME NEW a \in Agents, WorkerStep(a)
      PROVE  r = round' /\ worker'[b] \in {"range", "emitToken"}
  <2>1. /\ Running(a) /\ round \in Rounds /\ round' = round /\ ~cancelled
        /\ \A x \in Agents : x # a => worker'[x] = worker[x]
    BY <1>1, WorkerIsCurrent
    DEF WorkerStep, StartStream, StreamStartFails, ReceiveDelta, ReceiveErr, RangeEnds,
        Emit, EmitCancelled, Running, Emitting, IInv, TypeOK
  <2>2. \A x \in Rounds, y \in Agents :
            x # round \/ y # a => prov'[x][y] = prov[x][y]
    <3>1. \/ prov' = prov
          \/ \E v \in ProviderStates : prov' = [prov EXCEPT ![round][a] = v]
      BY <1>1 DEF WorkerStep, StartStream, StreamStartFails, ReceiveDelta, ReceiveErr,
                  RangeEnds, Emit, EmitCancelled, ProviderStates
    <3>2. ASSUME NEW v \in ProviderStates, prov' = [prov EXCEPT ![round][a] = v],
                 NEW x \in Rounds, NEW y \in Agents, x # round \/ y # a
          PROVE  prov'[x][y] = prov[x][y]
      BY <2>1, <3>2, UpdateCell DEF IInv, TypeOK
    <3> QED
      BY <3>1, <3>2
  <2>3. CASE b # a \/ r # round
    <3>1. Answering(r, b)
      BY <2>2, <2>3
    <3>2. r = round /\ b # a
      BY <2>1, <2>3, <3>1 DEF AnswersHaveWorkers
    <3> QED
      BY <2>1, <3>1, <3>2 DEF AnswersHaveWorkers
  <2>4. CASE b = a /\ r = round
    <3>1. CASE StartStream(a) \/ ReceiveDelta(a)
      BY <2>1, <2>4, <3>1 DEF StartStream, ReceiveDelta, IInv, TypeOK
    <3>2. CASE ReceiveErr(a)
      BY <2>1, <2>4, <3>2 DEF ReceiveErr, IInv, TypeOK
    <3>3. CASE StreamStartFails(a) \/ RangeEnds(a) \/ Emit(a) \/ EmitCancelled(a)
      <4>1. prov' = prov
        BY <3>3 DEF StreamStartFails, RangeEnds, Emit, EmitCancelled
      <4>2. Answering(r, b) /\ worker[a] \in {"range", "emitToken"}
        BY <2>1, <2>4, <4>1 DEF AnswersHaveWorkers
      <4>3. Emit(a) /\ worker[a] = "emitToken"
        BY <2>1, <2>4, <3>3, <4>2 DEF StreamStartFails, RangeEnds, Emit, EmitCancelled, Emitting
      <4>4. worker'[a] = "range"
        BY <4>3 DEF Emit, IInv, TypeOK
      <4> QED
        BY <2>1, <2>4, <4>4
    <3> QED
      BY <1>1, <3>1, <3>2, <3>3 DEF WorkerStep
  <2> QED
    BY <2>3, <2>4
<1>2. ASSUME NEW s \in Rounds, NEW a \in Agents, Upstream(s, a) \/ ProviderQuits(s, a)
      PROVE  r = round' /\ worker'[b] \in {"range", "emitToken"}
  <2>1. /\ UNCHANGED <<round, worker, cancelled>>
        /\ Answering(s, a)
        /\ \E v \in ProviderStates : prov' = [prov EXCEPT ![s][a] = v]
    BY <1>2 DEF Upstream, UpstreamDelta, UpstreamDone, UpstreamFails, ProviderQuits,
                provRest, internalVars, ProviderStates
  <2>2. Answering(r, b)
    BY <2>1, UpdateCell DEF IInv, TypeOK
  <2> QED
    BY <2>1, <2>2 DEF AnswersHaveWorkers
<1>3. ASSUME NEW s \in Rounds, NEW a \in Agents, ProviderReturns(s, a)
      PROVE  r = round' /\ worker'[b] \in {"range", "emitToken"}
  <2>1. /\ UNCHANGED <<round, worker, cancelled>>
        /\ prov' = [prov EXCEPT ![s][a] = "errored"]
    BY <1>3 DEF ProviderReturns, provRest, internalVars
  <2>2. Answering(r, b)
    BY <2>1, ProviderCell DEF IInv, ProviderStates
  <2> QED
    BY <2>1, <2>2 DEF AnswersHaveWorkers
<1>4. CASE AcceptAsk \/ EmitRoundComplete
  <2>1. /\ \A a \in Agents : worker[a] \in {"none", "done"}
        /\ ~cancelled /\ prov' = prov
    BY <1>4, AgentFacts DEF AcceptAsk, EmitRoundComplete, IInv, ControlInv
  <2> QED
    BY <2>1 DEF AnswersHaveWorkers
<1>5. CASE Launch
  <2>1. /\ UNCHANGED <<round, prov, cancelled>> /\ next \in Agents
        /\ worker[next] = "none"
        /\ \A a \in Agents : a # next => worker'[a] = worker[a]
    BY <1>5, NAssumption, AgentFacts DEF Launch, IInv, TypeOK, ControlInv, Personas
  <2>2. Answering(r, b)
    BY <2>1
  <2> QED
    BY <2>1, <2>2 DEF AnswersHaveWorkers
<1>6. CASE UNCHANGED <<round, worker, prov>> /\ (~cancelled' => ~cancelled)
  BY <1>6 DEF AnswersHaveWorkers
<1>7. \/ \E a \in Agents : WorkerStep(a)
      \/ \E s \in Rounds, a \in Agents :
            Upstream(s, a) \/ ProviderQuits(s, a) \/ ProviderReturns(s, a)
      \/ AcceptAsk \/ EmitRoundComplete \/ Launch
      \/ UNCHANGED <<round, worker, prov>> /\ (~cancelled' => ~cancelled)
  BY DEF Next, HandlerStep, RunStep, Finished, vars, internalVars, Return, ClientGone,
      ReaderCancels, RefuseAsk, ReadFails, WriteFrame, WriteFails, EventsEnd, RoundHeld,
      AbandonRounds, CloseEvents
<1> QED
  BY <1>1, <1>2, <1>3, <1>4, <1>5, <1>6, <1>7

\* g.Go waits while the limit is reached.
LEMMA LimitStep ==
    ASSUME IInv, Cardinality(RunningPersonas) <= SetLimit, [Next]_vars
    PROVE  Cardinality(RunningPersonas') <= SetLimit
<1>1. RunningPersonas \in SUBSET Personas /\ RunningPersonas' \in SUBSET Personas
  BY DEF RunningPersonas
<1>2. /\ Cardinality(RunningPersonas) \in Nat /\ Cardinality(RunningPersonas') \in Nat
      /\ SetLimit \in Nat /\ IsFiniteSet(RunningPersonas)
  BY <1>1, PanelFacts
<1>3. ASSUME RunningPersonas' \subseteq RunningPersonas
      PROVE  Cardinality(RunningPersonas') <= SetLimit
  <2>1. Cardinality(RunningPersonas') <= Cardinality(RunningPersonas)
    BY <1>2, <1>3, FS_Subset
  <2> QED
    BY <1>2, <2>1
<1>4. CASE Launch
  <2>1. /\ next \in Agents /\ Cardinality(RunningPersonas) < SetLimit
        /\ \A a \in Agents : a # next => worker'[a] = worker[a]
    BY <1>4, NAssumption, AgentFacts
    DEF Launch, RunningPersonas, IInv, TypeOK, Personas
  <2>2. RunningPersonas' \subseteq RunningPersonas \union {next}
    BY <2>1, AgentFacts DEF RunningPersonas, Running, Emitting
  <2>3. /\ IsFiniteSet(RunningPersonas \union {next})
        /\ Cardinality(RunningPersonas \union {next}) \in Nat
        /\ Cardinality(RunningPersonas \union {next}) <= Cardinality(RunningPersonas) + 1
    <3>1. /\ IsFiniteSet(RunningPersonas \union {next})
          /\ Cardinality(RunningPersonas \union {next}) =
                IF next \in RunningPersonas THEN Cardinality(RunningPersonas)
                                            ELSE Cardinality(RunningPersonas) + 1
      BY <1>2, FS_AddElement
    <3> QED
      BY <1>2, <3>1
  <2>4. Cardinality(RunningPersonas') <= Cardinality(RunningPersonas \union {next})
    BY <2>2, <2>3, FS_Subset
  <2> QED
    BY <1>2, <2>1, <2>3, <2>4
<1>5. ASSUME NEW a \in Agents, WorkerStep(a)
      PROVE  Cardinality(RunningPersonas') <= SetLimit
  <2>1. /\ Running(a)
        /\ \A x \in Agents : x # a => worker'[x] = worker[x]
    BY <1>5 DEF WorkerStep, StartStream, StreamStartFails, ReceiveDelta, ReceiveErr,
                RangeEnds, Emit, EmitCancelled, Running, Emitting, IInv, TypeOK
  <2>2. RunningPersonas' \subseteq RunningPersonas
    BY <2>1, AgentFacts DEF RunningPersonas, Running, Emitting
  <2> QED
    BY <1>3, <2>2
<1>6. CASE EmitRoundComplete
  <2>1. \A p \in Personas : worker[p] = "done"
    BY <1>6 DEF EmitRoundComplete, IInv, ControlInv
  <2>2. \A p \in Personas : worker'[p] \in {"none", "done"}
    BY <1>6, <2>1, AgentFacts DEF EmitRoundComplete, IInv, TypeOK
  <2>3. RunningPersonas' \subseteq RunningPersonas
    BY <2>2 DEF RunningPersonas, Running, Emitting
  <2> QED
    BY <1>3, <2>3
<1>7. CASE UNCHANGED worker
  <2>1. RunningPersonas' = RunningPersonas
    BY <1>7 DEF RunningPersonas, Running, Emitting
  <2> QED
    BY <1>3, <2>1
<1>8. \/ Launch \/ EmitRoundComplete \/ UNCHANGED worker
      \/ \E a \in Agents : WorkerStep(a)
  BY DEF Next, HandlerStep, RunStep, Upstream, Finished, vars, internalVars, provRest,
      ClientGone, ReaderCancels, AcceptAsk, RefuseAsk, ReadFails, WriteFrame,
      WriteFails, EventsEnd, RoundHeld, AbandonRounds, CloseEvents, UpstreamDelta,
      UpstreamDone, UpstreamFails, ProviderQuits,
      ProviderReturns
<1> QED
  BY <1>4, <1>5, <1>6, <1>7, <1>8

\* No more calls than running workers, and the moderator is alone.
LEMMA AnsweringCallsWithinLimit ==
    ASSUME IInv, LimitInv, ~cancelled
    PROVE  Cardinality(AnsweringCalls) <= SetLimit
<1>1. \A s \in AnsweringCalls :
          /\ s[1] = round /\ s[2] \in Agents /\ Running(s[2])
          /\ s = <<round, s[2]>>
  <2>1. ASSUME NEW s \in AnsweringCalls
        PROVE  s[1] \in Rounds /\ s[2] \in Agents /\ s = <<s[1], s[2]>> /\ Answering(s[1], s[2])
    BY DEF AnsweringCalls
  <2>2. ASSUME NEW s \in AnsweringCalls
        PROVE  s[1] = round /\ worker[s[2]] \in {"range", "emitToken"}
    BY <2>1 DEF LimitInv, AnswersHaveWorkers
  <2> QED
    BY <2>1, <2>2 DEF Running, Emitting
<1>2. CASE run = "moderate"
  <2>1. AnsweringCalls \subseteq {<<round, Moderator>>}
    <3>1. ASSUME NEW s \in AnsweringCalls PROVE s[2] = Moderator
      BY <1>1, <1>2, AgentFacts, WorkerIsCurrent DEF IInv
    <3> QED
      BY <1>1, <3>1
  <2>2. /\ IsFiniteSet({<<round, Moderator>>})
        /\ Cardinality({<<round, Moderator>>}) = 1
    BY FS_Singleton
  <2>3. Cardinality(AnsweringCalls) <= 1 /\ Cardinality(AnsweringCalls) \in Nat
    BY <2>1, <2>2, FS_Subset, FS_CardinalityType
  <2> QED
    BY <2>3, PanelFacts
<1>3. CASE run # "moderate"
  <2> DEFINE f == [s \in AnsweringCalls |-> s[2]]
  <2>1. \A s \in AnsweringCalls : s[2] \in RunningPersonas
    <3>1. ASSUME NEW s \in AnsweringCalls PROVE s[2] \in Personas
      BY <1>1, <1>3, AgentFacts, WorkerIsCurrent DEF IInv
    <3> QED
      BY <1>1, <3>1 DEF RunningPersonas
  <2>2. f \in Injection(AnsweringCalls, RunningPersonas)
    BY <1>1, <2>1 DEF Injection, IsInjective
  <2>3. /\ IsFiniteSet(RunningPersonas) /\ Cardinality(RunningPersonas) \in Nat
    BY PanelFacts DEF RunningPersonas
  <2>4. /\ IsFiniteSet(AnsweringCalls)
        /\ Cardinality(AnsweringCalls) <= Cardinality(RunningPersonas)
    BY <2>2, <2>3, FS_Injection
  <2>5. Cardinality(AnsweringCalls) \in Nat
    BY <2>4, FS_CardinalityType
  <2> QED
    BY <2>3, <2>4, <2>5, PanelFacts DEF LimitInv
<1> QED
  BY <1>2, <1>3

\* While a session has its context, every answer under way has its worker, and
\* no more of them are than the orchestrator's limit, which counts workers,
\* allows (orchestrator.go runRound, New); a provider that has handed over its
\* error is not counted, it may still be closing its call (zai.go).
THEOREM AnswersStayWithinLimit == SafetySpec => []AnswersWithinLimit
<1>1. Init => LimitInv
  <2>1. ASSUME Init PROVE AnswersHaveWorkers
    BY <2>1 DEF Init, AnswersHaveWorkers, Answering
  <2>2. ASSUME Init PROVE RunningPersonas = {}
    BY <2>2, AgentFacts DEF Init, RunningPersonas, Running, Emitting
  <2>3. Cardinality({}) = 0
    BY FS_EmptySet
  <2> QED
    BY <2>1, <2>2, <2>3, PanelFacts DEF LimitInv
<1>2. IInv /\ LimitInv /\ [Next]_vars => LimitInv'
  BY AnswersStep, LimitStep DEF LimitInv
<1>3. IInv /\ LimitInv => AnswersWithinLimit
  <2> SUFFICES ASSUME IInv, LimitInv PROVE AnswersWithinLimit
    OBVIOUS
  <2>1. \A r \in Rounds, a \in Agents :
            Live(r, a) => prov[r][a] = "returning" \/ Answering(r, a)
    BY DEF Live, Answering
  <2> QED
    BY <2>1, AnsweringCallsWithinLimit
    DEF AnswersWithinLimit, AnsweringCalls, LimitInv, AnswersHaveWorkers
<1> QED
  BY <1>1, <1>2, <1>3, Invariance, PTL DEF SafetySpec

-----------------------------------------------------------------------------
(***************************************************************************)
(* Every frame the handler writes fits the schemas of the browser, proved  *)
(* for every panel, number of rounds and length of a verdict: the two      *)
(* descriptions of the events, the struct of protocol/event.go and the     *)
(* schemas of lib/protocol.ts, are written by hand and agree.              *)
(***************************************************************************)
\* Fields of an event that are written at all.
WrittenKeys(ev) == {k \in DOMAIN Format!Zero : ev[k] # Format!Zero[k]}
KnownKeys(t) == Format!Required[t] \union Format!Defaulted[t] \union Format!OptionalKeys(t)

\* An event that sets what its schema requires, and nothing its schema does
\* not know, comes out of Marshal and ParseEvent as it went in.
LEMMA EventFits ==
    ASSUME NEW ev,
           ev.type \in DOMAIN Format!Required,
           Format!Required[ev.type] \subseteq WrittenKeys(ev),
           \A k \in WrittenKeys(ev) \ {"type"} :
               k \in KnownKeys(ev.type) /\ Format!ValidField(k, ev[k])
    PROVE  Format!Understood(ev)
<1> DEFINE json == Format!Marshal(ev)
           got == Format!ParseEvent(json)
           type == json.type
           known == KnownKeys(type)
           kept == known \ (Format!OptionalKeys(type) \ DOMAIN json)
<1>1. /\ DOMAIN json = {"type"} \union WrittenKeys(ev)
      /\ \A k \in DOMAIN json : json[k] = ev[k]
  BY DEF Format!Marshal, WrittenKeys
<1>2. type = ev.type
  BY <1>1
<1>3. "type" \notin known
  BY <1>2 DEF KnownKeys, Format!Required, Format!Defaulted, Format!OptionalKeys
<1> HIDE DEF json
<1>4. got = [k \in {"type"} \union kept |->
                IF k \in DOMAIN json THEN json[k] ELSE Format!Zero[k]]
  <2>1. type \in DOMAIN Format!Required
    BY <1>2
  <2>2. Format!Required[type] \subseteq DOMAIN json
    BY <1>1, <1>2
  <2>3. \A k \in known \intersect DOMAIN json : Format!ValidField(k, json[k])
    BY <1>1, <1>2, <1>3
  <2> QED
    BY <2>1, <2>2, <2>3 DEF Format!ParseEvent, KnownKeys
<1>5. DOMAIN json \subseteq {"type"} \union kept
  BY <1>1, <1>2
<1> HIDE DEF kept, got
<1>6. ASSUME NEW k \in DOMAIN Format!Zero
      PROVE  IF k \in DOMAIN got THEN got[k] = ev[k] ELSE ev[k] = Format!Zero[k]
  <2>1. k \notin DOMAIN json => ev[k] = Format!Zero[k]
    BY <1>1 DEF WrittenKeys
  <2>2. DOMAIN got = {"type"} \union kept
    BY <1>4
  <2>3. k \in DOMAIN got => got[k] = IF k \in DOMAIN json THEN json[k] ELSE Format!Zero[k]
    BY <1>4
  <2> QED
    BY <1>1, <1>5, <2>1, <2>2, <2>3
<1> QED
  BY <1>6 DEF Format!Understood, got, json

\* The keys of the struct.
LEMMA EventKeys ==
    DOMAIN Format!Zero = {"type", "persona", "round", "delta", "error", "verdict"}
BY DEF Format!Zero

\* Which keys an event is written with.
LEMMA KeysOf ==
    ASSUME NEW ev, NEW t, NEW p, NEW r, NEW d, NEW e, NEW v,
           ev.type = t, ev.persona = p, ev.round = r, ev.delta = d,
           ev.error = e, ev.verdict = v
    PROVE  /\ WrittenKeys(ev) \subseteq {"type", "persona", "round", "delta", "error", "verdict"}
           /\ "type" \in WrittenKeys(ev) <=> t # ""
           /\ "persona" \in WrittenKeys(ev) <=> p # -1
           /\ "round" \in WrittenKeys(ev) <=> r # 0
           /\ "delta" \in WrittenKeys(ev) <=> d # 0
           /\ "error" \in WrittenKeys(ev) <=> e # 0
           /\ "verdict" \in WrittenKeys(ev) <=> v # 0
<1>1. /\ Format!Zero["type"] = "" /\ Format!Zero["persona"] = -1
      /\ Format!Zero["round"] = 0 /\ Format!Zero["delta"] = 0
      /\ Format!Zero["error"] = 0 /\ Format!Zero["verdict"] = 0
  BY DEF Format!Zero
<1>2. /\ ev["type"] = t /\ ev["persona"] = p /\ ev["round"] = r /\ ev["delta"] = d
      /\ ev["error"] = e /\ ev["verdict"] = v
  OBVIOUS
<1> QED
  BY <1>1, <1>2, EventKeys DEF WrittenKeys

\* Every event the orchestrator builds fits its schema: the moderator is one
\* of the personas and streams in the round after the last, and an empty
\* verdict is a default.
LEMMA BuiltEventsFit ==
    ASSUME NEW a \in Agents, NEW r \in Rounds, NEW words \in Nat
    PROVE  /\ Format!Understood(Format!TokenEvent(a, r, 1))
           /\ Format!Understood(Format!ErrorEvent(a, 1))
           /\ Format!Understood(Format!ErrorEvent(-1, 1))
           /\ Format!Understood(Format!PersonaDoneEvent(a, r))
           /\ Format!Understood(Format!RoundCompleteEvent(r))
           /\ Format!Understood(Format!VerdictEvent(words))
<1>1. /\ a # -1 /\ r # 0 /\ 1 # 0 /\ r \in 1..Format!MaxWireRound
  BY AgentFacts, RoundFacts DEF Format!MaxWireRound
<1>2. \A k, x : Format!ValidField(k, x) <=>
          CASE k = "persona" -> x \in Agents
            [] k = "round"   -> x \in 1..Format!MaxWireRound
            [] OTHER         -> x \in Nat
  BY DEF Format!ValidField
<1>3. Format!Understood(Format!TokenEvent(a, r, 1))
  <2> DEFINE ev == Format!TokenEvent(a, r, 1)
  <2>1. /\ ev.type = "token" /\ ev.persona = a /\ ev.round = r /\ ev.delta = 1
        /\ ev.error = 0 /\ ev.verdict = 0
    BY DEF Format!TokenEvent, Format!Zero
  <2> HIDE DEF ev
  <2>2. WrittenKeys(ev) = {"type", "persona", "round", "delta"}
    BY <1>1, <2>1, KeysOf
  <2>3. /\ Format!Required["token"] = {"persona", "round"}
        /\ KnownKeys("token") = {"persona", "round", "delta"}
        /\ "token" \in DOMAIN Format!Required
    BY DEF KnownKeys, Format!Required, Format!Defaulted, Format!OptionalKeys
  <2>4. \A k \in {"persona", "round", "delta"} : Format!ValidField(k, ev[k])
    BY <1>1, <1>2, <2>1
  <2>5. Format!Understood(ev)
    BY <2>1, <2>2, <2>3, <2>4, EventFits
  <2> QED
    BY <2>5 DEF ev
<1>4. Format!Understood(Format!ErrorEvent(a, 1))
  <2> DEFINE ev == Format!ErrorEvent(a, 1)
  <2>1. /\ ev.type = "error" /\ ev.persona = a /\ ev.round = 0 /\ ev.delta = 0
        /\ ev.error = 1 /\ ev.verdict = 0
    BY DEF Format!ErrorEvent, Format!Zero
  <2> HIDE DEF ev
  <2>2. WrittenKeys(ev) = {"type", "persona", "error"}
    BY <1>1, <2>1, KeysOf
  <2>3. /\ Format!Required["error"] = {}
        /\ KnownKeys("error") = {"persona", "error"}
        /\ "error" \in DOMAIN Format!Required
    BY DEF KnownKeys, Format!Required, Format!Defaulted, Format!OptionalKeys
  <2>4. \A k \in {"persona", "error"} : Format!ValidField(k, ev[k])
    BY <1>1, <1>2, <2>1
  <2>5. Format!Understood(ev)
    BY <2>1, <2>2, <2>3, <2>4, EventFits
  <2> QED
    BY <2>5 DEF ev
<1>5. Format!Understood(Format!ErrorEvent(-1, 1))
  <2> DEFINE ev == Format!ErrorEvent(-1, 1)
  <2>1. /\ ev.type = "error" /\ ev.persona = -1 /\ ev.round = 0 /\ ev.delta = 0
        /\ ev.error = 1 /\ ev.verdict = 0
    BY DEF Format!ErrorEvent, Format!Zero
  <2> HIDE DEF ev
  <2>2. WrittenKeys(ev) = {"type", "error"}
    BY <1>1, <2>1, KeysOf
  <2>3. /\ Format!Required["error"] = {}
        /\ KnownKeys("error") = {"persona", "error"}
        /\ "error" \in DOMAIN Format!Required
    BY DEF KnownKeys, Format!Required, Format!Defaulted, Format!OptionalKeys
  <2>4. \A k \in {"error"} : Format!ValidField(k, ev[k])
    BY <1>1, <1>2, <2>1
  <2>5. Format!Understood(ev)
    BY <2>1, <2>2, <2>3, <2>4, EventFits
  <2> QED
    BY <2>5 DEF ev
<1>6. Format!Understood(Format!PersonaDoneEvent(a, r))
  <2> DEFINE ev == Format!PersonaDoneEvent(a, r)
  <2>1. /\ ev.type = "persona_done" /\ ev.persona = a /\ ev.round = r /\ ev.delta = 0
        /\ ev.error = 0 /\ ev.verdict = 0
    BY DEF Format!PersonaDoneEvent, Format!Zero
  <2> HIDE DEF ev
  <2>2. WrittenKeys(ev) = {"type", "persona", "round"}
    BY <1>1, <2>1, KeysOf
  <2>3. /\ Format!Required["persona_done"] = {"persona", "round"}
        /\ KnownKeys("persona_done") = {"persona", "round"}
        /\ "persona_done" \in DOMAIN Format!Required
    BY DEF KnownKeys, Format!Required, Format!Defaulted, Format!OptionalKeys
  <2>4. \A k \in {"persona", "round"} : Format!ValidField(k, ev[k])
    BY <1>1, <1>2, <2>1
  <2>5. Format!Understood(ev)
    BY <2>1, <2>2, <2>3, <2>4, EventFits
  <2> QED
    BY <2>5 DEF ev
<1>7. Format!Understood(Format!RoundCompleteEvent(r))
  <2> DEFINE ev == Format!RoundCompleteEvent(r)
  <2>1. /\ ev.type = "round_complete" /\ ev.persona = -1 /\ ev.round = r /\ ev.delta = 0
        /\ ev.error = 0 /\ ev.verdict = 0
    BY DEF Format!RoundCompleteEvent, Format!Zero
  <2> HIDE DEF ev
  <2>2. WrittenKeys(ev) = {"type", "round"}
    BY <1>1, <2>1, KeysOf
  <2>3. /\ Format!Required["round_complete"] = {"round"}
        /\ KnownKeys("round_complete") = {"round"}
        /\ "round_complete" \in DOMAIN Format!Required
    BY DEF KnownKeys, Format!Required, Format!Defaulted, Format!OptionalKeys
  <2>4. \A k \in {"round"} : Format!ValidField(k, ev[k])
    BY <1>1, <1>2, <2>1
  <2>5. Format!Understood(ev)
    BY <2>1, <2>2, <2>3, <2>4, EventFits
  <2> QED
    BY <2>5 DEF ev
<1>8. Format!Understood(Format!VerdictEvent(words))
  <2> DEFINE ev == Format!VerdictEvent(words)
  <2>1. /\ ev.type = "verdict" /\ ev.persona = -1 /\ ev.round = 0 /\ ev.delta = 0
        /\ ev.error = 0 /\ ev.verdict = words
    BY DEF Format!VerdictEvent, Format!Zero
  <2> HIDE DEF ev
  <2>2. "type" \in WrittenKeys(ev) /\ WrittenKeys(ev) \subseteq {"type", "verdict"}
    BY <1>1, <2>1, KeysOf
  <2>3. /\ Format!Required["verdict"] = {}
        /\ KnownKeys("verdict") = {"verdict"}
        /\ "verdict" \in DOMAIN Format!Required
    BY DEF KnownKeys, Format!Required, Format!Defaulted, Format!OptionalKeys
  <2>4. \A k \in {"verdict"} : Format!ValidField(k, ev[k])
    BY <1>1, <1>2, <2>1
  <2>5. Format!Understood(ev)
    BY <2>1, <2>2, <2>3, <2>4, EventFits
  <2> QED
    BY <2>5 DEF ev
<1> QED
  BY <1>3, <1>4, <1>5, <1>6, <1>7, <1>8

-----------------------------------------------------------------------------
\* A handler without a frame to write holds no old one.
HandClears == inHand.type = "none" => inHand = NoEvent

\* The page never drops a frame because it does not fit its schemas: what the
\* handler has in hand fits them (event.go, lib/protocol.ts), and so does the
\* refusal of an ask.
THEOREM FramesAreUnderstood == SafetySpec => []EveryFrameIsUnderstood
<1>1. Init => HandClears
  BY DEF Init, HandClears
<1>2. HandClears /\ [Next]_vars => HandClears'
  <2> SUFFICES ASSUME HandClears, [Next]_vars PROVE HandClears'
    OBVIOUS
  <2>1. CASE EmitRoundComplete \/ \E a \in Agents : Emit(a)
    BY <2>1 DEF EmitRoundComplete, Emit, Emitting, Pending, Event, HandClears
  <2>2. CASE WriteFrame \/ WriteFails
    BY <2>2 DEF WriteFrame, WriteFails, HandClears
  <2>3. CASE UNCHANGED inHand
    BY <2>3 DEF HandClears, NoEvent, Event
  <2> QED
    BY <2>1, <2>2, <2>3 DEF Next, HandlerStep, RunStep, WorkerStep, Upstream, Finished,
      vars, internalVars, wireVars, provRest, Return, ClientGone, ReaderCancels,
      AcceptAsk, RefuseAsk, ReadFails, EventsEnd, Launch, RoundHeld, AbandonRounds,
      CloseEvents, StartStream, StreamStartFails, ReceiveDelta, ReceiveErr, RangeEnds,
      EmitCancelled, UpstreamDelta, UpstreamDone, UpstreamFails, ProviderQuits,
      ProviderReturns
<1>3. IInv /\ HandClears => EveryFrameIsUnderstood
  <2> SUFFICES ASSUME IInv, HandClears PROVE EveryFrameIsUnderstood
    OBVIOUS
  <2>1. Format!Understood(Format!ErrorEvent(-1, 1))
    BY AgentFacts, RoundFacts, BuiltEventsFit
  <2>2. ASSUME inHand # NoEvent PROVE Format!Understood(Frame(inHand))
    <3>1. /\ inHand.type \in {"token", "error", "persona_done", "verdict", "round_complete"}
          /\ inHand.agent \in Agents /\ inHand.round \in Rounds /\ inHand.text \in Nat
      BY <2>2 DEF HandClears, IInv, InHandInv, TypeOK, Events
    <3> QED
      BY <3>1, BuiltEventsFit DEF Frame
  <2> QED
    BY <2>1, <2>2 DEF EveryFrameIsUnderstood
<1> QED
  BY <1>1, <1>2, <1>3, Invariance, PTL DEF SafetySpec
=============================================================================
