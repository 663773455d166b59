----------------------------- MODULE WireFormat -----------------------------
(***************************************************************************)
(* The JSON both ends exchange: the events the server marshals from one    *)
(* struct (protocol/event.go) and the browser parses with one schema per   *)
(* type (lib/protocol.ts), and the ask the browser builds (lib/protocol.ts)*)
(* and the server reads and validates (ws/session.go, inbound.go).  The    *)
(* two descriptions are written by hand, in two languages.                 *)
(*                                                                         *)
(* A JSON object is a function from its keys.  The text of an event is its *)
(* number of words, 0 for the empty string.                                *)
(***************************************************************************)
EXTENDS Integers

CONSTANTS
    PersonaIds, \* PERSONA_IDS
    NoPersona,  \* the empty persona of a Go event
    MaxRounds   \* protocol.MaxRounds and MAX_ROUNDS

-----------------------------------------------------------------------------
(***************************************************************************)
(* Events.                                                                 *)
(***************************************************************************)
Zero ==
    [type |-> "", persona |-> NoPersona, round |-> 0, delta |-> 0,
     error |-> 0, verdict |-> 0]

TokenEvent(p, r, words) ==
    [Zero EXCEPT !.type = "token", !.persona = p, !.round = r, !.delta = words]
PersonaDoneEvent(p, r) ==
    [Zero EXCEPT !.type = "persona_done", !.persona = p, !.round = r]
RoundCompleteEvent(r) == [Zero EXCEPT !.type = "round_complete", !.round = r]
ErrorEvent(p, words) ==
    [Zero EXCEPT !.type = "error", !.persona = p, !.error = words]
VerdictEvent(words) == [Zero EXCEPT !.type = "verdict", !.verdict = words]

\* Every field but the type is "omitempty": its key is there only if the
\* field is not the zero value.
Marshal(ev) ==
    [k \in {"type"} \union {f \in DOMAIN Zero : ev[f] # Zero[f]} |-> ev[k]]

\* The schemas: the keys each type requires, those that have a default, and
\* those that may be missing.
Required ==
    [token |-> {"persona", "round"}, persona_done |-> {"persona", "round"},
     round_complete |-> {"round"}, verdict |-> {}, error |-> {}]
Defaulted ==
    [token |-> {"delta"}, persona_done |-> {}, round_complete |-> {},
     verdict |-> {"verdict"}, error |-> {"error"}]
OptionalKeys(type) == IF type = "error" THEN {"persona"} ELSE {}

MaxRoundOfPanel == MaxRounds    \* broken variant: no round for the moderator

\* The moderator streams in the round after the last.
MaxWireRound == MaxRounds + 1

ValidField(key, value) ==
    CASE key = "persona" -> value \in PersonaIds
      [] key = "round"   -> value \in 1..MaxWireRound
      [] OTHER           -> value \in Nat

Rejected == [type |-> "rejected"]

\* Keys a schema does not know are dropped, missing ones get their default.
ParseEvent(json) ==
    LET type == json.type
        known == Required[type] \union Defaulted[type] \union OptionalKeys(type)
        kept == known \ (OptionalKeys(type) \ DOMAIN json)
    IN  IF /\ type \in DOMAIN Required
           /\ Required[type] \subseteq DOMAIN json
           /\ \A k \in known \intersect DOMAIN json : ValidField(k, json[k])
        THEN [k \in {"type"} \union kept |->
                IF k \in DOMAIN json THEN json[k] ELSE Zero[k]]
        ELSE Rejected

\* The browser makes of the frame what the server meant: the same type, the
\* same value for every field, and no field the server set is lost.
Understood(ev) ==
    LET got == ParseEvent(Marshal(ev))
    IN  \A k \in DOMAIN Zero :
            IF k \in DOMAIN got THEN got[k] = ev[k] ELSE ev[k] = Zero[k]

-----------------------------------------------------------------------------
(***************************************************************************)
(* Asks.  A question is length runes of one kind, with or without one more *)
(* rune of white space around it.                                          *)
(***************************************************************************)
MaxQuestionRunes == 1000    \* MAX_QUESTION_RUNES and maxQuestionLen
MinRounds == 2
DefaultRounds == 2
NoRounds == 0               \* rounds undefined, or absent from the JSON
MaxInboundBytes == 8 * 1024

Question(pad, char, length) == [pad |-> pad, char |-> char, length |-> length]

\* U+FEFF is white space to JavaScript only, U+0085 to Go only.
JsSpace == {"space", "bom"}
GoSpace == {"space", "nel"}

Trim(q, space) == IF q.pad \in space THEN [q EXCEPT !.pad = "none"] ELSE q
Runes(q) == q.length + (IF q.pad = "none" THEN 0 ELSE 1)
EvenRounds(k) == k \in MinRounds..MaxRounds /\ k % 2 = 0

NoAsk == [type |-> "none"]

\* broken variant: the limit is off by one.
BuildAskAboutRight(q, k) ==
    LET trimmed == Trim(q, JsSpace)
    IN  IF Runes(trimmed) \in 1..(MaxQuestionRunes + 1) /\ (k = NoRounds \/ EvenRounds(k))
        THEN [type |-> "ask", question |-> trimmed, rounds |-> k]
        ELSE NoAsk

BuildAsk(q, k) ==
    LET trimmed == Trim(q, JsSpace)
    IN  IF Runes(trimmed) \in 1..MaxQuestionRunes /\ (k = NoRounds \/ EvenRounds(k))
        THEN [type |-> "ask", question |-> trimmed, rounds |-> k]
        ELSE NoAsk

\* Bytes of one rune in the frame: JSON.stringify escapes control characters
\* and lone surrogates as \uXXXX, the rest is UTF-8.
JsonBytes == [ascii |-> 1, quote |-> 2, cjk |-> 3, emoji |-> 4, control |-> 6]
PadBytes == [none |-> 0, space |-> 1, nel |-> 2, bom |-> 3]

\* {"type":"ask","question":""} and ,"rounds":8
AskBytes(ask) ==
    28 + (IF ask.rounds = NoRounds THEN 0 ELSE 11)
       + PadBytes[ask.question.pad]
       + ask.question.length * JsonBytes[ask.question.char]

Validate(ask) ==
    /\ Runes(Trim(ask.question, GoSpace)) \in 1..MaxQuestionRunes
    /\ ask.rounds = NoRounds \/ EvenRounds(ask.rounds)

\* What HandleSession does with the first message.
Receive(ask) ==
    CASE AskBytes(ask) > MaxInboundBytes -> "hung up"
      [] AskBytes(ask) <= MaxInboundBytes /\ Validate(ask) -> "accepted"
      [] AskBytes(ask) <= MaxInboundBytes /\ ~Validate(ask) -> "refused"
=============================================================================
