------------------------------ MODULE AskForm ------------------------------
(***************************************************************************)
(* The question form (QuestionForm.tsx, RoundsSelector.tsx,                *)
(* TopicPresets.tsx) and the way of a question to the server: App.tsx      *)
(* notes it for the docket, the WebSocket client builds the message        *)
(* (wsClient.ts), and the server reads and validates it.  BuildAsk and     *)
(* Receive are those of WireFormat.                                        *)
(*                                                                         *)
(* A draft is as long as its kind of character allows to be interesting:   *)
(* empty, and on both sides of the limit.                                  *)
(***************************************************************************)
EXTENDS Integers

CONSTANTS
    MaxRounds,  \* MAX_ROUNDS
    MaxAsks     \* bound: questions asked

VARIABLES
    draft,   \* [question, rounds], the state of the form
    live,    \* a debate is live on the page
    docket,  \* [question, rounds] as App shows them
    sent,    \* the message on the socket, or NoAsk
    asks     \* questions asked so far

askVars == <<draft, live, docket, sent, asks>>

Format == INSTANCE WireFormat WITH PersonaIds <- {0}, NoPersona <- -1

Chars == DOMAIN Format!JsonBytes
Pads == DOMAIN Format!PadBytes
Lengths == {0, 1, Format!MaxQuestionRunes - 1, Format!MaxQuestionRunes,
            Format!MaxQuestionRunes + 1}

Questions == {Format!Question(pad, char, length) :
                 pad \in Pads, char \in Chars, length \in Lengths}
Empty == Format!Question("none", "ascii", 0)
Preset == Format!Question("none", "ascii", 1)

\* ROUND_OPTIONS
RoundOptions ==
    {Format!MinRounds + 2 * i : i \in 0..((MaxRounds - Format!MinRounds) \div 2)}

Trimmed(q) == Format!Trim(q, Format!JsSpace)
Validation(d) == Format!BuildAsk(d.question, d.rounds)
CanConvene == Validation(draft) # Format!NoAsk /\ ~live

FormInit ==
    /\ draft = [question |-> Empty, rounds |-> Format!DefaultRounds]
    /\ live = FALSE
    /\ docket = [question |-> Empty, rounds |-> Format!DefaultRounds]
    /\ sent = Format!NoAsk
    /\ asks = 0

\* The field can be edited while a debate is live, too.  The exhaustive range
\* of drafts is typed before the first question; later there is one draft.
Type ==
    /\ \E q \in IF asks = 0 THEN Questions ELSE {Preset} :
          draft' = [draft EXCEPT !.question = q]
    /\ UNCHANGED <<live, docket, sent, asks>>

PickPreset ==
    /\ ~live
    /\ draft' = [draft EXCEPT !.question = Preset]
    /\ UNCHANGED <<live, docket, sent, asks>>

SelectRounds ==
    /\ ~live
    /\ \E k \in RoundOptions : draft' = [draft EXCEPT !.rounds = k]
    /\ UNCHANGED <<live, docket, sent, asks>>

\* The button, the Enter key: App's handleAsk, then the client's ask, which
\* builds the message once more, from the trimmed question, and sends it when
\* the socket opens.  Without a message nothing is sent and nothing goes live.
Submit ==
    /\ CanConvene
    /\ asks < MaxAsks
    /\ docket' = [question |-> Trimmed(draft.question), rounds |-> draft.rounds]
    /\ sent' = Format!BuildAsk(Trimmed(draft.question), draft.rounds)
    /\ live' = (sent' # Format!NoAsk)
    /\ asks' = asks + 1
    /\ UNCHANGED draft

\* Whichever way the debate ends.
DebateEnds ==
    /\ live
    /\ live' = FALSE
    /\ UNCHANGED <<draft, docket, sent, asks>>

FormNext == Type \/ PickPreset \/ SelectRounds \/ Submit \/ DebateEnds

FormSpec == FormInit /\ [][FormNext]_askVars

-----------------------------------------------------------------------------
(***************************************************************************)
(* Properties.                                                             *)
(***************************************************************************)
\* The form "mirrors the backend exactly": what can be convened is accepted by
\* the server, however long its JSON is, and what cannot would be refused; and
\* a debate that is live on the page was asked with the message the docket
\* shows, which the server accepts, whatever is typed into the form meanwhile.
\* The exception is white space that only one of the two languages trims:
\* U+FEFF around a question, and U+0085, of which a question may consist.
OnlyJsTrims == Format!JsSpace \ Format!GoSpace
OnlyGoTrims == Format!GoSpace \ Format!JsSpace

FormMirrorsServer ==
    LET q == draft.question
        asTyped == [type |-> "ask", question |-> q, rounds |-> draft.rounds]
    IN  /\ q.pad \notin OnlyGoTrims /\ Validation(draft) # Format!NoAsk =>
              Format!Receive(Validation(draft)) = "accepted"
        /\ q.pad \notin OnlyJsTrims \union OnlyGoTrims /\ Validation(draft) = Format!NoAsk =>
              Format!Receive(asTyped) # "accepted"
        /\ live => sent = [type |-> "ask", question |-> docket.question,
                           rounds |-> docket.rounds]
        /\ live /\ docket.question.pad \notin OnlyGoTrims =>
              Format!Receive(sent) = "accepted"
=============================================================================
