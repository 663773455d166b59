----------------------------- MODULE PartsProofs -----------------------------
(***************************************************************************)
(* Four small parts that share no state: the question form, the body of a  *)
(* provider's answer, the smoothed text and the sound switch.              *)
(***************************************************************************)
EXTENDS AskForm, ServerSentEvents, SmoothText, Sound, TLAPS

-----------------------------------------------------------------------------
(***************************************************************************)
(* The question form mirrors the server, proved for every maximal number   *)
(* of rounds and for questions of every length.                            *)
(***************************************************************************)
AnyQuestion == [pad : Pads, char : Chars, length : Nat]
Ask(q, k) == [type |-> "ask", question |-> q, rounds |-> k]

\* The kinds of runes and of white space, and their bytes.
LEMMA KindsOfRunes ==
    /\ Pads = {"none", "space", "nel", "bom"}
    /\ Chars = {"ascii", "quote", "cjk", "emoji", "control"}
    /\ \A p \in Pads : Format!PadBytes[p] \in 0..3
    /\ \A c \in Chars : Format!JsonBytes[c] \in 1..6
BY DEF Pads, Chars, Format!PadBytes, Format!JsonBytes

\* What trim() and strings.TrimSpace make of a question.
LEMMA TrimFacts ==
    ASSUME NEW q \in AnyQuestion, NEW space \in {Format!JsSpace, Format!GoSpace}
    PROVE  /\ Format!Trim(q, space) \in AnyQuestion
           /\ Format!Trim(q, space) = [pad |-> IF q.pad \in space THEN "none" ELSE q.pad,
                                       char |-> q.char, length |-> q.length]
BY KindsOfRunes DEF AnyQuestion, Format!Trim

\* The client trims what the form has trimmed already.
LEMMA TrimmedTwice ==
    ASSUME NEW q \in AnyQuestion
    PROVE  Trimmed(Trimmed(q)) = Trimmed(q)
BY TrimFacts, KindsOfRunes DEF Trimmed, Format!JsSpace, Format!GoSpace, Format!Trim, AnyQuestion

\* A message BuildAsk makes is the ask of the trimmed question.
LEMMA AskBuilt ==
    ASSUME NEW q \in AnyQuestion, NEW k, Format!BuildAsk(q, k) # Format!NoAsk
    PROVE  /\ Format!BuildAsk(q, k) = Ask(Trimmed(q), k)
           /\ Format!Runes(Trimmed(q)) \in 1..Format!MaxQuestionRunes
           /\ k = Format!NoRounds \/ Format!EvenRounds(k)
BY DEF Format!BuildAsk, Trimmed, Ask

\* No rune takes more than six bytes.
LEMMA BytesOfRunes ==
    ASSUME NEW n \in Nat, NEW b \in 1..6
    PROVE  n * b \in 0..(6 * n)
<1>1. b = 1 \/ b = 2 \/ b = 3 \/ b = 4 \/ b = 5 \/ b = 6
  OBVIOUS
<1>2. n * 1 = n /\ n * 2 = n + n /\ n * 3 = n + n + n /\ n * 4 = n + n + n + n
      /\ n * 5 = n + n + n + n + n /\ n * 6 = n + n + n + n + n + n
  OBVIOUS
<1> QED
  BY <1>1, <1>2

\* The bytes of the frame of an ask.
LEMMA BytesOfAsk ==
    ASSUME NEW q \in AnyQuestion, NEW k
    PROVE  Format!AskBytes(Ask(q, k)) \in 28..(42 + 6 * q.length)
<1>1. q.length \in Nat
  BY DEF AnyQuestion
<1>2. Format!JsonBytes[q.char] \in 1..6 /\ Format!PadBytes[q.pad] \in 0..3
  BY KindsOfRunes DEF AnyQuestion
<1>3. q.length * Format!JsonBytes[q.char] \in 0..(6 * q.length)
  BY <1>1, <1>2, BytesOfRunes
<1> HIDE DEF AnyQuestion
<1>4. Format!AskBytes(Ask(q, k)) =
          28 + (IF k = Format!NoRounds THEN 0 ELSE 11) + Format!PadBytes[q.pad]
             + q.length * Format!JsonBytes[q.char]
  BY DEF Format!AskBytes, Ask
<1> QED
  BY <1>1, <1>2, <1>3, <1>4

\* The frame of a question within the limit is within the server's read limit,
\* however its runes are escaped.
LEMMA AskFits ==
    ASSUME NEW q \in AnyQuestion, NEW k, Format!Runes(q) <= Format!MaxQuestionRunes
    PROVE  Format!AskBytes(Ask(q, k)) <= Format!MaxInboundBytes
<1>1. q.length \in 0..1000
  BY DEF Format!Runes, Format!MaxQuestionRunes, AnyQuestion
<1> QED
  BY <1>1, BytesOfAsk DEF Format!MaxInboundBytes

\* What the browser would send, the server accepts.
LEMMA BuiltIsAccepted ==
    ASSUME NEW q \in AnyQuestion, NEW k,
           q.pad \notin OnlyGoTrims,
           Format!BuildAsk(q, k) # Format!NoAsk
    PROVE  Format!Receive(Format!BuildAsk(q, k)) = "accepted"
<1> DEFINE ask == Ask(Trimmed(q), k)
<1>1. Trimmed(q) \in AnyQuestion /\ Trimmed(q).pad = "none"
  <2>1. q.pad \in {"none", "space", "bom"}
    BY KindsOfRunes DEF OnlyGoTrims, Format!JsSpace, Format!GoSpace, AnyQuestion
  <2>2. Trimmed(q) \in AnyQuestion
        /\ Trimmed(q).pad = IF q.pad \in Format!JsSpace THEN "none" ELSE q.pad
    <3>1. Format!JsSpace \in {Format!JsSpace, Format!GoSpace}
      OBVIOUS
    <3>2. Trimmed(q) = [pad |-> IF q.pad \in Format!JsSpace THEN "none" ELSE q.pad,
                        char |-> q.char, length |-> q.length]
      BY <3>1, TrimFacts DEF Trimmed
    <3>3. Trimmed(q) \in AnyQuestion
      BY <3>1, TrimFacts DEF Trimmed
    <3> QED
      BY <3>2, <3>3
  <2> QED
    BY <2>1, <2>2 DEF Format!JsSpace
<1>2. Format!Trim(Trimmed(q), Format!GoSpace) = Trimmed(q)
  BY <1>1 DEF Format!Trim, Format!GoSpace
<1>3. Format!Validate(ask)
  BY <1>2, AskBuilt DEF Format!Validate, Ask
<1>4. Format!AskBytes(ask) <= Format!MaxInboundBytes
  BY <1>1, AskBuilt, AskFits DEF Format!Runes, Format!MaxQuestionRunes, AnyQuestion
<1> QED
  BY <1>3, <1>4, AskBuilt DEF Format!Receive

\* What the browser would not send, the server would not accept.
LEMMA UnbuiltIsRefused ==
    ASSUME NEW q \in AnyQuestion, NEW k,
           q.pad \notin OnlyJsTrims \union OnlyGoTrims,
           Format!BuildAsk(q, k) = Format!NoAsk
    PROVE  Format!Receive(Ask(q, k)) # "accepted"
<1>1. Format!Trim(q, Format!GoSpace) = Format!Trim(q, Format!JsSpace)
  BY KindsOfRunes
  DEF Format!Trim, Format!JsSpace, Format!GoSpace, OnlyJsTrims, OnlyGoTrims, AnyQuestion
<1>2. ~Format!Validate(Ask(q, k))
  <2>1. Ask(Format!Trim(q, Format!JsSpace), k) # Format!NoAsk
    BY DEF Ask, Format!NoAsk
  <2> QED
    BY <1>1, <2>1 DEF Format!BuildAsk, Format!Validate, Ask
<1> QED
  BY <1>2, BytesOfAsk DEF Format!Receive, Format!MaxInboundBytes

-----------------------------------------------------------------------------
\* A debate on the page was asked with the message of its docket.
FormInv ==
    /\ draft.question \in AnyQuestion
    /\ DOMAIN draft = {"question", "rounds"}
    /\ live => /\ docket.question \in AnyQuestion
               /\ Trimmed(docket.question) = docket.question
               /\ sent = Format!BuildAsk(docket.question, docket.rounds)
               /\ sent # Format!NoAsk

\* The model's drafts are questions.
LEMMA DraftsAreQuestions == Questions \subseteq AnyQuestion /\ Preset \in Questions
BY KindsOfRunes DEF Questions, AnyQuestion, Preset, Lengths, Format!Question, Format!MaxQuestionRunes

\* Typing, presets and the end of a debate leave the docket and the message alone.
LEMMA FormStep == FormInv /\ [FormNext]_askVars => FormInv'
<1> SUFFICES ASSUME FormInv, [FormNext]_askVars PROVE FormInv'
  OBVIOUS
<1> USE DEF FormInv
<1>1. CASE Type
  BY <1>1, DraftsAreQuestions DEF Type
<1>2. CASE PickPreset
  BY <1>2, DraftsAreQuestions DEF PickPreset
<1>3. CASE SelectRounds
  BY <1>3 DEF SelectRounds
<1>4. CASE Submit
  <2>1. Trimmed(draft.question) \in AnyQuestion
    BY TrimFacts DEF Trimmed
  <2>2. /\ docket'.question = Trimmed(draft.question)
        /\ docket'.rounds = draft.rounds
        /\ draft' = draft
        /\ sent' = Format!BuildAsk(docket'.question, docket'.rounds)
        /\ live' => sent' # Format!NoAsk
    BY <1>4 DEF Submit
  <2> QED
    BY <2>1, <2>2, TrimmedTwice
<1>5. CASE DebateEnds
  BY <1>5 DEF DebateEnds
<1>6. CASE UNCHANGED askVars
  BY <1>6 DEF askVars
<1> QED
  BY <1>1, <1>2, <1>3, <1>4, <1>5, <1>6 DEF FormNext

\* Whatever can be convened is accepted by the server, and whatever cannot is
\* not (QuestionForm.tsx, lib/protocol.ts buildAsk, inbound.go Validate,
\* session.go); the debate on the page is the one the server was asked for.
THEOREM FormAlwaysMirrorsServer == FormSpec => []FormMirrorsServer
<1>1. FormInit => FormInv
  BY DraftsAreQuestions, KindsOfRunes
  DEF FormInit, FormInv, Empty, Format!Question, AnyQuestion
<1>2. FormInv => FormMirrorsServer
  <2> SUFFICES ASSUME FormInv PROVE FormMirrorsServer
    OBVIOUS
  <2> USE DEF FormInv
  <2>1. draft.question.pad \notin OnlyGoTrims /\ Validation(draft) # Format!NoAsk =>
            Format!Receive(Validation(draft)) = "accepted"
    BY BuiltIsAccepted DEF Validation
  <2>2. draft.question.pad \notin OnlyJsTrims \union OnlyGoTrims
            /\ Validation(draft) = Format!NoAsk =>
            Format!Receive(Ask(draft.question, draft.rounds)) # "accepted"
    BY UnbuiltIsRefused DEF Validation
  <2>3. live => sent = Ask(docket.question, docket.rounds)
    BY AskBuilt
  <2>4. live /\ docket.question.pad \notin OnlyGoTrims => Format!Receive(sent) = "accepted"
    BY BuiltIsAccepted
  <2> QED
    BY <2>1, <2>2, <2>3, <2>4 DEF FormMirrorsServer, Ask
<1> QED
  BY <1>1, <1>2, FormStep, PTL DEF FormSpec

-----------------------------------------------------------------------------
(***************************************************************************)
(* An answer the worker takes for whole is whole (ClosedMeansWhole), for   *)
(* bodies of any length.                                                   *)
(***************************************************************************)
BodyTypeOK ==
    /\ reader \in {"asked", "scanning", "sending", "failing", "returning", "closed"}
    /\ content \in Nat
    /\ received \in Nat
    /\ ended \in {"open", "whole", "broken"}
    /\ cancelled \in BOOLEAN
    /\ worker \in {"ranging", "closed", "failed", "gone"}

\* Deltas that are read and not yet handed over.
InHand == IF reader = "sending" THEN 1 ELSE 0

\* Unless the context is done: nothing is lost on the way to the worker, a
\* closed channel means a whole body unless the error went through it, and the
\* range ends by the close alone.
WholeUnlessCancelled ==
    ~cancelled =>
        /\ content = received + InHand
        /\ reader = "closed" => ended = "whole" \/ worker = "failed"
        /\ reader = "returning" => worker = "failed"
        /\ worker = "closed" => reader = "closed" /\ ended = "whole"

BodyInv == BodyTypeOK /\ WholeUnlessCancelled

-----------------------------------------------------------------------------
\* Nothing is read yet when the request is made.
LEMMA BodyInitInv == BodyInit => BodyInv
<1> SUFFICES ASSUME BodyInit PROVE BodyInv
    OBVIOUS
<1>1. BodyTypeOK
    BY DEF BodyInit, BodyTypeOK
<1>2. content = received + InHand
    BY SMT DEF BodyInit, InHand
<1> QED
    BY <1>1, <1>2 DEF BodyInit, BodyInv, WholeUnlessCancelled

\* No line, end of a body, send or cancellation breaks the invariant.
LEMMA BodyNextInv == BodyInv /\ [BodyNext]_bodyVars => BodyInv'
<1> SUFFICES ASSUME BodyInv, [BodyNext]_bodyVars
             PROVE  BodyInv'
    OBVIOUS
<1> USE DEF BodyInv, BodyTypeOK, WholeUnlessCancelled, InHand
<1>1. CASE Respond \/ RequestFails
    BY <1>1 DEF Respond, RequestFails
<1>2. ASSUME NEW kind \in LineKinds, Scan(kind)
      PROVE  BodyInv'
    BY <1>2 DEF Scan
<1>3. CASE ScanDone \/ BodyEnds \/ BodyBreaks
    BY <1>3 DEF ScanDone, BodyEnds, BodyBreaks
<1>4. CASE ReadAborted \/ Quits
    BY <1>4 DEF ReadAborted, Quits
<1>5. CASE SendDelta
    BY <1>5 DEF SendDelta
<1>6. CASE SendErr \/ ReaderReturns
    BY <1>6 DEF SendErr, ReaderReturns
<1>7. CASE RangeEnds
    BY <1>7 DEF RangeEnds
<1>8. CASE WorkerGone \/ Cancel
    BY <1>8 DEF WorkerGone, Cancel
<1>9. CASE UNCHANGED bodyVars
    BY <1>9 DEF bodyVars
<1> QED
    BY <1>1, <1>2, <1>3, <1>4, <1>5, <1>6, <1>7, <1>8, <1>9
       DEF BodyNext, Network, Goroutines

\* The worker follows the close of the channel with persona_done or the verdict
\* only after a body that ended properly, all of whose deltas it has received
\* (zai.go streamResponse, orchestrator.go stream).
THEOREM WholeBodies == BodySpec => []ClosedMeansWhole
<1>1. BodyInv => ClosedMeansWhole
    BY DEF BodyInv, BodyTypeOK, WholeUnlessCancelled, InHand, ClosedMeansWhole
<1> QED
    BY <1>1, BodyInitInv, BodyNextInv, PTL DEF BodySpec

-----------------------------------------------------------------------------
(***************************************************************************)
(* The smoothed text neither jumps back nor bursts (RevealIsSmooth), for   *)
(* texts of every length.                                                  *)
(***************************************************************************)
\* Once its effect has run, no more is revealed than there is of the text, and
\* the tick in flight aims at that text.
EffectSettles ==
    ~effect => revealed <= text.length /\ frame \in {NoFrame, text.length}

\* What is revealed, seen through the text, never falls behind the page.
NeverBehind == AtMost(drawn, text.length) <= AtMost(revealed, text.length)

TextInv == TextTypeOK /\ EffectSettles /\ NeverBehind

-----------------------------------------------------------------------------
\* An animation step goes forward.
LEMMA StepForward ==
    ASSUME NEW gap \in Nat
    PROVE  StepSize(gap) \in Nat /\ StepSize(gap) >= 2
BY DEF StepSize, AtLeast

\* A rendered text has the shape of a target.
LEMMA TargetLength ==
    ASSUME NEW t \in Targets
    PROVE  t.length \in 0..MaxLength
BY DEF Targets

\* The text of the first render is shown in full.
LEMMA TextInitInv == TextInit => TextInv
BY MaxLengthAssumption, TargetLength
   DEF TextInit, TextInv, TextTypeOK, EffectSettles, NeverBehind, AtMost, NoFrame

\* No render, effect or frame breaks the invariant.
LEMMA TextNextInv == TextInv /\ [TextNext]_textVars => TextInv'
<1> SUFFICES ASSUME TextInv, [TextNext]_textVars
             PROVE  TextInv'
    OBVIOUS
<1> USE MaxLengthAssumption, TargetLength
    DEF TextInv, TextTypeOK, EffectSettles, NeverBehind, AtMost, NoFrame
<1>1. CASE Render
    BY <1>1 DEF Render
<1>2. CASE Rerender
    BY <1>2 DEF Rerender
<1>3. CASE RunEffect
    <2>1. text.length \in 0..MaxLength /\ text' = text
        BY <1>3 DEF RunEffect
    <2>2. revealed' \in 0..MaxLength /\ frame' \in {NoFrame, text.length}
        BY <1>3, <2>1 DEF RunEffect
    <2>3. revealed' <= text.length /\ AtMost(drawn, text.length) <= revealed'
        BY <1>3, <2>1 DEF RunEffect
    <2> QED
        BY <1>3, <2>1, <2>2, <2>3 DEF RunEffect
<1>4. CASE Tick
    <2>1. CASE revealed >= frame
        BY <1>4, <2>1 DEF Tick
    <2>2. CASE revealed < frame
        <3>1. frame - revealed \in Nat
            BY <1>4, <2>2 DEF Tick
        <3>2. PICK s \in Nat : s >= 2 /\ revealed' = AtMost(revealed + s, frame)
            BY <1>4, <2>2, <3>1, StepForward DEF Tick
        <3>3. revealed' \in revealed..frame
            BY <2>2, <3>2
        <3> QED
            BY <1>4, <2>2, <3>3 DEF Tick
    <2> QED
        BY <1>4, <2>1, <2>2 DEF Tick
<1>5. CASE UNCHANGED textVars
    BY <1>5 DEF textVars
<1> QED
    BY <1>1, <1>2, <1>3, <1>4, <1>5 DEF TextNext

\* A step from a state of the invariant shows no less of the same text, and
\* a render that brings more of it does not show the new part at once.
LEMMA StepIsSmooth ==
    ASSUME TextInv, [TextNext]_textVars, text'.id = text.id
    PROVE  /\ Shown' >= Shown
           /\ animate /\ animate' /\ ~reduced /\ ~effect => Shown' <= text.length
<1> USE TargetLength DEF TextInv, TextTypeOK, Shown, AtMost
<1>1. CASE Render
    <2>1. /\ text.length \in 0..MaxLength /\ text'.length \in 0..MaxLength
          /\ text'.length >= text.length
          /\ drawn' = revealed
        BY <1>1 DEF Render
    <2>2. revealed <= text.length /\ AtMost(drawn, text.length) <= revealed
        BY <1>1, <2>1 DEF Render, EffectSettles, NeverBehind
    <2> QED
        BY <2>1, <2>2
<1>2. CASE Rerender
    BY <1>2 DEF Rerender, NeverBehind
<1>3. CASE RunEffect \/ Tick \/ UNCHANGED textVars
    BY <1>3 DEF RunEffect, Tick, textVars
<1> QED
    BY <1>1, <1>2, <1>3 DEF TextNext

\* However texts grow, switch and shrink between frames, of one text what was
\* shown stays, and a burst is not shown by the render that brings it
\* (useSmoothText: target change, tick).
THEOREM RevealIsAlwaysSmooth == TextSpec => RevealIsSmooth
<1>1. TextInv /\ [TextNext]_textVars
        => [text'.id = text.id =>
               /\ Shown' >= Shown
               /\ animate /\ animate' /\ ~reduced /\ ~effect => Shown' <= text.length
           ]_textVars
    BY StepIsSmooth
<1> QED
    BY <1>1, TextInitInv, TextNextInv, PTL DEF TextSpec, RevealIsSmooth

-----------------------------------------------------------------------------
(***************************************************************************)
(* The sound switch.                                                       *)
(***************************************************************************)
\* Before there is a context nothing can be overtaken.
SoundInv ==
    /\ stored \in BOOLEAN /\ enabled \in BOOLEAN /\ gate = enabled
    /\ context \in {"none", "suspended", "running"}
    /\ order \in {"none", "resume", "suspend"}
    /\ heeded \in BOOLEAN
    /\ context = "none" => order = "none" /\ heeded = enabled
    /\ ContextHeedsSwitch

\* No click, cue, order or reload breaks the invariant.
LEMMA SoundStep == SoundInv /\ [SoundNext]_soundVars => SoundInv'
<1> SUFFICES ASSUME SoundInv, [SoundNext]_soundVars PROVE SoundInv'
  OBVIOUS
<1> USE DEF SoundInv, ContextHeedsSwitch, Heed
<1>1. CASE EnableSound
  BY <1>1 DEF EnableSound, WritePreference
<1>2. CASE MuteSound
  BY <1>2 DEF MuteSound, WritePreference
<1>3. CASE PlayCue
  BY <1>3 DEF PlayCue
<1>4. CASE CarryOut
  BY <1>4 DEF CarryOut
<1>5. CASE Reload
  BY <1>5 DEF Reload, Loaded
<1>6. CASE UNCHANGED soundVars
  BY <1>6 DEF soundVars
<1> QED
  BY <1>1, <1>2, <1>3, <1>4, <1>5, <1>6 DEF SoundNext

\* "The control never lies" (SoundToggle.tsx), as far as the engine allows it
\* (lib/sound.ts setEnabled, resume): whatever the order of clicks, cues and
\* reloads, the audio hardware follows the switch as it was last heeded, and
\* only a click made while an order is on its way is not.
THEOREM ContextAlwaysHeedsSwitch == SoundSpec => []ContextHeedsSwitch
<1>1. SoundInit => SoundInv
  BY DEF SoundInit, SoundInv, ContextHeedsSwitch
<1>2. SoundInv => ContextHeedsSwitch
  BY DEF SoundInv
<1> QED
  BY <1>1, <1>2, SoundStep, PTL DEF SoundSpec
=============================================================================
