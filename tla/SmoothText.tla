----------------------------- MODULE SmoothText -----------------------------
(***************************************************************************)
(* useSmoothText: the text of a bubble, or of a round in the transcript,   *)
(* is revealed a few characters per animation frame while it is streaming, *)
(* and is shown at once otherwise.  Its callers (PersonaLabel, RoundBlock, *)
(* VerdictPanel) render it with texts that grow, and in a bubble also with *)
(* the text of another turn.                                               *)
(*                                                                         *)
(* React renders, then runs the effect of that render, and runs it before  *)
(* it renders again; a frame may come between the render and its effect,   *)
(* and then calls the tick of the previous effect, with the target of its  *)
(* render.  A text is [id, length].                                        *)
(***************************************************************************)
EXTENDS Integers

CONSTANTS
    MaxLength,  \* bound: characters of a text
    Texts       \* the turns whose texts are shown

ASSUME MaxLengthAssumption == MaxLength \in Nat

VARIABLES
    text,     \* target of the last render
    animate,  \* and whether it is streaming
    drawn,    \* the state "revealed" in the last render
    revealed, \* revealedRef, and the state as it was set last
    effect,   \* the effect of the last render has not run yet
    frame,    \* target.length in the tick that is requested, or NoFrame
    reduced   \* prefers-reduced-motion

textVars == <<text, animate, drawn, revealed, effect, frame, reduced>>

NoFrame == -1
AtMost(n, cap) == IF n > cap THEN cap ELSE n
AtLeast(n, floor) == IF n < floor THEN floor ELSE n

Targets == [id : Texts, length : 0..MaxLength]

\* Characters of the text on the page.
Shown == AtMost(drawn, text.length)

\* broken variant: without MIN_STEP, and rounded down.
StepRoundedDown(gap) == (18 * gap) \div 100

\* max(MIN_STEP, ceil(gap * CATCHUP_FACTOR))
StepSize(gap) == AtLeast((18 * gap + 99) \div 100, 2)

TextInit ==
    /\ text \in Targets
    /\ animate \in BOOLEAN
    /\ reduced \in BOOLEAN
    /\ drawn = text.length
    /\ revealed = text.length
    /\ effect = TRUE
    /\ frame = NoFrame

\* The caller renders: more of the same text, or another text.
Render ==
    /\ ~effect
    /\ \E t \in Targets, a \in BOOLEAN :
          /\ t.id = text.id => t.length >= text.length
          /\ <<t, a>> # <<text, animate>>
          /\ text' = t
          /\ animate' = a
    /\ drawn' = revealed
    /\ effect' = TRUE
    /\ UNCHANGED <<revealed, frame, reduced>>

\* setRevealed: the component renders again, its effect does not depend on it.
Rerender ==
    /\ ~effect
    /\ drawn # revealed
    /\ drawn' = revealed
    /\ UNCHANGED <<text, animate, revealed, effect, frame, reduced>>

\* broken variant: a longer prefix of the previous text is kept.
RunEffectWithoutClamp ==
    /\ effect
    /\ effect' = FALSE
    /\ IF ~animate \/ reduced
       THEN revealed' = text.length /\ frame' = NoFrame
       ELSE revealed' = revealed /\ frame' = text.length
    /\ UNCHANGED <<text, animate, drawn, reduced>>

\* The cleanup of the previous effect cancels its frame; the new one snaps to
\* the whole text, or clamps and requests its first frame.
RunEffect ==
    /\ effect
    /\ effect' = FALSE
    /\ IF ~animate \/ reduced
       THEN revealed' = text.length /\ frame' = NoFrame
       ELSE revealed' = AtMost(revealed, text.length) /\ frame' = text.length
    /\ UNCHANGED <<text, animate, drawn, reduced>>

\* An animation frame.
Tick ==
    /\ frame # NoFrame
    /\ IF revealed >= frame
       THEN frame' = NoFrame /\ UNCHANGED revealed
       ELSE /\ revealed' = AtMost(revealed + StepSize(frame - revealed), frame)
            /\ UNCHANGED frame
    /\ UNCHANGED <<text, animate, drawn, effect, reduced>>

TextNext == Render \/ Rerender \/ RunEffect \/ Tick

\* The page is visible: React finishes its work and frames come.
TextFairness ==
    WF_textVars(Rerender) /\ WF_textVars(RunEffect) /\ WF_textVars(Tick)

TextSpec == TextInit /\ [][TextNext]_textVars /\ TextFairness

-----------------------------------------------------------------------------
(***************************************************************************)
(* Properties.                                                             *)
(***************************************************************************)
TextTypeOK ==
    /\ text \in Targets
    /\ animate \in BOOLEAN /\ effect \in BOOLEAN /\ reduced \in BOOLEAN
    /\ drawn \in 0..MaxLength
    /\ revealed \in 0..MaxLength
    /\ frame \in 0..MaxLength \union {NoFrame}

\* "A calm, steady cadence instead of in bursts": of one text, what has been
\* shown stays, and while it is animated a burst is never shown by the render
\* that brings it, whatever was revealed of the text before.
RevealIsSmooth ==
    [][text'.id = text.id =>
          /\ Shown' >= Shown
          /\ animate /\ animate' /\ ~reduced /\ ~effect => Shown' <= text.length
      ]_textVars

\* "Guarantees the loop stops": once its text stays as it is, a component shows
\* all of it and asks for no more frames.
TextComesToRest ==
    <>[][~Render]_textVars => <>[](Shown = text.length /\ frame = NoFrame)
=============================================================================
