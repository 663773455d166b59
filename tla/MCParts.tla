------------------------------ MODULE MCParts ------------------------------
(***************************************************************************)
(* Four small parts of the program that share no state, checked in one     *)
(* run: a behaviour exercises one of them and leaves the others alone.     *)
(***************************************************************************)
EXTENDS AskForm, ServerSentEvents, SmoothText, Sound

VARIABLE part   \* "form", "body", "text" or "sound"

vars == <<askVars, bodyVars, textVars, soundVars, part>>

Init ==
    /\ FormInit /\ BodyInit /\ TextInit /\ SoundInit
    /\ part \in {"form", "body", "text", "sound"}
    /\ part # "text" => text = [id |-> 1, length |-> 0] /\ ~animate /\ ~reduced
    /\ part # "sound" => ~stored

Form ==
    /\ part = "form" /\ FormNext
    /\ UNCHANGED <<bodyVars, textVars, soundVars, part>>

InBody(A) ==
    /\ part = "body" /\ A
    /\ UNCHANGED <<askVars, textVars, soundVars, part>>

InText(A) ==
    /\ part = "text" /\ A
    /\ UNCHANGED <<askVars, bodyVars, soundVars, part>>

Switch ==
    /\ part = "sound" /\ SoundNext
    /\ UNCHANGED <<askVars, bodyVars, textVars, part>>

Next == Form \/ InBody(BodyNext) \/ InText(TextNext) \/ Switch

\* The fairness of BodySpec and TextSpec.
Spec ==
    /\ Init /\ [][Next]_vars
    /\ WF_vars(InBody(Goroutines))
    /\ WF_vars(InText(Rerender))
    /\ WF_vars(InText(RunEffect))
    /\ WF_vars(InText(Tick))
=============================================================================
