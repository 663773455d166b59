------------------------------- MODULE Sound -------------------------------
(***************************************************************************)
(* The sound switch: the preference and its storage (useSound.ts), the     *)
(* engine's gate and its lazily made AudioContext (lib/sound.ts), and the  *)
(* toggle (SoundToggle.tsx).                                               *)
(*                                                                         *)
(* resume() and suspend() are orders: the state of the context changes     *)
(* later, and a new context is suspended until it has started.             *)
(***************************************************************************)
VARIABLES
    stored,  \* what localStorage has
    enabled, \* the preference on the page
    gate,    \* enabled of the engine
    context, \* "none", "suspended" or "running"
    order,   \* the order on its way: "none", "resume" or "suspend"
    heeded   \* the preference the engine last acted on: that of the last load
             \* or click with no order on its way (a history variable)

soundVars == <<stored, enabled, gate, context, order, heeded>>

\* The engine looks at the state of the context, not at its orders: a click
\* that overtakes an order may give none of its own.
Heed(preference) == heeded' = IF order = "none" THEN preference ELSE heeded

\* The page is loaded: useSound reads the preference, its effect tells the
\* engine.
Loaded(preference) ==
    /\ enabled' = preference
    /\ gate' = preference
    /\ context' = "none"
    /\ order' = "none"
    /\ heeded' = preference

SoundInit ==
    /\ stored \in BOOLEAN
    /\ enabled = stored
    /\ gate = stored
    /\ context = "none"
    /\ order = "none"
    /\ heeded = stored

\* Storage may be unavailable.
WritePreference(next) == stored' \in {stored, next}

\* engine.setEnabled(true) and engine.resume(), in the click.
EnableSound ==
    /\ ~enabled
    /\ WritePreference(TRUE)
    /\ enabled' = TRUE
    /\ gate' = TRUE
    /\ context' = IF context = "none" THEN "suspended" ELSE context
    /\ order' = IF context # "running" THEN "resume" ELSE order
    /\ Heed(TRUE)

\* broken variant: muting only closes the gate.
MuteOnlyGate ==
    /\ enabled
    /\ WritePreference(FALSE)
    /\ enabled' = FALSE
    /\ gate' = FALSE
    /\ Heed(FALSE)
    /\ UNCHANGED <<context, order>>

\* engine.setEnabled(false), in the effect of the click's render.
MuteSound ==
    /\ enabled
    /\ WritePreference(FALSE)
    /\ enabled' = FALSE
    /\ gate' = FALSE
    /\ order' = IF context = "running" THEN "suspend" ELSE order
    /\ Heed(FALSE)
    /\ UNCHANGED context

\* playRoundCue or playVerdictChime; the page has been clicked by then, so a
\* context made here starts.
PlayCue ==
    /\ gate
    /\ context = "none"
    /\ context' = "suspended"
    /\ order' = "resume"
    /\ UNCHANGED <<stored, enabled, gate, heeded>>

CarryOut ==
    /\ order # "none"
    /\ context' = IF order = "resume" THEN "running" ELSE "suspended"
    /\ order' = "none"
    /\ UNCHANGED <<stored, enabled, gate, heeded>>

Reload == Loaded(stored) /\ UNCHANGED stored

SoundNext == EnableSound \/ MuteSound \/ PlayCue \/ CarryOut \/ Reload

SoundSpec == SoundInit /\ [][SoundNext]_soundVars

-----------------------------------------------------------------------------
(***************************************************************************)
(* Properties.                                                             *)
(***************************************************************************)
\* "The control never lies": with no order on its way, the audio hardware is
\* on exactly if the switch was when it was last heeded, and an order on its
\* way is what that setting calls for.  So in any sequence of clicks only one
\* that overtakes an order can be lost, and the next one that does not puts the
\* hardware right.
ContextHeedsSwitch ==
    /\ order = "none" /\ context = "running" => heeded
    /\ order = "none" /\ context = "suspended" => ~heeded
    /\ order = "resume" => heeded /\ context = "suspended"
    /\ order = "suspend" => ~heeded /\ context = "running"
=============================================================================
