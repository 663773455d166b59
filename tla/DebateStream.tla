---------------------------- MODULE DebateStream ----------------------------
(***************************************************************************)
(* What one debate looks like from the browser's end of the socket: the    *)
(* frames it may receive, in the orders it may receive them, whatever the  *)
(* goroutines behind the socket do.  DebateSession is the program that     *)
(* writes these frames and is shown to implement this module.              *)
(*                                                                         *)
(* The personas of the panel are the indexes 1..N of the slice the server  *)
(* debates with; the moderator is agent 0.  A piece of text is the number  *)
(* of deltas it was streamed in: two texts of one stream that differ in    *)
(* length are different prefixes of the same answer.                       *)
(***************************************************************************)
EXTENDS Integers

CONSTANTS
    N,          \* number of personas on the panel
    MaxRounds   \* the largest number of rounds a client may ask for

VARIABLES
    open,       \* the socket is usable
    refused,    \* the ask was answered "invalid request"
    rounds,     \* rounds agreed by an accepted ask, 0 before
    completed,  \* number of round_complete frames
    said,       \* said[r][a]: text streamed by agent a in round r
    settled,    \* settled[r][a]: how agent a's turn of round r was closed
    verdict     \* the text of the verdict frame, NoVerdict before

vars == <<open, refused, rounds, completed, said, settled, verdict>>

Personas == 1..N
Moderator == 0
Agents == Personas \union {Moderator}
Rounds == 1..(MaxRounds + 1)
NoVerdict == -1

\* The agents that have the floor: the panel while a round is under way, the
\* moderator once the last round is complete.
HasFloor(a) ==
    /\ open
    /\ rounds > 0
    /\ IF a = Moderator THEN completed = rounds ELSE completed < rounds

current == completed + 1

Init ==
    /\ open = TRUE
    /\ refused = FALSE
    /\ rounds = 0
    /\ completed = 0
    /\ said = [r \in Rounds |-> [a \in Agents |-> 0]]
    /\ settled = [r \in Rounds |-> [a \in Agents |-> "pending"]]
    /\ verdict = NoVerdict

\* The server accepts the ask and settles how many rounds will be held.
Accept ==
    /\ open
    /\ rounds = 0
    /\ rounds' \in {k \in 2..MaxRounds : k % 2 = 0}
    /\ UNCHANGED <<open, refused, completed, said, settled, verdict>>

\* The ask is refused; nothing follows on this socket.
Refuse ==
    /\ open
    /\ rounds = 0
    /\ refused' = TRUE
    /\ open' = FALSE
    /\ UNCHANGED <<rounds, completed, said, settled, verdict>>

\* One more delta of an agent whose turn is not closed.
Token(a) ==
    /\ HasFloor(a)
    /\ settled[current][a] = "pending"
    /\ said' = [said EXCEPT ![current][a] = @ + 1]
    /\ UNCHANGED <<open, refused, rounds, completed, settled, verdict>>

\* A turn is closed once: by persona_done, by error, or by the verdict.
Fail(a) ==
    /\ HasFloor(a)
    /\ settled[current][a] = "pending"
    /\ settled' = [settled EXCEPT ![current][a] = "failed"]
    /\ UNCHANGED <<open, refused, rounds, completed, said, verdict>>

PersonaDone(p) ==
    /\ HasFloor(p)
    /\ settled[current][p] = "pending"
    /\ settled' = [settled EXCEPT ![current][p] = "done"]
    /\ UNCHANGED <<open, refused, rounds, completed, said, verdict>>

\* The barrier: a round is complete when every persona's turn is closed.
CompleteRound ==
    /\ open
    /\ completed < rounds
    /\ \A p \in Personas : settled[current][p] # "pending"
    /\ completed' = completed + 1
    /\ UNCHANGED <<open, refused, rounds, said, settled, verdict>>

\* The verdict repeats the moderator's streamed text in full.
GiveVerdict ==
    /\ HasFloor(Moderator)
    /\ settled[current][Moderator] = "pending"
    /\ verdict' = said[current][Moderator]
    /\ settled' = [settled EXCEPT ![current][Moderator] = "done"]
    /\ UNCHANGED <<open, refused, rounds, completed, said>>

\* The socket may be lost, or closed, at any point.
Cut ==
    /\ open
    /\ open' = FALSE
    /\ UNCHANGED <<refused, rounds, completed, said, settled, verdict>>

Next ==
    \/ Accept
    \/ Refuse
    \/ \E a \in Agents : Token(a) \/ Fail(a)
    \/ \E p \in Personas : PersonaDone(p)
    \/ CompleteRound
    \/ GiveVerdict
    \/ Cut

Spec == Init /\ [][Next]_vars
=============================================================================
