---------------------------- MODULE FrameChannel ----------------------------
(***************************************************************************)
(* What the interface and the main loop of the UDP programs promise for the *)
(* frames that have arrived: they are taken in the order of arrival; a      *)
(* datagram among them is handed to the program, one at a time, and the     *)
(* next only after the program is done with the last.  A restart loses      *)
(* those under way.                                                         *)
(***************************************************************************)
EXTENDS Sequences

CONSTANTS
    Frame,
    Datagram,   \* the frames that are meant for the program
    NoFrame

VARIABLES
    waiting,    \* the frames that have arrived, the oldest first
    held        \* the datagram the program has been handed, or NoFrame

vars == <<waiting, held>>

Init == waiting = <<>> /\ held = NoFrame

Arrive(f) ==
    /\ waiting' = Append(waiting, f)
    /\ UNCHANGED held

Take ==
    /\ waiting # <<>> /\ Head(waiting) \in Datagram
    /\ held = NoFrame
    /\ held' = Head(waiting)
    /\ waiting' = Tail(waiting)

\* A frame that is not for the program goes elsewhere.
Pass ==
    /\ waiting # <<>> /\ Head(waiting) \notin Datagram
    /\ waiting' = Tail(waiting)
    /\ UNCHANGED held

Done ==
    /\ held # NoFrame
    /\ held' = NoFrame
    /\ UNCHANGED waiting

Restart == waiting' = <<>> /\ held' = NoFrame

Next ==
    \/ \E f \in Frame : Arrive(f)
    \/ Take
    \/ Pass
    \/ Done
    \/ Restart

Safe == Init /\ [][Next]_vars

DatagramWaits == \E k \in DOMAIN waiting : waiting[k] \in Datagram

\* A datagram that waits is taken and what was taken is done with, or there is
\* a restart.
Progress ==
    /\ DatagramWaits ~> held # NoFrame \/ waiting = <<>>
    /\ held # NoFrame ~> held = NoFrame
=============================================================================
