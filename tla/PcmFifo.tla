------------------------------- MODULE PcmFifo -------------------------------
(***************************************************************************)
(* What the PCM bridge (fake-libpulse.c) promises between the daemon that   *)
(* writes audio and the player that reads it: a bounded queue.  A byte is   *)
(* its position in the stream and the queue is the interval from `out' to   *)
(* `in': bytes leave in the order they came, none twice and none skipped,   *)
(* and a flush takes all of them at once.                                   *)
(***************************************************************************)
EXTENDS Integers

CONSTANT Size     \* bytes the queue can hold, a positive number

VARIABLES in, out

fifoVars == <<in, out>>

Init == in = 0 /\ out = 0

\* The daemon's bytes enter while there is room.
Put == in' \in (in + 1)..(out + Size) /\ out' = out

\* A reader takes bytes from the front, or a flush takes all of them.
Take == out' \in (out + 1)..in /\ in' = in

Next == Put \/ Take

Spec == Init /\ [][Next]_fifoVars
==============================================================================
