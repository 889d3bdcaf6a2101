------------------------------- MODULE Pipe --------------------------------
(***************************************************************************)
(* What every buffer of the library promises to the bytes that pass        *)
(* through it: they come out in the order they went in, none twice, none   *)
(* left out, and none before it went in.                                   *)
(***************************************************************************)
EXTENDS Sequences, SequencesExt

VARIABLES
    sent,       \* the bytes that went in
    received    \* the bytes that came out

Init == sent = <<>> /\ received = <<>>

(* Some bytes go in, some come out, or both.                               *)
Transfer ==
    /\ IsPrefix(sent, sent')
    /\ IsPrefix(received, received')
    /\ IsPrefix(received', sent')

Spec == Init /\ [][Transfer]_<<sent, received>>

(* A pipe that can be emptied to start over.                               *)
Restart == sent' = <<>> /\ received' = <<>>

RestartableSpec == Init /\ [][Transfer \/ Restart]_<<sent, received>>
=============================================================================
