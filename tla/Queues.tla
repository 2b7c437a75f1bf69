-------------------------------- MODULE Queues --------------------------------
(***************************************************************************)
(* The queues of the library, tw_safeCircular, as sequences.               *)
(***************************************************************************)
EXTENDS Integers, Sequences, Functions

(* The queue s without its i-th element. *)
Without(s, i) == SubSeq(s, 1, i - 1) \o SubSeq(s, i + 1, Len(s))

=============================================================================
