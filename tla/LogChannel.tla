----------------------------- MODULE LogChannel -----------------------------
(***************************************************************************)
(* What the socket between programs and the logger promises: each message  *)
(* of a writer is either put into the channel or kept by the writer's own  *)
(* process; what is in the channel is taken in the order of its writer,    *)
(* once each and unchanged, unless the logger dies while it waits there.   *)
(***************************************************************************)
EXTENDS Integers, Sequences

CONSTANT Writers
VARIABLES count,     \* count[w]: messages of writer w that left its hands
          pending,   \* pending[w]: messages of w in the channel
          taken,     \* taken[w]: messages of w the logger was given
          kept,      \* messages that stayed in the writer's process
          up         \* the logger takes messages

vars == <<count, pending, taken, kept, up>>

Msg(w, n) == [by |-> w, n |-> n]

Init ==
    /\ count = [w \in Writers |-> 0]
    /\ pending = [w \in Writers |-> <<>>]
    /\ taken = [w \in Writers |-> <<>>]
    /\ kept = {} /\ up = FALSE

\* k messages of w enter the channel at once.
Put(w, k) ==
    /\ up
    /\ count' = [count EXCEPT ![w] = @ + k]
    /\ pending' = [pending EXCEPT ![w] =
                     @ \o [i \in 1..k |-> Msg(w, count[w] + i)]]
    /\ UNCHANGED <<taken, kept, up>>

Keep(w) ==
    /\ count' = [count EXCEPT ![w] = @ + 1]
    /\ kept' = kept \cup {Msg(w, count[w] + 1)}
    /\ UNCHANGED <<pending, taken, up>>

\* The k oldest messages of w are taken at once.
Take(w, k) ==
    /\ up /\ k <= Len(pending[w])
    /\ taken' = [taken EXCEPT ![w] = @ \o SubSeq(pending[w], 1, k)]
    /\ pending' = [pending EXCEPT ![w] = SubSeq(@, k + 1, Len(@))]
    /\ UNCHANGED <<count, kept, up>>

LoggerStarts == ~up /\ up' = TRUE /\ UNCHANGED <<count, pending, taken, kept>>

LoggerDies ==
    /\ up /\ up' = FALSE
    /\ pending' = [w \in Writers |-> <<>>]
    /\ UNCHANGED <<count, taken, kept>>

Next ==
    \/ \E w \in Writers, k \in 1..2 : Put(w, k) \/ Take(w, k)
    \/ \E w \in Writers : Keep(w)
    \/ LoggerStarts \/ LoggerDies

Spec == Init /\ [][Next]_vars
=============================================================================
