------------------------------ MODULE MCKlogSink ------------------------------
(* A small instance of KlogSink. *)
EXTENDS KlogSink

\* One digit, the default, a continuation, levels with a facility, and the kinds
\* of bodies.
MCLines ==
    {[level |-> <<"3">>, body |-> b] : b \in {"short", "empty", "bare"}}
    \cup {[level |-> <<"d">>, body |-> "long"]}
    \cup {[level |-> l, body |-> "short"] :
             l \in {<<"c">>, <<"1", "2">>, <<"1", "9", "0">>}}
=============================================================================
