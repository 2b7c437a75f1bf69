------------------------------ MODULE MCLogTarget ------------------------------
(* Instances of LogTarget for TLC. *)
EXTENDS LogTarget

\* Only a callback target, whose user may keep the banks, gets the last message.
LastIsForCallback == nextId' > MaxMsgs /\ nextId' # nextId => kind = "callback"

CallbackSpec == Init /\ [][Next /\ LastIsForCallback]_vars /\ Fairness
=============================================================================
