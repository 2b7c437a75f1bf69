---------------------------- MODULE MCLifecycle ----------------------------
(***************************************************************************)
(* Small instances of Lifecycle.  A behaviour keeps to one scenario, which  *)
(* restricts the calls made to the library.                                *)
(***************************************************************************)
EXTENDS Lifecycle, Functions

CONSTANTS Scenarios, Alone   \* Alone: the only thread that adds a target while starting

VARIABLE scenario

Called(a) == pc[a] = "idle" /\ pc'[a] # "idle"

\* The library starts and shuts down at any moment; one thread makes one target and
\* one message is logged, ...
Starting ==
    /\ \A a \in Adders : Called(a) => a = Alone /\ Len(objs) <= 1
    /\ logged' <= 1

\* ... or no target is made and two are.
Early == \A a \in Adders : ~Called(a)

\* Once the library runs, threads add and replace targets, those for a callback with
\* one, and a message is logged.
Adding ==
    /\ \A a \in Adders : Called(a) => logger = "polling" /\ libThread = "polling"
    /\ logged' # logged => logger = "polling" /\ libThread = "polling" /\ logged = 0
    /\ libThread' \notin {"none", "created"} => main' = "started"
    /\ shut' = "no" /\ main' # "done"
    /\ \A o \in DOMAIN objs' : objs'[o].cbSet => objs'[o].kind = "callback"

\* Once the library runs, descriptors are added and removed; a shutdown may come.
Redirecting ==
    /\ \A a \in Adders : ~Called(a)
    /\ logged' = 0
    /\ libThread' \notin {"none", "created"} => main' \in {"started", "done"}
    /\ Len(streams') # Len(streams) =>
          libThread = "polling" /\ logger = "polling" /\ queued = <<>> /\ shut = "no"
    /\ shut' # shut => Len(streams) = 1

InScenario ==
    /\ Range(queued') \subseteq {DEFAULT_TARGET, 1}
    /\ \/ scenario = "starting" /\ Starting
       \/ scenario = "early" /\ Early
       \/ scenario = "adding" /\ Adding
       \/ scenario = "redirecting" /\ Redirecting
    /\ scenario # "redirecting" => streams' = <<>>
    /\ UNCHANGED scenario

mcVars == <<vars, scenario>>
MCInit == Init /\ scenario \in Scenarios
MCNext == Next /\ InScenario
MCSpec ==
    /\ MCInit /\ [][MCNext]_mcVars
    /\ WF_mcVars(~crashed /\ StartNext /\ InScenario)
    /\ WF_mcVars(~crashed /\ LibNext /\ InScenario)
    /\ WF_mcVars(~crashed /\ LoggerNext /\ InScenario)
    /\ WF_mcVars(~crashed /\ WaitOnGreaseShutdown /\ InScenario)
    /\ \A a \in Adders : WF_mcVars(~crashed /\ AdderNext(a) /\ InScenario)
=============================================================================
