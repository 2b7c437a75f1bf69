----------------------------- MODULE MCClientSink -----------------------------
(***************************************************************************)
(* Small instances of ClientSink.  A behaviour keeps to one scenario, which *)
(* leaves out some of what programs and the logger can do.                 *)
(***************************************************************************)
EXTENDS ClientSink

CONSTANTS Scenarios, Alone   \* Alone: the thread of scenarios with one thread

VARIABLE scenario

Unused(t) == inits'[t] = 0 /\ text'[t] = <<>> /\ sinkFd'[t] = "unset" /\ pc'[t] = "idle"
Slow == {"clear", "search", "searched", "setup"}
Fast == {"fastClear", "fastSearch", "fastSearched", "fastSetup"}

\* A thread that pings and one that does not set up once, log a message and shut
\* down.
TwoThreads ==
    /\ \A t \in Threads : /\ inits'[t] <= 1 /\ sinkFd'[t] # "failed"
                          /\ pc'[t] = "check" => count[t] = 0 /\ Len(text'[t]) = 1
                          /\ pc'[t] \notin IF t = Alone THEN Fast ELSE Slow
    /\ ~moduleLoaded /\ ~stopThread' /\ starts' <= 1 /\ others' = others /\ sinkKind = "unix"

\* Both threads ping, once, and log nothing.
TwoPingers ==
    /\ \A t \in Threads : /\ inits'[t] <= 1 /\ sinkFd'[t] # "failed"
                          /\ pc'[t] \notin Fast \cup {"check"}
    /\ ~moduleLoaded /\ ~stopThread' /\ starts' <= 1 /\ others' = others /\ sinkKind = "unix"

\* One thread sets up several times while the logger comes, goes and comes back,
\* or finds the module in its process.
Pinging ==
    /\ \A t \in Threads \ {Alone} : Unused(t)
    /\ pc'[Alone] = "check" => moduleLoaded
    /\ ~stopThread' /\ others' = others /\ sinkKind = "unix"

\* One thread and other programs keep the socket full; the listener may be stopped.
Traffic ==
    /\ \A t \in Threads \ {Alone} : Unused(t)
    /\ inits'[Alone] <= 1 /\ pc'[Alone] \notin Slow /\ sinkFd'[Alone] \in {"unset", "open"}
    /\ \A u \in RawUsers : others'[u] <= 1
    /\ ~moduleLoaded /\ sinkKind = "unix" /\ starts' <= 1

\* Callers of syslog() alone.
SyslogOnly == sinkKind = "syslog" /\ ~moduleLoaded

InScenario ==
    /\ \/ scenario = "threads" /\ TwoThreads
       \/ scenario = "pingers" /\ TwoPingers
       \/ scenario = "pinging" /\ Pinging
       \/ scenario = "traffic" /\ Traffic
       \/ scenario = "syslog" /\ SyslogOnly
    /\ UNCHANGED scenario

mcVars == <<vars, scenario>>
MCInit == Init /\ scenario \in Scenarios
MCNext == Next /\ InScenario
MCSpec ==
    /\ MCInit /\ [][MCNext]_mcVars
    /\ \A t \in Threads : WF_mcVars(ClientStep(t) /\ InScenario)
    /\ WF_mcVars(SinkStep /\ InScenario)
=============================================================================
