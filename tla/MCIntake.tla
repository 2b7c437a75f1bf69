------------------------------- MODULE MCIntake -------------------------------
(***************************************************************************)
(* Small instances of Intake.  A behaviour keeps to one scenario, which     *)
(* says which producers run and what they log.                             *)
(***************************************************************************)
EXTENDS Intake

CONSTANTS Scenarios, Alone   \* Alone: the caller of scenarios with one caller

VARIABLE scenario

Silent(p) == pc'[p] = "idle" /\ sent'[p] = 0
Logs(p, sizes) == mine'[p].size \in sizes

\* A caller that logs once and a reader, whose messages fit a bank or are too big for
\* the pool.
WithReader ==
  /\ sent'[Alone] <= 1 /\ \A p \in Callers \ {Alone} : Silent(p)
  /\ \A p \in Producers : Logs(p, {"small", "huge"})

\* Callers, whose messages fit a bank or queue a second time; all but one log once.
CallersOnly ==
  /\ \A p \in Readers : Silent(p)
  /\ \A p \in Callers : Logs(p, {"small", "large"})
  /\ \A p \in Callers \ {Alone} : sent'[p] <= 1

InScenario ==
  /\ \/ scenario = "reader" /\ WithReader
     \/ scenario = "callers" /\ CallersOnly
     \/ scenario = "all"
  /\ UNCHANGED scenario

mcVars == <<vars, scenario>>
MCInit == Init /\ scenario \in Scenarios
MCNext == Next /\ InScenario
MCSpec ==
  /\ MCInit /\ [][MCNext]_mcVars
  /\ WF_mcVars(LoggerStep /\ InScenario)
  /\ \A p \in Threads : WF_mcVars(Producer(p) /\ InScenario)
=============================================================================
