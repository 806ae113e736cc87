------------------------------ MODULE Workshop ------------------------------
(***************************************************************************)
(* The tools that keep their state in the repository, its beads and its    *)
(* directories of results, or run the repository as a service.  They share *)
(* nothing but the heavy slot, which keeps their runs apart (module        *)
(* HeavySlot): each behaviour is about one of them and the people beside.  *)
(***************************************************************************)
EXTENDS Mutate, Landing, RunPlan, TickDriver, ProofQueue, CliProfile, ReleaseWatch, OmpRefresh, Campaign, LaunchAgent

benchVars == <<mutateVars, landVars, planVars, tickVars, queueVars, profileVars>>
vars == <<tool, jobVars, benchVars, watchVars, refreshVars, campVars, agentVars>>

Init ==
  /\ JobInit
  /\ MutateInit /\ LandInit /\ PlanInit /\ TickInit /\ QueueInit /\ ProfileInit
  /\ WatchInit /\ RefreshInit /\ CampInit /\ AgentInit

BenchNext ==
  \/ tool = "mutate" /\ MutateNext /\ UNCHANGED <<landVars, planVars, tickVars, queueVars, profileVars>>
  \/ tool = "land" /\ LandNext /\ UNCHANGED <<mutateVars, planVars, tickVars, queueVars, profileVars>>
  \/ tool = "plan" /\ PlanNext /\ UNCHANGED <<mutateVars, landVars, tickVars, queueVars, profileVars>>
  \/ tool = "tick" /\ TickNext /\ UNCHANGED <<mutateVars, landVars, planVars, queueVars, profileVars>>
  \/ tool = "queue" /\ QueueNext /\ UNCHANGED <<mutateVars, landVars, planVars, tickVars, profileVars>>
  \/ tool = "profile" /\ ProfileTool /\ UNCHANGED <<mutateVars, landVars, planVars, tickVars, queueVars>>

Next ==
  /\ UNCHANGED tool
  /\ \/ BenchNext /\ UNCHANGED <<watchVars, refreshVars, campVars, agentVars>>
     \/ tool = "watch" /\ WatchNext /\ UNCHANGED <<benchVars, refreshVars, campVars, agentVars>>
     \/ tool = "refresh" /\ RefreshNext /\ UNCHANGED <<benchVars, watchVars, campVars, agentVars>>
     \/ tool = "campaign" /\ CampNext /\ UNCHANGED <<benchVars, watchVars, refreshVars, agentVars>>
     \/ tool = "agent" /\ AgentNext /\ UNCHANGED <<benchVars, watchVars, refreshVars, campVars>>

Spec == Init /\ [][Next]_vars

\* What a tool has recorded it does not write again: receipts merged into the
\* checkout, records of a profile, bodies of adopted beads, outcomes and traces
\* of campaigns.  And an export goes only with its results copied or given up.
WrittenOnce == [][KeepsResults /\ KeepsRecords /\ KeepsBodies /\ KeepsOutcomes]_vars
=============================================================================
