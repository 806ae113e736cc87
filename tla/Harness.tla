------------------------------ MODULE Harness ------------------------------
(***************************************************************************)
(* What measures, and what a measurement stands on: the machine made       *)
(* quiet, the frozen omp it runs, the legs and their sampler, the watchdog *)
(* of a run, the children a cancellation stops, and the decision runs and  *)
(* proofs on the shared Ollama.  Each behaviour is about one of them.      *)
(***************************************************************************)
EXTENDS Quiet, Children, Measure, RunWatch, OmpFreeze, ProofRun

vars == <<tool, jobVars, quietVars, childVars, measureVars, guardVars, freezeVars, proofVars>>

Init == JobInit /\ QuietInit /\ ChildInit /\ MeasureInit /\ RunWatchInit /\ FreezeInit /\ ProofInit

Next ==
  /\ UNCHANGED tool
  /\ \/ tool = "quiet" /\ QuietNext /\ UNCHANGED <<childVars, measureVars, guardVars, freezeVars, proofVars>>
     \/ tool = "cancel" /\ ChildNext /\ UNCHANGED <<quietVars, measureVars, guardVars, freezeVars, proofVars>>
     \/ tool = "measure" /\ MeasureNext /\ UNCHANGED <<quietVars, childVars, guardVars, freezeVars, proofVars>>
     \/ tool = "guard" /\ RunWatchNext /\ UNCHANGED <<quietVars, childVars, measureVars, freezeVars, proofVars>>
     \/ tool = "freeze" /\ FreezeNext /\ UNCHANGED <<quietVars, childVars, measureVars, guardVars, proofVars>>
     \/ tool = "decide" /\ ProofNext /\ UNCHANGED <<quietVars, childVars, measureVars, guardVars, freezeVars>>

Spec == Init /\ [][Next]_vars
=============================================================================
