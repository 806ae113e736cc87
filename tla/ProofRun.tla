------------------------------ MODULE ProofRun ------------------------------
(***************************************************************************)
(* prove.py and features.grade: a committed proof spec is run, candidate   *)
(* by candidate, each receipt is banked and graded against what is         *)
(* installed, and the beads of the proven routes are closed.               *)
(*                                                                         *)
(* Abstractions.  A decision candidate is a run of module DecisionTier.    *)
(* Outputs of a generation and legs of a memory proof are one choice of    *)
(* problems and comparison.  A route's bead is its exact title.  The omp   *)
(* module, the profile's incumbent route and the model digests are         *)
(* versions that others move on.                                           *)
(***************************************************************************)
EXTENDS DecisionTier

CONSTANT ProofSpec      \* the proof specs: kind, stage and candidate routes

Routes == Model \cup {Laya}

ASSUME ProofAssumption ==
  \A s \in ProofSpec : /\ s.kind \in {"decision", "generation", "memory"} /\ s.stage \in {"proof", "screen"}
                       /\ s.cands \in Seq(Routes) \ {<<>>}

VARIABLES omp,         \* the version of the feature's module in the installed omp
          incumbent,   \* the version of the profile's incumbent route
          beadOf,      \* route -> "open" or "closed"
          ledger,      \* digests with a REJECT row in the ledger of screens
          closings     \* history: the beads a proof closed, with what it went by

proofVars == <<decisionVars, omp, incumbent, beadOf, ledger, closings>>
worldVars == <<omp, incumbent, beadOf, ledger, closings>>

ProofInit ==
  /\ DecisionInit
  /\ omp = 0 /\ incumbent = 0 /\ closings = {}
  /\ ledger \in IF tool = "decide" THEN SUBSET {0} ELSE {{}}
  /\ beadOf = [r \in Routes |-> "open"]

ProofTypeOK ==
  /\ DecisionTypeOK
  /\ omp \in 0..MaxEdit /\ incumbent \in 0..MaxEdit /\ ledger \subseteq 0..MaxEdit
  /\ beadOf \in [Routes -> {"open", "closed"}]
  /\ \A c \in closings : c.route \in Routes /\ c.at \in DOMAIN receipts

Proving(pc) == Deciding(pc) /\ job.cmd = "prove"
Current == [sha |-> omp, base |-> incumbent, digest |-> digest]
Ollamas == {job.cands[i] : i \in DOMAIN job.cands} \ {Laya}

(***************************************************************************)
(* The start: a clean tree, a committed spec, no blocked one.              *)
(***************************************************************************)
ProofBegin ==
  /\ \E spec \in ProofSpec :
       Begin([Fresh(spec.cands[1]) EXCEPT !.cmd = "prove", !.pc = "admit", !.kind = spec.kind, !.stage = spec.stage,
                                          !.cands = spec.cands])
  /\ UNCHANGED proofVars

\* _refuse_rejected_screen: a screen already rejected at the installed digest.
Rejected == job.stage = "screen" /\ digest \in ledger /\ Ollamas # {}

Opening == CASE job.kind = "decision" -> "preflight" [] job.kind = "generation" -> "replay" [] OTHER -> "legs"

\* A retry names the ledger's row.  A dirty tree, a spec changed since its
\* commit, a blocked one or another suite on disk refuse too.
ProofAdmit ==
  /\ Proving("admit")
  /\ \/ \E retry \in BOOLEAN : IF Rejected /\ ~retry THEN Finish ELSE Goto(Opening)
     \/ Finish
  /\ UNCHANGED proofVars

(***************************************************************************)
(* Decision candidates.                                                    *)
(***************************************************************************)
\* What a candidate needs of the residents read once for all of them; /api/show is
\* taken to answer where /api/ps just did.
FitsBeside(m) ==
  /\ Shipped[m] = Nil \/ Shipped[m] >= Required
  /\ IF runner[m] = Nil THEN Cardinality(Resident) < Cap
     ELSE IF Shipped[m] = Nil THEN runner[m] >= Required ELSE runner[m] = Shipped[m]

ProofPreflight ==
  /\ Proving("preflight")
  /\ IF \A m \in Ollamas : FitsBeside(m) THEN Set("initial", runner, "next") ELSE Finish
  /\ UNCHANGED proofVars

\* The module's sha is read as the run starts.
NextCandidate ==
  /\ Proving("next")
  /\ IF job.i > Len(job.cands) THEN Goto("beads")
     ELSE IF job.kind # "decision" THEN Goto("entry")
     ELSE /\ UNCHANGED used
          /\ \E again \in BOOLEAN :
               job' = [Fresh(job.cands[job.i]) EXCEPT !.cmd = "prove", !.sha = omp, !.repeats = again, !.stage = job.stage,
                         !.kind = job.kind, !.cands = job.cands, !.i = job.i, !.initial = job.initial, !.ctx = job.ctx,
                         !.outcomes = job.outcomes, !.listed = job.listed]
  /\ UNCHANGED proofVars

OwnAction == IF job.receipt = Nil THEN Nil ELSE job.action

\* Only a runner the proof loaded, and only one that nobody uses.
MayUnload == OwnAction \in {"loaded", "reloaded"} /\ Of \notin calling

\* _release_proof_ollama_candidate runs whether the candidate's run went well or not.
ProofRelease ==
  /\ In("decide") /\ job.pc \in {"ran", "refused"} /\ job.cmd = "prove"
  /\ IF Of = Laya THEN IF job.receipt = Nil THEN Finish ELSE Goto("judge")
     ELSE IF job.initial[Of] = Nil /\ runner[Of] # Nil
     THEN IF MayUnload THEN Goto("unload") ELSE Finish
     ELSE Goto("compare")
  /\ UNCHANGED proofVars

\* The unload, or the reading of the residents after it, may fail.
ProofUnload ==
  /\ Proving("unload")
  /\ \/ Goto("compare") /\ runner' = [runner EXCEPT ![Of] = Nil]
     \/ Stops /\ runner' \in {runner, [runner EXCEPT ![Of] = Nil]}
  /\ UNCHANGED <<calling, shim, digest, receipts, worldVars>>

\* The residents must be what they were, or the proof fails with nothing banked.
ProofCompare ==
  /\ Proving("compare")
  /\ IF runner = job.initial /\ job.receipt # Nil THEN Goto("judge") ELSE Finish
  /\ UNCHANGED proofVars

(***************************************************************************)
(* Receipts and grades.                                                    *)
(***************************************************************************)
Bank(receipt, pc) == receipts' = Append(receipts, receipt) /\ Goto(pc)

\* _evaluate and the error rates go to the report and the screen's verdict,
\* not to the receipt's problems.
ProofJudge ==
  /\ Proving("judge") /\ Bank(job.receipt, "grade")
  /\ UNCHANGED <<ollamaVars, shim, digest, worldVars>>

\* generation: the context it grades in is read before the outputs are made;
\* memory: the module is read once the legs are there.
ProofContext ==
  /\ Proving("replay") \/ Proving("legs")
  /\ Set("ctx", Current, "next")
  /\ UNCHANGED proofVars

Entry(ok, better, base) ==
  [of |-> job.cands[job.i], digest |-> job.ctx.digest, problems |-> ~ok, fit |-> TRUE, base |-> base,
   compare |-> IF better THEN "BETTER" ELSE "NOT_BETTER", stage |-> job.stage, sha |-> job.ctx.sha]

\* A generation's failed assertions are problems of the receipt; a comparison
\* of memories that is not BETTER is one too.
BankEntry ==
  /\ Proving("entry")
  /\ \E ok \in BOOLEAN : Bank(Entry(ok, ok, job.ctx.base), "grade")
  /\ UNCHANGED <<ollamaVars, shim, digest, worldVars>>

\* Mutant of Grade: the stage of the proof spec is not looked at.
MutGrade(r, c) ==
  IF r.sha # c.sha THEN "STALE"
  ELSE IF r.problems \/ r.compare # "BETTER" THEN "BAD"
  ELSE IF r.base # c.base \/ r.digest # c.digest THEN "UNPROVEN"
  ELSE "PROVEN"

\* features.grade: the first condition that fails is the status.
Grade(r, c) ==
  IF r.sha # c.sha THEN "STALE"
  ELSE IF r.problems \/ r.compare # "BETTER" THEN "BAD"
  ELSE IF r.stage # "proof" \/ r.base # c.base \/ r.digest # c.digest THEN "UNPROVEN"
  ELSE "PROVEN"

\* A generation is graded in the context read at its start, the others in the present one.
GradeIn == IF job.kind = "generation" THEN job.ctx ELSE Current

ProofGrade ==
  /\ Proving("grade")
  /\ job' = [job EXCEPT !.i = @ + 1, !.pc = "next",
               !.outcomes = Append(@, [route |-> job.cands[job.i], at |-> Len(receipts),
                                       grade |-> Grade(receipts[Len(receipts)], GradeIn),
                                       screen |-> job.kind = "decision" /\ job.stage = "screen"])]
  /\ UNCHANGED <<used, proofVars>>

(***************************************************************************)
(* The beads, once every candidate has run.                                *)
(***************************************************************************)
ListBeads ==
  /\ Proving("beads")
  /\ Set("listed", {r \in Routes : beadOf[r] = "open"}, "update")
  /\ UNCHANGED proofVars

\* update_beads: a proven route that is no screen; any other is commented on.
Closes(o) == o.grade = "PROVEN" /\ ~o.screen

\* An outcome without a listed bead is reported missing; br may fail.
UpdateBead ==
  /\ Proving("update") /\ job.outcomes # <<>>
  /\ LET o == Head(job.outcomes)
     IN \/ /\ job' = [job EXCEPT !.outcomes = Tail(@)] /\ UNCHANGED used
           /\ IF o.route \in job.listed /\ Closes(o)
              THEN /\ beadOf' = [beadOf EXCEPT ![o.route] = "closed"]
                   /\ closings' = closings \cup {[route |-> o.route, at |-> o.at]}
              ELSE UNCHANGED <<beadOf, closings>>
        \/ o.route \in job.listed /\ Stops /\ UNCHANGED <<beadOf, closings>>
  /\ UNCHANGED <<decisionVars, omp, incumbent, ledger>>

ProofDone == Proving("update") /\ job.outcomes = <<>> /\ Finish /\ UNCHANGED proofVars

(***************************************************************************)
(* The people beside it.                                                   *)
(***************************************************************************)
\* omp is updated, a preset is applied, a bead is closed or reopened by hand.
ProofOthers ==
  /\ ByOthers /\ UNCHANGED job
  /\ \/ omp' = omp + 1 /\ UNCHANGED <<incumbent, beadOf>>
     \/ incumbent' = incumbent + 1 /\ UNCHANGED <<omp, beadOf>>
     \/ \E r \in Routes : /\ beadOf' = [beadOf EXCEPT ![r] = IF @ = "open" THEN "closed" ELSE "open"]
                          /\ UNCHANGED <<omp, incumbent>>
  /\ UNCHANGED <<decisionVars, ledger, closings>>

ProofNext ==
  \/ DecisionNext /\ UNCHANGED worldVars
  \/ ProofBegin \/ ProofAdmit \/ ProofPreflight \/ NextCandidate \/ ProofRelease \/ ProofUnload \/ ProofCompare
  \/ ProofJudge \/ ProofContext \/ BankEntry \/ ProofGrade \/ ListBeads \/ UpdateBead \/ ProofDone \/ ProofOthers

(***************************************************************************)
(* Properties.                                                             *)
(***************************************************************************)
\* A bead that a proof closed has a banked receipt of its own route, from a run
\* at stage proof, without problems and better than what it was compared with.
ClosedIsProven ==
  \A c \in closings :
    LET r == receipts[c.at]
    IN r.of = c.route /\ r.stage = "proof" /\ ~r.problems /\ r.compare = "BETTER"

\* What was banked as clean fitted, and what closed a bead was banked.
ReceiptsStand == CleanRunsFit /\ ClosedIsProven
=============================================================================
