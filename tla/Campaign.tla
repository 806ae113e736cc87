------------------------------ MODULE Campaign ------------------------------
(***************************************************************************)
(* evaluation.py and the eval commands: campaigns of cases measured once,  *)
(* under one identity, whose recorded traces are scored again at will.     *)
(*                                                                         *)
(* Abstractions.  The identity is the pins that pin_diff compares, the     *)
(* others (omp's version and sha), the sources on disk and, in a varied    *)
(* campaign, the version of the grader in its specs.  A command grades     *)
(* with the code it loaded; a trace is what each version of the grader     *)
(* makes of it, so a grader that changes keeps its version no more than    *)
(* its text.  mkdir and the manifest, and the two directories after it,    *)
(* are two steps.  The heavy slot that eval run and not eval varied takes  *)
(* is a guard.  Pins only move forward: one that moves and moves back      *)
(* within a trial is not seen.                                             *)
(***************************************************************************)
EXTENDS Job

CONSTANTS Runner,      \* processes that run eval commands
          CaseList,    \* the cases, in the order they run
          CaseGrader,  \* source version -> the version of its grader
          CaseTrace    \* the traces a trial can leave, each by what every grader makes of it

Case == {CaseList[i] : i \in DOMAIN CaseList}
Profile == {"e2e", "varied"}
Graded == {"PASS", "FAIL"}
CaseStatus == Graded \cup {"VOID", "ERROR"}

Grader == {CaseGrader[v] : v \in DOMAIN CaseGrader}

\* The row of a case: its status, what each grader makes of its trace, whether
\* that still has the hash of the row, and (history) the pins it was measured under.
CaseRow == [status : CaseStatus, trace : CaseTrace, intact : BOOLEAN, under : SUBSET {0, 1}]

ASSUME CampaignAssumption ==
  /\ CaseList \in Seq(Case)
  /\ 0 \in DOMAIN CaseGrader /\ CaseTrace \subseteq [Grader -> Graded] /\ CaseTrace # {}
  /\ Nil \notin CaseRow

VARIABLES camps,       \* the campaign directories, in the order they were made
          runners,     \* runner -> its command with its locals, or NoEval
          world,       \* the pins compared, the others, the sources on disk
          attempts     \* history: [campaign, case] -> trials begun

campVars == <<camps, runners, world, attempts>>

NoEval == [pc |-> "none"]

CampInit ==
  /\ camps = <<>> /\ runners = [r \in Runner |-> NoEval]
  /\ world = [pins |-> 0, omp |-> 0, source |-> 0] /\ attempts = [x \in {} |-> 0]

CampTypeOK ==
  /\ \A i \in DOMAIN camps :
       /\ camps[i].profile \in Profile /\ camps[i].stage \in {"dir", "manifest", "ready"}
       /\ camps[i].rows \in [Case -> {Nil} \cup CaseRow] /\ camps[i].id.specs \in Grader
  /\ \A r \in Runner : runners[r] # NoEval => runners[r].on \in 0..Len(camps)
  /\ world.source \in DOMAIN CaseGrader

RunnerAt(r, pc) == runners[r].pc = pc
RunnerDo(r, c) == runners' = [runners EXCEPT ![r] = c]
RunnerGoto(r, pc) == RunnerDo(r, [runners[r] EXCEPT !.pc = pc])
RunnerEnds(r) == RunnerDo(r, NoEval)
Mine(r) == camps[runners[r].on]
Store(r, f, v) == camps' = [camps EXCEPT ![runners[r].on][f] = v]
StillCamp == UNCHANGED <<camps, world, attempts>>
StillJob == UNCHANGED <<job, used>>

SlotHeld == \E r \in Runner : runners[r] # NoEval /\ runners[r].profile = "e2e"

\* What r makes of a trace: the command grades with the code it loaded.
GraderOf(r) == CaseGrader[runners[r].code]

\* The identity of a campaign, as the command reads it with its backend open.
Identity(r) == [pins |-> world.pins, omp |-> world.omp, source |-> world.source, specs |-> GraderOf(r)]

\* eval run and eval varied, new or with --resume, and eval rescore.  Another
\* eval run keeps the first out.
EvalBegin(r) ==
  /\ runners[r] = NoEval /\ used.run < MaxRun /\ Count("run") /\ UNCHANGED job
  /\ \E profile \in Profile, on \in 0..Len(camps) :
       /\ profile = "e2e" => ~SlotHeld
       /\ RunnerDo(r, [pc |-> IF on = 0 THEN "create" ELSE "open", profile |-> profile, on |-> on,
                       code |-> world.source, nr |-> 1, leg |-> Nil, row |-> Nil, doc |-> Nil])
  /\ StillCamp

RescoreBegin(r) ==
  /\ runners[r] = NoEval /\ used.run < MaxRun /\ Count("run") /\ UNCHANGED job
  /\ \E on \in DOMAIN camps :
       /\ camps[on].stage = "ready"
       /\ RunnerDo(r, [pc |-> "score", profile |-> "rescore", on |-> on, code |-> world.source, nr |-> 0,
                       leg |-> Nil, row |-> Nil, doc |-> Nil])
  /\ StillCamp

\* EvaluationCampaign.create: a directory of a new name, then the manifest, then
\* the directories of rows and scores.  A cut creation stays as it is.
Create(r) ==
  /\ \/ /\ RunnerAt(r, "create")
        /\ camps' = Append(camps, [profile |-> runners[r].profile, stage |-> "dir", id |-> Identity(r),
                                   rows |-> [c \in Case |-> Nil], tried |-> {}, scores |-> <<>>])
        /\ RunnerDo(r, [runners[r] EXCEPT !.pc = "manifest", !.on = Len(camps) + 1])
     \/ RunnerAt(r, "manifest") /\ Store(r, "stage", "manifest") /\ RunnerGoto(r, "dirs")
     \/ RunnerAt(r, "dirs") /\ Store(r, "stage", "ready") /\ RunnerGoto(r, "next")
  /\ StillJob /\ UNCHANGED <<world, attempts>>

\* EvaluationCampaign.open: whole, and of the same identity and profile.  The
\* specs, and so the grader, are compared by eval varied alone.
Opens(r) ==
  /\ Mine(r).stage = "ready" /\ Mine(r).profile = runners[r].profile
  /\ LET id == IF runners[r].profile = "varied" THEN Identity(r) ELSE [Identity(r) EXCEPT !.specs = Mine(r).id.specs]
     IN Mine(r).id = id

Resume(r) ==
  /\ RunnerAt(r, "open")
  /\ IF Opens(r) THEN RunnerGoto(r, "next") ELSE RunnerEnds(r)
  /\ StillJob /\ StillCamp

Current(r) == CaseList[runners[r].nr]

\* Mutant of Claims: an attempt that left no row may be made again.
MutClaims(r) == TRUE

\* The run directory of a varied trial is made once, whoever makes it; eval run
\* makes another at every attempt.
Claims(r) == runners[r].profile = "varied" => Current(r) \notin Mine(r).tried

NextCase(r) ==
  /\ RunnerAt(r, "next")
  /\ IF runners[r].nr > Len(CaseList)
     THEN RunnerGoto(r, "score") /\ UNCHANGED <<camps, attempts>>
     ELSE LET c == Current(r)
              row == Mine(r).rows[c]
          \* completed_case: the row, provided that its traces hash to what it recorded
          IN CASE row # Nil -> /\ IF row.intact THEN RunnerDo(r, [runners[r] EXCEPT !.nr = @ + 1])
                                                 ELSE RunnerEnds(r)
                               /\ UNCHANGED <<camps, attempts>>
               [] row = Nil /\ ~Claims(r) -> RunnerEnds(r) /\ UNCHANGED <<camps, attempts>>
               [] OTHER ->
                    /\ Store(r, "tried", Mine(r).tried \cup {c})
                    /\ LET x == <<runners[r].on, c>>
                       IN attempts' = Put(attempts, x, 1 + IF x \in DOMAIN attempts THEN attempts[x] ELSE 0)
                    /\ RunnerGoto(r, "start")
  /\ StillJob /\ UNCHANGED world

\* preflight waits, the model is isolated, and the leg begins: execute reads the
\* pins it will compare with here, a varied trial keeps those of its campaign,
\* which the command itself has read or compared.
LegBegins(r) ==
  /\ RunnerAt(r, "start")
  /\ RunnerDo(r, [runners[r] EXCEPT !.pc = "trial",
       !.leg = [pins |-> IF runners[r].profile = "varied" THEN Mine(r).id.pins ELSE world.pins,
                under |-> {world.pins}]])
  /\ StillJob /\ StillCamp

\* Mutant of Moved: the trial's pins are taken for the campaign's.
MutMoved(r) == FALSE

\* pin_diff over PIN_KEYS: an omp that moved is no difference.
Moved(r) == runners[r].leg.pins # world.pins

\* The trace of a void case or an error, which nobody grades again.
Ungraded == CHOOSE did \in CaseTrace : TRUE

\* The trial ends with what omp did, or with contention, or nothing was sent, or
\* (eval run) its watchdog aborts it, which ends the command.
Trial(r) ==
  /\ RunnerAt(r, "trial")
  /\ \/ /\ \E did \in CaseTrace :
             RunnerDo(r, [runners[r] EXCEPT !.pc = "record",
               !.row = [status |-> IF Moved(r) THEN "VOID" ELSE did[GraderOf(r)], trace |-> did, intact |-> TRUE,
                        under |-> runners[r].leg.under]])
        /\ StillJob
     \/ /\ Upset /\ UNCHANGED job
        /\ \/ \E s \in {"VOID", "ERROR"} :
                RunnerDo(r, [runners[r] EXCEPT !.pc = "record",
                  !.row = [status |-> s, trace |-> Ungraded, intact |-> TRUE, under |-> runners[r].leg.under]])
           \/ runners[r].profile = "e2e" /\ RunnerEnds(r)
  /\ StillCamp

\* record_case: refused if there is a row, then one atomic file.
RecordCheck(r) ==
  /\ RunnerAt(r, "record")
  /\ IF Mine(r).rows[Current(r)] = Nil THEN RunnerGoto(r, "recording") ELSE RunnerEnds(r)
  /\ StillJob /\ StillCamp

RecordWrite(r) ==
  /\ RunnerAt(r, "recording")
  /\ Store(r, "rows", [Mine(r).rows EXCEPT ![Current(r)] = runners[r].row])
  /\ RunnerDo(r, [runners[r] EXCEPT !.pc = "next", !.nr = @ + 1, !.row = Nil, !.leg = Nil])
  /\ StillJob /\ UNCHANGED <<world, attempts>>

\* A case's score by grader g: a void or an error as recorded, otherwise graded
\* again from its trace.
CaseScore(row, g) ==
  IF row = Nil THEN "INCOMPLETE" ELSE IF row.status \in Graded THEN row.trace[g] ELSE row.status

Overall(scores) ==
  CASE \E c \in Case : scores[c] = "INCOMPLETE" -> "INCOMPLETE"
    [] \A c \in Case : scores[c] = "PASS" -> "PASS"
    [] \E c \in Case : scores[c] \in {"FAIL", "ERROR"} -> "FAIL"
    [] OTHER -> "VOID"

\* _evaluation_score and _evaluation_score_varied: nothing is scored if a trace
\* changed, or if the specs were made for another grader.
Score(r) ==
  /\ RunnerAt(r, "score")
  /\ LET rows == Mine(r).rows
         scores == [c \in Case |-> CaseScore(rows[c], GraderOf(r))]
     IN IF /\ \A c \in Case : rows[c] # Nil => rows[c].intact
           /\ Mine(r).profile = "varied" => Mine(r).id.specs = GraderOf(r)
        THEN RunnerDo(r, [runners[r] EXCEPT !.pc = "look", !.doc = [status |-> Overall(scores), scorer |-> Nil]])
        ELSE RunnerEnds(r)
  /\ StillJob /\ StillCamp

\* write_scores looks for the file of this scorer: the hash of the sources as
\* they are on disk now, whichever the command graded with.  A file that is
\* there stays, its text the same (done) or another (an error).
LookForScore(r) ==
  /\ RunnerAt(r, "look")
  /\ IF world.source \in DOMAIN Mine(r).scores THEN RunnerEnds(r)
     ELSE RunnerDo(r, [runners[r] EXCEPT !.pc = "replace", !.doc.scorer = world.source])
  /\ StillJob /\ StillCamp

\* Then it replaces it.  scores[s] is (history) every text the file has had,
\* by its status.
WriteScores(r) ==
  /\ RunnerAt(r, "replace")
  /\ LET scores == Mine(r).scores
         s == runners[r].doc.scorer
     IN Store(r, "scores", Put(scores, s, {runners[r].doc.status} \cup IF s \in DOMAIN scores THEN scores[s] ELSE {}))
  /\ RunnerEnds(r) /\ StillJob /\ UNCHANGED <<world, attempts>>

EvalKill(r) ==
  /\ runners[r] # NoEval /\ Upset /\ UNCHANGED job
  /\ RunnerEnds(r) /\ StillCamp

\* A pin, omp or a source moves, or a trace file is changed.
CampWorld ==
  /\ ByOthers /\ UNCHANGED <<job, attempts>>
  /\ \/ /\ \/ world.pins = 0 /\ world' = [world EXCEPT !.pins = 1]
           \/ world.omp = 0 /\ world' = [world EXCEPT !.omp = 1]
           \/ world.source + 1 \in DOMAIN CaseGrader /\ world' = [world EXCEPT !.source = @ + 1]
        /\ runners' = [r \in Runner |->
             IF runners[r] = NoEval \/ runners[r].leg = Nil THEN runners[r]
             ELSE [runners[r] EXCEPT !.leg.under = @ \cup {world'.pins}]]
        /\ UNCHANGED camps
     \/ /\ \E i \in DOMAIN camps, c \in Case :
             camps[i].rows[c] # Nil /\ camps' = [camps EXCEPT ![i].rows[c].intact = FALSE]
        /\ UNCHANGED <<world, runners>>

CampNext ==
  \/ \E r \in Runner :
       \/ EvalBegin(r) \/ RescoreBegin(r) \/ Create(r) \/ Resume(r) \/ NextCase(r) \/ LegBegins(r) \/ Trial(r)
       \/ RecordCheck(r) \/ RecordWrite(r) \/ Score(r) \/ LookForScore(r) \/ WriteScores(r) \/ EvalKill(r)
  \/ CampWorld

(***************************************************************************)
(* Properties.                                                             *)
(***************************************************************************)
\* A varied case is tried once, however many commands run and resume its
\* campaign, at once or one after the other and cut anywhere: nobody can try
\* again until it passes.
TriedOnce == \A x \in DOMAIN attempts : camps[x[1]].profile = "varied" => attempts[x] <= 1

\* The outcome of a case and the trace it was hashed with, once recorded, stay,
\* though several commands may work on the campaign and record_case looks before
\* it writes.
KeepsOutcomes ==
  \A i \in DOMAIN camps : \A c \in Case : camps[i].rows[c] # Nil =>
    /\ camps'[i].rows[c] # Nil
    /\ <<camps'[i].rows[c].status, camps'[i].rows[c].trace>> = <<camps[i].rows[c].status, camps[i].rows[c].trace>>

\* What an eval varied graded was measured under the pins of its campaign that
\* pin_diff compares, from end to end, whatever moved before, between and after
\* its trials.
GradedUnderPins ==
  \A i \in DOMAIN camps : camps[i].profile = "varied" =>
    \A c \in Case : camps[i].rows[c] # Nil /\ camps[i].rows[c].status \in Graded =>
                      camps[i].rows[c].under = {camps[i].id.pins}

\* A score of PASS, whatever the sources moved to before it was made, stands on a
\* recorded outcome of each case: none was void, missing or an error, and in a
\* varied campaign each passed when it was measured.  An eval run's cases are
\* graded again by whatever grader makes the score.
PassIsRecorded ==
  \A i \in DOMAIN camps : \A s \in DOMAIN camps[i].scores : "PASS" \in camps[i].scores[s] =>
    \A c \in Case : /\ camps[i].rows[c] # Nil /\ camps[i].rows[c].status \in Graded
                    /\ camps[i].profile = "varied" => camps[i].rows[c].status = "PASS"

\* What a campaign tells: no second trial, pins that held, a score that its cases
\* support.
CampaignStands == TriedOnce /\ GradedUnderPins /\ PassIsRecorded

\* "completed campaign cases remain checkpointed under identical pins"
\* (__main__.py:3211-3212): what an eval run graded was measured under its
\* campaign's pins.  Each leg compares its end with its own beginning only.
RunUnderPins ==
  \A i \in DOMAIN camps : camps[i].profile = "e2e" =>
    \A c \in Case : camps[i].rows[c] # Nil /\ camps[i].rows[c].status \in Graded =>
                      camps[i].rows[c].under = {camps[i].id.pins}
=============================================================================
