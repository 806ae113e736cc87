---------------------------- MODULE DecisionTier ----------------------------
(***************************************************************************)
(* decision.py: a suite asked of a local model on the shared Ollama, whose *)
(* runner must first hold the context that the longest prompt needs, or of *)
(* a Laya shim started for the run; and `decision run`, which banks it.    *)
(*                                                                         *)
(* Abstractions.  A suite is one short and one long item; contexts are     *)
(* small numbers.  Outcomes, metrics, gates and the comparison are one     *)
(* choice of problems and verdict.  A call keeps its runner; Ollama evicts *)
(* an idle runner if it can.                                               *)
(***************************************************************************)
EXTENDS Job

CONSTANTS Model,       \* the models of Ollama
          Shipped,     \* model -> the num_ctx it ships, Nil if none
          Default,     \* the context Ollama gives otherwise
          Required,    \* the context the suite needs
          Cap          \* Ollama's loaded-model cap

ASSUME DecisionAssumption ==
  /\ Default \in Nat /\ Required \in Nat /\ Cap \in Nat \ {0}
  /\ \A m \in Model : Shipped[m] = Nil \/ Shipped[m] \in Nat

Laya == "laya"

VARIABLES runner,      \* model -> the context of its resident runner, Nil if none
          calling,     \* models with a call of somebody else in flight
          shim,        \* the Laya shim runs
          digest,      \* the version of every model's weights
          receipts     \* banked receipts, in order

decisionVars == <<runner, calling, shim, digest, receipts>>
ollamaVars == <<runner, calling>>

DecisionInit ==
  /\ \E R \in SUBSET Model :
       /\ Cardinality(R) < IF tool = "decide" THEN 2 ELSE 1
       /\ runner = [m \in Model |-> IF m \in R THEN Required ELSE Nil]
  /\ calling = {} /\ shim = FALSE /\ digest = 0 /\ receipts = <<>>

DecisionTypeOK ==
  /\ \A m \in Model : runner[m] = Nil \/ runner[m] \in {Default, Required} \cup {Shipped[x] : x \in Model}
  /\ calling \subseteq Model
  /\ shim \in BOOLEAN /\ digest \in 0..MaxEdit

Deciding(pc) == At("decide", pc)
Resident == {m \in Model : runner[m] # Nil}
Ship(m) == IF Shipped[m] = Nil THEN Default ELSE Shipped[m]

(***************************************************************************)
(* Ollama.                                                                 *)
(***************************************************************************)
IdleRunners == Resident \ calling

\* The runners that a load of m may cost: none below the cap, otherwise one.
Evictions(m) ==
  IF m \in Resident \/ Cardinality(Resident) < Cap THEN {{}}
  ELSE {{e} : e \in IF IdleRunners # {} THEN IdleRunners ELSE Resident}

LoadAt(m, ctx) ==
  \E out \in Evictions(m) :
    runner' = [x \in Model |-> CASE x = m -> ctx [] x \in out -> Nil [] OTHER -> runner[x]]

ClientCalls ==
  /\ ByOthers /\ UNCHANGED job
  /\ \E m \in Model \ calling :
       /\ IF m \in Resident THEN UNCHANGED runner
          ELSE (Cardinality(Resident) < Cap \/ IdleRunners # {}) /\ LoadAt(m, Ship(m))
       /\ calling' = calling \cup {m}
  /\ UNCHANGED digest

ClientEnds ==
  /\ \E m \in calling : calling' = calling \ {m}
  /\ UNCHANGED <<jobVars, runner, digest>>

\* A keep-alive runs out or somebody stops an idle model; or a model is pulled.
RunnerEnds ==
  /\ ByOthers /\ UNCHANGED job
  /\ \/ \E m \in IdleRunners : runner' = [runner EXCEPT ![m] = Nil] /\ UNCHANGED digest
     \/ digest' = digest + 1 /\ UNCHANGED runner
  /\ UNCHANGED calling

(***************************************************************************)
(* ensure_context.                                                         *)
(***************************************************************************)
Of == job.model
Want == IF job.ship # Nil /\ job.ship > Required THEN job.ship ELSE Required

\* The context that the items will ask for: the one shipped if there is one.
Usable(ctx) == ctx # Nil /\ IF job.ship = Nil THEN ctx >= Required ELSE ctx = job.ship

\* check_shipped_context: a model that ships too little is refused; the
\* question that is not answered reads as one that ships nothing.
AskShip ==
  /\ Deciding("look")
  /\ \/ IF Shipped[Of] # Nil /\ Shipped[Of] < Required THEN Goto("refused") ELSE Set("ship", Shipped[Of], "resident")
     \/ Upset /\ job' = [job EXCEPT !.pc = "resident"]
  /\ UNCHANGED decisionVars

\* The resident runners are read; Ollama may not answer.
Look ==
  /\ Deciding("resident")
  /\ \/ IF Usable(runner[Of])
        THEN job' = [job EXCEPT !.action = "resident", !.loaded = runner[Of], !.pc = "pins"] /\ UNCHANGED used
        ELSE Set("before", runner, "check")
     \/ Upset /\ job' = [job EXCEPT !.action = "unreachable", !.pc = "pins"]
  /\ UNCHANGED decisionVars

Before == {m \in Model : job.before[m] # Nil}
AtCap == Cardinality(Before) >= Cap

\* No resident seen to have users is put at risk, nor the model reloaded under one.
MayLoad(users) == IF Of \in Before THEN Of \notin users ELSE AtCap => Before \cap users = {} \/ job.evict

\* default_in_use: the gateway counts its calls per model, and any other client
\* connected to Ollama, idle or not, counts as a user of every model.  An lsof
\* and an ioreg that fail print nothing, which reads as no such client.
CheckUsers ==
  /\ Deciding("check")
  /\ \E users \in {calling, Model, {}} :
       /\ IF users # {} \/ calling = {} THEN UNCHANGED used ELSE Upset
       /\ job' = [job EXCEPT !.pc = IF MayLoad(users) THEN "load" ELSE "refused"]
  /\ UNCHANGED decisionVars

\* The load is asked for; Ollama may refuse or fail it.
Load ==
  /\ Deciding("load")
  /\ \/ LoadAt(Of, Want) /\ Goto("readback")
     \/ Fails("refused") /\ UNCHANGED runner
  /\ UNCHANGED <<calling, shim, digest, receipts>>

ReadBack ==
  /\ Deciding("readback")
  /\ IF runner[Of] = Nil \/ runner[Of] < Required THEN Goto("refused")
     ELSE /\ job' = [job EXCEPT !.loaded = runner[Of], !.pc = "pins",
               !.action = IF job.before[Of] = Nil THEN "loaded" ELSE "reloaded",
               !.evicted = {m \in Before : runner[m] = Nil} \ {Of}]
          /\ UNCHANGED used
  /\ UNCHANGED decisionVars

(***************************************************************************)
(* LayaShim, entered and left with the run.                                *)
(***************************************************************************)
ShimStart ==
  /\ Deciding("shim")
  /\ \/ shim' = TRUE /\ Goto("ready")
     \/ Fails("refused") /\ UNCHANGED shim
  /\ UNCHANGED <<ollamaVars, digest, receipts>>

\* It answers as the model asked for, or ends, or is not ready in time.
ShimReady ==
  /\ Deciding("ready") /\ (Goto("pins") \/ Fails("shimfail"))
  /\ UNCHANGED decisionVars

\* stop: SIGTERM, then SIGKILL, whatever happened.
StopsShim == job.pc \in {"shimdone", "shimfail"}

ShimStop ==
  /\ In("decide") /\ job.pc \in {"shimdone", "shimfail"}
  /\ shim' = (shim /\ ~StopsShim)
  /\ Goto(IF job.pc = "shimdone" THEN "ran" ELSE "refused")
  /\ UNCHANGED <<ollamaVars, digest, receipts>>

(***************************************************************************)
(* run_suite.                                                              *)
(***************************************************************************)
PinsBefore == Deciding("pins") /\ Set("digest", digest, "short") /\ UNCHANGED decisionVars

\* An item: Ollama loads the model as it ships if its runner is gone, and the
\* long prompt does not fit in a runner too small.  A shim cuts long states.
Ask(item, next) ==
  /\ Deciding(item)
  /\ IF job.model = Laya THEN Goto(next) /\ UNCHANGED runner
     ELSE LET ctx == IF Shipped[Of] # Nil \/ runner[Of] = Nil THEN Ship(Of) ELSE runner[Of]
          IN /\ IF runner[Of] = ctx THEN UNCHANGED runner
                ELSE /\ runner[Of] # Nil \/ Cardinality(Resident) < Cap \/ IdleRunners # {}
                     /\ LoadAt(Of, ctx)
             /\ job' = [job EXCEPT !.pc = next, !.fit = @ /\ (item = "long" => ctx >= Required)]
             /\ UNCHANGED used
  /\ UNCHANGED <<calling, shim, digest, receipts>>

\* With one repeat an interim look may end a run that will fail its gate.
AskShort == \/ Ask("short", "long")
            \/ job # Nil /\ ~job.repeats /\ Ask("short", "after")
AskLong == Ask("long", "after")

\* What makes a receipt no proof: outcomes that fail a MUST, moved pins or
\* context, an eviction.
Problems(ok) ==
  \/ ~ok \/ job.digest # digest \/ job.evicted # {} \/ ~job.fit
  \/ job.model # Laya /\ job.action # "unreachable" /\ runner[Of] # job.loaded

\* The receipt as run_suite returns it; it compares with another arm only if given one.
After ==
  /\ Deciding("after")
  /\ \E ok \in BOOLEAN :
       job' = [job EXCEPT !.pc = IF job.model = Laya THEN "shimdone" ELSE "ran",
                 !.receipt = [of |-> job.model, digest |-> job.digest, problems |-> Problems(ok), fit |-> job.fit,
                              compare |-> IF ~job.against THEN "NONE" ELSE IF ok THEN "BETTER" ELSE "WORSE",
                              stage |-> job.stage, sha |-> job.sha, base |-> "none"]]
  /\ UNCHANGED <<used, decisionVars>>

(***************************************************************************)
(* decision run.                                                           *)
(***************************************************************************)
\* The run of a model, alone or for a proof, which keeps beside it what it is
\* a proof of and what it has seen of its candidates so far.
Fresh(m) ==
  [cmd |-> "decision", model |-> m, pc |-> IF m = Laya THEN "shim" ELSE "look",
   evict |-> FALSE, against |-> FALSE, repeats |-> TRUE, stage |-> "none", sha |-> 0,
   ship |-> Nil, before |-> Nil, action |-> Nil, loaded |-> Nil, evicted |-> {}, digest |-> Nil, fit |-> TRUE, receipt |-> Nil,
   kind |-> "none", cands |-> <<>>, i |-> 1, initial |-> Nil, ctx |-> Nil, outcomes |-> <<>>, listed |-> {}]

DecisionBegin ==
  /\ \E m \in Model \cup {Laya}, evict \in BOOLEAN, against \in BOOLEAN :
       Begin([Fresh(m) EXCEPT !.evict = evict, !.against = against, !.repeats = against])
  /\ UNCHANGED decisionVars

\* Banked as it is, with its problems.
DecisionBanks ==
  /\ Deciding("ran") /\ job.cmd = "decision"
  /\ receipts' = Append(receipts, job.receipt) /\ Finish
  /\ UNCHANGED <<ollamaVars, shim, digest>>

\* A ContextError, or a shim that does not start: nothing is banked.
DecisionRefused ==
  /\ Deciding("refused") /\ job.cmd = "decision" /\ Finish
  /\ UNCHANGED decisionVars

\* A kill leaves the shim running; it has a session of its own.
DecisionKill == In("decide") /\ Stops /\ UNCHANGED decisionVars

OllamaWorld == (ClientCalls \/ ClientEnds \/ RunnerEnds) /\ UNCHANGED <<shim, receipts>>

DecisionNext ==
  \/ DecisionBegin \/ AskShip \/ Look \/ CheckUsers \/ Load \/ ReadBack \/ ShimStart \/ ShimReady \/ ShimStop
  \/ PinsBefore \/ AskShort \/ AskLong \/ After \/ DecisionBanks \/ DecisionRefused \/ DecisionKill \/ OllamaWorld

(***************************************************************************)
(* Properties.                                                             *)
(***************************************************************************)
\* A receipt without problems is of a run whose longest prompt fit its runner,
\* though others may have loaded, reloaded or dropped runners all along.
CleanRunsFit == \A i \in DOMAIN receipts : receipts[i].problems \/ receipts[i].fit
=============================================================================
