----------------------------- MODULE OmpRefresh -----------------------------
(***************************************************************************)
(* ompupdate.py: after an update of omp, launchd (or somebody) runs `omp   *)
(* refresh`, which captures what omp sends now and lets a feature's proof  *)
(* stand only if neither its requests nor its module changed.              *)
(*                                                                         *)
(* Abstractions.  A capture is two legs, the RPC session (find) and the    *)
(* interactive turn (title); the session's other features go like find.    *)
(* What a version sends, normalised, and its modules are constants.  An    *)
(* install replaces the entry and the modules, each at some moment, and    *)
(* touches the package more often than once in the quiet period.           *)
(***************************************************************************)
EXTENDS Job

CONSTANTS Build,   \* the versions, 0 is the first
          Sends,      \* [feature, version] -> the normalised shape
          Module      \* [feature, version] -> the hash of its module

Feature == {"find", "title"}
ASSUME RefreshAssumption ==
  /\ 0 \in Build /\ Build \subseteq Nat
  /\ Nil \notin [to : Build, left : SUBSET {"entry", "modules"}]

VARIABLES entry,     \* the version of the installed entry
          modules,   \* the version of the installed modules
          putting,   \* what the running install has still to replace, Nil if none runs
          still,     \* the package did not change for the quiet period
          baseline,  \* the stored capture: Nil or [shapes, modules]
          outcome,   \* the last report: Nil or feature -> status
          moved      \* history: an install ran since this attempt began

refreshVars == <<entry, modules, putting, still, baseline, outcome, moved>>


RefreshInit ==
  /\ entry = 0 /\ modules = 0 /\ putting = Nil /\ still = TRUE /\ baseline = Nil /\ outcome = Nil
  /\ moved = FALSE

RefreshTypeOK ==
  /\ entry \in Build /\ modules \in Build /\ still \in BOOLEAN /\ moved \in BOOLEAN
  /\ outcome = Nil \/ outcome \in [Feature -> {"NEW", "CARRIED", "STALE"}]

\* The job launchd runs for a change of package.json, or a command.
RefreshBegin ==
  /\ Begin([pc |-> "settle", attempt |-> 1, first |-> 0, child |-> Nil, requests |-> <<>>, shas |-> Nil])
  /\ outcome' = Nil /\ UNCHANGED <<entry, modules, putting, still, baseline, moved>>

Refreshing(pc) == At("refresh", pc)

\* Mutant of Settled: package.json is there, that is enough.
MutSettled == TRUE

\* _settle_package: neither the package nor its package.json changed lately.
Settled == still

\* Then the version and the hash of the entry are read.
Settle ==
  /\ Refreshing("settle")
  /\ \/ Settled /\ Goto("rpc") /\ moved' = FALSE
     \/ Stops /\ UNCHANGED moved
  /\ UNCHANGED <<entry, modules, putting, still, baseline, outcome>>

(***************************************************************************)
(* run_capture.                                                            *)
(***************************************************************************)
\* A leg starts omp, which runs the installed entry and talks to the mock.
LegStart ==
  /\ Refreshing("rpc") \/ Refreshing("pty")
  /\ job' = [job EXCEPT !.child = job.pc, !.pc = "talk",
               !.first = IF job.pc = "rpc" THEN Len(job.requests) ELSE @]
  /\ UNCHANGED <<used, refreshVars>>

\* omp sends the leg's requests; before or after them it may fall silent, end
\* or miss what the leg waits for.
Talk(leg, f) ==
  /\ Refreshing("talk") /\ job.child = leg
  /\ LET sent == Append(job.requests, [of |-> f, shape |-> Sends[<<f, entry>>]])
     IN \/ Set("requests", sent, "quit")
        \/ /\ Upset
           /\ \E rs \in {job.requests, sent}, pc \in {"again", "broken"} :
                job' = [job EXCEPT !.requests = rs, !.pc = pc]
  /\ UNCHANGED refreshVars

TalkRpc == Talk("rpc", "find")
TalkTitle == Talk("pty", "title")

Quit(leg, next) ==
  /\ job # Nil /\ job.pc \in {"quit", "again", "broken"} /\ job.child = leg
  /\ job' = [job EXCEPT !.child = Nil,
               !.pc = CASE job.pc = "quit" -> next [] job.pc = "again" -> "retry" [] OTHER -> "failed"]

\* The child is closed and reaped whatever happened; an interactive one by
\* /quit, SIGTERM and SIGKILL, and one that outlives these ends the refresh.
QuitRpc == tool = "refresh" /\ Quit("rpc", "pty") /\ UNCHANGED <<used, refreshVars>>
QuitTitle ==
  /\ In("refresh")
  /\ \/ Quit("pty", "modules") /\ UNCHANGED used
     \/ job.child = "pty" /\ job.pc \in {"quit", "again", "broken"} /\ Fails("failed")
  /\ UNCHANGED refreshVars

\* One retry from scratch, for what may have been the transport.
Retry ==
  /\ Refreshing("retry")
  /\ IF job.attempt = 1
     THEN /\ job' = [job EXCEPT !.attempt = 2, !.pc = "rpc"] /\ UNCHANGED used
          /\ moved' = (putting # Nil) /\ UNCHANGED <<entry, modules, putting, still, baseline, outcome>>
     ELSE Goto("failed") /\ UNCHANGED refreshVars

ReadModules ==
  /\ Refreshing("modules")
  /\ Set("shas", [f \in Feature |-> Module[<<f, modules>>]], "compare")
  /\ UNCHANGED refreshVars

RefreshFails ==
  /\ Refreshing("failed") /\ Finish
  /\ UNCHANGED refreshVars

(***************************************************************************)
(* The comparison.                                                         *)
(***************************************************************************)
\* The records since the attempt began.
Slice == SubSeq(job.requests, job.first + 1, Len(job.requests))

Captured == [f \in Feature |-> {Slice[i].shape : i \in {j \in 1..Len(Slice) : Slice[j].of = f}}]

Carried(f) == Captured[f] = baseline.shapes[f] /\ job.shas[f] = baseline.modules[f]

\* write_baseline: what was captured, in one atomic file.
Baseline == [shapes |-> Captured, modules |-> job.shas]

\* The first refresh writes the baseline; nothing ever replaces it.
Compare ==
  /\ Refreshing("compare")
  /\ IF baseline = Nil
     THEN /\ baseline' = Baseline
          /\ outcome' = [f \in Feature |-> "NEW"]
     ELSE /\ outcome' = [f \in Feature |-> IF Carried(f) THEN "CARRIED" ELSE "STALE"]
          /\ UNCHANGED baseline
  /\ job' = [job EXCEPT !.pc = "reported"] /\ UNCHANGED used
  /\ UNCHANGED <<entry, modules, putting, still, moved>>

\* cmd_omp tells; a kill ends it anywhere.
Report == Refreshing("reported") /\ Finish /\ UNCHANGED refreshVars
RefreshKill == In("refresh") /\ Stops /\ UNCHANGED refreshVars

\* An install replaces the modules and the entry; WatchPaths sees package.json.
Install ==
  \/ /\ putting = Nil /\ ByOthers
     /\ \E v \in Build \ {entry} : putting' = [to |-> v, left |-> {"entry", "modules"}]
     /\ still' = FALSE
     /\ UNCHANGED <<job, entry, modules, moved>>
  \/ /\ putting # Nil
     /\ \E part \in putting.left :
          /\ putting' = IF putting.left = {part} THEN Nil ELSE [putting EXCEPT !.left = @ \ {part}]
          /\ entry' = IF part = "entry" THEN putting.to ELSE entry
          /\ modules' = IF part = "modules" THEN putting.to ELSE modules
     /\ still' = FALSE /\ moved' = TRUE
     /\ UNCHANGED jobVars

RefreshWorld ==
  \/ Install /\ UNCHANGED <<baseline, outcome>>
  \/ putting = Nil /\ ~still /\ still' = TRUE
     /\ UNCHANGED <<jobVars, entry, modules, putting, baseline, outcome, moved>>

RefreshNext ==
  \/ RefreshBegin \/ Settle \/ LegStart \/ TalkRpc \/ TalkTitle \/ QuitRpc \/ QuitTitle \/ Retry \/ ReadModules \/ RefreshFails \/ Compare
  \/ Report \/ RefreshKill \/ RefreshWorld

(***************************************************************************)
(* Properties.                                                             *)
(***************************************************************************)
Installed(v) == [shapes |-> [f \in Feature |-> {Sends[<<f, v>>]}], modules |-> [f \in Feature |-> Module[<<f, v>>]]]

\* A baseline is one version's, and a proof is carried exactly when the version
\* installed sends what the baseline's sent and has its module, though the
\* refresh may have begun in the middle of an install and its first attempt may
\* have run another version: unless the attempt that counted was overtaken by an
\* install, or was a retry begun within one (only the first attempt waits).
CarriedIsSame ==
  At("refresh", "reported") /\ ~moved =>
    /\ entry = modules
    /\ \A f \in Feature :
         CASE outcome[f] = "NEW" -> baseline = Installed(entry)
           [] OTHER -> outcome[f] = "CARRIED" <=> ( /\ Installed(entry).shapes[f] = baseline.shapes[f]
                                                   /\ Installed(entry).modules[f] = baseline.modules[f])
=============================================================================
