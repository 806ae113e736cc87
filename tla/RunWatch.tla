------------------------------ MODULE RunWatch ------------------------------
(***************************************************************************)
(* client.py and watchdog.py in execute: the sampler thread looks at every *)
(* sample, and at the first that breaks an invariant of the run cancels    *)
(* what the main thread waits for, a streamed response or a child.         *)
(*                                                                         *)
(* Abstractions.  Whether the invariants hold (the expected model and no   *)
(* other resident, the GPU its own, the pinned omp installed, all of it    *)
(* readable) is one Boolean; isolation unloads the expected model.  What   *)
(* the tiers do is a sequence of streams, children and isolations.         *)
(***************************************************************************)
EXTENDS Job

CONSTANT Asks          \* how many things a run does

\* The places of the main thread.
AskPlace == {"next", "connect", "register", "interrupt", "read", "unregister", "final", "child", "isolate", "leave", "broken"}

ASSUME WatchAssumption == Asks \in Nat /\ Nil \notin [pc : AskPlace, n : Nat]

VARIABLES healthy,     \* a sample taken now breaks no invariant
          reason,      \* RequestCancellation._reason is set
          active,      \* RequestCancellation._response, by its number
          guard,       \* the sampler thread: its place, and the response it will interrupt
          aborted,     \* watchdog_state["reason"] is set
          conns,       \* number -> its connection or child
          sampled,     \* the numbers whose results the run has taken
          summary      \* the last run's summary: Nil or what it kept and whether it says aborted

guardVars == <<healthy, reason, active, guard, aborted, conns, sampled, summary>>

Number == 1..Asks
Watching == [pc |-> "sample", on |-> Nil]

RunWatchInit ==
  /\ healthy \in IF tool = "guard" THEN BOOLEAN ELSE {TRUE}
  /\ reason = FALSE /\ active = Nil /\ guard = Watching /\ aborted = FALSE
  /\ conns = [n \in Number |-> "none"] /\ sampled = {} /\ summary = Nil

RunWatchTypeOK ==
  /\ healthy \in BOOLEAN /\ reason \in BOOLEAN /\ aborted \in BOOLEAN
  /\ active \in Number \cup {Nil} /\ sampled \subseteq Number
  /\ conns \in [Number -> {"none", "open", "cut", "closed", "runs"}]

Guarded(pc) == At("guard", pc)
Conn(state) == conns' = [conns EXCEPT ![job.n] = state]

\* Each run has a cancellation and a watchdog of its own.
WatchedBegin ==
  /\ Begin([pc |-> "next", n |-> 0])
  /\ reason' = FALSE /\ active' = Nil /\ guard' = Watching /\ aborted' = FALSE
  /\ conns' = [n \in Number |-> "none"] /\ sampled' = {} /\ summary' = Nil
  /\ UNCHANGED healthy

\* The next stream, child or isolation, or the end.  A tier and a stream begin
\* with raise_if_cancelled; a child is started first.
NextAsk ==
  /\ Guarded("next")
  /\ \/ (reason \/ job.n = Asks) /\ Goto("leave") /\ UNCHANGED <<conns, healthy>>
     \/ /\ job.n < Asks /\ UNCHANGED used
        /\ \/ ~reason /\ job' = [pc |-> "connect", n |-> job.n + 1] /\ UNCHANGED <<conns, healthy>>
           \/ /\ job' = [pc |-> "child", n |-> job.n + 1]
              /\ conns' = [conns EXCEPT ![job.n + 1] = "runs"] /\ UNCHANGED healthy
           \/ job' = [pc |-> "isolate", n |-> job.n + 1] /\ healthy' = FALSE /\ UNCHANGED conns
  /\ UNCHANGED <<reason, active, guard, aborted, sampled, summary>>

\* The model is warmed again.
Isolated ==
  /\ Guarded("isolate") /\ Goto("next") /\ healthy' = TRUE
  /\ UNCHANGED <<reason, active, guard, aborted, conns, sampled, summary>>

(***************************************************************************)
(* chat_stream.                                                            *)
(***************************************************************************)
\* urlopen: the response, or an exception, which is data unless cancelled.
Connect ==
  /\ Guarded("connect")
  /\ \/ Conn("open") /\ Goto("register")
     \/ Fails("final") /\ UNCHANGED conns
  /\ UNCHANGED <<healthy, reason, active, guard, aborted, sampled, summary>>

\* Mutant of AfterRegister: a cancellation that came first is left to the reader.
MutAfterRegister == "read"

\* register looks, in the section that stores the response, for a cancellation
\* that found none.
AfterRegister == IF reason THEN "interrupt" ELSE "read"

Register ==
  /\ Guarded("register") /\ active' = job.n /\ Goto(AfterRegister)
  /\ UNCHANGED <<healthy, reason, guard, aborted, conns, sampled, summary>>

InterruptOwn ==
  /\ Guarded("interrupt") /\ Conn("cut") /\ Goto("read")
  /\ UNCHANGED <<healthy, reason, active, guard, aborted, sampled, summary>>

\* A chunk meets a cancellation, or the stream ends or was cut; without
\* either the reader waits.
Read ==
  /\ Guarded("read")
  /\ Goto("unregister")
  /\ UNCHANGED guardVars

\* The response is closed as the with block ends.
Unregister ==
  /\ Guarded("unregister") /\ Goto("final")
  /\ active' = IF active = job.n THEN Nil ELSE active
  /\ IF conns[job.n] = "open" THEN Conn("closed") ELSE UNCHANGED conns
  /\ UNCHANGED <<healthy, reason, guard, aborted, sampled, summary>>

\* Whatever ended it, the sample counts unless the run was cancelled.
Final ==
  /\ Guarded("final")
  /\ IF reason THEN Goto("leave") /\ UNCHANGED sampled
     ELSE Goto("next") /\ sampled' = sampled \cup {job.n}
  /\ UNCHANGED <<healthy, reason, active, guard, aborted, conns, summary>>

(***************************************************************************)
(* run_cancellable.                                                        *)
(***************************************************************************)
\* The wait ends with the child, or at the look every second with its kill; a
\* child that times out is killed and its exception ends the run.
WaitChild ==
  /\ Guarded("child") /\ Conn("closed")
  /\ \/ Goto("final")
     \/ reason /\ Goto("leave")
     \/ Fails("broken")
  /\ UNCHANGED <<healthy, reason, active, guard, aborted, sampled, summary>>

(***************************************************************************)
(* The sampler thread.                                                     *)
(***************************************************************************)
\* on_sample, at the first sample that breaks an invariant.
Tick ==
  /\ In("guard") /\ guard = Watching /\ ~healthy /\ ~aborted
  /\ aborted' = TRUE /\ guard' = [pc |-> "cancel", on |-> Nil]
  /\ UNCHANGED <<jobVars, healthy, reason, active, conns, sampled, summary>>

\* cancel sets the reason and takes the response in one section.
Cancel ==
  /\ guard.pc = "cancel"
  /\ reason' = TRUE /\ guard' = IF active = Nil THEN Watching ELSE [pc |-> "interrupt", on |-> active]
  /\ UNCHANGED <<jobVars, healthy, active, aborted, conns, sampled, summary>>

\* _interrupt, which a closed response does not mind.
Interrupt ==
  /\ guard.pc = "interrupt"
  /\ conns' = [conns EXCEPT ![guard.on] = IF @ = "open" THEN "cut" ELSE @] /\ guard' = Watching
  /\ UNCHANGED <<jobVars, healthy, reason, active, aborted, sampled, summary>>

(***************************************************************************)
(* The end, with the sampler joined.                                       *)
(***************************************************************************)
\* The summary; eval run checkpoints the case unless it says aborted.
Summarise ==
  /\ In("guard") /\ job.pc \in {"leave", "broken"} /\ guard = Watching
  /\ summary' = IF job.pc = "broken" THEN Nil
                ELSE [aborted |-> aborted, kept |-> IF aborted THEN {} ELSE sampled]
  /\ Finish /\ UNCHANGED <<healthy, reason, active, guard, aborted, conns, sampled>>

\* Others load a model or use the GPU, or stop.
GuardWorld ==
  /\ ByOthers /\ healthy' = ~healthy
  /\ UNCHANGED <<job, reason, active, guard, aborted, conns, sampled, summary>>

RunWatchNext ==
  \/ WatchedBegin \/ NextAsk \/ Isolated \/ Connect \/ Register \/ InterruptOwn \/ Read \/ Unregister \/ Final
  \/ WaitChild \/ Tick \/ Cancel \/ Interrupt \/ Summarise \/ GuardWorld

(***************************************************************************)
(* Properties.                                                             *)
(***************************************************************************)
\* A cancellation reaches what the run waits for, whichever of the two threads
\* comes first: the response it reads is interrupted.  No response that was
\* interrupted counts as a sample.  And a run that is over has left neither a
\* response open nor a child alive, and keeps nothing if a sample broke an
\* invariant, though it did so after the last result.
AbortReaches ==
  /\ reason /\ guard = Watching /\ active # Nil /\ ~Guarded("interrupt") => conns[active] = "cut"
  /\ \A n \in sampled : conns[n] # "cut"
  /\ tool = "guard" /\ job = Nil => \A n \in Number : conns[n] \notin {"open", "runs"}
  /\ summary # Nil => (aborted => summary.kept = {})
=============================================================================
