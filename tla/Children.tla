------------------------------ MODULE Children ------------------------------
(***************************************************************************)
(* lifecycle.py: children are registered as threads start them, and a      *)
(* termination signal stops them all before the program unwinds.           *)
(*                                                                         *)
(* Abstractions.  Every thread starts one child.  A child obeys SIGTERM    *)
(* within the grace period or does not.  Python runs the handler in the    *)
(* main thread between two of its steps.                                   *)
(***************************************************************************)
EXTENDS Job

CONSTANTS Main, Worker     \* the main thread; the other threads

ASSUME ChildAssumption == Nil \notin {Main} \cup Worker

VARIABLES thread,    \* thread -> its place in spawn, the use of the child, unregister
          child,     \* thread -> its child: none, runs, told (SIGTERM) or dead
          children,  \* _children, by thread
          cleaned,   \* _cleaned
          mutex,     \* who holds _lock
          handler,   \* the handler in the main thread: its place and what it copied
          signals    \* history: the main thread's place at every signal, handler included

childVars == <<thread, child, children, cleaned, mutex, handler, signals>>

Thread == {Main} \cup Worker
NoHandler == [pc |-> "none", copy |-> {}]

ChildInit ==
  /\ thread = [t \in Thread |-> "start"] /\ child = [t \in Thread |-> "none"]
  /\ children = {} /\ cleaned = FALSE /\ mutex = Nil /\ handler = NoHandler /\ signals = <<>>

ChildTypeOK ==
  /\ child \in [Thread -> {"none", "runs", "told", "dead"}]
  /\ children \subseteq Thread /\ mutex \in Thread \cup {Nil}
  /\ handler \in [pc : {"none", "enter", "term", "wait", "raise"}, copy : SUBSET Thread]

\* A handler has the main thread.
HasTurn(t) == t = Main => handler = NoHandler
ThreadSteps(t, from, to) == HasTurn(t) /\ thread[t] = from /\ thread' = [thread EXCEPT ![t] = to]

SpawnChild(t) ==
  /\ ThreadSteps(t, "start", "born")
  /\ child' = [child EXCEPT ![t] = "runs"]
  /\ UNCHANGED <<children, cleaned, mutex, handler, signals>>

\* register_child and unregister_child work on the table under the lock.
TakeLock(t) ==
  /\ mutex = Nil /\ mutex' = t
  /\ \/ ThreadSteps(t, "born", "register")
     \/ ThreadSteps(t, "used", "unregister")
  /\ UNCHANGED <<child, children, cleaned, handler, signals>>

\* Mutant of Registered: a child born after the cleanup is left to itself.
MutRegistered(t) == "using"

\* A child that comes after the cleanup is stopped by its own thread.
Registered(t) == IF cleaned THEN "stop" ELSE "using"

DropLock(t) ==
  /\ mutex = t /\ mutex' = Nil
  /\ \/ ThreadSteps(t, "register", Registered(t)) /\ children' = IF cleaned THEN children ELSE children \cup {t}
     \/ ThreadSteps(t, "unregister", "done") /\ children' = children \ {t}
  /\ UNCHANGED <<child, cleaned, handler, signals>>

\* _stop_process: SIGTERM, the grace period, SIGKILL.
StopOwn(t) ==
  /\ \/ ThreadSteps(t, "stop", "using") /\ child' = [child EXCEPT ![t] = "dead"]
     \/ ThreadSteps(t, "stop", "kill") /\ child' = [child EXCEPT ![t] = "told"]
     \/ ThreadSteps(t, "kill", "using") /\ child' = [child EXCEPT ![t] = "dead"]
  /\ UNCHANGED <<children, cleaned, mutex, handler, signals>>

\* The thread waits for its child, which ends on its own or by a signal.
ChildEnds(t) ==
  /\ child[t] \in {"runs", "told"} /\ child' = [child EXCEPT ![t] = "dead"]
  /\ UNCHANGED <<thread, children, cleaned, mutex, handler, signals>>

UseChild(t) ==
  /\ child[t] = "dead" /\ ThreadSteps(t, "using", "used")
  /\ UNCHANGED <<child, children, cleaned, mutex, handler, signals>>

\* The handler: cleanup_children, then KeyboardInterrupt.
SignalMain ==
  /\ Len(signals) < MaxUpset /\ thread[Main] # "gone"
  /\ signals' = Append(signals, IF handler = NoHandler THEN thread[Main] ELSE "handler")
  /\ handler' = IF handler.pc \in {"term", "wait"} THEN [handler EXCEPT !.pc = "raise"]
                ELSE [pc |-> "enter", copy |-> {}]
  /\ UNCHANGED <<thread, child, children, cleaned, mutex>>

\* It waits for the lock, even when the main thread it interrupted holds it.
CleanupBegin ==
  /\ handler.pc = "enter" /\ mutex = Nil
  /\ handler' = [pc |-> IF cleaned THEN "raise" ELSE "term", copy |-> children]
  /\ cleaned' = TRUE
  /\ UNCHANGED <<thread, child, children, mutex, signals>>

\* SIGTERM to all; after the grace period whoever is still alive gets SIGKILL.
CleanupSignals ==
  /\ \/ /\ handler.pc = "term" /\ handler' = [handler EXCEPT !.pc = "wait"]
        /\ child' = [t \in Thread |-> IF t \in handler.copy /\ child[t] = "runs" THEN "told" ELSE child[t]]
        /\ UNCHANGED children
     \/ /\ handler.pc = "wait" /\ mutex = Nil /\ handler' = [handler EXCEPT !.pc = "raise"]
        /\ child' = [t \in Thread |-> IF t \in handler.copy THEN "dead" ELSE child[t]]
        /\ children' = children \ handler.copy
  /\ UNCHANGED <<thread, cleaned, mutex, signals>>

\* The main thread unwinds; its child is unregistered.
Unwind ==
  /\ handler.pc = "raise" /\ mutex = Nil
  /\ handler' = NoHandler /\ thread' = [thread EXCEPT ![Main] = "gone"]
  /\ children' = IF thread[Main] = "start" THEN children ELSE children \ {Main}
  /\ UNCHANGED <<child, cleaned, mutex, signals>>

ChildNext ==
  /\ UNCHANGED jobVars
  /\ \/ \E t \in Thread : SpawnChild(t) \/ TakeLock(t) \/ DropLock(t) \/ StopOwn(t) \/ ChildEnds(t) \/ UseChild(t)
     \/ SignalMain \/ CleanupBegin \/ CleanupSignals \/ Unwind

(***************************************************************************)
(* Properties.                                                             *)
(***************************************************************************)
\* A cancellation leaves no child behind: when the main thread is gone and the
\* other threads have no step left, every child is dead, whoever started one
\* while the handler copied the table; unless the signal fell between the
\* start of the main thread's own child and its registration, or a second
\* signal cut the escalation.
ChildrenStopped ==
  /\ tool = "cancel" /\ thread[Main] = "gone" /\ Len(signals) = 1 /\ signals[1] # "born"
  /\ \A t \in Worker : thread[t] \in {"using", "used", "done"}
  => \A t \in Thread : child[t] \in {"none", "dead"}
=============================================================================
