---------------------------- MODULE HarnessProofs ---------------------------
(***************************************************************************)
(* What measures and what a measurement stands on, proved of the           *)
(* specification of Harness: for any processes, threads, items, models and *)
(* candidates.  Each section is about one tool.                            *)
(***************************************************************************)
EXTENDS Harness, SequenceTheorems, FiniteSetTheorems, TLAPS

(***************************************************************************)
(* Cancellation: no child is left behind.                                  *)
(***************************************************************************)
ThreadPlace == {"start", "born", "register", "using", "stop", "kill", "used", "unregister", "done", "gone"}

ThreadTypes ==
  /\ ChildTypeOK
  /\ thread \in [Thread -> ThreadPlace] /\ cleaned \in BOOLEAN /\ signals \in Seq(ThreadPlace \cup {"handler"})

\* One signal, and not between the start of the main thread's child and its
\* registration.
OneSignal == Len(signals) <= 1 /\ (signals # <<>> => signals[1] # "born")

\* The table is worked on under the lock, and a thread that is past its child
\* has no child left.
TableOrderly ==
  \A t \in Thread :
    /\ thread[t] \in {"register", "unregister"} => mutex = t
    /\ thread[t] = "start" => child[t] \in {"none", "dead"}
    /\ thread[t] \in {"unregister", "used", "done"} => child[t] = "dead"

\* Before the cleanup every child in use is in the table, after it the handler
\* has it in its copy or it is dead.
ChildCovered ==
  \A t \in Thread :
    /\ ~cleaned => thread[t] \notin {"stop", "kill"} /\ (thread[t] = "using" => t \in children)
    /\ cleaned /\ thread[t] = "using" =>
         child[t] = "dead" \/ (handler.pc \in {"term", "wait"} /\ t \in handler.copy)

\* The handler runs once, with the main thread halted outside the lock.
HandlerPhases ==
  /\ signals = <<>> => handler = NoHandler /\ ~cleaned /\ thread[Main] # "gone"
  /\ handler.pc = "none" => handler = NoHandler
  /\ handler.pc = "none" /\ signals # <<>> => thread[Main] = "gone" /\ cleaned
  /\ handler.pc = "enter" => ~cleaned /\ thread[Main] # "born"
  /\ handler.pc \in {"term", "wait", "raise"} => cleaned /\ thread[Main] \in {"start", "using", "used", "done"}
  /\ thread[Main] = "gone" => handler = NoHandler /\ child[Main] \in {"none", "dead"}

ChildIInv == tool = "cancel" => ThreadTypes /\ (OneSignal => TableOrderly /\ ChildCovered /\ HandlerPhases)

(***************************************************************************)
(* The initial state and the steps.                                        *)
(***************************************************************************)
LEMMA ChildInitInv == Init => ChildIInv
<1> SUFFICES ASSUME ChildInit
             PROVE  ThreadTypes /\ TableOrderly /\ ChildCovered /\ HandlerPhases
  BY DEF Init, ChildIInv
<1> USE DEF ChildInit, NoHandler, Thread
<1>1. ThreadTypes
  <2>1. signals = <<>> /\ cleaned = FALSE
    OBVIOUS
  <2>2. signals \in Seq(ThreadPlace \cup {"handler"})
    BY <2>1, EmptySeq
  <2>3. handler \in [pc : {"none", "enter", "term", "wait", "raise"}, copy : SUBSET Thread]
    OBVIOUS
  <2>4. thread \in [Thread -> ThreadPlace] /\ child \in [Thread -> {"none", "runs", "told", "dead"}]
    BY DEF ThreadPlace
  <2> QED
    BY <2>1, <2>2, <2>3, <2>4 DEF ThreadTypes, ChildTypeOK
<1>2. TableOrderly /\ ChildCovered /\ HandlerPhases
  BY DEF TableOrderly, ChildCovered, HandlerPhases
<1> QED
  BY <1>1, <1>2

\* Threads start their children, wait for them and stop them, in the table or not.
LEMMA ThreadStep ==
  ASSUME ThreadTypes, OneSignal => TableOrderly /\ ChildCovered /\ HandlerPhases, NEW t \in Thread,
         SpawnChild(t) \/ TakeLock(t) \/ DropLock(t) \/ StopOwn(t) \/ ChildEnds(t) \/ UseChild(t)
  PROVE  ThreadTypes' /\ (OneSignal' => TableOrderly' /\ ChildCovered' /\ HandlerPhases')
  <1> USE ChildAssumption DEF ThreadTypes, ChildTypeOK, ThreadPlace, Thread, ThreadSteps, HasTurn
  <1>1. signals' = signals /\ (OneSignal' => OneSignal)
    BY DEF SpawnChild, TakeLock, DropLock, StopOwn, ChildEnds, UseChild, OneSignal
  <1>2. CASE SpawnChild(t)
    <2>1. ThreadTypes'
      BY <1>2, <1>1 DEF SpawnChild
    <2>2. ASSUME OneSignal' PROVE TableOrderly'
      BY <1>2, <1>1, <2>2 DEF SpawnChild, TableOrderly
    <2>3. ASSUME OneSignal' PROVE ChildCovered'
      BY <1>2, <1>1, <2>3 DEF SpawnChild, ChildCovered
    <2>4. ASSUME OneSignal' PROVE HandlerPhases'
      <3>1. thread' = [thread EXCEPT ![t] = "born"] /\ thread[t] = "start" /\ handler' = handler /\ cleaned' = cleaned
        BY <1>2 DEF SpawnChild
      <3>2. HandlerPhases
        BY <1>1, <2>4
      <3>3. CASE t = Main
        BY <1>1, <1>2, <3>1, <3>2, <3>3 DEF HandlerPhases, SpawnChild, NoHandler
      <3>4. CASE t # Main
        <4>1. thread'[Main] = thread[Main] /\ child'[Main] = child[Main]
          BY <1>2, <3>1, <3>4 DEF SpawnChild
        <4> QED
          BY <1>1, <3>1, <3>2, <4>1 DEF HandlerPhases
      <3> QED
        BY <3>3, <3>4
    <2> QED
      BY <2>1, <2>2, <2>3, <2>4
  <1>3. CASE TakeLock(t)
    <2>1. ThreadTypes'
      BY <1>3, <1>1 DEF TakeLock
    <2>2. ASSUME OneSignal' PROVE TableOrderly'
      BY <1>3, <1>1, <2>2 DEF TakeLock, TableOrderly
    <2>3. ASSUME OneSignal' PROVE ChildCovered'
      BY <1>3, <1>1, <2>3 DEF TakeLock, ChildCovered
    <2>4. ASSUME OneSignal' PROVE HandlerPhases'
      <3>1. handler' = handler /\ cleaned' = cleaned /\ child' = child
        BY <1>3 DEF TakeLock
      <3>2. HandlerPhases /\ ChildCovered
        BY <1>1, <2>4
      <3>3. CASE t = Main
        BY <1>1, <1>3, <3>1, <3>2, <3>3 DEF HandlerPhases, TakeLock, NoHandler
      <3>4. CASE t # Main
        <4>1. thread'[Main] = thread[Main]
          BY <1>3, <3>4 DEF TakeLock
        <4> QED
          BY <1>1, <3>1, <3>2, <4>1 DEF HandlerPhases
      <3> QED
        BY <3>3, <3>4
    <2> QED
      BY <2>1, <2>2, <2>3, <2>4
  <1>4. CASE DropLock(t)
    BY <1>1, <1>4 DEF DropLock, Registered, TableOrderly, ChildCovered, HandlerPhases
  <1>5. CASE StopOwn(t)
    BY <1>1, <1>5 DEF StopOwn, TableOrderly, ChildCovered, HandlerPhases
  <1>6. CASE ChildEnds(t)
    BY <1>1, <1>6 DEF ChildEnds, TableOrderly, ChildCovered, HandlerPhases
  <1>7. CASE UseChild(t)
    BY <1>1, <1>7 DEF UseChild, TableOrderly, ChildCovered, HandlerPhases
  <1> QED
    BY <1>2, <1>3, <1>4, <1>5, <1>6, <1>7

\* A signal, the handler that stops the children it finds, and the end of the
\* main thread.
LEMMA HandlerStep ==
  ASSUME ThreadTypes, OneSignal => TableOrderly /\ ChildCovered /\ HandlerPhases,
         SignalMain \/ CleanupBegin \/ CleanupSignals \/ Unwind
  PROVE  ThreadTypes' /\ (OneSignal' => TableOrderly' /\ ChildCovered' /\ HandlerPhases')
  <1> USE ChildAssumption DEF ThreadTypes, ChildTypeOK, ThreadPlace, Thread
  <1>1. CASE SignalMain
    <2> DEFINE place == IF handler = NoHandler THEN thread[Main] ELSE "handler"
    <2>1. signals' = Append(signals, place)
      BY <1>1 DEF SignalMain
    <2>2. thread[Main] \in ThreadPlace
      OBVIOUS
    <2>3. place \in ThreadPlace \cup {"handler"}
      BY <2>2
    <2> HIDE DEF place
    <2>4. signals' \in Seq(ThreadPlace \cup {"handler"}) /\ Len(signals') = Len(signals) + 1 /\ (signals = <<>> => signals'[1] = place)
      BY <2>1, <2>3
    <2>5. ThreadTypes'
      BY <1>1, <2>4 DEF SignalMain
    <2>6. ASSUME OneSignal' PROVE TableOrderly' /\ ChildCovered' /\ HandlerPhases'
      <3>1. signals = <<>> /\ OneSignal
        BY <2>4, <2>6 DEF OneSignal
      <3> QED
        BY <1>1, <2>4, <2>6, <3>1 DEF place, SignalMain, TableOrderly, ChildCovered, HandlerPhases, OneSignal, NoHandler
    <2> QED
      BY <2>5, <2>6
  <1>2. CASE CleanupBegin
    BY <1>2 DEF CleanupBegin, OneSignal, TableOrderly, ChildCovered, HandlerPhases, NoHandler
  <1>3. CASE CleanupSignals
    <2>1. ThreadTypes' /\ signals' = signals
      BY <1>3 DEF CleanupSignals
    <2>2. ASSUME OneSignal' PROVE TableOrderly'
      <3>1. thread' = thread /\ mutex' = mutex
        BY <1>3 DEF CleanupSignals
      <3>2. TableOrderly
        BY <2>1, <2>2 DEF OneSignal
      <3>3. \A t \in Thread : child[t] \in {"none", "dead"} /\ thread[t] # "using" => child'[t] \in {child[t], "dead"}
        BY <1>3 DEF CleanupSignals
      <3> QED
        BY <3>1, <3>2, <3>3 DEF TableOrderly
    <2>3. ASSUME OneSignal' PROVE ChildCovered'
      BY <1>3, <2>1, <2>3 DEF CleanupSignals, OneSignal, ChildCovered, HandlerPhases
    <2>4. ASSUME OneSignal' PROVE HandlerPhases'
      BY <1>3, <2>1, <2>4 DEF CleanupSignals, OneSignal, HandlerPhases, NoHandler
    <2> QED
      BY <2>1, <2>2, <2>3, <2>4
  <1>4. CASE Unwind
    BY <1>4 DEF Unwind, OneSignal, TableOrderly, ChildCovered, HandlerPhases, NoHandler
  <1> QED
    BY <1>1, <1>2, <1>3, <1>4

LEMMA ChildNextInv == ChildIInv /\ [Next]_vars => ChildIInv'
<1> SUFFICES ASSUME ChildIInv, [Next]_vars, tool' = "cancel"
             PROVE  ThreadTypes' /\ (OneSignal' => TableOrderly' /\ ChildCovered' /\ HandlerPhases')
  BY DEF ChildIInv
<1>1. tool = "cancel" /\ (ChildNext \/ UNCHANGED childVars)
  BY DEF Next, vars
<1>2. CASE UNCHANGED childVars
  BY <1>1, <1>2 DEF ChildIInv, childVars, ThreadTypes, ChildTypeOK, OneSignal, TableOrderly, ChildCovered, HandlerPhases
<1>3. CASE ChildNext
  BY <1>1, <1>3, ThreadStep, HandlerStep DEF ChildIInv, ChildNext
<1> QED
  BY <1>1, <1>2, <1>3

\* In every reachable state the table, the lock and the handler fit together.
THEOREM ChildInvariant == Spec => []ChildIInv
  BY ChildInitInv, ChildNextInv, PTL DEF Spec

\* When the main thread is gone and the others have no step left, every child
\* is dead.
THEOREM AllStopped == Spec => []ChildrenStopped
<1>1. ChildIInv => ChildrenStopped
  BY DEF ChildIInv, ThreadTypes, ChildTypeOK, OneSignal, TableOrderly, ChildCovered, HandlerPhases, ChildrenStopped, Thread, NoHandler
<1> QED
  BY ChildInvariant, <1>1, PTL

(***************************************************************************)
(* Quiet: what is stopped is on record.                                    *)
(***************************************************************************)
\* Plans and records name pids with the browser's command line.
BrowserRow == [pid : Pid, cmd : {"browser"}]
RowOf(p) == [pid |-> p, cmd |-> "browser"]
Stopped(p) == proc[p] # Nil /\ proc[p].stopped

QuietTypes ==
  /\ used \in [run : Nat, edit : Nat, upset : Nat]
  /\ \A p \in Pid : proc[p] = Nil \/ proc[p] \in [cmd : Command, stopped : BOOLEAN]
  /\ DOMAIN proc = Pid
  /\ record = Torn \/ record \subseteq BrowserRow
  /\ job # Nil =>
       /\ job = [pc |-> job.pc, plan |-> job.plan, now |-> job.now]
       /\ job.plan \subseteq BrowserRow /\ job.now \subseteq BrowserRow /\ job.pc \in {"stop", "cont", "blind"}
       /\ record \subseteq BrowserRow
       /\ job.pc = "cont" => job.plan \subseteq record
       /\ job.pc = "blind" => job.plan = {} /\ job.now = {}

\* A stopped process is on record or was stopped by this pause; what a pause
\* still has to stop is the browser's, and a resume has still to continue
\* every stopped process.
KnownIfStopped(p) ==
  Stopped(p) => proc[p].cmd = "browser" /\ (RowOf(p) \in record \/ (job # Nil /\ RowOf(p) \in job.now))
PlannedIsBrowser(p) == job # Nil /\ job.pc = "stop" /\ RowOf(p) \in job.plan => Runs(p, "browser")
PlannedIfStopped(p) == job # Nil /\ job.pc = "cont" /\ Stopped(p) => RowOf(p) \in job.plan

Pauses ==
  \A p \in Pid \ astray : KnownIfStopped(p) /\ PlannedIsBrowser(p) /\ PlannedIfStopped(p)

QuietIInv ==
  /\ tool = "quiet" => QuietTypes /\ Pauses
  /\ tool # "quiet" => \A p \in Pid : ~Stopped(p)
  /\ StoppedIsRecorded

LEMMA OnlyQuiet ==
  ASSUME [Next]_vars
  PROVE  /\ tool' = tool
         /\ tool = "quiet" => QuietNext \/ UNCHANGED <<jobVars, quietVars>>
         /\ tool # "quiet" => UNCHANGED quietVars
BY DEF Next, vars, quietVars, jobVars

LEMMA QuietInitInv == Init => QuietIInv
<1> SUFFICES ASSUME JobInit, QuietInit
             PROVE  QuietIInv
  BY DEF Init
<1>1. /\ job = Nil /\ used = [run |-> 0, edit |-> 0, upset |-> 0] /\ record = {} /\ astray = {}
      /\ proc = [p \in Pid |-> [cmd |-> "browser", stopped |-> FALSE]]
  BY DEF JobInit, QuietInit
<1>2. \A p \in Pid : proc[p] \in [cmd : Command, stopped : BOOLEAN] /\ ~proc[p].stopped
  BY <1>1 DEF Command
<1>3. DOMAIN proc = Pid
  BY <1>1
<1> QED
  BY <1>1, <1>2, <1>3 DEF QuietIInv, QuietTypes, Pauses, KnownIfStopped, PlannedIsBrowser, PlannedIfStopped, Stopped, StoppedIsRecorded

LEMMA QuietBeginStep ==
  ASSUME QuietTypes, Pauses, tool = "quiet", QuietBegin
  PROVE  QuietTypes' /\ Pauses'
  <1>1. /\ used' \in [run : Nat, edit : Nat, upset : Nat] /\ job = Nil
        /\ UNCHANGED quietVars /\ record # Torn
    BY DEF QuietBegin, Begin, Count, QuietTypes
  <1>2. record \subseteq BrowserRow
    BY <1>1 DEF QuietTypes
  <1>3. PICK pc \in {"stop", "cont", "blind"}, plan \in SUBSET BrowserRow :
          /\ job' = [pc |-> pc, plan |-> plan, now |-> {}]
          /\ pc = "stop" => plan = PausePlan
          /\ pc = "cont" => plan = ResumePlan
          /\ pc = "blind" => plan = {}
    BY <1>2 DEF QuietBegin, Begin, PausePlan, ResumePlan, BrowserRow
  <1>4. job'.pc = pc /\ job'.plan = plan /\ job'.now = {} /\ job' = [pc |-> job'.pc, plan |-> job'.plan, now |-> job'.now]
    BY <1>3
  <1>5. QuietTypes'
    BY <1>1, <1>2, <1>3, <1>4 DEF QuietTypes, ResumePlan, quietVars
  <1>6. ASSUME NEW p \in Pid \ astray
        PROVE  KnownIfStopped(p)' /\ PlannedIsBrowser(p)' /\ PlannedIfStopped(p)'
    <2>1. Stopped(p) => proc[p].cmd = "browser" /\ RowOf(p) \in record
      BY <1>1, <1>6 DEF Pauses, KnownIfStopped
    <2>2. pc = "stop" /\ RowOf(p) \in plan => Runs(p, "browser")
      BY <1>3 DEF PausePlan, RowOf
    <2>3. pc = "cont" /\ Stopped(p) => RowOf(p) \in plan
      BY <1>3, <2>1 DEF ResumePlan, Runs, RowOf, Stopped
    <2> QED
      BY <1>1, <1>4, <2>1, <2>2, <2>3 DEF KnownIfStopped, PlannedIsBrowser, PlannedIfStopped, Stopped, Runs, quietVars
  <1>7. Pauses'
    BY <1>1, <1>6 DEF Pauses, quietVars
  <1> QED
    BY <1>5, <1>7

LEMMA QuietSignalStep ==
  ASSUME QuietTypes, Pauses, tool = "quiet", QuietSignal
  PROVE  QuietTypes' /\ Pauses'
  <1>1. /\ job # Nil /\ job = [pc |-> job.pc, plan |-> job.plan, now |-> job.now] /\ job.pc \in {"stop", "cont"}
        /\ UNCHANGED <<used, record, astray>>
    BY DEF QuietSignal, In, QuietTypes
  <1>2. PICK r \in job.plan :
          /\ proc' = IF proc[r.pid] = Nil THEN proc ELSE [proc EXCEPT ![r.pid].stopped = (job.pc = "stop")]
          /\ job' = [job EXCEPT !.plan = @ \ {r}, !.now = IF proc[r.pid] = Nil THEN @ ELSE @ \cup {r}]
    BY DEF QuietSignal
  <1>3. job.plan \subseteq BrowserRow /\ job.now \subseteq BrowserRow /\ r \in BrowserRow /\ r.pid \in Pid /\ r = RowOf(r.pid)
    BY <1>1 DEF QuietTypes, BrowserRow, RowOf
  <1>4. job' = [pc |-> job.pc, plan |-> job.plan \ {r}, now |-> IF proc[r.pid] = Nil THEN job.now ELSE job.now \cup {r}]
    BY <1>1, <1>2
  <1>5. /\ job'.pc = job.pc /\ job'.plan = job.plan \ {r} /\ job' = [pc |-> job'.pc, plan |-> job'.plan, now |-> job'.now]
        /\ job'.now = IF proc[r.pid] = Nil THEN job.now ELSE job.now \cup {r}
        /\ job'.plan \subseteq BrowserRow /\ job'.now \subseteq BrowserRow
    BY <1>3, <1>4
  <1>6. job' \in [pc : {"stop", "cont"}, plan : SUBSET BrowserRow, now : SUBSET BrowserRow]
    BY <1>1, <1>4, <1>5
  <1>7. job' # Nil
    BY <1>6, QuietAssumption DEF BrowserRow
  <1>8. \A p \in Pid \ {r.pid} : proc'[p] = proc[p] /\ RowOf(p) # r
    BY <1>2, <1>3 DEF QuietTypes, RowOf
  <1>9. /\ proc[r.pid] = Nil => proc'[r.pid] = Nil
        /\ proc[r.pid] # Nil => /\ proc'[r.pid] \in [cmd : Command, stopped : BOOLEAN]
                               /\ proc'[r.pid].cmd = proc[r.pid].cmd /\ (proc'[r.pid].stopped <=> job.pc = "stop")
        /\ DOMAIN proc' = Pid
    <2>1. CASE proc[r.pid] = Nil
      BY <1>2, <2>1 DEF QuietTypes
    <2>2. CASE proc[r.pid] # Nil
      <3>1. proc[r.pid] \in [cmd : Command, stopped : BOOLEAN] /\ DOMAIN proc = Pid
        BY <1>3, <2>2 DEF QuietTypes
      <3>2. proc' = [proc EXCEPT ![r.pid].stopped = (job.pc = "stop")]
        BY <1>2, <2>2
      <3>3. proc'[r.pid] = [proc[r.pid] EXCEPT !.stopped = (job.pc = "stop")] /\ DOMAIN proc' = Pid
        BY <1>3, <3>1, <3>2
      <3> QED
        BY <2>2, <3>1, <3>3
    <2> QED
      BY <2>1, <2>2
  <1>10. QuietTypes'
    <2>1. \A p \in Pid : proc'[p] = Nil \/ proc'[p] \in [cmd : Command, stopped : BOOLEAN]
      BY <1>8, <1>9 DEF QuietTypes
    <2> QED
      BY <1>1, <1>5, <1>9, <2>1 DEF QuietTypes
  <1>11. ASSUME NEW p \in Pid \ astray
         PROVE  KnownIfStopped(p)' /\ PlannedIsBrowser(p)' /\ PlannedIfStopped(p)'
    <2>1. KnownIfStopped(p) /\ PlannedIsBrowser(p) /\ PlannedIfStopped(p)
      BY <1>11 DEF Pauses
    <2>2. CASE p # r.pid
      <3>1. proc'[p] = proc[p] /\ RowOf(p) # r
        BY <1>8, <1>11, <2>2
      <3> QED
        BY <1>1, <1>5, <1>7, <2>1, <3>1 DEF KnownIfStopped, PlannedIsBrowser, PlannedIfStopped, Stopped, Runs
    <2>3. CASE p = r.pid /\ job.pc = "stop"
      <3>1. Runs(p, "browser")
        BY <1>1, <1>3, <2>1, <2>3 DEF PlannedIsBrowser
      <3>2. proc'[p] # Nil => proc'[p].cmd = "browser"
        BY <1>9, <2>3, <3>1 DEF Runs
      <3>3. RowOf(p) \in job'.now
        BY <1>3, <1>5, <2>3, <3>1 DEF Runs
      <3>4. RowOf(p) \notin job'.plan
        BY <1>3, <1>5, <2>3
      <3> QED
        BY <1>5, <1>7, <2>3, <3>2, <3>3, <3>4 DEF KnownIfStopped, PlannedIsBrowser, PlannedIfStopped, Stopped
    <2>4. CASE p = r.pid /\ job.pc = "cont"
      <3>1. ~Stopped(p)'
        BY <1>9, <2>4 DEF Stopped
      <3> QED
        BY <1>5, <2>4, <3>1 DEF KnownIfStopped, PlannedIsBrowser, PlannedIfStopped
    <2> QED
      BY <1>1, <2>2, <2>3, <2>4
  <1>12. Pauses'
    BY <1>1, <1>11 DEF Pauses
  <1> QED
    BY <1>10, <1>12

\* The record is saved, or the command is cut.
LEMMA QuietEndStep ==
  ASSUME QuietTypes, Pauses, tool = "quiet", QuietSave \/ QuietCut
  PROVE  QuietTypes' /\ Pauses'
  <1>1. /\ used' \in [run : Nat, edit : Nat, upset : Nat] /\ job' = Nil /\ job # Nil /\ UNCHANGED proc
        /\ record \subseteq BrowserRow /\ job.now \subseteq BrowserRow /\ job.pc \in {"stop", "cont", "blind"}
    BY DEF QuietSave, QuietCut, Finish, Stops, Upset, Count, In, QuietTypes
  <1>2. record' = Torn \/ record' \subseteq BrowserRow
    BY <1>1 DEF QuietSave, QuietCut, Recorded
  <1>3. ASSUME NEW p \in Pid \ astray', Stopped(p)
        PROVE  proc[p].cmd = "browser" /\ RowOf(p) \in record'
    <2>1. p \notin astray
      BY <1>3 DEF QuietSave, QuietCut
    <2>2. /\ proc[p].cmd = "browser" /\ (RowOf(p) \in record \/ RowOf(p) \in job.now)
          /\ job.pc = "cont" => RowOf(p) \in job.plan
      BY <1>1, <1>3, <2>1 DEF Pauses, KnownIfStopped, PlannedIfStopped
    <2>3. \A rows : RowOf(p) \in rows => p \in PidsOf(rows)
      <3> SUFFICES ASSUME NEW rows, RowOf(p) \in rows PROVE p \in PidsOf(rows)
        OBVIOUS
      <3>1. RowOf(p).pid = p
        BY DEF RowOf
      <3> QED
        BY <3>1 DEF PidsOf
    <2>4. CASE QuietCut
      <3>1. CASE job.pc = "stop"
        BY <1>3, <2>2, <2>3, <2>4, <3>1 DEF QuietCut
      <3>2. CASE job.pc = "cont"
        BY <1>1, <2>2, <2>4, <3>2 DEF QuietCut, QuietTypes
      <3>3. CASE job.pc = "blind"
        BY <1>1, <2>2, <2>4, <3>3 DEF QuietCut, QuietTypes
      <3> QED
        BY <1>1, <3>1, <3>2, <3>3
    <2>5. CASE QuietSave
      <3>1. CASE job.pc = "stop"
        <4>1. RowOf(p) \in Recorded
          BY <2>2, <3>1 DEF Recorded
        <4> QED
          BY <1>3, <2>2, <2>3, <2>5, <3>1, <4>1 DEF QuietSave
      <3>2. CASE job.pc = "cont"
        BY <2>2, <2>5, <3>2 DEF QuietSave
      <3>3. CASE job.pc = "blind"
        <4>1. RowOf(p) \in record /\ astray' = astray \cup PidsOf(record)
          BY <1>1, <2>2, <2>5, <3>3 DEF QuietSave, QuietTypes
        <4> QED
          BY <1>3, <2>3, <4>1
      <3> QED
        BY <1>1, <3>1, <3>2, <3>3
    <2> QED
      BY <2>4, <2>5
  <1>4. QuietTypes'
    BY <1>1, <1>2 DEF QuietTypes
  <1> QED
    BY <1>1, <1>3, <1>4 DEF Pauses, KnownIfStopped, PlannedIsBrowser, PlannedIfStopped, Stopped

LEMMA QuietWorldStep ==
  ASSUME QuietTypes, Pauses, tool = "quiet", QuietWorld
  PROVE  QuietTypes' /\ Pauses'
  <1>1. job' = job /\ used' \in [run : Nat, edit : Nat, upset : Nat]
    BY DEF QuietWorld, ByOthers, Count, QuietTypes, jobVars
  <1>2. CASE \E p \in Pid :
               /\ proc' = [proc EXCEPT ![p] = Nil]
               /\ astray' = IF p \in ToStop THEN astray \cup {p} ELSE astray \ {p}
               /\ record' = record
    <2>1. PICK p \in Pid :
            /\ proc' = [proc EXCEPT ![p] = Nil]
            /\ astray' = IF p \in ToStop THEN astray \cup {p} ELSE astray \ {p}
            /\ record' = record
      BY <1>2
    <2>2. \A q \in Pid : proc'[q] = IF q = p THEN Nil ELSE proc[q]
      BY <2>1 DEF QuietTypes
    <2>3. QuietTypes'
      BY <1>1, <2>1, <2>2 DEF QuietTypes
    <2>4. Pauses'
      <3> SUFFICES ASSUME NEW q \in Pid \ astray'
                   PROVE  KnownIfStopped(q)' /\ PlannedIsBrowser(q)' /\ PlannedIfStopped(q)'
        BY DEF Pauses
      <3>1. CASE q # p
        <4>1. KnownIfStopped(q) /\ PlannedIsBrowser(q) /\ PlannedIfStopped(q)
          BY <2>1, <3>1 DEF Pauses
        <4> QED
          BY <1>1, <2>1, <2>2, <3>1, <4>1 DEF KnownIfStopped, PlannedIsBrowser, PlannedIfStopped, Stopped, Runs
      <3>2. CASE q = p
        <4>1. RowOf(p).pid = p /\ p \notin ToStop
          BY <2>1, <3>2 DEF RowOf
        <4>2. ~(job # Nil /\ job.pc = "stop" /\ RowOf(p) \in job.plan)
          BY <4>1 DEF ToStop, PidsOf
        <4> QED
          BY <1>1, <2>2, <3>2, <4>2 DEF KnownIfStopped, PlannedIsBrowser, PlannedIfStopped, Stopped
      <3> QED
        BY <3>1, <3>2
    <2> QED
      BY <2>3, <2>4
  <1>3. CASE \E p \in Pid, c \in Command :
               proc[p] = Nil /\ proc' = [proc EXCEPT ![p] = [cmd |-> c, stopped |-> FALSE]] /\ UNCHANGED <<record, astray>>
    <2>1. PICK p \in Pid, c \in Command :
            proc[p] = Nil /\ proc' = [proc EXCEPT ![p] = [cmd |-> c, stopped |-> FALSE]] /\ UNCHANGED <<record, astray>>
      BY <1>3
    <2>2. proc'[p] = [cmd |-> c, stopped |-> FALSE] /\ \A q \in Pid \ {p} : proc'[q] = proc[q]
      BY <2>1 DEF QuietTypes
    <2>3. proc'[p] \in [cmd : Command, stopped : BOOLEAN] /\ ~proc'[p].stopped
      BY <2>2
    <2>4. DOMAIN proc' = Pid
      BY <2>1 DEF QuietTypes
    <2>5. QuietTypes'
      BY <1>1, <2>1, <2>2, <2>3, <2>4 DEF QuietTypes
    <2>6. Pauses'
      <3> SUFFICES ASSUME NEW q \in Pid \ astray'
                   PROVE  KnownIfStopped(q)' /\ PlannedIsBrowser(q)' /\ PlannedIfStopped(q)'
        BY DEF Pauses
      <3>1. KnownIfStopped(q) /\ PlannedIsBrowser(q) /\ PlannedIfStopped(q)
        BY <1>1, <2>1 DEF Pauses
      <3>2. CASE q # p
        BY <1>1, <2>1, <2>2, <3>1, <3>2 DEF KnownIfStopped, PlannedIsBrowser, PlannedIfStopped, Stopped, Runs
      <3>3. CASE q = p
        BY <1>1, <2>1, <2>3, <3>1, <3>3 DEF KnownIfStopped, PlannedIsBrowser, PlannedIfStopped, Stopped, Runs
      <3> QED
        BY <3>2, <3>3
    <2> QED
      BY <2>5, <2>6
  <1>4. CASE job = Nil /\ record = Torn /\ record' = {} /\ UNCHANGED <<jobVars, proc, astray>>
    <2>1. \A p \in Pid : RowOf(p) \notin record
      BY <1>4 DEF Torn, RowOf
    <2>2. QuietTypes'
      BY <1>1, <1>4 DEF QuietTypes
    <2>3. job' = Nil /\ proc' = proc /\ astray' = astray
      BY <1>1, <1>4
    <2> QED
      BY <1>4, <2>1, <2>2, <2>3 DEF Pauses, KnownIfStopped, PlannedIsBrowser, PlannedIfStopped, Stopped
  <1> QED
    BY <1>2, <1>3, <1>4 DEF QuietWorld

LEMMA QuietNextInv == QuietIInv /\ [Next]_vars => QuietIInv'
<1> SUFFICES ASSUME QuietIInv, [Next]_vars
             PROVE  QuietIInv'
  OBVIOUS
<1>1. CASE tool = "quiet"
  <2>1. QuietTypes' /\ Pauses'
    <3>1. CASE QuietNext
      BY <1>1, <3>1, QuietBeginStep, QuietSignalStep, QuietEndStep, QuietWorldStep DEF QuietIInv, QuietNext
    <3>2. CASE UNCHANGED <<jobVars, quietVars>>
      BY <1>1, <3>2 DEF QuietIInv, QuietTypes, Pauses, KnownIfStopped, PlannedIsBrowser, PlannedIfStopped, Stopped, Runs, jobVars, quietVars
    <3> QED
      BY <1>1, <3>1, <3>2, OnlyQuiet
  <2> QED
    BY <1>1, <2>1, OnlyQuiet DEF QuietIInv, Pauses, KnownIfStopped, Stopped, RowOf, StoppedIsRecorded
<1>2. CASE tool # "quiet"
  BY <1>2, OnlyQuiet DEF QuietIInv, Stopped, StoppedIsRecorded, quietVars
<1> QED
  BY <1>1, <1>2

\* Between commands every stopped process is the browser's and on record.
THEOREM QuietRecorded == Spec => []StoppedIsRecorded
<1>1. QuietIInv => StoppedIsRecorded
  BY DEF QuietIInv
<1> QED
  BY QuietInitInv, QuietNextInv, <1>1, PTL DEF Spec

(***************************************************************************)
(* The watchdog: a cancellation reaches what the run waits for.            *)
(***************************************************************************)
\* Where the main thread has a stream, with its response stored or about to be.
Streaming == {"register", "interrupt", "read", "unregister"}

GuardTypes ==
  /\ reason \in BOOLEAN /\ aborted \in BOOLEAN /\ sampled \subseteq Number
  /\ conns \in [Number -> {"none", "open", "cut", "closed", "runs"}]
  /\ guard = [pc |-> guard.pc, on |-> guard.on] /\ guard.pc \in {"sample", "cancel", "interrupt"}
  /\ guard.pc = "sample" => guard = Watching
  /\ guard.pc = "interrupt" => guard.on \in Number /\ reason
  /\ job # Nil =>
       /\ job \in [pc : AskPlace, n : 0..Asks] /\ summary = Nil
       /\ job.pc \in Streaming \cup {"connect", "child", "final"} => job.n \in Number
       /\ job.pc = "interrupt" => reason

\* A connection is open or a child runs only as long as the main thread is at
\* it, and what is to come has none yet.
ConnsFit ==
  /\ \A n \in Number : conns[n] = "open" => job # Nil /\ job.n = n /\ job.pc \in Streaming
  /\ \A n \in Number : conns[n] = "runs" => job # Nil /\ job.n = n /\ job.pc = "child"
  /\ job # Nil /\ job.pc \in Streaming => conns[job.n] \in {"open", "cut"}
  /\ job # Nil /\ job.pc = "connect" => conns[job.n] = "none"
  /\ job # Nil => \A n \in Number : n > job.n => conns[n] = "none" /\ n \notin sampled

\* Who registers a response meets the cancellation, or the sampler meets the
\* response; nothing is cut without a cancellation.
Meets ==
  /\ active # Nil => job # Nil /\ active = job.n /\ job.pc \in {"interrupt", "read", "unregister"}
  /\ reason /\ active # Nil =>
       conns[active] = "cut" \/ job.pc = "interrupt" \/ (guard.pc = "interrupt" /\ guard.on = active)
  /\ \A n \in Number : conns[n] = "cut" => reason
  /\ \A n \in sampled : conns[n] \notin {"open", "cut", "runs"}
  /\ summary # Nil => (aborted => summary.kept = {})
  /\ job # Nil /\ job.pc \in Streaming \cup {"connect", "child", "final"} => job.n \notin sampled

GuardIInv ==
  /\ tool = "guard" => GuardTypes /\ ConnsFit /\ Meets
  /\ tool # "guard" => ~reason /\ sampled = {} /\ summary = Nil
  /\ AbortReaches

LEMMA OnlyGuard ==
  ASSUME [Next]_vars
  PROVE  /\ tool' = tool
         /\ tool = "guard" => RunWatchNext \/ UNCHANGED <<jobVars, guardVars>>
         /\ tool # "guard" => UNCHANGED guardVars
BY DEF Next, vars, guardVars, jobVars

LEMMA GuardInitInv == Init => GuardIInv
<1> SUFFICES ASSUME JobInit, RunWatchInit
             PROVE  GuardIInv
  BY DEF Init
<1>1. /\ job = Nil /\ reason = FALSE /\ active = Nil /\ guard = Watching /\ aborted = FALSE
      /\ conns = [n \in Number |-> "none"] /\ sampled = {} /\ summary = Nil
  BY DEF JobInit, RunWatchInit
<1>2. GuardTypes
  BY <1>1 DEF GuardTypes, Watching
<1> QED
  BY <1>1, <1>2 DEF GuardIInv, ConnsFit, Meets, AbortReaches

\* What the main thread goes on with is a command, and not Nil.
LEMMA GuardJob ==
  ASSUME NEW n \in 0..Asks, NEW pc \in AskPlace, NEW j, j = [pc |-> pc, n |-> n]
  PROVE  j \in [pc : AskPlace, n : 0..Asks] /\ j.pc = pc /\ j.n = n /\ j # Nil
<1>1. j \in [pc : AskPlace, n : 0..Asks] /\ j.pc = pc /\ j.n = n
  OBVIOUS
<1>2. j \in [pc : AskPlace, n : Nat]
  OBVIOUS
<1> QED
  BY <1>1, <1>2, WatchAssumption

LEMMA GuardGoes ==
  ASSUME NEW j \in [pc : AskPlace, n : 0..Asks], NEW pc \in AskPlace, NEW k, k = [j EXCEPT !.pc = pc]
  PROVE  k \in [pc : AskPlace, n : 0..Asks] /\ k.pc = pc /\ k.n = j.n /\ k # Nil
<1>1. k = [pc |-> pc, n |-> j.n] /\ j.n \in 0..Asks
  OBVIOUS
<1> QED
  BY <1>1, GuardJob

\* A run begins, takes up the next thing it has to do, or ends.
LEMMA RunStep ==
  ASSUME GuardTypes, ConnsFit, Meets, tool = "guard", WatchedBegin \/ NextAsk \/ Isolated \/ Summarise
  PROVE  GuardTypes' /\ ConnsFit' /\ Meets'
  <1> USE WatchAssumption DEF GuardTypes, Streaming, Number
  <1>1. CASE WatchedBegin
    <2>1. job' = [pc |-> "next", n |-> 0] /\ job' \in [pc : AskPlace, n : 0..Asks] /\ job'.pc = "next" /\ job'.n = 0
      BY <1>1, GuardJob DEF WatchedBegin, Begin, AskPlace
    <2>2. /\ reason' = FALSE /\ active' = Nil /\ guard' = Watching /\ aborted' = FALSE
          /\ conns' = [n \in Number |-> "none"] /\ sampled' = {} /\ summary' = Nil
      BY <1>1 DEF WatchedBegin
    <2>3. GuardTypes'
      BY <2>1, <2>2 DEF Watching
    <2>4. ConnsFit' /\ Meets'
      BY <2>1, <2>2 DEF ConnsFit, Meets
    <2> QED
      BY <2>3, <2>4
  <1>2. CASE NextAsk
    <2>1. job \in [pc : AskPlace, n : 0..Asks] /\ job # Nil /\ job.pc = "next" /\ UNCHANGED <<reason, active, guard, aborted, sampled, summary>>
      BY <1>2 DEF NextAsk, Guarded, At, In
    <2>2. CASE job' = [job EXCEPT !.pc = "leave"] /\ conns' = conns
      <3>1. job' \in [pc : AskPlace, n : 0..Asks] /\ job'.pc = "leave" /\ job'.n = job.n /\ job' # Nil
        BY <2>1, <2>2, GuardGoes DEF AskPlace
      <3>2. GuardTypes'
        BY <2>1, <2>2, <3>1 DEF Watching
      <3> QED
        BY <2>1, <2>2, <3>1, <3>2 DEF ConnsFit, Meets
    <2>3. CASE /\ job.n < Asks /\ job' \in {[pc |-> "connect", n |-> job.n + 1], [pc |-> "isolate", n |-> job.n + 1]}
               /\ conns' = conns
      <3>1. job' \in [pc : AskPlace, n : 0..Asks] /\ job'.pc \in {"connect", "isolate"} /\ job'.n = job.n + 1 /\ job' # Nil
        <4>1. job.n + 1 \in 0..Asks
          BY <2>1, <2>3
        <4>2. CASE job' = [pc |-> "connect", n |-> job.n + 1]
          BY <4>1, <4>2, GuardJob DEF AskPlace
        <4>3. CASE job' = [pc |-> "isolate", n |-> job.n + 1]
          BY <4>1, <4>3, GuardJob DEF AskPlace
        <4> QED
          BY <2>3, <4>2, <4>3
      <3>2. GuardTypes'
        BY <2>1, <2>3, <3>1 DEF Watching
      <3> QED
        BY <2>1, <2>3, <3>1, <3>2 DEF ConnsFit, Meets
    <2>4. CASE /\ job.n < Asks /\ job' = [pc |-> "child", n |-> job.n + 1]
               /\ conns' = [conns EXCEPT ![job.n + 1] = "runs"]
      <3>1. job' \in [pc : AskPlace, n : 0..Asks] /\ job'.pc = "child" /\ job'.n = job.n + 1 /\ job' # Nil
        <4>1. job.n + 1 \in 0..Asks
          BY <2>1, <2>4
        <4> QED
          BY <2>4, <4>1, GuardJob DEF AskPlace
      <3>2. job.n + 1 \in Number /\ conns'[job.n + 1] = "runs" /\ \A n \in Number \ {job.n + 1} : conns'[n] = conns[n]
        BY <2>1, <2>4
      <3>3. GuardTypes'
        BY <2>1, <2>4, <3>1 DEF Watching
      <3>4. ConnsFit'
        BY <2>1, <3>1, <3>2 DEF ConnsFit
      <3>5. Meets'
        BY <2>1, <3>1, <3>2 DEF ConnsFit, Meets
      <3> QED
        BY <3>3, <3>4, <3>5
    <2> QED
      BY <1>2, <2>2, <2>3, <2>4 DEF NextAsk, Goto
  <1>3. CASE Isolated
    <2>1. /\ job # Nil /\ job.pc = "isolate" /\ job \in [pc : AskPlace, n : 0..Asks] /\ job' = [job EXCEPT !.pc = "next"]
          /\ UNCHANGED <<reason, active, guard, aborted, conns, sampled, summary>>
      BY <1>3 DEF Isolated, Guarded, At, In, Goto
    <2>2. job' \in [pc : AskPlace, n : 0..Asks] /\ job'.pc = "next" /\ job'.n = job.n /\ job' # Nil
      BY <2>1, GuardGoes DEF AskPlace
    <2>3. GuardTypes'
      BY <2>1, <2>2 DEF Watching
    <2> QED
      BY <2>1, <2>2, <2>3 DEF ConnsFit, Meets
  <1>4. CASE Summarise
    <2>1. /\ job # Nil /\ job.pc \in {"leave", "broken"} /\ job' = Nil /\ guard = Watching
          /\ UNCHANGED <<reason, active, guard, aborted, conns, sampled>>
          /\ summary' # Nil => (aborted => summary'.kept = {})
      BY <1>4 DEF Summarise, Finish, In
    <2>2. GuardTypes'
      BY <2>1 DEF Watching
    <2> QED
      BY <2>1, <2>2 DEF ConnsFit, Meets, Watching
  <1> QED
    BY <1>1, <1>2, <1>3, <1>4

\* A stream or a child on its way from the connection to the sample.
LEMMA AskStep ==
  ASSUME GuardTypes, ConnsFit, Meets, tool = "guard",
         Connect \/ Register \/ InterruptOwn \/ Read \/ Unregister \/ Final \/ WaitChild
  PROVE  GuardTypes' /\ ConnsFit' /\ Meets'
  <1> USE WatchAssumption DEF GuardTypes, Streaming, Number
  <1>1. /\ job # Nil /\ job \in [pc : AskPlace, n : 0..Asks] /\ UNCHANGED <<reason, guard, aborted, summary>>
        /\ \E pc \in AskPlace : job' = [job EXCEPT !.pc = pc]
    BY DEF Connect, Register, InterruptOwn, Read, Unregister, Final, WaitChild, Guarded, At, In, Goto, Fails, Conn,
           AfterRegister, guardVars, AskPlace
  <1>2. job' \in [pc : AskPlace, n : 0..Asks] /\ job'.n = job.n /\ job' # Nil
    BY <1>1, GuardGoes
  <1> DEFINE Changes(state) == conns' = [conns EXCEPT ![job.n] = state]
             Now(pc) == job' = [job EXCEPT !.pc = pc]
  <1>3. \A pc \in AskPlace : Now(pc) => job'.pc = pc
    BY <1>1, GuardGoes
  <1>4. job.n \in Number => \A state : Changes(state) =>
          conns'[job.n] = state /\ \A n \in Number \ {job.n} : conns'[n] = conns[n]
    OBVIOUS
  <1>5. CASE Connect
    <2>1. job.pc = "connect" /\ UNCHANGED <<active, sampled>>
      BY <1>5 DEF Connect, Guarded, At
    <2>2. (Now("register") /\ Changes("open")) \/ (Now("final") /\ conns' = conns)
      BY <1>5 DEF Connect, Goto, Fails, Conn
    <2> HIDE DEF Now
    <2>3. GuardTypes'
      BY <1>1, <1>2, <1>3, <2>1, <2>2 DEF Watching, AskPlace
    <2> HIDE DEF Changes
    <2> QED
      BY <1>1, <1>2, <1>3, <1>4, <2>1, <2>2, <2>3 DEF ConnsFit, Meets, AskPlace
  <1>6. CASE Register
    <2>1. job.pc = "register" /\ active' = job.n /\ UNCHANGED <<conns, sampled>>
      BY <1>6 DEF Register, Guarded, At
    <2>2. (Now("interrupt") /\ reason) \/ (Now("read") /\ ~reason)
      BY <1>6 DEF Register, Goto, AfterRegister
    <2> HIDE DEF Now
    <2>3. GuardTypes'
      BY <1>1, <1>2, <1>3, <2>1, <2>2 DEF Watching, AskPlace
    <2> QED
      BY <1>1, <1>2, <1>3, <2>1, <2>2, <2>3 DEF ConnsFit, Meets, AskPlace
  <1>7. CASE InterruptOwn
    <2>1. job.pc = "interrupt" /\ UNCHANGED <<active, sampled>> /\ Now("read") /\ Changes("cut")
      BY <1>7 DEF InterruptOwn, Guarded, At, Goto, Conn
    <2> HIDE DEF Now
    <2>2. GuardTypes'
      BY <1>1, <1>2, <1>3, <2>1 DEF Watching, AskPlace
    <2> HIDE DEF Changes
    <2>3. ConnsFit'
      BY <1>1, <1>2, <1>3, <1>4, <2>1 DEF ConnsFit, AskPlace
    <2>4. Meets'
      BY <1>1, <1>2, <1>3, <1>4, <2>1 DEF ConnsFit, Meets, AskPlace
    <2> QED
      BY <2>2, <2>3, <2>4
  <1>8. CASE Read
    <2>1. job.pc = "read" /\ UNCHANGED <<active, sampled, conns>> /\ Now("unregister")
      BY <1>8 DEF Read, Guarded, At, Goto, guardVars
    <2> HIDE DEF Now
    <2>2. GuardTypes'
      BY <1>1, <1>2, <1>3, <2>1 DEF Watching, AskPlace
    <2> QED
      BY <1>1, <1>2, <1>3, <2>1, <2>2 DEF ConnsFit, Meets, AskPlace
  <1>9. CASE Unregister
    <2>1. /\ job.pc = "unregister" /\ sampled' = sampled /\ Now("final")
          /\ active' = IF active = job.n THEN Nil ELSE active
          /\ IF conns[job.n] = "open" THEN Changes("closed") ELSE conns' = conns
      BY <1>9 DEF Unregister, Guarded, At, Goto, Conn
    <2> HIDE DEF Now
    <2>2. GuardTypes'
      BY <1>1, <1>2, <1>3, <2>1 DEF Watching, AskPlace
    <2> HIDE DEF Changes
    <2> QED
      BY <1>1, <1>2, <1>3, <1>4, <2>1, <2>2 DEF ConnsFit, Meets, AskPlace
  <1>10. CASE Final
    <2>1. /\ job.pc = "final" /\ UNCHANGED <<active, conns>>
          /\ IF reason THEN Now("leave") /\ sampled' = sampled ELSE Now("next") /\ sampled' = sampled \cup {job.n}
      BY <1>10 DEF Final, Guarded, At, Goto
    <2> HIDE DEF Now
    <2>2. GuardTypes'
      BY <1>1, <1>2, <1>3, <2>1 DEF Watching, AskPlace
    <2> QED
      BY <1>1, <1>2, <1>3, <2>1, <2>2 DEF ConnsFit, Meets, AskPlace
  <1>11. CASE WaitChild
    <2>1. job.pc = "child" /\ UNCHANGED <<active, sampled>> /\ Changes("closed") /\ (Now("final") \/ Now("leave") \/ Now("broken"))
      BY <1>11 DEF WaitChild, Guarded, At, Goto, Conn, Fails
    <2> HIDE DEF Now
    <2>2. GuardTypes'
      BY <1>1, <1>2, <1>3, <2>1 DEF Watching, AskPlace
    <2> HIDE DEF Changes
    <2> QED
      BY <1>1, <1>2, <1>3, <1>4, <2>1, <2>2 DEF ConnsFit, Meets, AskPlace
  <1> QED
    BY <1>5, <1>6, <1>7, <1>8, <1>9, <1>10, <1>11

\* The sampler thread cancels; others load models.
LEMMA SamplerStep ==
  ASSUME GuardTypes, ConnsFit, Meets, tool = "guard", Tick \/ Cancel \/ Interrupt \/ GuardWorld
  PROVE  GuardTypes' /\ ConnsFit' /\ Meets'
  <1> USE WatchAssumption DEF GuardTypes, Streaming, Number
  <1>1. job' = job
    BY DEF Tick, Cancel, Interrupt, GuardWorld, jobVars
  <1>2. CASE Tick
    BY <1>1, <1>2 DEF Tick, In, ConnsFit, Meets, Watching
  <1>3. CASE Cancel
    <2>1. /\ guard.pc = "cancel" /\ reason' = TRUE /\ UNCHANGED <<active, aborted, conns, sampled, summary>>
          /\ guard' = IF active = Nil THEN Watching ELSE [pc |-> "interrupt", on |-> active]
      BY <1>3 DEF Cancel
    <2>2. active # Nil => active \in Number
      BY DEF Meets
    <2>3. GuardTypes'
      BY <1>1, <2>1, <2>2 DEF Watching
    <2> QED
      BY <1>1, <2>1, <2>2, <2>3 DEF ConnsFit, Meets, Watching
  <1>4. CASE Interrupt
    <2>1. /\ guard.pc = "interrupt" /\ guard' = Watching /\ UNCHANGED <<reason, active, aborted, sampled, summary>>
          /\ conns' = [conns EXCEPT ![guard.on] = IF @ = "open" THEN "cut" ELSE @] /\ guard.on \in Number /\ reason
      BY <1>4 DEF Interrupt
    <2>2. /\ \A n \in Number : conns'[n] = conns[n] \/ (n = guard.on /\ conns[n] = "open" /\ conns'[n] = "cut")
          /\ conns'[guard.on] # "open"
      BY <2>1
    <2>3. GuardTypes'
      BY <1>1, <2>1 DEF Watching
    <2>4. ConnsFit'
      BY <1>1, <2>1, <2>2 DEF ConnsFit
    <2>5. Meets'
      BY <1>1, <2>1, <2>2 DEF ConnsFit, Meets
    <2> QED
      BY <2>3, <2>4, <2>5
  <1>5. CASE GuardWorld
    BY <1>1, <1>5 DEF GuardWorld, ConnsFit, Meets, Watching
  <1> QED
    BY <1>2, <1>3, <1>4, <1>5

LEMMA GuardNextInv == GuardIInv /\ [Next]_vars => GuardIInv'
<1> SUFFICES ASSUME GuardIInv, [Next]_vars
             PROVE  GuardIInv'
  OBVIOUS
<1>1. CASE tool = "guard"
  <2>1. GuardTypes' /\ ConnsFit' /\ Meets'
    <3>1. CASE RunWatchNext
      BY <1>1, <3>1, RunStep, AskStep, SamplerStep DEF GuardIInv, RunWatchNext
    <3>2. CASE UNCHANGED <<jobVars, guardVars>>
      BY <1>1, <3>2 DEF GuardIInv, GuardTypes, ConnsFit, Meets, jobVars, guardVars
    <3> QED
      BY <1>1, <3>1, <3>2, OnlyGuard
  <2>2. AbortReaches'
    BY <1>1, <2>1, OnlyGuard DEF GuardTypes, ConnsFit, Meets, AbortReaches, Guarded, At, In, Watching, Number
  <2> QED
    BY <1>1, <2>1, <2>2, OnlyGuard DEF GuardIInv
<1>2. CASE tool # "guard"
  BY <1>2, OnlyGuard DEF GuardIInv, AbortReaches, guardVars
<1> QED
  BY <1>1, <1>2

\* A cancellation reaches what the run waits for, and nothing that was cut counts.
THEOREM AbortReached == Spec => []AbortReaches
<1>1. GuardIInv => AbortReaches
  BY DEF GuardIInv
<1> QED
  BY GuardInitInv, GuardNextInv, <1>1, PTL DEF Spec

(***************************************************************************)
(* Measured legs: what a golden stands for and what a run is compared with.*)
(***************************************************************************)
MeasureTypes ==
  /\ pins \in Pins /\ seen \subseteq Pins /\ stopping \in BOOLEAN
  /\ job # Nil => job \in Measurement

\* p is no newer than q.
Upto(p, q) == \A k \in Pin : p[k] <= q[k]

\* Between the pins of the leg and its end; within a tier.
InLeg == {"tier", "pre", "term", "exit", "measure"}
InTier == {"pre", "term", "exit", "measure"}

\* What the running leg and its tier were measured under lies between the pins
\* the leg read and those of now.
LegBounded ==
  /\ job.pc \in InLeg => job.leg.pins \in Pins /\ Upto(job.leg.pins, pins)
  /\ job.pc \notin InLeg => \A t \in Tier : job.leg.made[t] = {}
  /\ job.pc \in InLeg => \A t \in Tier : \A p \in job.leg.made[t] : Upto(job.leg.pins, p) /\ Upto(p, pins)
  /\ job.pc \in InTier => \A p \in seen : Upto(job.leg.pins, p) /\ Upto(p, pins)

\* A leg that is over was measured between its pins and those of every later
\* leg; unless it has a problem, under its own.
LegsBounded ==
  \A i \in 1..Len(job.done) :
    /\ job.done[i].pins \in Pins /\ ~job.done[i].foul
    /\ \A t \in Tier : \A p \in job.done[i].made[t] :
         /\ Upto(job.done[i].pins, p) /\ Upto(p, pins)
         /\ ~job.done[i].problem => Alike(p, job.done[i].pins, PinKeys)
         /\ job.pc \in InLeg => Upto(p, job.leg.pins)
         /\ \A l \in 1..Len(job.done) : i < l => Upto(p, job.done[l].pins)

\* A stop that is excused hid no other model.
StopsClean ==
  /\ ~job.leg.foul
  /\ stopping <=> job.pc = "exit"
  /\ job.pc \in {"term", "exit"} /\ job.stop.pre /\ ~job.stop.late => "own" \notin foreign
  /\ job.stop.foul => job.pc = "exit" /\ ~job.stop.pre
  /\ job.sam # Nil /\ job.sam.foul => job.pc = "exit" /\ ~job.stop.pre /\ job.sam.within

MeasureWorks ==
  /\ LegBounded /\ LegsBounded /\ StopsClean /\ report = Nil
  /\ job.pc = "judge" => Len(job.done) = Len(Legs[job.kind])

MeasureIInv ==
  /\ GoldenIsTrue /\ ComparesAlike
  /\ tool = "measure" => /\ MeasureTypes /\ (job = Nil => ~stopping)
                         /\ job # Nil => MeasureWorks
  /\ tool # "measure" => golden = Nil /\ report = Nil

(***************************************************************************)
(* Pins.                                                                   *)
(***************************************************************************)
LEMMA UptoSelf == \A p \in Pins : Upto(p, p)
BY MeasureAssumption DEF Pins, Upto

LEMMA UptoTrans == \A p, q, r \in Pins : Upto(p, q) /\ Upto(q, r) => Upto(p, r)
BY MeasureAssumption DEF Pins, Upto

LEMMA UptoSame == \A p, q, r \in Pins, keys \in SUBSET Pin :
                    Upto(p, q) /\ Upto(q, r) /\ Alike(r, p, keys) => Alike(q, p, keys)
BY MeasureAssumption DEF Pins, Upto, Alike

LEMMA KeysOfTier == /\ PinKeys \subseteq Pin
                    /\ \A t \in Tier : TierKeys[t] \subseteq PinKeys /\ DriftKeys(t) \subseteq Pin
BY DEF PinKeys, Pin, TierKeys, Tier, DriftKeys

LEMMA NewLegType == NewLeg \in Leg /\ (\A t \in Tier : NewLeg.made[t] = {}) /\ ~NewLeg.foul
BY DEF NewLeg, Leg

(***************************************************************************)
(* The steps of a leg.                                                     *)
(***************************************************************************)
\* A step that leaves the legs' pins and what they were measured under alone.
LEMMA FlagStep ==
  ASSUME job # Nil => LegBounded /\ LegsBounded, job # Nil, UNCHANGED <<pins, seen>>,
         job'.done = job.done, job'.leg.pins = job.leg.pins, job'.leg.made = job.leg.made,
         job'.pc \in InLeg <=> job.pc \in InLeg, job'.pc \in InTier => job.pc \in InTier
  PROVE  LegBounded' /\ LegsBounded'
BY DEF LegBounded, LegsBounded

Bounded == MeasureTypes /\ job # Nil /\ job \in Measurement /\ MeasureWorks

LEMMA FlagActions ==
  ASSUME Bounded, \/ Preflight \/ Isolate \/ StopPre \/ StopTerm \/ StopExit \/ ProbeBegin \/ ProbeOwn \/ SampleStore
  PROVE  MeasureTypes' /\ (job' # Nil => MeasureWorks') /\ (job' = Nil => ~stopping')
<1> USE DEF Measuring, At, In
<1>0. job \in Measurement /\ job # Nil /\ StopsClean /\ LegBounded /\ LegsBounded /\ report = Nil /\ MeasureTypes
      /\ job.leg \in Leg /\ job.stop \in Stop
  BY DEF Bounded, MeasureWorks, Measurement
<1>f. ASSUME job' \in Measurement, job'.done = job.done, job'.leg.pins = job.leg.pins, job'.leg.made = job.leg.made,
             job'.pc \in InLeg <=> job.pc \in InLeg, job'.pc \in InTier => job.pc \in InTier, job'.pc # "judge",
             stopping' \in BOOLEAN, StopsClean', UNCHANGED <<pins, seen, report>>
      PROVE  MeasureTypes' /\ job' # Nil /\ MeasureWorks'
  <2>1. LegBounded' /\ LegsBounded'
    BY <1>0, <1>f, FlagStep
  <2> QED
    BY <1>0, <1>f, <2>1, MeasureAssumption DEF MeasureTypes, MeasureWorks
<1>p. /\ \A pc \in {"preflight", "isolate", "pins", "judge"} : pc \notin InLeg /\ pc \notin InTier
      /\ \A pc \in {"pre", "term", "exit", "measure"} : pc \in InLeg /\ pc \in InTier
      /\ "tier" \in InLeg /\ "tier" \notin InTier
  BY DEF InLeg, InTier
<1>1. CASE Preflight
  <2>1. CASE job' = Nil
    BY <1>0, <1>1, <2>1 DEF Preflight, measureVars, MeasureTypes, StopsClean
  <2>2. CASE Set("leg", [job.leg EXCEPT !.problem = Busy], "isolate")
    <3>1. /\ job' \in Measurement /\ job'.done = job.done /\ job'.leg.pins = job.leg.pins /\ job'.leg.made = job.leg.made
          /\ job.pc = "preflight" /\ job'.pc = "isolate" /\ job'.stop = job.stop /\ job'.sam = job.sam
          /\ job'.leg.foul = job.leg.foul
      BY <1>0, <1>1, <2>2 DEF Preflight, Set, Measurement, MeasurePlace, Leg, Busy
    <3>2. UNCHANGED measureVars
      BY <1>1 DEF Preflight
    <3>3. StopsClean'
      BY <1>0, <3>1, <3>2 DEF StopsClean, measureVars
    <3> QED
      BY <1>0, <1>f, <1>p, <3>1, <3>2, <3>3 DEF measureVars, MeasureTypes
  <2> QED
    BY <1>1, <2>1, <2>2 DEF Preflight, Finish
<1>2. CASE Isolate
  <2>1. CASE job' = Nil
    BY <1>0, <1>2, <2>1 DEF Isolate, MeasureTypes, StopsClean
  <2>2. CASE Goto("pins")
    <3>1. /\ job' \in Measurement /\ job'.done = job.done /\ job'.leg = job.leg
          /\ job.pc = "isolate" /\ job'.pc = "pins" /\ job'.stop = job.stop /\ job'.sam = job.sam
      BY <1>0, <1>2, <2>2 DEF Isolate, Goto, Measurement, MeasurePlace
    <3>2. UNCHANGED <<stopping, pins, seen, report>>
      BY <1>2 DEF Isolate
    <3>3. StopsClean'
      BY <1>0, <3>1, <3>2 DEF StopsClean
    <3> QED
      BY <1>0, <1>f, <1>p, <3>1, <3>2, <3>3 DEF MeasureTypes
  <2> QED
    BY <1>2, <2>1, <2>2 DEF Isolate, Finish
<1>3. CASE StopPre
  <2> DEFINE s == [NoStop EXCEPT !.pre = "own" \notin deaf /\ ~Foreign("own")]
  <2>0. s \in Stop /\ ~s.foul /\ (s.pre => "own" \notin foreign)
    BY DEF NoStop, Stop, Foreign
  <2> HIDE DEF s
  <2>1. /\ job' \in Measurement /\ job'.done = job.done /\ job'.leg = job.leg
        /\ job.pc = "pre" /\ job'.pc = "term" /\ job'.stop = s /\ job'.sam = job.sam
    BY <1>0, <1>3, <2>0 DEF StopPre, Set, Measurement, MeasurePlace, s
  <2>2. UNCHANGED <<foreign, stopping, pins, seen, report>>
    BY <1>3 DEF StopPre, measureVars
  <2>3. StopsClean'
    BY <1>0, <2>0, <2>1, <2>2 DEF StopsClean
  <2> QED
    BY <1>0, <1>f, <1>p, <2>1, <2>2, <2>3 DEF MeasureTypes
<1>4. CASE StopTerm
  <2>1. /\ job' \in Measurement /\ job'.done = job.done /\ job'.leg = job.leg
        /\ job.pc = "term" /\ job'.pc = "exit" /\ job'.stop = job.stop /\ job'.sam = job.sam
    BY <1>0, <1>4 DEF StopTerm, Goto, Measurement, MeasurePlace
  <2>2. UNCHANGED <<foreign, pins, seen, report>> /\ stopping' = TRUE
    BY <1>4 DEF StopTerm
  <2>3. StopsClean'
    BY <1>0, <2>1, <2>2 DEF StopsClean
  <2> QED
    BY <1>0, <1>f, <1>p, <2>1, <2>2, <2>3
<1>5. CASE StopExit
  <2>1. PICK killed \in BOOLEAN :
          job' = [job EXCEPT !.pc = "measure", !.stop = NoStop, !.leg = LegAfter(killed), !.sam = SampleAfter(killed)]
    BY <1>5 DEF StopExit
  <2>2. Excuses(killed) \in BOOLEAN /\ (Excuses(killed) => job.stop.pre) /\ NoStop \in Stop
    BY <1>0 DEF Excuses, Stop, NoStop
  <2>3. job.pc = "exit" /\ UNCHANGED <<pins, seen, report>> /\ stopping' = FALSE
    BY <1>5 DEF StopExit
  <2> DEFINE leg == LegAfter(killed)
             sam == SampleAfter(killed)
  <2>4. leg \in Leg /\ leg.pins = job.leg.pins /\ leg.made = job.leg.made /\ ~leg.foul
    BY <1>0, <2>2, <2>3 DEF LegAfter, Leg, StopsClean, Stop
  <2>5. sam \in Sample \cup {Nil} /\ (sam # Nil => ~sam.foul)
    <3>1. job.sam \in Sample \cup {Nil}
      BY <1>0 DEF Measurement
    <3>2. CASE job.sam = Nil
      BY <3>2 DEF SampleAfter
    <3>3. CASE job.sam # Nil /\ ~job.sam.within
      BY <1>0, <3>1, <3>3 DEF SampleAfter, StopsClean
    <3>4. CASE job.sam # Nil /\ job.sam.within
      <4>1. job.sam \in Sample /\ (job.sam.foul => ~Excuses(killed))
        BY <1>0, <2>2, <3>1, <3>4 DEF StopsClean
      <4> QED
        BY <2>2, <3>4, <4>1 DEF SampleAfter, Sample
    <3> QED
      BY <3>2, <3>3, <3>4
  <2> HIDE DEF leg, sam
  <2>7. /\ job' \in Measurement /\ job'.done = job.done /\ job'.leg = leg
        /\ job'.pc = "measure" /\ job'.stop = NoStop /\ job'.sam = sam
    BY <1>0, <2>1, <2>2, <2>4, <2>5 DEF Measurement, MeasurePlace, leg, sam
  <2>8. StopsClean'
    BY <2>3, <2>4, <2>5, <2>7 DEF StopsClean, NoStop
  <2> QED
    BY <1>0, <1>f, <1>p, <2>3, <2>4, <2>7, <2>8
<1>6. CASE ProbeBegin
  <2>1. /\ job' \in Measurement /\ job'.done = job.done /\ job'.leg = job.leg
        /\ job'.pc = job.pc /\ job'.stop = job.stop /\ ~job'.sam.foul /\ job.pc # "judge"
    BY <1>0, <1>6 DEF ProbeBegin, Sampling, Measurement, Sample, MeasureTypes
  <2>2. UNCHANGED <<foreign, stopping, pins, seen, report>>
    BY <1>6 DEF ProbeBegin, measureVars
  <2>3. StopsClean'
    BY <1>0, <2>1, <2>2 DEF StopsClean
  <2> QED
    BY <1>0, <1>f, <1>p, <2>1, <2>2, <2>3 DEF MeasureTypes
<1>7. CASE ProbeOwn
  <2>1. PICK answers \in BOOLEAN :
          LET gap == ~answers /\ job.sam.within /\ stopping
          IN job' = [job EXCEPT !.sam =
               [@ EXCEPT !.pc = "other", !.gap = gap, !.unknown = ~answers /\ ~gap,
                         !.foreign = answers /\ ~stopping /\ Foreign("own"),
                         !.foul = gap /\ Foreign("own") /\ ~job.stop.late]]
    BY <1>7 DEF ProbeOwn
  <2> DEFINE gap == ~answers /\ job.sam.within /\ stopping
             sam == [job.sam EXCEPT !.pc = "other", !.gap = gap, !.unknown = ~answers /\ ~gap,
                         !.foreign = answers /\ ~stopping /\ Foreign("own"),
                         !.foul = gap /\ Foreign("own") /\ ~job.stop.late]
  <2>2. job.sam \in Sample /\ job.pc # "judge"
    BY <1>0, <1>7 DEF ProbeOwn, Sampling, Measurement
  <2>3. sam \in Sample /\ (sam.foul => stopping /\ "own" \in foreign /\ ~job.stop.late /\ sam.within)
    <3> DEFINE unknown == ~answers /\ ~gap
               other == answers /\ ~stopping /\ Foreign("own")
               foul == gap /\ Foreign("own") /\ ~job.stop.late
    <3>1. gap \in BOOLEAN /\ unknown \in BOOLEAN /\ other \in BOOLEAN /\ foul \in BOOLEAN
      BY <1>0 DEF MeasureTypes
    <3>2. foul => stopping /\ "own" \in foreign /\ ~job.stop.late /\ job.sam.within
      BY <1>0 DEF Foreign
    <3>3. sam = [job.sam EXCEPT !.pc = "other", !.gap = gap, !.unknown = unknown, !.foreign = other, !.foul = foul]
      OBVIOUS
    <3> HIDE DEF sam, gap, unknown, other, foul
    <3>4. sam \in Sample /\ sam.foul = foul /\ sam.within = job.sam.within
      <4>1. sam = [pc |-> "other", within |-> job.sam.within, gap |-> gap, foreign |-> other, unknown |-> unknown,
                   foul |-> foul]
        BY ONLY <2>2, <3>3 DEF Sample
      <4>2. job.sam.within \in BOOLEAN
        BY ONLY <2>2 DEF Sample
      <4> QED
        BY ONLY <3>1, <4>1, <4>2 DEF Sample
    <3> QED
      BY ONLY <3>2, <3>4
  <2>4. job' = [job EXCEPT !.sam = sam]
    BY <2>1
  <2> HIDE DEF sam, gap
  <2>5. /\ job' \in Measurement /\ job'.done = job.done /\ job'.leg = job.leg
        /\ job'.pc = job.pc /\ job'.stop = job.stop /\ job'.sam = sam
    BY <1>0, <2>3, <2>4 DEF Measurement
  <2>6. UNCHANGED <<foreign, stopping, pins, seen, report>>
    BY <1>7 DEF ProbeOwn, measureVars
  <2>7. StopsClean'
    BY <1>0, <2>3, <2>5, <2>6 DEF StopsClean
  <2> QED
    BY <1>0, <1>f, <1>p, <2>2, <2>5, <2>6, <2>7 DEF MeasureTypes
<1>8. CASE SampleStore
  <2>1. UNCHANGED <<foreign, stopping, pins, seen, report>> /\ job.sam # Nil /\ job.sam \in Sample /\ job.pc # "judge"
    BY <1>0, <1>8 DEF SampleStore, Sampling, measureVars, Measurement
  <2> DEFINE sam == job.sam
             unknown == sam.unknown \/ "other" \in deaf
             excusable == sam.gap /\ sam.within /\ ~unknown
             leg == [job.leg EXCEPT
                      !.problem = @ \/ sam.foreign \/ ("other" \notin deaf /\ Foreign("other")),
                      !.unknown = @ \/ unknown, !.foul = @ \/ (sam.foul /\ ~unknown /\ ~stopping)]
             stop == [job.stop EXCEPT !.gap = @ \/ excusable, !.foul = @ \/ (excusable /\ sam.foul)]
  <2>2. CASE job' = [job EXCEPT !.sam = Nil, !.leg = leg, !.stop = stop]
    <3>1. leg \in Leg /\ leg.pins = job.leg.pins /\ leg.made = job.leg.made /\ ~leg.foul
      <4> DEFINE problem == job.leg.problem \/ sam.foreign \/ ("other" \notin deaf /\ Foreign("other"))
                 foul == job.leg.foul \/ (sam.foul /\ ~unknown /\ ~stopping)
      <4>1. job.leg \in Leg /\ problem \in BOOLEAN /\ (job.leg.unknown \/ unknown) \in BOOLEAN
        BY <1>0 DEF Measurement
      <4>2. foul = FALSE
        BY <1>0, <2>1 DEF StopsClean, Leg, Sample
      <4>3. leg = [job.leg EXCEPT !.problem = problem, !.unknown = job.leg.unknown \/ unknown, !.foul = foul]
        OBVIOUS
      <4> HIDE DEF leg, problem, foul
      <4> QED
        BY ONLY <4>1, <4>2, <4>3 DEF Leg
    <3>2. /\ stop \in Stop /\ stop.pre = job.stop.pre /\ stop.late = job.stop.late
          /\ stop.foul => job.stop.foul \/ job.sam.foul
      <4> DEFINE foul == job.stop.foul \/ (excusable /\ sam.foul)
      <4>1. job.stop \in Stop /\ (job.stop.gap \/ excusable) \in BOOLEAN /\ foul \in BOOLEAN
        BY <1>0 DEF Measurement
      <4>2. foul => job.stop.foul \/ job.sam.foul
        OBVIOUS
      <4>3. stop = [job.stop EXCEPT !.gap = job.stop.gap \/ excusable, !.foul = foul]
        OBVIOUS
      <4> HIDE DEF stop, excusable, foul
      <4>4. stop \in Stop /\ stop.pre = job.stop.pre /\ stop.late = job.stop.late /\ stop.foul = foul
        BY ONLY <4>1, <4>3 DEF Stop
      <4> QED
        BY ONLY <4>2, <4>4
    <3> HIDE DEF leg, stop
    <3>3. /\ job' \in Measurement /\ job'.done = job.done /\ job'.leg = leg
          /\ job'.pc = job.pc /\ job'.stop = stop /\ job'.sam = Nil
      BY <1>0, <2>2, <3>1, <3>2 DEF Measurement
    <3>4. StopsClean'
      BY <1>0, <2>1, <3>1, <3>2, <3>3 DEF StopsClean
    <3> QED
      BY <1>0, <1>f, <1>p, <2>1, <3>1, <3>3, <3>4 DEF MeasureTypes
  <2>3. CASE job' = [job EXCEPT !.sam = Nil, !.leg.unknown = TRUE]
    <3>1. /\ job' \in Measurement /\ job'.done = job.done /\ job'.leg.pins = job.leg.pins /\ job'.leg.made = job.leg.made
          /\ job'.leg.foul = job.leg.foul /\ job'.pc = job.pc /\ job'.stop = job.stop /\ job'.sam = Nil
      BY <1>0, <2>3 DEF Measurement, Leg
    <3>2. StopsClean'
      BY <1>0, <2>1, <3>1 DEF StopsClean
    <3> QED
      BY <1>0, <1>f, <1>p, <2>1, <3>1, <3>2 DEF MeasureTypes
  <2> QED
    BY <1>8, <2>2, <2>3 DEF SampleStore
<1> QED
  BY <1>1, <1>2, <1>3, <1>4, <1>5, <1>6, <1>7, <1>8

\* A measurement begins.
LEMMA BeginStep ==
  ASSUME MeasureTypes, ~stopping, MeasureBegin
  PROVE  MeasureTypes' /\ job' # Nil /\ MeasureWorks'
<1>1. PICK kind \in DOMAIN Legs, ts \in SUBSET Tier :
        job' = [pc |-> "preflight", kind |-> kind, tiers |-> ts, todo |-> ts, done |-> <<>>,
                leg |-> NewLeg, sam |-> Nil, stop |-> NoStop]
  BY DEF MeasureBegin, Begin
<1>2. UNCHANGED <<stopping, pins, seen>> /\ report' = Nil
  BY DEF MeasureBegin
<1>3. DOMAIN Legs = {"aa", "ab", "run"}
  BY DEF Legs
<1>4. <<>> \in Seq(Leg) /\ Len(<<>>) = 0 /\ NoStop \in Stop /\ ~NoStop.foul
  BY DEF NoStop, Stop
<1>5. /\ job' \in Measurement /\ job'.pc = "preflight" /\ job'.done = <<>> /\ job'.leg = NewLeg /\ job'.sam = Nil
      /\ job'.stop = NoStop
  BY <1>1, <1>3, <1>4, NewLegType DEF Measurement, MeasurePlace
<1>6. MeasureTypes'
  BY <1>2, <1>5 DEF MeasureTypes
<1>7. LegBounded'
  BY <1>5, NewLegType DEF LegBounded, InLeg, InTier
<1>8. LegsBounded'
  BY <1>4, <1>5 DEF LegsBounded
<1>9. StopsClean'
  BY <1>2, <1>4, <1>5, NewLegType DEF StopsClean
<1> QED
  BY <1>2, <1>5, <1>6, <1>7, <1>8, <1>9, MeasureAssumption DEF MeasureWorks

\* What Bounded says of the running measurement, by name.
LEMMA BoundedParts ==
  ASSUME Bounded
  PROVE  /\ job \in Measurement /\ job # Nil /\ StopsClean /\ LegBounded /\ LegsBounded /\ report = Nil /\ MeasureTypes
         /\ job.leg \in Leg /\ job.stop \in Stop /\ job.done \in Seq(Leg) /\ pins \in Pins /\ seen \subseteq Pins
BY DEF Bounded, MeasureWorks, Measurement, MeasureTypes

LEMMA ReadPinsStep ==
  ASSUME Bounded, ReadPins
  PROVE  MeasureTypes' /\ job' # Nil /\ MeasureWorks'
<1>0. /\ job \in Measurement /\ job # Nil /\ StopsClean /\ LegBounded /\ LegsBounded /\ report = Nil /\ MeasureTypes
      /\ job.leg \in Leg /\ job.done \in Seq(Leg) /\ pins \in Pins
  BY BoundedParts
<1> DEFINE leg == [job.leg EXCEPT !.pins = pins]
<1>1. leg \in Leg /\ leg.pins = pins /\ leg.made = job.leg.made /\ leg.foul = job.leg.foul
  BY <1>0 DEF Leg
<1>2. /\ job' = [job EXCEPT !.leg = leg, !.pc = "tier"] /\ job.pc = "pins"
      /\ UNCHANGED <<foreign, stopping, pins, seen, report>>
  BY DEF ReadPins, Set, Measuring, At, In, measureVars
<1> HIDE DEF leg
<1>3. /\ job' \in Measurement /\ job'.pc = "tier" /\ job'.done = job.done /\ job'.leg = leg /\ job'.sam = job.sam
      /\ job'.stop = job.stop
  BY <1>0, <1>1, <1>2 DEF Measurement, MeasurePlace
<1>4. LegBounded'
  <2>1. \A t \in Tier : leg.made[t] = {}
    BY <1>0, <1>1, <1>2 DEF LegBounded, InLeg
  <2> QED
    BY <1>0, <1>1, <1>2, <1>3, <2>1, UptoSelf DEF LegBounded, InLeg, InTier
<1>5. LegsBounded'
  BY <1>0, <1>1, <1>2, <1>3 DEF LegsBounded
<1>6. StopsClean'
  BY <1>0, <1>1, <1>2, <1>3 DEF StopsClean
<1> QED
  BY <1>0, <1>2, <1>3, <1>4, <1>5, <1>6, MeasureAssumption DEF MeasureTypes, MeasureWorks

LEMMA TierBeginStep ==
  ASSUME Bounded, TierBegin
  PROVE  MeasureTypes' /\ job' # Nil /\ MeasureWorks'
<1>0. /\ job \in Measurement /\ job # Nil /\ StopsClean /\ LegBounded /\ LegsBounded /\ report = Nil /\ MeasureTypes
      /\ job.leg \in Leg /\ job.done \in Seq(Leg) /\ pins \in Pins
  BY BoundedParts
<1>1. PICK t \in job.todo : job' = [job EXCEPT !.pc = IF t = "e2e" THEN "pre" ELSE "measure", !.todo = @ \ {t}]
  BY DEF TierBegin
<1>2. job.pc = "tier" /\ UNCHANGED <<foreign, stopping, pins, report>> /\ seen' = {pins}
  BY DEF TierBegin, Measuring, At, In
<1>3. /\ job' \in Measurement /\ job'.pc \in {"pre", "measure"} /\ job'.done = job.done /\ job'.leg = job.leg
      /\ job'.sam = job.sam /\ job'.stop = job.stop
  BY <1>0, <1>1 DEF Measurement, MeasurePlace
<1>4. LegBounded'
  BY <1>0, <1>2, <1>3, UptoSelf DEF LegBounded, InLeg, InTier
<1>5. LegsBounded'
  BY <1>0, <1>2, <1>3 DEF LegsBounded, InLeg
<1>6. StopsClean'
  BY <1>0, <1>2, <1>3 DEF StopsClean
<1> QED
  BY <1>0, <1>2, <1>3, <1>4, <1>5, <1>6, MeasureAssumption DEF MeasureTypes, MeasureWorks

LEMMA TierEndStep ==
  ASSUME Bounded, TierEnd
  PROVE  MeasureTypes' /\ job' # Nil /\ MeasureWorks'
<1>0. /\ job \in Measurement /\ job # Nil /\ StopsClean /\ LegBounded /\ LegsBounded /\ report = Nil /\ MeasureTypes
      /\ job.leg \in Leg /\ job.done \in Seq(Leg) /\ pins \in Pins /\ seen \subseteq Pins
  BY BoundedParts
<1>1. PICK t \in Tier : Set("leg", [job.leg EXCEPT !.made[t] = seen], "tier")
  BY <1>0 DEF TierEnd, Measurement
<1> DEFINE leg == [job.leg EXCEPT !.made[t] = seen]
<1>2. /\ leg \in Leg /\ leg.pins = job.leg.pins /\ leg.foul = job.leg.foul
      /\ leg.made[t] = seen /\ \A u \in Tier : u # t => leg.made[u] = job.leg.made[u]
  BY <1>0 DEF Leg
<1>3. job' = [job EXCEPT !.leg = leg, !.pc = "tier"]
  BY <1>1 DEF Set
<1>4. job.pc = "measure" /\ UNCHANGED <<foreign, stopping, pins, report>> /\ seen' = {}
  BY DEF TierEnd, Measuring, At, In
<1> HIDE DEF leg
<1>5. /\ job' \in Measurement /\ job'.pc = "tier" /\ job'.done = job.done /\ job'.leg = leg
      /\ job'.sam = job.sam /\ job'.stop = job.stop
  BY <1>0, <1>2, <1>3 DEF Measurement, MeasurePlace
<1>6. LegBounded'
  BY <1>0, <1>2, <1>4, <1>5 DEF LegBounded, InLeg, InTier
<1>7. LegsBounded'
  BY <1>0, <1>2, <1>4, <1>5 DEF LegsBounded, InLeg
<1>8. StopsClean'
  BY <1>0, <1>2, <1>4, <1>5 DEF StopsClean
<1> QED
  BY <1>0, <1>4, <1>5, <1>6, <1>7, <1>8, MeasureAssumption DEF MeasureTypes, MeasureWorks

LEMMA LegEndStep ==
  ASSUME Bounded, LegEnd
  PROVE  MeasureTypes' /\ job' # Nil /\ MeasureWorks'
<1>0. /\ job \in Measurement /\ job # Nil /\ StopsClean /\ LegBounded /\ LegsBounded /\ report = Nil /\ MeasureTypes
      /\ job.leg \in Leg /\ job.stop \in Stop /\ job.done \in Seq(Leg) /\ pins \in Pins
  BY BoundedParts
<1> DEFINE leg == [job.leg EXCEPT !.problem = @ \/ ~Alike(pins, job.leg.pins, PinKeys)]
           done == Append(job.done, leg)
           pc == IF Len(done) = Len(Legs[job.kind]) THEN "judge" ELSE "preflight"
<1>1. /\ leg \in Leg /\ leg.pins = job.leg.pins /\ leg.made = job.leg.made /\ leg.foul = job.leg.foul
      /\ ~leg.problem => Alike(pins, job.leg.pins, PinKeys)
  BY <1>0 DEF Leg
<1>2. /\ job' = [job EXCEPT !.done = done, !.leg = NewLeg, !.todo = job.tiers, !.pc = pc]
      /\ job.pc = "tier" /\ job.sam = Nil /\ UNCHANGED <<foreign, stopping, pins, seen, report>>
  BY DEF LegEnd, Measuring, At, In, measureVars
<1> HIDE DEF leg
<1>3. /\ done \in Seq(Leg) /\ Len(done) = Len(job.done) + 1 /\ done[Len(job.done) + 1] = leg
      /\ \A i \in 1..Len(job.done) : done[i] = job.done[i]
  BY <1>0, <1>1
<1> HIDE DEF done
<1>4. /\ job' \in Measurement /\ job'.done = done /\ job'.leg = NewLeg /\ job'.sam = Nil /\ job'.stop = job.stop
      /\ job'.pc = pc /\ job'.kind = job.kind
  BY <1>0, <1>2, <1>3, NewLegType DEF Measurement, MeasurePlace
<1>5. LegBounded'
  BY <1>4, NewLegType DEF LegBounded, InLeg, InTier
<1>6. LegsBounded'
  <2> SUFFICES ASSUME NEW i \in 1..Len(done)
               PROVE  /\ done[i].pins \in Pins /\ ~done[i].foul
                      /\ \A t \in Tier : \A p \in done[i].made[t] :
                           /\ Upto(done[i].pins, p) /\ Upto(p, pins)
                           /\ ~done[i].problem => Alike(p, done[i].pins, PinKeys)
                           /\ \A l \in 1..Len(done) : i < l => Upto(p, done[l].pins)
    <3>1. job'.pc \notin InLeg
      BY <1>4 DEF InLeg
    <3> QED
      BY <1>2, <1>4, <3>1 DEF LegsBounded
  <2>1. CASE i = Len(job.done) + 1
    <3>1. done[i] = leg /\ leg.pins \in Pins /\ ~leg.foul /\ \A l \in 1..Len(done) : ~(i < l)
      BY <1>0, <1>1, <1>2, <1>3, <2>1 DEF LegBounded, InLeg, StopsClean
    <3>2. ASSUME NEW t \in Tier, NEW p \in leg.made[t]
          PROVE  /\ Upto(leg.pins, p) /\ Upto(p, pins) /\ (~leg.problem => Alike(p, leg.pins, PinKeys))
      <4>1. p \in Pins /\ Upto(leg.pins, p) /\ Upto(p, pins)
        BY <1>0, <1>1, <1>2, <3>2 DEF LegBounded, InLeg, Leg
      <4> QED
        BY <1>0, <1>1, <3>1, <4>1, UptoSame, KeysOfTier
    <3> QED
      BY <3>1, <3>2
  <2>2. CASE i \in 1..Len(job.done)
    <3>1. done[i] = job.done[i] /\ job.done[i].pins \in Pins /\ ~job.done[i].foul
      BY <1>0, <1>3, <2>2 DEF LegsBounded
    <3>2. ASSUME NEW t \in Tier, NEW p \in job.done[i].made[t]
          PROVE  /\ Upto(job.done[i].pins, p) /\ Upto(p, pins)
                 /\ ~job.done[i].problem => Alike(p, job.done[i].pins, PinKeys)
                 /\ Upto(p, leg.pins) /\ \A l \in 1..Len(job.done) : i < l => Upto(p, job.done[l].pins)
      BY <1>0, <1>1, <1>2, <2>2, <3>2 DEF LegsBounded, InLeg
    <3>3. \A l \in 1..Len(done) : l \in 1..Len(job.done) \/ done[l] = leg
      BY <1>0, <1>3
    <3> QED
      BY <1>3, <3>1, <3>2, <3>3
  <2> QED
    BY <1>0, <1>3, <2>1, <2>2
<1>7. StopsClean'
  BY <1>0, <1>2, <1>4, NewLegType DEF StopsClean
<1>8. job'.pc = "judge" => Len(job'.done) = Len(Legs[job'.kind])
  BY <1>4
<1> QED
  BY <1>0, <1>2, <1>4, <1>5, <1>6, <1>7, <1>8, MeasureAssumption DEF MeasureTypes, MeasureWorks

\* Others use the machine, and what is installed is updated.
LEMMA OthersStep ==
  ASSUME MeasureTypes, job # Nil => MeasureWorks, job = Nil => ~stopping, MeasureWorld, tool = "measure"
  PROVE  MeasureTypes' /\ (job' # Nil => MeasureWorks') /\ (job' = Nil => ~stopping')
<1>0. UNCHANGED <<stopping, golden, report>> /\ pins \in Pins /\ seen \subseteq Pins
  BY DEF MeasureWorld, MeasureTypes
<1>1. CASE /\ \E s \in Server :
                /\ s = "own" => ~stopping
                /\ foreign' = (foreign \ {s}) \cup ({s} \ foreign)
                /\ job' = IF s = "own" /\ Measuring("term") THEN [job EXCEPT !.stop.late = TRUE] ELSE job
           /\ UNCHANGED <<deaf, pins, seen>>
  <2>1. PICK s \in Server :
          /\ s = "own" => ~stopping
          /\ foreign' = (foreign \ {s}) \cup ({s} \ foreign)
          /\ job' = IF s = "own" /\ Measuring("term") THEN [job EXCEPT !.stop.late = TRUE] ELSE job
    BY <1>1
  <2>2. CASE job = Nil
    BY <1>0, <1>1, <2>1, <2>2 DEF MeasureTypes, Measuring, At, In
  <2>3. CASE job # Nil
    <3>0. job \in Measurement /\ MeasureWorks /\ LegBounded /\ LegsBounded /\ StopsClean /\ job.stop \in Stop
      BY <2>3 DEF MeasureTypes, MeasureWorks, Measurement
    <3> DEFINE stop == [job.stop EXCEPT !.late = TRUE]
    <3>s. stop \in Stop /\ stop.late /\ stop.pre = job.stop.pre /\ stop.foul = job.stop.foul
      BY <3>0 DEF Stop
    <3>1. CASE s = "own" /\ Measuring("term")
      <4>1. job' = [job EXCEPT !.stop = stop] /\ job.pc = "term"
        BY <2>1, <3>1 DEF Measuring, At, In
      <4> HIDE DEF stop
      <4>2. /\ job' \in Measurement /\ job'.pc = job.pc /\ job'.done = job.done /\ job'.leg = job.leg
            /\ job'.stop = stop /\ job'.sam = job.sam /\ job'.kind = job.kind
        BY <3>0, <3>s, <4>1 DEF Measurement
      <4>3. StopsClean'
        BY <1>0, <3>0, <3>s, <4>1, <4>2 DEF StopsClean
      <4>4. LegBounded' /\ LegsBounded'
        BY <1>1, <2>3, <3>0, <4>2, FlagStep
      <4>5. job' # Nil
        BY <4>2, MeasureAssumption
      <4> QED
        BY <1>0, <1>1, <3>0, <4>2, <4>3, <4>4, <4>5 DEF MeasureTypes, MeasureWorks
    <3>2. CASE ~(s = "own" /\ Measuring("term"))
      <4>1. job' = job
        BY <2>1, <3>2
      <4>2. "own" \in foreign' => "own" \in foreign \/ job.pc \notin {"term", "exit"}
        BY <2>1, <2>3, <3>0, <3>2 DEF StopsClean, Measuring, At, In
      <4>3. StopsClean'
        BY <1>0, <3>0, <4>1, <4>2 DEF StopsClean
      <4>4. LegBounded' /\ LegsBounded'
        BY <1>1, <2>3, <3>0, <4>1, FlagStep
      <4> QED
        BY <1>0, <1>1, <2>3, <3>0, <4>1, <4>3, <4>4 DEF MeasureTypes, MeasureWorks
    <3> QED
      BY <3>1, <3>2
  <2> QED
    BY <2>2, <2>3
<1>2. CASE UNCHANGED <<job, foreign, pins, seen>>
  BY <1>0, <1>2 DEF MeasureTypes, MeasureWorks, LegBounded, LegsBounded, StopsClean
<1>3. CASE /\ \E k \in Pin : pins[k] < MaxPin /\ pins' = [pins EXCEPT ![k] = @ + 1]
           /\ seen' = IF seen = {} THEN {} ELSE seen \cup {pins'}
           /\ UNCHANGED <<job, foreign, deaf>>
  <2>1. PICK k \in Pin : pins[k] < MaxPin /\ pins' = [pins EXCEPT ![k] = @ + 1]
    BY <1>3
  <2>2. pins' \in Pins /\ Upto(pins, pins')
    BY <1>0, <2>1, MeasureAssumption DEF Pins, Upto
  <2>3. MeasureTypes' /\ (job' = Nil => ~stopping')
    BY <1>0, <1>3, <2>2 DEF MeasureTypes
  <2>4. ASSUME job # Nil
        PROVE  MeasureWorks'
    <3>0. job \in Measurement /\ MeasureWorks /\ LegBounded /\ LegsBounded /\ StopsClean /\ job.leg \in Leg /\ job.done \in Seq(Leg)
      BY <2>4 DEF MeasureTypes, MeasureWorks, Measurement
    <3>1. ASSUME NEW p \in Pins, Upto(p, pins)
          PROVE  Upto(p, pins')
      BY <1>0, <2>2, <3>1, UptoTrans
    <3>2. \A t \in Tier : job.leg.made[t] \subseteq Pins
      BY <3>0 DEF Leg
    <3>3. \A i \in 1..Len(job.done) : \A t \in Tier : job.done[i].made[t] \subseteq Pins
      <4>1. \A i \in 1..Len(job.done) : job.done[i] \in Leg
        BY <3>0
      <4> QED
        BY <4>1 DEF Leg
    <3>4. LegBounded'
      <4>1. job.pc \in InLeg => job.leg.pins \in Pins /\ Upto(job.leg.pins, pins')
        BY <3>0, <3>1 DEF LegBounded
      <4>2. job.pc \in InLeg => \A t \in Tier : \A p \in job.leg.made[t] : Upto(job.leg.pins, p) /\ Upto(p, pins')
        BY <3>0, <3>1, <3>2 DEF LegBounded
      <4>3. job.pc \in InTier => job.pc \in InLeg
        BY DEF InTier, InLeg
      <4>4. job.pc \in InTier => \A p \in seen' : Upto(job.leg.pins, p) /\ Upto(p, pins')
        BY <1>0, <1>3, <2>2, <3>0, <3>1, <4>1, <4>3, UptoSelf DEF LegBounded
      <4> QED
        BY <1>3, <3>0, <4>1, <4>2, <4>4 DEF LegBounded
    <3>5. LegsBounded'
      <4>0. job' = job
        BY <1>3
      <4> SUFFICES ASSUME NEW i \in 1..Len(job.done)
                   PROVE  /\ job.done[i].pins \in Pins /\ ~job.done[i].foul
                          /\ \A t \in Tier : \A p \in job.done[i].made[t] :
                               /\ Upto(job.done[i].pins, p) /\ Upto(p, pins')
                               /\ ~job.done[i].problem => Alike(p, job.done[i].pins, PinKeys)
                               /\ job.pc \in InLeg => Upto(p, job.leg.pins)
                               /\ \A l \in 1..Len(job.done) : i < l => Upto(p, job.done[l].pins)
        BY <4>0 DEF LegsBounded
      <4>1. job.done[i].pins \in Pins /\ ~job.done[i].foul
        BY <3>0 DEF LegsBounded
      <4>2. ASSUME NEW t \in Tier, NEW p \in job.done[i].made[t]
            PROVE  /\ Upto(job.done[i].pins, p) /\ Upto(p, pins')
                   /\ ~job.done[i].problem => Alike(p, job.done[i].pins, PinKeys)
                   /\ job.pc \in InLeg => Upto(p, job.leg.pins)
                   /\ \A l \in 1..Len(job.done) : i < l => Upto(p, job.done[l].pins)
        <5>1. /\ Upto(job.done[i].pins, p) /\ Upto(p, pins)
              /\ ~job.done[i].problem => Alike(p, job.done[i].pins, PinKeys)
              /\ job.pc \in InLeg => Upto(p, job.leg.pins)
              /\ \A l \in 1..Len(job.done) : i < l => Upto(p, job.done[l].pins)
          BY <3>0 DEF LegsBounded
        <5>2. p \in Pins
          BY <3>3
        <5>3. Upto(p, pins')
          BY <3>1, <5>1, <5>2
        <5> QED
          BY <5>1, <5>3
      <4> QED
        BY <4>1, <4>2
    <3>6. StopsClean'
      BY <1>0, <1>3, <3>0 DEF StopsClean
    <3> QED
      BY <1>0, <1>3, <3>0, <3>4, <3>5, <3>6 DEF MeasureWorks
  <2> QED
    BY <1>3, <2>3, <2>4
<1> HIDE DEF MeasureTypes, MeasureWorks
<1> QED
  BY <1>1, <1>2, <1>3 DEF MeasureWorld, ByOthers

(***************************************************************************)
(* What is concluded.                                                      *)
(***************************************************************************)
\* What a sound leg was measured under is what it is filed under.
LEMMA SoundLeg ==
  ASSUME Bounded, NEW i \in 1..Len(job.done), ~Unsound(job.done[i]), NEW t \in Tier, NEW p \in job.done[i].made[t]
  PROVE  /\ p \in Pins /\ job.done[i].pins \in Pins /\ Alike(p, job.done[i].pins, TierKeys[t])
         /\ Alike(p, job.done[i].pins, PinKeys)
<1>1. job.done \in Seq(Leg) /\ LegsBounded
  BY BoundedParts
<1>2. p \in Pins
  <2>1. job.done[i] \in Leg
    BY <1>1
  <2> QED
    BY <2>1 DEF Leg
<1>3. job.done[i].pins \in Pins /\ Alike(p, job.done[i].pins, PinKeys)
  BY <1>1 DEF LegsBounded, Unsound
<1> QED
  BY <1>2, <1>3, KeysOfTier DEF Alike

LEMMA JudgeAAStep ==
  ASSUME Bounded, JudgeAA, GoldenIsTrue
  PROVE  GoldenIsTrue'
<1> DEFINE legs == job.done
           sound == (\A i \in 1..2 : ~Unsound(legs[i])) /\ Alike(legs[1].pins, legs[2].pins, PinKeys)
           new == FromAA(legs)
<1>1. golden' = IF sound THEN Merge(golden, new) ELSE golden
  BY DEF JudgeAA
<1>2. LegsBounded /\ Len(legs) = 2
  BY DEF JudgeAA, Bounded, MeasureWorks, Measuring, At, In, Legs
<1>3. ASSUME sound, NEW t \in Tier, new.rows[t] # Nil
      PROVE  ~new.rows[t].foul /\ \A p \in new.rows[t].made : Alike(p, new.rows[t].pins, TierKeys[t])
  <2>1. new.rows[t] = [pins |-> legs[1].pins, made |-> legs[1].made[t] \cup legs[2].made[t],
                       foul |-> legs[1].foul \/ legs[2].foul]
    BY <1>3 DEF FromAA
  <2>2. ~legs[1].foul /\ ~legs[2].foul
    BY <1>2 DEF LegsBounded
  <2>3. \A p \in legs[1].made[t] : Alike(p, legs[1].pins, TierKeys[t])
    BY <1>2, <1>3, SoundLeg
  <2>4. \A p \in legs[2].made[t] : Alike(p, legs[2].pins, TierKeys[t])
    BY <1>2, <1>3, SoundLeg
  <2>5. \A p \in legs[2].made[t] : Alike(p, legs[1].pins, TierKeys[t])
    BY <1>3, <2>4, KeysOfTier DEF Alike
  <2>6. /\ new.rows[t].pins = legs[1].pins /\ new.rows[t].made = legs[1].made[t] \cup legs[2].made[t]
        /\ new.rows[t].foul = (legs[1].foul \/ legs[2].foul)
    BY <2>1
  <2> HIDE DEF new, legs
  <2> QED
    BY <2>2, <2>3, <2>5, <2>6
<1>4. ASSUME sound, golden' # Nil, NEW t \in Tier, golden'.rows[t] # Nil
      PROVE  /\ ~golden'.rows[t].foul
             /\ \A p \in golden'.rows[t].made : Alike(p, golden'.rows[t].pins, TierKeys[t])
  <2>1. golden' = Merge(golden, new)
    BY <1>1, <1>4
  <2>2. CASE golden = Nil \/ ~Alike(golden.pins, new.pins, {"backend"}) \/ t \in job.tiers
    <3>1. golden'.rows[t] = new.rows[t]
      BY <2>1, <2>2 DEF Merge, FromAA
    <3> HIDE DEF new, sound
    <3> QED
      BY <1>3, <1>4, <3>1
  <2>3. CASE ~(golden = Nil \/ ~Alike(golden.pins, new.pins, {"backend"}) \/ t \in job.tiers)
    <3>1. golden'.rows[t] = golden.rows[t] /\ golden # Nil
      BY <2>1, <2>3 DEF Merge, FromAA
    <3> HIDE DEF new, sound
    <3> QED
      BY <1>4, <3>1 DEF GoldenIsTrue
  <2> QED
    BY <2>2, <2>3
<1> HIDE DEF sound, new, legs
<1> QED
  BY <1>1, <1>4 DEF GoldenIsTrue

LEMMA JudgeABStep ==
  ASSUME Bounded, JudgeAB
  PROVE  ComparesAlike'
<1> SUFFICES ASSUME report' # Nil, report'.sound, NEW t \in report'.tiers
             PROVE  /\ report'.kind # "run"
                    /\ \A i \in 1..3 : \A p \in report'.legs[i].made[t] : Alike(p, report'.legs[i].pins, TierKeys[t])
                    /\ t = "e2e" => \A p \in report'.legs[1].made[t] : p.omp = report'.legs[3].pins.omp
  BY DEF ComparesAlike
<1>1. report' = [kind |-> "ab", sound |-> \A i \in 1..3 : ~Unsound(job.done[i]), legs |-> job.done,
                 tiers |-> {u \in job.tiers : ~Drifted(u)}]
  BY DEF JudgeAB
<1>2. /\ report'.kind = "ab" /\ (\A i \in 1..3 : ~Unsound(job.done[i])) /\ report'.legs = job.done
      /\ t \in job.tiers /\ ~Drifted(t)
  BY <1>1
<1>3. job.done \in Seq(Leg) /\ LegsBounded /\ Len(job.done) = 3 /\ t \in Tier
  BY <1>2, BoundedParts DEF JudgeAB, Bounded, MeasureWorks, Measuring, At, In, Legs, Measurement
<1>4. ASSUME NEW i \in 1..3, NEW p \in job.done[i].made[t]
      PROVE  Alike(p, job.done[i].pins, TierKeys[t])
  BY <1>2, <1>3, <1>4, SoundLeg
<1>5. ASSUME t = "e2e", NEW p \in job.done[1].made[t]
      PROVE  p.omp = job.done[3].pins.omp
  <2>1. p \in Pins /\ job.done[1].pins \in Pins /\ job.done[3].pins \in Pins
    <3>1. job.done[1] \in Leg
      BY <1>3
    <3> QED
      BY <1>3, <1>5, <3>1 DEF LegsBounded, Leg
  <2>2. Upto(job.done[1].pins, p) /\ Upto(p, job.done[3].pins)
    BY <1>3, <1>5 DEF LegsBounded
  <2>3. job.done[1].pins["omp"] = job.done[3].pins["omp"]
    BY <1>2, <1>5 DEF Drifted, Alike, DriftKeys, Pin
  <2>4. job.done[1].pins["omp"] <= p["omp"] /\ p["omp"] <= job.done[3].pins["omp"]
    BY <2>2 DEF Upto, Pin
  <2>5. p["omp"] \in Nat /\ job.done[3].pins["omp"] \in Nat
    BY <2>1, MeasureAssumption DEF Pins, Pin
  <2> QED
    BY <2>3, <2>4, <2>5
<1> QED
  BY <1>2, <1>4, <1>5

LEMMA JudgeRunStep ==
  ASSUME Bounded, JudgeRun
  PROVE  ComparesAlike'
<1> SUFFICES ASSUME report' # Nil, report'.sound, NEW t \in report'.tiers
             PROVE  /\ report'.kind = "run"
                    /\ \A p \in report'.legs[1].made[t] : Alike(p, golden'.rows[t].pins, TierKeys[t])
  BY DEF ComparesAlike
<1>1. /\ report' = [kind |-> "run", sound |-> ~Unsound(job.done[1]), legs |-> job.done,
                    tiers |-> {u \in job.tiers : /\ golden # Nil
                                                 /\ golden.rows[u] # Nil
                                                 /\ Alike(golden.rows[u].pins, job.done[1].pins, TierKeys[u])}]
      /\ golden' = golden
  BY DEF JudgeRun
<1>2. /\ report'.kind = "run" /\ ~Unsound(job.done[1]) /\ report'.legs = job.done /\ t \in job.tiers
      /\ Alike(golden.rows[t].pins, job.done[1].pins, TierKeys[t])
  BY <1>1
<1>3. job.done \in Seq(Leg) /\ Len(job.done) = 1 /\ t \in Tier
  BY <1>2, BoundedParts DEF JudgeRun, Bounded, MeasureWorks, Measuring, At, In, Legs, Measurement
<1>4. \A p \in job.done[1].made[t] : Alike(p, job.done[1].pins, TierKeys[t])
  BY <1>2, <1>3, SoundLeg
<1> QED
  BY <1>1, <1>2, <1>4 DEF Alike

(***************************************************************************)
(* The theorems.                                                           *)
(***************************************************************************)
LEMMA MeasureInitInv == Init => MeasureIInv
<1> SUFFICES ASSUME MeasureInit, job = Nil
             PROVE  MeasureIInv
  BY DEF Init, JobInit
<1>1. pins \in Pins
  BY MeasureAssumption DEF MeasureInit, Pins
<1> QED
  BY <1>1 DEF MeasureInit, MeasureIInv, MeasureTypes, GoldenIsTrue, ComparesAlike

LEMMA MeasureStep == MeasureIInv /\ [Next]_vars => MeasureIInv'
<1> SUFFICES ASSUME MeasureIInv, [Next]_vars
             PROVE  MeasureIInv'
  OBVIOUS
<1>1. CASE UNCHANGED <<tool, measureVars>> /\ (tool # "measure" \/ UNCHANGED job)
  BY <1>1 DEF MeasureIInv, measureVars, MeasureTypes, MeasureWorks, LegBounded, LegsBounded, StopsClean,
              GoldenIsTrue, ComparesAlike
<1>2. CASE tool = "measure" /\ tool' = tool /\ MeasureNext
  <2>0. MeasureTypes /\ (job = Nil => ~stopping) /\ (job # Nil => Bounded) /\ GoldenIsTrue /\ ComparesAlike
    BY <1>2 DEF MeasureIInv, Bounded, MeasureTypes
  <2>s. ASSUME GoldenIsTrue', ComparesAlike', MeasureTypes', job' # Nil => MeasureWorks', job' = Nil => ~stopping'
        PROVE  MeasureIInv'
    BY <1>2, <2>s DEF MeasureIInv
  <2>1. CASE MeasureBegin
    <3>1. MeasureTypes' /\ MeasureWorks' /\ golden' = golden /\ report' = Nil /\ job' # Nil
      BY <2>0, <2>1, BeginStep DEF MeasureBegin, Begin
    <3> QED
      BY <2>0, <2>s, <3>1 DEF GoldenIsTrue, ComparesAlike
  <2>2. CASE MeasureWorld
    <3>1. UNCHANGED <<golden, report>>
      BY <2>2 DEF MeasureWorld
    <3>2. GoldenIsTrue' /\ ComparesAlike'
      BY <2>0, <3>1 DEF GoldenIsTrue, ComparesAlike
    <3> QED
      BY <1>2, <2>0, <2>2, <2>s, <3>2, OthersStep DEF Bounded
  <2>3. CASE Preflight \/ Isolate \/ StopPre \/ StopTerm \/ StopExit \/ ProbeBegin \/ ProbeOwn \/ SampleStore
    <3>1. UNCHANGED <<golden, report>> /\ job # Nil
      BY <2>3 DEF Preflight, Isolate, StopPre, StopTerm, StopExit, ProbeBegin, ProbeOwn, SampleStore, measureVars,
                  Measuring, At, In, Sampling
    <3>2. GoldenIsTrue' /\ ComparesAlike'
      BY <2>0, <3>1 DEF GoldenIsTrue, ComparesAlike
    <3> QED
      BY <2>0, <2>3, <2>s, <3>1, <3>2, FlagActions
  <2>4. CASE ReadPins \/ TierBegin \/ TierEnd \/ LegEnd
    <3>1. UNCHANGED <<golden, report>> /\ job # Nil
      BY <2>4 DEF ReadPins, TierBegin, TierEnd, LegEnd, measureVars, Measuring, At, In
    <3>2. GoldenIsTrue' /\ ComparesAlike'
      BY <2>0, <3>1 DEF GoldenIsTrue, ComparesAlike
    <3>3. MeasureTypes' /\ job' # Nil /\ MeasureWorks'
      BY <2>0, <2>4, <3>1, ReadPinsStep, TierBeginStep, TierEndStep, LegEndStep
    <3> QED
      BY <2>s, <3>2, <3>3
  <2>5. CASE JudgeAA \/ JudgeAB \/ JudgeRun
    <3>1. job # Nil /\ job' = Nil /\ UNCHANGED <<pins, seen, stopping>> /\ job.pc = "judge"
      BY <2>5 DEF JudgeAA, JudgeAB, JudgeRun, Measuring, At, In, Finish
    <3>2. MeasureTypes' /\ ~stopping' /\ report = Nil
      BY <2>0, <3>1, BoundedParts DEF MeasureTypes, StopsClean
    <3>3. CASE JudgeAA
      <4>1. GoldenIsTrue' /\ report' = Nil
        BY <2>0, <3>1, <3>2, <3>3, JudgeAAStep DEF JudgeAA
      <4> QED
        BY <2>s, <3>1, <3>2, <4>1 DEF ComparesAlike
    <3>4. CASE JudgeAB \/ JudgeRun
      <4>1. ComparesAlike' /\ golden' = golden
        BY <2>0, <3>1, <3>4, JudgeABStep, JudgeRunStep DEF JudgeAB, JudgeRun
      <4> QED
        BY <2>0, <2>s, <3>1, <3>2, <4>1 DEF GoldenIsTrue
    <3> QED
      BY <2>5, <3>3, <3>4
  <2> QED
    BY <1>2, <2>1, <2>2, <2>3, <2>4, <2>5 DEF MeasureNext
<1>3. CASE UNCHANGED vars
  BY <1>1, <1>3 DEF vars, jobVars
<1>4. CASE tool # "measure" /\ Next
  BY <1>1, <1>4 DEF Next
<1>5. CASE tool = "measure" /\ Next
  BY <1>2, <1>5 DEF Next
<1> QED
  BY <1>3, <1>4, <1>5

\* What a leg, its samples and its owned stops know of the server and of the pins
\* at each place of execute, and what the golden and the rows were made of.
THEOREM MeasureInvariant == Spec => []MeasureIInv
<1> QED
  BY MeasureInitInv, MeasureStep, PTL DEF Spec

\* aa, ab and run (tiers, golden, __main__): a golden's row was measured wholly
\* under the pins it is filed under, and what a sound run or A/B is compared
\* with was measured under the same pins, for any updates while legs run.
THEOREM GoldensTrue == Spec => []GoldensHold
<1>1. MeasureIInv => GoldensHold
  BY DEF MeasureIInv, GoldensHold
<1> QED
  BY <1>1, MeasureInvariant, PTL

(***************************************************************************)
(* Snapshots of omp: whoever holds one keeps it, and what changed under it *)
(* proves nothing.                                                         *)
(***************************************************************************)
FreezeLocal == [pc : Place, kind : {Nil, "freeze", "run", "prove"}, id : Version, created : BOOLEAN,
                victims : SUBSET Version, victim : Version, entry : Version, rest : Version,
                ino : Inode \cup {0}, lock : {"none", "sh", "ex"}, dirty : BOOLEAN]

\* A run from its lock to its end, and a pruner while it removes, hold the lock
\* file they opened; nobody else has one.
LocksRightly(s) ==
  /\ s.lock = "ex" <=> s.pc = "remove"
  /\ s.lock = "sh" <=> s.pc \in {"check", "work", "recheck", "publish", "marked"}
  /\ s.ino # 0 <=> (s.lock # "none" \/ s.pc = "lock")

FreezeLocks == \A p \in Proc : LocksRightly(st[p])

\* Who removes under a lock file holds it alone.
FreezeExclusive ==
  \A p, q \in Proc : p # q /\ st[p].lock = "ex" /\ st[q].lock # "none" => st[p].ino # st[q].ino

\* A snapshot's entry is of the version it is named for.
CopiesRightly(s) == s.pc = "rename" => s.entry = s.id

FreezeEntries ==
  /\ \A v \in Version : snap[v] # Nil => snap[v].entry = v
  /\ \A p \in Proc : CopiesRightly(st[p])

\* The path of a run's snapshot names the lock file it holds, and nobody removed
\* the snapshot under another.
Covered(s) == s.id \notin dropped /\ s.ino = lockPath[s.id]

\* What a covered run works on is there, and a change of it is seen at its end.
WorksRightly(s) ==
  /\ s.pc \notin {"work", "recheck", "publish", "marked"} => ~s.dirty
  /\ Covered(s) /\ s.pc \in {"work", "recheck"} =>
       snap[s.id] # Nil /\ snap[s.id].whole /\ (s.dirty => snap[s.id].changed)
  /\ Covered(s) /\ s.pc = "publish" => ~s.dirty

FreezeWorks == \A p \in Proc : WorksRightly(st[p])

FreezeIInv == FreezeTypeOK /\ FreezeLocks /\ FreezeExclusive /\ FreezeEntries /\ FreezeWorks

(***************************************************************************)
(* A lock file nobody has: there are more than paths and processes.        *)
(***************************************************************************)
LEMMA Unused ==
  FreezeTypeOK => \E i \in Inode : (\A v \in Version : lockPath[v] # i) /\ (\A p \in Proc : st[p].ino # i)
<1> SUFFICES ASSUME FreezeTypeOK
             PROVE  \E i \in Inode : (\A v \in Version : lockPath[v] # i) /\ (\A p \in Proc : st[p].ino # i)
  OBVIOUS
<1> DEFINE has == [p \in Proc |-> st[p].ino]
           paths == {lockPath[v] : v \in Version}
           held == {has[p] : p \in Proc}
<1>1. Cardinality(Proc) \in Nat /\ MaxVersion \in Nat /\ IsFiniteSet(Proc)
  BY FS_CardinalityType, FreezeAssumption
<1>c. ASSUME NEW a \in {0, 1}, NEW b \in Nat, a <= b
      PROVE  IsFiniteSet(a..b) /\ Cardinality(a..b) = b - a + 1
  <2>1. a \in Int /\ b \in Int /\ ~(a > b)
    BY <1>c
  <2> QED
    BY ONLY <2>1, FS_Interval
<1>2. IsFiniteSet(Version) /\ Cardinality(Version) = MaxVersion + 1
  <2>1. 0 <= MaxVersion /\ MaxVersion - 0 + 1 = MaxVersion + 1
    BY ONLY <1>1
  <2> QED
    BY ONLY <1>1, <1>c, <2>1 DEF Version
<1>3. IsFiniteSet(Inode) /\ Cardinality(Inode) = Cardinality(Proc) + MaxVersion + 2
  <2>1. PICK n \in Nat : n = Cardinality(Proc) + MaxVersion + 2 /\ 1 <= n /\ n - 1 + 1 = n
    BY ONLY <1>1
  <2> QED
    BY ONLY <1>c, <2>1 DEF Inode
<1>4. lockPath \in Surjection(Version, paths)
  BY DEF FreezeTypeOK, Surjection
<1>5. has \in Surjection(Proc, held)
  BY DEF Surjection
<1>6. IsFiniteSet(paths) /\ Cardinality(paths) <= MaxVersion + 1
  BY <1>2, <1>4, FS_Surjection
<1>7. IsFiniteSet(held) /\ Cardinality(held) <= Cardinality(Proc)
  BY <1>1, <1>5, FS_Surjection
<1>8. /\ IsFiniteSet(paths \cup held) /\ IsFiniteSet(paths \cap held)
      /\ Cardinality(paths \cup held) = Cardinality(paths) + Cardinality(held) - Cardinality(paths \cap held)
  <2>1. paths \cap held \in SUBSET paths
    OBVIOUS
  <2> QED
    BY <1>6, <1>7, <2>1, FS_Union, FS_Subset
<1>9. Cardinality(paths \cup held) < Cardinality(Inode)
  <2>1. Cardinality(paths) \in Nat /\ Cardinality(held) \in Nat /\ Cardinality(paths \cap held) \in Nat
    BY <1>6, <1>7, <1>8, FS_CardinalityType
  <2> HIDE DEF paths, held
  <2> QED
    BY <1>1, <1>3, <1>6, <1>7, <1>8, <2>1
<1>10. ~(Inode \subseteq paths \cup held)
  <2>1. Cardinality(paths \cup held) \in Nat /\ Cardinality(Inode) \in Nat
    BY <1>3, <1>8, FS_CardinalityType
  <2>2. Inode \subseteq paths \cup held => Cardinality(Inode) <= Cardinality(paths \cup held)
    BY <1>8, FS_Subset
  <2> QED
    BY <1>9, <2>1, <2>2
<1> QED
  BY <1>10

LEMMA FreshIsUnused ==
  FreezeTypeOK => /\ FreshInode \in Inode /\ FreshInode # 0
                  /\ \A v \in Version : lockPath[v] # FreshInode
                  /\ \A p \in Proc : st[p].ino # FreshInode
<1>1. 0 \notin Inode
  BY FS_CardinalityType, FreezeAssumption DEF Inode
<1>2. FreezeTypeOK => /\ FreshInode \in Inode
                      /\ (\A v \in Version : lockPath[v] # FreshInode) /\ (\A p \in Proc : st[p].ino # FreshInode)
  BY Unused DEF FreshInode
<1> QED
  BY <1>1, <1>2

(***************************************************************************)
(* The steps.                                                              *)
(***************************************************************************)
\* The record of a process.
LEMMA LocalType == ASSUME FreezeTypeOK, NEW p \in Proc
                   PROVE  st[p] \in FreezeLocal
BY DEF FreezeTypeOK, FreezeLocal

LEMMA IdleLocal == /\ Idle \in FreezeLocal /\ LocksRightly(Idle) /\ CopiesRightly(Idle) /\ WorksRightly(Idle)
                   /\ Idle.ino = 0 /\ Idle.lock = "none" /\ WorksRightly(Idle)'
BY FreezeAssumption DEF Idle, FreezeLocal, Place, Version, LocksRightly, CopiesRightly, WorksRightly

\* A step of p that leaves snapshots and lock paths alone, and gives p no lock.
LEMMA QuietStep ==
  ASSUME FreezeIInv, NEW p \in Proc, NEW s, s \in FreezeLocal, st' = [st EXCEPT ![p] = s],
         LocksRightly(s), CopiesRightly(s), WorksRightly(s),
         s.lock # "none" => s.lock = st[p].lock /\ s.ino = st[p].ino,
         installed' \in Version, UNCHANGED <<snap, lockPath, dropped>>
  PROVE  FreezeIInv'
<1>1. st \in [Proc -> FreezeLocal]
  BY DEF FreezeIInv, FreezeTypeOK, FreezeLocal
<1>2. st' \in [Proc -> FreezeLocal] /\ st'[p] = s /\ \A q \in Proc : q # p => st'[q] = st[q]
  BY <1>1
<1>3. FreezeTypeOK'
  BY <1>2 DEF FreezeIInv, FreezeTypeOK, FreezeLocal
<1>4. FreezeLocks'
  BY <1>2 DEF FreezeIInv, FreezeLocks, LocksRightly
<1>5. FreezeExclusive'
  <2> SUFFICES ASSUME NEW q \in Proc, NEW r \in Proc, q # r, st'[q].lock = "ex", st'[r].lock # "none"
               PROVE  st'[q].ino # st'[r].ino
    BY DEF FreezeExclusive
  <2>1. /\ st'[q].lock = st[q].lock /\ st'[q].ino = st[q].ino
        /\ st'[r].lock = st[r].lock /\ st'[r].ino = st[r].ino
    BY <1>2
  <2> QED
    BY <2>1 DEF FreezeIInv, FreezeExclusive
<1>6. FreezeEntries'
  BY <1>2 DEF FreezeIInv, FreezeEntries, CopiesRightly
<1>7. FreezeWorks'
  BY <1>2 DEF FreezeIInv, FreezeWorks, WorksRightly, Covered
<1> QED
  BY <1>3, <1>4, <1>5, <1>6, <1>7 DEF FreezeIInv

LEMMA QuietActions ==
  ASSUME FreezeIInv, NEW p \in Proc,
         \/ FreezePlan(p) \/ CopyEntry(p) \/ CopyRest(p) \/ Verify(p) \/ AfterFreeze(p)
         \/ HoldCheck(p) \/ HandlerRuns(p) \/ Recheck(p) \/ ProofCloses(p)
  PROVE  FreezeIInv'
<1> DEFINE Suits(s) == /\ s \in FreezeLocal /\ LocksRightly(s) /\ CopiesRightly(s) /\ WorksRightly(s)
                       /\ (s.lock # "none" => s.lock = st[p].lock /\ s.ino = st[p].ino)
<1>0. /\ st[p] \in FreezeLocal /\ LocksRightly(st[p]) /\ CopiesRightly(st[p]) /\ WorksRightly(st[p])
      /\ Suits(Idle) /\ installed \in Version
  BY LocalType, IdleLocal DEF FreezeIInv, FreezeLocks, FreezeEntries, FreezeWorks, FreezeTypeOK
<1>q. ASSUME NEW s, Suits(s), st' = [st EXCEPT ![p] = s], UNCHANGED <<installed, snap, lockPath, dropped>>
      PROVE  FreezeIInv'
  BY <1>q, <1>0, QuietStep
<1> HIDE DEF Suits
<1>1. CASE FreezePlan(p)
  <2>1. PICK kind \in {"freeze", "run", "prove"}, pc \in {"copy", "verify"} :
          st' = [st EXCEPT ![p] = [[Idle EXCEPT !.kind = kind, !.id = installed] EXCEPT !.pc = pc]]
    BY <1>1 DEF FreezePlan, Moves
  <2> DEFINE s == [[Idle EXCEPT !.kind = kind, !.id = installed] EXCEPT !.pc = pc]
  <2>2. Suits(s)
    <3> DEFINE x == [Idle EXCEPT !.kind = kind, !.id = installed]
    <3>1. Idle \in FreezeLocal /\ Idle.lock = "none" /\ Idle.ino = 0 /\ Idle.dirty = FALSE
      BY ONLY IdleLocal DEF Idle
    <3>2. pc \in Place /\ installed \in Version
      BY <1>0 DEF Place
    <3>3. x \in FreezeLocal /\ x.lock = "none" /\ x.ino = 0 /\ x.dirty = FALSE
      BY ONLY <3>1, <3>2, kind \in {"freeze", "run", "prove"} DEF FreezeLocal
    <3> HIDE DEF x
    <3>4. [x EXCEPT !.pc = pc] \in FreezeLocal /\ [x EXCEPT !.pc = pc].pc = pc /\ [x EXCEPT !.pc = pc].lock = "none"
          /\ [x EXCEPT !.pc = pc].ino = 0 /\ [x EXCEPT !.pc = pc].dirty = FALSE
      BY ONLY <3>2, <3>3 DEF FreezeLocal
    <3>f. s \in FreezeLocal /\ s.pc = pc /\ s.lock = "none" /\ s.ino = 0 /\ s.dirty = FALSE
      BY ONLY <3>4 DEF x
    <3> HIDE DEF s
    <3>5. LocksRightly(s) /\ CopiesRightly(s)
      BY ONLY <3>f, pc \in {"copy", "verify"} DEF LocksRightly, CopiesRightly
    <3>6. WorksRightly(s)
      BY ONLY <3>f, pc \in {"copy", "verify"} DEF WorksRightly
    <3> QED
      BY ONLY <3>f, <3>5, <3>6 DEF Suits
  <2> HIDE DEF s
  <2>3. st' = [st EXCEPT ![p] = s] /\ UNCHANGED <<installed, snap, lockPath, dropped>>
    BY <1>1, <2>1 DEF FreezePlan, s
  <2> QED
    BY ONLY <1>q, <2>2, <2>3
<1>2. CASE CopyEntry(p)
  <2> DEFINE s == [To(p, "rest") EXCEPT !.entry = installed]
  <2>1. st' = [st EXCEPT ![p] = s] /\ st[p].pc = "copy"
    BY <1>2 DEF CopyEntry, Moves
  <2>2. Suits(s)
    BY <1>0, <2>1 DEF Suits, To, FreezeLocal, Place, LocksRightly, CopiesRightly, WorksRightly
  <2> QED
    BY <1>2, <1>q, <2>1, <2>2 DEF CopyEntry
<1>3. CASE CopyRest(p)
  <2> DEFINE s == [To(p, "rename") EXCEPT !.rest = installed]
  <2>1. st[p].pc = "rest" /\ \/ st' = [st EXCEPT ![p] = s] /\ st[p].entry = st[p].id
                             \/ st' = [st EXCEPT ![p] = Idle]
    BY <1>3 DEF CopyRest, Leaves, Moves
  <2>2. st[p].entry = st[p].id => Suits(s)
    BY <1>0, <2>1 DEF Suits, To, FreezeLocal, Place, LocksRightly, CopiesRightly, WorksRightly
  <2> QED
    BY <1>0, <1>3, <1>q, <2>1, <2>2 DEF CopyRest
<1>4. CASE Verify(p)
  <2>1. PICK vs \in SUBSET Version, pc \in {"prune", "used"} :
          \/ st' = [st EXCEPT ![p] = [To(p, pc) EXCEPT !.victims = vs]]
          \/ st' = [st EXCEPT ![p] = Idle]
    BY <1>4 DEF Verify, Leaves, Moves, Candidates
  <2> DEFINE s == [To(p, pc) EXCEPT !.victims = vs]
  <2>2. Suits(s)
    <3>1. st[p].pc = "verify"
      BY <1>4 DEF Verify, Leaves, Moves
    <3> QED
      BY <1>0, <3>1 DEF Suits, To, FreezeLocal, Place, LocksRightly, CopiesRightly, WorksRightly
  <2> QED
    BY <1>0, <1>4, <1>q, <2>1, <2>2 DEF Verify
<1>5. CASE AfterFreeze(p)
  <2> DEFINE s == To(p, "open")
  <2>1. st[p].pc \in {"used", "prune"} /\ (st' = [st EXCEPT ![p] = s] \/ st' = [st EXCEPT ![p] = Idle])
    BY <1>5 DEF AfterFreeze, Moves
  <2>2. Suits(s)
    BY <1>0, <2>1 DEF Suits, To, FreezeLocal, Place, LocksRightly, CopiesRightly, WorksRightly
  <2> QED
    BY <1>0, <1>5, <1>q, <2>1, <2>2 DEF AfterFreeze
<1>6. CASE HoldCheck(p)
  <2> DEFINE s == To(p, "work")
  <2>1. st[p].pc = "check" /\ ((Whole(st[p].id) /\ st' = [st EXCEPT ![p] = s]) \/ st' = [st EXCEPT ![p] = Idle])
    BY <1>6 DEF HoldCheck, Leaves, Moves
  <2>2. Whole(st[p].id) => Suits(s)
    BY <1>0, <2>1 DEF Suits, To, Whole, FreezeLocal, Place, LocksRightly, CopiesRightly, WorksRightly
  <2> QED
    BY <1>0, <1>6, <1>q, <2>1, <2>2 DEF HoldCheck
<1>7. CASE HandlerRuns(p)
  <2> DEFINE s == To(p, "recheck")
  <2>1. st[p].pc = "work" /\ (st' = [st EXCEPT ![p] = s] \/ st' = [st EXCEPT ![p] = Idle])
    BY <1>7 DEF HandlerRuns, Moves
  <2>2. Suits(s)
    BY <1>0, <2>1 DEF Suits, To, Covered, FreezeLocal, Place, LocksRightly, CopiesRightly, WorksRightly
  <2> QED
    BY <1>0, <1>7, <1>q, <2>1, <2>2 DEF HandlerRuns
<1>8. CASE Recheck(p)
  <2> DEFINE s == To(p, IF Publishes(p) THEN "publish" ELSE "marked")
  <2>1. st[p].pc = "recheck" /\ st' = [st EXCEPT ![p] = s]
    BY <1>8 DEF Recheck, Moves
  <2>2. Suits(s)
    <3>1. s \in FreezeLocal /\ s.lock = st[p].lock /\ s.ino = st[p].ino /\ s.id = st[p].id /\ s.dirty = st[p].dirty
          /\ s.pc = IF Publishes(p) THEN "publish" ELSE "marked"
      BY <1>0 DEF To, FreezeLocal, Place
    <3>2. Covered(s) /\ Publishes(p) => ~s.dirty
      BY <1>0, <2>1, <3>1 DEF Covered, WorksRightly, Publishes, Whole
    <3> HIDE DEF s
    <3> QED
      BY <1>0, <2>1, <3>1, <3>2 DEF Suits, LocksRightly, CopiesRightly, WorksRightly
  <2> QED
    BY <1>8, <1>q, <2>1, <2>2 DEF Recheck
<1>9. CASE ProofCloses(p)
  BY <1>0, <1>9, <1>q DEF ProofCloses, Leaves, Moves
<1> QED
  BY <1>1, <1>2, <1>3, <1>4, <1>5, <1>6, <1>7, <1>8, <1>9

\* A lock is taken: the lock path of one version may be made, no snapshot changes.
LEMMA LockStep ==
  ASSUME FreezeIInv, NEW p \in Proc, NEW v \in Version, NEW s, s \in FreezeLocal, st' = [st EXCEPT ![p] = s],
         lockPath' = [lockPath EXCEPT ![v] = Opened(v)],
         LocksRightly(s), CopiesRightly(s), ~s.dirty, s.pc \notin {"work", "recheck"},
         \/ s.lock = "none"
         \/ s.lock = "ex" /\ \A q \in Proc : q # p /\ st[q].lock # "none" => st[q].ino # s.ino,
         UNCHANGED <<installed, snap, dropped>>
  PROVE  FreezeIInv'
<1>1. st \in [Proc -> FreezeLocal]
  BY DEF FreezeIInv, FreezeTypeOK, FreezeLocal
<1>2. st' \in [Proc -> FreezeLocal] /\ st'[p] = s /\ \A q \in Proc : q # p => st'[q] = st[q]
  BY <1>1
<1>3. /\ Opened(v) \in Inode /\ Opened(v) # 0
      /\ lockPath[v] = 0 => \A q \in Proc : st[q].ino # Opened(v)
      /\ lockPath[v] # 0 => Opened(v) = lockPath[v]
  BY FreshIsUnused DEF Opened, FreezeIInv, FreezeTypeOK
<1>4. FreezeTypeOK'
  BY <1>2, <1>3 DEF FreezeIInv, FreezeTypeOK, FreezeLocal
<1>5. FreezeLocks'
  BY <1>2 DEF FreezeIInv, FreezeLocks, LocksRightly
<1>6. FreezeExclusive'
  <2> SUFFICES ASSUME NEW q \in Proc, NEW r \in Proc, q # r, st'[q].lock = "ex", st'[r].lock # "none"
               PROVE  st'[q].ino # st'[r].ino
    BY DEF FreezeExclusive
  <2>1. CASE q = p
    BY <1>2, <2>1
  <2>2. CASE r = p
    BY <1>2, <2>2
  <2>3. CASE q # p /\ r # p
    BY <1>2, <2>3 DEF FreezeIInv, FreezeExclusive
  <2> QED
    BY <2>1, <2>2, <2>3
<1>7. FreezeEntries'
  BY <1>2 DEF FreezeIInv, FreezeEntries, CopiesRightly
<1>8. FreezeWorks'
  <2>1. WorksRightly(s)'
    BY DEF WorksRightly
  <2>2. ASSUME NEW q \in Proc, q # p
        PROVE  WorksRightly(st[q])'
    <3>1. st'[q] = st[q] /\ WorksRightly(st[q]) /\ LocksRightly(st[q]) /\ st[q].id \in Version
      BY <1>1, <1>2, <2>2 DEF FreezeIInv, FreezeWorks, FreezeLocks, FreezeLocal
    <3>2. lockPath'[st[q].id] = st[q].ino /\ st[q].ino # 0 => lockPath[st[q].id] = st[q].ino
      BY <1>3, <3>1 DEF FreezeIInv, FreezeTypeOK
    <3> QED
      BY <3>1, <3>2 DEF WorksRightly, LocksRightly, Covered
  <2> QED
    BY <1>2, <2>1, <2>2 DEF FreezeWorks, WorksRightly, Covered
<1> QED
  BY <1>4, <1>5, <1>6, <1>7, <1>8 DEF FreezeIInv

\* A snapshot is made, removed or damaged, and no covered run is at it.
LEMMA SnapStep ==
  ASSUME FreezeIInv, NEW p \in Proc, NEW v \in Version, NEW s, s \in FreezeLocal, st' = [st EXCEPT ![p] = s],
         snap' \in [Version -> Snapshot \cup {Nil}], snap'[v] # Nil => snap'[v].entry = v,
         \A w \in Version : w # v => snap'[w] = snap[w],
         LocksRightly(s), CopiesRightly(s), ~s.dirty, s.lock = "none", s.pc \notin {"work", "recheck"},
         dropped' \subseteq Version, dropped \subseteq dropped',
         \A q \in Proc : q # p /\ st[q].pc \in {"work", "recheck"} /\ st[q].id = v /\ Covered(st[q]) => v \in dropped',
         UNCHANGED <<installed, lockPath>>
  PROVE  FreezeIInv'
<1>1. st \in [Proc -> FreezeLocal]
  BY DEF FreezeIInv, FreezeTypeOK, FreezeLocal
<1>2. st' \in [Proc -> FreezeLocal] /\ st'[p] = s /\ \A q \in Proc : q # p => st'[q] = st[q]
  BY <1>1
<1>3. FreezeTypeOK'
  BY <1>2 DEF FreezeIInv, FreezeTypeOK, FreezeLocal
<1>4. FreezeLocks'
  BY <1>2 DEF FreezeIInv, FreezeLocks, LocksRightly
<1>5. FreezeExclusive'
  BY <1>2 DEF FreezeIInv, FreezeExclusive, LocksRightly
<1>6. FreezeEntries'
  BY <1>2 DEF FreezeIInv, FreezeEntries, CopiesRightly
<1>7. FreezeWorks'
  <2>1. WorksRightly(s)'
    BY DEF WorksRightly
  <2>2. ASSUME NEW q \in Proc, q # p
        PROVE  WorksRightly(st[q])'
    <3>1. st'[q] = st[q] /\ WorksRightly(st[q]) /\ st[q].id \in Version
      BY <1>1, <1>2, <2>2 DEF FreezeIInv, FreezeWorks, FreezeLocal
    <3>2. st[q].id # v => snap'[st[q].id] = snap[st[q].id]
      BY <3>1
    <3>3. Covered(st[q])' => Covered(st[q])
      BY <3>1 DEF Covered
    <3>4. Covered(st[q])' /\ st[q].pc \in {"work", "recheck"} => st[q].id # v
      BY <2>2, <3>1, <3>3 DEF Covered
    <3> QED
      BY <3>1, <3>2, <3>3, <3>4 DEF WorksRightly
  <2> QED
    BY <1>2, <2>1, <2>2 DEF FreezeWorks, WorksRightly, Covered
<1> QED
  BY <1>3, <1>4, <1>5, <1>6, <1>7 DEF FreezeIInv

LEMMA LockActions ==
  ASSUME FreezeIInv, NEW p \in Proc, PruneLock(p) \/ HoldOpen(p)
  PROVE  FreezeIInv'
<1>0. /\ st[p] \in FreezeLocal /\ LocksRightly(st[p]) /\ CopiesRightly(st[p]) /\ WorksRightly(st[p])
  BY LocalType DEF FreezeIInv, FreezeLocks, FreezeEntries, FreezeWorks
<1>o. ASSUME NEW v \in Version
      PROVE  Opened(v) \in Inode /\ Opened(v) # 0
  BY FreshIsUnused DEF Opened, FreezeIInv, FreezeTypeOK
<1>1. CASE PruneLock(p)
  <2>1. PICK v \in st[p].victims :
          /\ lockPath' = [lockPath EXCEPT ![v] = Opened(v)]
          /\ LET s == [To(p, "prune") EXCEPT !.victims = @ \ {v}]
             IN Moves(p, "prune", IF MayPrune(Opened(v))
                                 THEN [s EXCEPT !.pc = "remove", !.victim = v, !.ino = Opened(v), !.lock = "ex"] ELSE s)
    BY <1>1 DEF PruneLock
  <2> DEFINE s == [To(p, "prune") EXCEPT !.victims = @ \ {v}]
             t == [s EXCEPT !.pc = "remove", !.victim = v, !.ino = Opened(v), !.lock = "ex"]
  <2>2. v \in Version /\ st[p].pc = "prune"
    BY <1>0, <2>1 DEF Moves, FreezeLocal
  <2>3. /\ s \in FreezeLocal /\ LocksRightly(s) /\ CopiesRightly(s) /\ ~s.dirty /\ s.pc \notin {"work", "recheck"}
        /\ s.lock = "none"
    BY <1>0, <2>2 DEF To, FreezeLocal, Place, LocksRightly, CopiesRightly, WorksRightly
  <2>4. /\ t \in FreezeLocal /\ LocksRightly(t) /\ CopiesRightly(t) /\ ~t.dirty /\ t.pc \notin {"work", "recheck"}
        /\ t.lock = "ex" /\ t.ino = Opened(v)
    BY <1>0, <1>o, <2>2 DEF To, FreezeLocal, Place, LocksRightly, CopiesRightly, WorksRightly
  <2>5. CASE MayPrune(Opened(v))
    <3>1. st' = [st EXCEPT ![p] = t]
      BY <2>1, <2>5 DEF Moves
    <3>2. \A q \in Proc : q # p /\ st[q].lock # "none" => st[q].ino # t.ino
      BY <2>4, <2>5 DEF MayPrune, Holders
    <3> HIDE DEF t, s
    <3> QED
      BY <1>1, <2>1, <2>2, <2>4, <3>1, <3>2, LockStep DEF PruneLock
  <2>6. CASE ~MayPrune(Opened(v))
    <3>1. st' = [st EXCEPT ![p] = s]
      BY <2>1, <2>6 DEF Moves
    <3> HIDE DEF t, s
    <3> QED
      BY <1>1, <2>1, <2>2, <2>3, <3>1, LockStep DEF PruneLock
  <2> QED
    BY <2>5, <2>6
<1>2. CASE HoldOpen(p)
  <2> DEFINE v == st[p].id
             s == [To(p, "lock") EXCEPT !.ino = Opened(v)]
  <2>1. st' = [st EXCEPT ![p] = s] /\ st[p].pc = "open" /\ v \in Version
    BY <1>0, <1>2 DEF HoldOpen, Moves, FreezeLocal
  <2>2. /\ s \in FreezeLocal /\ LocksRightly(s) /\ CopiesRightly(s) /\ ~s.dirty /\ s.pc \notin {"work", "recheck"}
        /\ s.lock = "none"
    BY <1>0, <1>o, <2>1 DEF To, FreezeLocal, Place, LocksRightly, CopiesRightly, WorksRightly
  <2>3. lockPath' = [lockPath EXCEPT ![v] = Opened(v)] /\ UNCHANGED <<installed, snap, dropped>>
    BY <1>2 DEF HoldOpen
  <2> HIDE DEF s, v
  <2> QED
    BY <2>1, <2>2, <2>3, LockStep
<1> QED
  BY <1>1, <1>2

\* A run locks the file it opened, when nobody removes under it.
LEMMA HoldLockStep ==
  ASSUME FreezeIInv, NEW p \in Proc, HoldLock(p)
  PROVE  FreezeIInv'
<1> DEFINE s == [To(p, "check") EXCEPT !.lock = "sh"]
<1>0. /\ st[p] \in FreezeLocal /\ LocksRightly(st[p]) /\ CopiesRightly(st[p]) /\ WorksRightly(st[p])
  BY LocalType DEF FreezeIInv, FreezeLocks, FreezeEntries, FreezeWorks
<1>1. st \in [Proc -> FreezeLocal] /\ st' = [st EXCEPT ![p] = s] /\ st[p].pc = "lock"
  BY DEF HoldLock, Moves, FreezeIInv, FreezeTypeOK, FreezeLocal
<1>2. /\ s \in FreezeLocal /\ LocksRightly(s) /\ CopiesRightly(s) /\ ~s.dirty /\ s.pc = "check"
      /\ s.lock = "sh" /\ s.ino = st[p].ino
  BY <1>0, <1>1 DEF To, FreezeLocal, Place, LocksRightly, CopiesRightly, WorksRightly
<1> HIDE DEF s
<1>3. st' \in [Proc -> FreezeLocal] /\ st'[p] = s /\ \A q \in Proc : q # p => st'[q] = st[q]
  BY <1>1, <1>2
<1>4. UNCHANGED <<installed, snap, newest, lockPath, dropped>>
  BY DEF HoldLock
<1>5. FreezeTypeOK'
  BY <1>3, <1>4 DEF FreezeIInv, FreezeTypeOK, FreezeLocal
<1>6. FreezeLocks'
  BY <1>2, <1>3 DEF FreezeIInv, FreezeLocks, LocksRightly
<1>7. FreezeExclusive'
  <2> SUFFICES ASSUME NEW q \in Proc, NEW r \in Proc, q # r, st'[q].lock = "ex", st'[r].lock # "none"
               PROVE  st'[q].ino # st'[r].ino
    BY DEF FreezeExclusive
  <2>1. q # p /\ st[q].lock = "ex" /\ st'[q] = st[q]
    BY <1>2, <1>3
  <2>2. CASE r = p
    BY <1>2, <1>3, <2>1, <2>2 DEF HoldLock, Writers, Holders
  <2>3. CASE r # p
    BY <1>3, <2>1, <2>3 DEF FreezeIInv, FreezeExclusive
  <2> QED
    BY <2>2, <2>3
<1>8. FreezeEntries'
  BY <1>2, <1>3, <1>4 DEF FreezeIInv, FreezeEntries, CopiesRightly
<1>9. FreezeWorks'
  BY <1>2, <1>3, <1>4 DEF FreezeIInv, FreezeWorks, WorksRightly, Covered
<1> QED
  BY <1>5, <1>6, <1>7, <1>8, <1>9 DEF FreezeIInv

\* Who removes a snapshot has it alone, unless its lock file is no longer the
\* one the path names; then the removal is on record.
LEMMA RemoverIsAlone ==
  ASSUME FreezeIInv, NEW p \in Proc, st[p].pc = "remove", Drops(p),
         NEW q \in Proc, q # p, st[q].pc \in {"work", "recheck"}, st[q].id = st[p].victim, Covered(st[q])
  PROVE  st[p].victim \in dropped'
<1>1. st[p].lock = "ex" /\ st[q].lock = "sh"
  BY DEF FreezeIInv, FreezeLocks, LocksRightly
<1>2. st[p].ino # st[q].ino
  BY <1>1 DEF FreezeIInv, FreezeExclusive
<1> QED
  BY <1>2 DEF Drops, Covered

LEMMA DropsType ==
  ASSUME FreezeIInv, NEW p \in Proc, Drops(p)
  PROVE  dropped' \subseteq Version /\ dropped \subseteq dropped'
<1>1. st[p].victim \in Version
  BY LocalType DEF FreezeIInv, FreezeLocal
<1> QED
  BY <1>1 DEF Drops, FreezeIInv, FreezeTypeOK

LEMMA SnapActions ==
  ASSUME FreezeIInv, NEW p \in Proc, Rename(p) \/ Probe(p) \/ PruneRemove(p) \/ FreezeKill(p)
  PROVE  FreezeIInv'
<1>0. /\ st[p] \in FreezeLocal /\ LocksRightly(st[p]) /\ CopiesRightly(st[p]) /\ WorksRightly(st[p])
      /\ st[p].id \in Version /\ st[p].victim \in Version /\ installed \in Version /\ dropped \subseteq Version
      /\ snap \in [Version -> Snapshot \cup {Nil}]
  BY LocalType DEF FreezeIInv, FreezeLocks, FreezeEntries, FreezeWorks, FreezeTypeOK, FreezeLocal
<1>i. /\ Idle \in FreezeLocal /\ LocksRightly(Idle) /\ CopiesRightly(Idle) /\ WorksRightly(Idle)
      /\ ~Idle.dirty /\ Idle.lock = "none" /\ Idle.pc \notin {"work", "recheck"}
  BY IdleLocal DEF Idle
<1>1. CASE Rename(p)
  <2> DEFINE v == st[p].id
             x == [entry |-> st[p].entry, rest |-> st[p].rest, whole |-> TRUE, changed |-> FALSE]
             s == [To(p, "probe") EXCEPT !.created = TRUE]
             u == To(p, "used")
  <2>1. st[p].pc = "rename" /\ UNCHANGED <<installed, lockPath, dropped>>
    BY <1>1 DEF Rename, Leaves, Moves
  <2>2. /\ s \in FreezeLocal /\ LocksRightly(s) /\ CopiesRightly(s) /\ ~s.dirty /\ s.pc \notin {"work", "recheck"}
        /\ s.lock = "none"
    BY <1>0, <2>1 DEF To, FreezeLocal, Place, LocksRightly, CopiesRightly, WorksRightly
  <2>3. u \in FreezeLocal /\ LocksRightly(u) /\ CopiesRightly(u) /\ WorksRightly(u) /\ u.lock = "none"
    BY <1>0, <2>1 DEF To, FreezeLocal, Place, LocksRightly, CopiesRightly, WorksRightly
  <2>4. x \in Snapshot /\ x.entry = v
    BY <1>0, <2>1 DEF FreezeLocal, Snapshot, CopiesRightly
  <2>5. CASE snap[v] = Nil
    <3>1. st' = [st EXCEPT ![p] = s] /\ snap' = [snap EXCEPT ![v] = x]
      BY <1>1, <2>5 DEF Rename, Moves
    <3>2. \A q \in Proc : q # p /\ st[q].pc \in {"work", "recheck"} /\ st[q].id = v /\ Covered(st[q]) => v \in dropped'
      BY <2>5 DEF FreezeIInv, FreezeWorks, WorksRightly
    <3>3. v \in Version /\ dropped' \subseteq Version /\ dropped \subseteq dropped'
      BY <1>0, <2>1
    <3>4. /\ snap' \in [Version -> Snapshot \cup {Nil}] /\ (snap'[v] # Nil => snap'[v].entry = v)
          /\ \A w \in Version : w # v => snap'[w] = snap[w]
      BY <1>0, <2>4, <3>1
    <3> HIDE DEF x, s
    <3> QED
      BY <2>1, <2>2, <3>1, <3>2, <3>3, <3>4, SnapStep
  <2>6. CASE snap[v] # Nil
    <3>1. UNCHANGED snap /\ (st' = [st EXCEPT ![p] = u] \/ st' = [st EXCEPT ![p] = Idle])
      BY <1>1, <2>6 DEF Rename, Leaves, Moves
    <3> HIDE DEF u
    <3> QED
      BY <1>0, <1>i, <2>1, <2>3, <3>1, QuietStep
  <2> QED
    BY <2>5, <2>6
<1>2. CASE Probe(p)
  <2> DEFINE u == To(p, "verify")
  <2>1. st[p].pc = "probe" /\ UNCHANGED <<installed, lockPath>>
    BY <1>2 DEF Probe, Leaves, Moves
  <2>2. u \in FreezeLocal /\ LocksRightly(u) /\ CopiesRightly(u) /\ WorksRightly(u) /\ u.lock = "none"
    BY <1>0, <2>1 DEF To, FreezeLocal, Place, LocksRightly, CopiesRightly, WorksRightly
  <2>3. CASE st' = [st EXCEPT ![p] = u] /\ UNCHANGED <<snap, dropped>>
    <3> HIDE DEF u
    <3> QED
      BY <1>0, <2>1, <2>2, <2>3, QuietStep
  <2>4. CASE st' = [st EXCEPT ![p] = Idle] /\ snap' = [snap EXCEPT ![st[p].id] = Nil]
             /\ dropped' = dropped \cup {st[p].id}
    <3>1. dropped' \subseteq Version /\ dropped \subseteq dropped' /\ st[p].id \in dropped'
      BY <1>0, <2>4
    <3>2. /\ snap' \in [Version -> Snapshot \cup {Nil}] /\ snap'[st[p].id] = Nil
          /\ \A w \in Version : w # st[p].id => snap'[w] = snap[w]
      BY <1>0, <2>4
    <3> QED
      BY <1>0, <1>i, <2>1, <2>4, <3>1, <3>2, SnapStep
  <2> QED
    BY <1>2, <2>3, <2>4 DEF Probe, Leaves, Moves
<1>3. CASE PruneRemove(p)
  <2> DEFINE s == [To(p, "unlink") EXCEPT !.ino = 0, !.lock = "none"]
  <2>1. /\ st[p].pc = "remove" /\ UNCHANGED <<installed, lockPath>> /\ Drops(p)
        /\ st' = [st EXCEPT ![p] = s] /\ snap' = [snap EXCEPT ![st[p].victim] = Nil]
    BY <1>3 DEF PruneRemove, Moves
  <2>2. /\ s \in FreezeLocal /\ LocksRightly(s) /\ CopiesRightly(s) /\ ~s.dirty /\ s.pc \notin {"work", "recheck"}
        /\ s.lock = "none"
    BY <1>0, <2>1 DEF To, FreezeLocal, Place, LocksRightly, CopiesRightly, WorksRightly
  <2>3. \A q \in Proc : q # p /\ st[q].pc \in {"work", "recheck"} /\ st[q].id = st[p].victim /\ Covered(st[q])
          => st[p].victim \in dropped'
    BY <2>1, RemoverIsAlone
  <2>4. dropped' \subseteq Version /\ dropped \subseteq dropped'
    BY <2>1, DropsType
  <2>5. /\ snap' \in [Version -> Snapshot \cup {Nil}] /\ snap'[st[p].victim] = Nil
        /\ \A w \in Version : w # st[p].victim => snap'[w] = snap[w]
    BY <1>0, <2>1
  <2> HIDE DEF s
  <2>6. PICK v \in Version : v = st[p].victim
    BY <1>0 DEF FreezeLocal
  <2>7. /\ snap' \in [Version -> Snapshot \cup {Nil}] /\ (snap'[v] # Nil => snap'[v].entry = v)
        /\ \A w \in Version : w # v => snap'[w] = snap[w]
        /\ \A q \in Proc : q # p /\ st[q].pc \in {"work", "recheck"} /\ st[q].id = v /\ Covered(st[q]) => v \in dropped'
    BY ONLY <2>3, <2>5, <2>6
  <2>8. FreezeIInv
    OBVIOUS
  <2> QED
    BY ONLY <2>1, <2>2, <2>4, <2>7, <2>8, p \in Proc, SnapStep
<1>4. CASE FreezeKill(p)
  <2>1. st' = [st EXCEPT ![p] = Idle] /\ UNCHANGED <<installed, lockPath>>
    BY <1>4 DEF FreezeKill, Leaves, Moves
  <2>2. CASE UNCHANGED <<snap, dropped>>
    BY <1>0, <1>i, <2>1, <2>2, QuietStep
  <2>3. CASE /\ st[p].pc = "remove" /\ snap[st[p].victim] # Nil /\ Drops(p)
             /\ snap' = [snap EXCEPT ![st[p].victim].whole = FALSE]
    <3> DEFINE x == [snap[st[p].victim] EXCEPT !.whole = FALSE]
    <3>1. snap[st[p].victim] \in Snapshot /\ snap[st[p].victim].entry = st[p].victim
      BY <1>0, <2>3 DEF FreezeIInv, FreezeEntries
    <3>2. x \in Snapshot /\ x.entry = st[p].victim
      BY <3>1 DEF Snapshot
    <3>3. snap' = [snap EXCEPT ![st[p].victim] = x]
      BY <2>3
    <3>4. \A q \in Proc : q # p /\ st[q].pc \in {"work", "recheck"} /\ st[q].id = st[p].victim /\ Covered(st[q])
            => st[p].victim \in dropped'
      BY <2>3, RemoverIsAlone
    <3>5. dropped' \subseteq Version /\ dropped \subseteq dropped'
      BY <2>3, DropsType
    <3>6. /\ snap' \in [Version -> Snapshot \cup {Nil}] /\ snap'[st[p].victim].entry = st[p].victim
          /\ \A w \in Version : w # st[p].victim => snap'[w] = snap[w]
      BY <1>0, <3>2, <3>3
    <3> HIDE DEF x
    <3> QED
      BY <1>0, <1>i, <2>1, <3>4, <3>5, <3>6, SnapStep
  <2> QED
    BY <1>4, <2>2, <2>3 DEF FreezeKill
<1> QED
  BY <1>1, <1>2, <1>3, <1>4

\* An unlinked lock file covers nobody.
LEMMA UnlinkStep ==
  ASSUME FreezeIInv, NEW p \in Proc, PruneUnlink(p)
  PROVE  FreezeIInv'
<1> DEFINE s == To(p, "prune")
<1>0. /\ st[p] \in FreezeLocal /\ LocksRightly(st[p]) /\ CopiesRightly(st[p]) /\ WorksRightly(st[p])
      /\ st[p].victim \in Version
  BY LocalType DEF FreezeIInv, FreezeLocks, FreezeEntries, FreezeWorks, FreezeLocal
<1>1. st \in [Proc -> FreezeLocal] /\ st' = [st EXCEPT ![p] = s] /\ st[p].pc = "unlink"
  BY DEF PruneUnlink, Moves, FreezeIInv, FreezeTypeOK, FreezeLocal
<1>2. /\ s \in FreezeLocal /\ LocksRightly(s) /\ CopiesRightly(s) /\ ~s.dirty /\ s.pc = "prune" /\ s.lock = "none"
  BY <1>0, <1>1 DEF To, FreezeLocal, Place, LocksRightly, CopiesRightly, WorksRightly
<1> HIDE DEF s
<1>3. st' \in [Proc -> FreezeLocal] /\ st'[p] = s /\ \A q \in Proc : q # p => st'[q] = st[q]
  BY <1>1, <1>2
<1>4. UNCHANGED <<installed, snap, dropped>> /\ lockPath' = [lockPath EXCEPT ![st[p].victim] = 0]
  BY DEF PruneUnlink
<1>5. FreezeTypeOK'
  BY <1>0, <1>3, <1>4 DEF FreezeIInv, FreezeTypeOK, FreezeLocal
<1>6. FreezeLocks'
  BY <1>2, <1>3 DEF FreezeIInv, FreezeLocks, LocksRightly
<1>7. FreezeExclusive'
  BY <1>2, <1>3 DEF FreezeIInv, FreezeExclusive
<1>8. FreezeEntries'
  BY <1>2, <1>3, <1>4 DEF FreezeIInv, FreezeEntries, CopiesRightly
<1>9. FreezeWorks'
  <2>1. ASSUME NEW q \in Proc, q # p
        PROVE  WorksRightly(st[q])'
    <3>1. st'[q] = st[q] /\ WorksRightly(st[q]) /\ LocksRightly(st[q]) /\ st[q].id \in Version
      BY <1>1, <1>3, <2>1 DEF FreezeIInv, FreezeWorks, FreezeLocks, FreezeLocal
    <3>2. lockPath'[st[q].id] = st[q].ino /\ st[q].ino # 0 => lockPath[st[q].id] = st[q].ino
      BY <1>0, <1>4, <3>1 DEF FreezeIInv, FreezeTypeOK
    <3> QED
      BY <1>4, <3>1, <3>2 DEF WorksRightly, LocksRightly, Covered
  <2>2. WorksRightly(st[p])'
    BY <1>2, <1>3 DEF WorksRightly
  <2> QED
    BY <2>1, <2>2 DEF FreezeWorks
<1> QED
  BY <1>5, <1>6, <1>7, <1>8, <1>9 DEF FreezeIInv

\* A file of a snapshot changes, and whoever works on it has worked on a changed one.
LEMMA WorldStep ==
  ASSUME FreezeIInv, FreezeWorld
  PROVE  FreezeIInv'
<1>0. /\ installed' \in Version /\ UNCHANGED <<lockPath, dropped>> /\ st \in [Proc -> FreezeLocal]
      /\ snap \in [Version -> Snapshot \cup {Nil}]
  BY FreezeAssumption DEF FreezeWorld, FreezeIInv, FreezeTypeOK, Version, FreezeLocal
<1>1. CASE UNCHANGED <<snap, st>>
  BY <1>0, <1>1 DEF FreezeIInv, FreezeTypeOK, FreezeLocks, FreezeExclusive, FreezeEntries, FreezeWorks,
                    LocksRightly, CopiesRightly, WorksRightly, Covered
<1>2. CASE \E v \in Version :
             /\ Whole(v) /\ snap' = [snap EXCEPT ![v].changed = TRUE]
             /\ st' = [p \in Proc |-> IF st[p].id = v /\ st[p].pc \in {"work", "recheck"}
                                      THEN [st[p] EXCEPT !.dirty = TRUE] ELSE st[p]]
  <2>1. PICK v \in Version :
          /\ Whole(v) /\ snap' = [snap EXCEPT ![v].changed = TRUE]
          /\ st' = [p \in Proc |-> IF st[p].id = v /\ st[p].pc \in {"work", "recheck"}
                                   THEN [st[p] EXCEPT !.dirty = TRUE] ELSE st[p]]
    BY <1>2
  <2> DEFINE x == [snap[v] EXCEPT !.changed = TRUE]
  <2>2. snap[v] # Nil /\ snap[v] \in Snapshot /\ snap[v].entry = v
    BY <1>0, <2>1 DEF Whole, FreezeIInv, FreezeEntries
  <2>3. x \in Snapshot /\ x.entry = v /\ x.changed /\ x.whole = snap[v].whole /\ x # Nil
    BY <2>2, FreezeAssumption DEF Snapshot
  <2>4. snap' \in [Version -> Snapshot \cup {Nil}] /\ snap'[v] = x /\ \A w \in Version : w # v => snap'[w] = snap[w]
    BY <1>0, <2>1, <2>3
  <2>5. ASSUME NEW p \in Proc
        PROVE  /\ st'[p] \in FreezeLocal /\ st'[p].pc = st[p].pc /\ st'[p].id = st[p].id /\ st'[p].ino = st[p].ino
               /\ st'[p].lock = st[p].lock /\ st'[p].entry = st[p].entry
               /\ st[p].id # v \/ st[p].pc \notin {"work", "recheck"} => st'[p].dirty = st[p].dirty
    <3>1. st[p] \in FreezeLocal
      BY ONLY <1>0, p \in Proc
    <3>2. CASE st[p].id = v /\ st[p].pc \in {"work", "recheck"}
      <4>1. st'[p] = [st[p] EXCEPT !.dirty = TRUE]
        BY ONLY <2>1, <3>2, p \in Proc
      <4> QED
        BY ONLY <3>1, <3>2, <4>1 DEF FreezeLocal
    <3>3. CASE ~(st[p].id = v /\ st[p].pc \in {"work", "recheck"})
      <4>1. st'[p] = st[p]
        BY ONLY <2>1, <3>3, p \in Proc
      <4> QED
        BY ONLY <3>1, <4>1
    <3> QED
      BY ONLY <3>2, <3>3
  <2>6. st' \in [Proc -> FreezeLocal]
    BY <2>1, <2>5
  <2> HIDE DEF x
  <2>7. FreezeTypeOK'
    BY <1>0, <2>4, <2>6 DEF FreezeIInv, FreezeTypeOK, FreezeLocal
  <2>8. FreezeLocks'
    BY <2>5 DEF FreezeIInv, FreezeLocks, LocksRightly
  <2>9. FreezeExclusive'
    BY <2>5 DEF FreezeIInv, FreezeExclusive
  <2>10. FreezeEntries'
    BY <2>3, <2>4, <2>5 DEF FreezeIInv, FreezeEntries, CopiesRightly
  <2>11. FreezeWorks'
    <3> SUFFICES ASSUME NEW p \in Proc
                 PROVE  WorksRightly(st[p])'
      BY DEF FreezeWorks
    <3>1. WorksRightly(st[p]) /\ st[p].id \in Version
      BY <1>0 DEF FreezeIInv, FreezeWorks, FreezeLocal
    <3>2. Covered(st[p])' => Covered(st[p])
      BY <1>0, <2>5 DEF Covered
    <3>3. CASE st[p].id = v
      BY <2>3, <2>4, <2>5, <3>1, <3>2, <3>3 DEF WorksRightly, Covered
    <3>4. CASE st[p].id # v
      BY <2>4, <2>5, <3>1, <3>2, <3>4 DEF WorksRightly, Covered
    <3> QED
      BY <3>3, <3>4
  <2> QED
    BY <2>7, <2>8, <2>9, <2>10, <2>11 DEF FreezeIInv
<1> QED
  BY <1>1, <1>2 DEF FreezeWorld

(***************************************************************************)
(* The theorems.                                                           *)
(***************************************************************************)
LEMMA FreezeInitInv == Init => FreezeIInv
<1> SUFFICES ASSUME FreezeInit
             PROVE  FreezeIInv
  BY DEF Init
<1>1. \A p \in Proc : st[p] = Idle
  BY DEF FreezeInit
<1>2. st \in [Proc -> FreezeLocal]
  BY IdleLocal DEF FreezeInit
<1>3. FreezeTypeOK
  BY <1>2, FreezeAssumption DEF FreezeInit, FreezeTypeOK, FreezeLocal, Version
<1> QED
  BY <1>1, <1>3, IdleLocal DEF FreezeInit, FreezeIInv, FreezeLocks, FreezeExclusive, FreezeEntries, FreezeWorks

LEMMA FreezeStep == FreezeIInv /\ [Next]_vars => FreezeIInv'
<1> SUFFICES ASSUME FreezeIInv, [Next]_vars
             PROVE  FreezeIInv'
  OBVIOUS
<1>2. CASE UNCHANGED freezeVars
  BY <1>2 DEF freezeVars, FreezeIInv, FreezeTypeOK, FreezeLocks, FreezeExclusive, FreezeEntries, FreezeWorks,
                    LocksRightly, CopiesRightly, WorksRightly, Covered
<1>3. CASE FreezeNext
  <2>1. CASE FreezeWorld
    BY <2>1, WorldStep
  <2>2. ASSUME NEW p \in Proc,
               \/ FreezePlan(p) \/ CopyEntry(p) \/ CopyRest(p) \/ Rename(p) \/ Probe(p) \/ Verify(p)
               \/ PruneLock(p) \/ PruneRemove(p) \/ PruneUnlink(p) \/ AfterFreeze(p)
               \/ HoldOpen(p) \/ HoldLock(p) \/ HoldCheck(p) \/ HandlerRuns(p) \/ Recheck(p) \/ ProofCloses(p)
               \/ FreezeKill(p)
        PROVE  FreezeIInv'
    BY <2>2, QuietActions, LockActions, HoldLockStep, SnapActions, UnlinkStep
  <2> QED
    BY <1>3, <2>1, <2>2 DEF FreezeNext
<1> QED
  BY <1>2, <1>3 DEF Next, vars

\* Who holds which lock file of which snapshot at each place of freeze, hold and
\* prune, for any number of processes.
THEOREM FreezeInvariant == Spec => []FreezeIInv
<1> QED
  BY FreezeInitInv, FreezeStep, PTL DEF Spec

\* Several processes freeze, hold and prune (ompfreeze.py): whoever runs omp from
\* a snapshot under its lock keeps the snapshot it planned to its end, and a
\* proof whose snapshot changed under it writes no bead.
THEOREM SnapshotsHeld == Spec => []HeldSnapshotStays
<1>1. FreezeIInv => HeldSnapshotStays
  <2> SUFFICES ASSUME FreezeIInv, NEW p \in Proc, st[p].id \notin dropped, st[p].ino = lockPath[st[p].id]
               PROVE  /\ st[p].pc \in {"work", "recheck"} =>
                           snap[st[p].id] # Nil /\ snap[st[p].id].whole /\ snap[st[p].id].entry = st[p].id
                      /\ st[p].pc = "publish" => ~st[p].dirty
    BY DEF HeldSnapshotStays
  <2>1. st[p].id \in Version /\ WorksRightly(st[p]) /\ Covered(st[p])
    BY LocalType DEF FreezeIInv, FreezeWorks, FreezeLocal, Covered
  <2> QED
    BY <2>1 DEF WorksRightly, FreezeIInv, FreezeEntries
<1> QED
  BY <1>1, FreezeInvariant, PTL

(***************************************************************************)
(* Decision runs and proofs: what they bank and close.                     *)
(***************************************************************************)
\* The fields of a run.
RunFields == {"cmd", "model", "pc", "evict", "against", "repeats", "stage", "sha", "ship", "before", "action", "loaded",
              "evicted", "digest", "fit", "receipt", "kind", "cands", "i", "initial", "ctx", "outcomes", "listed"}

IsSeq(s) == s \in Seq({s[i] : i \in DOMAIN s})

DecideTypes ==
  /\ IsSeq(receipts)
  /\ job # Nil => /\ job.cmd \in {"decision", "prove"}
                  /\ DOMAIN job = RunFields
                  /\ IsSeq(job.outcomes)

\* The places at which a candidate of a proof is on.
RunPlace == {"admit", "preflight", "shim", "ready", "shimdone", "shimfail", "look", "resident", "check", "load", "readback", "pins", "short", "long",
             "after", "ran", "refused", "unload", "compare", "judge"}

Sound(r) == r.of = job.model /\ (r.problems \/ r.fit)

ReceiptFits ==
  job # Nil =>
    /\ job.receipt = Nil \/ Sound(job.receipt)
    /\ job.pc \in {"shimdone", "ran", "judge"} => Sound(job.receipt)

Proves(r, route) == r.of = route /\ r.stage = "proof" /\ ~r.problems /\ r.compare = "BETTER"
OutcomeFits(o) == o.at \in DOMAIN receipts /\ (o.grade = "PROVEN" => Proves(receipts[o.at], o.route))

ProofFits ==
  /\ job # Nil /\ job.cmd = "prove" =>
       /\ job.pc \in RunPlace => job.model = job.cands[job.i]
       /\ job.pc = "grade" => receipts # <<>> /\ receipts[Len(receipts)].of = job.cands[job.i]
       /\ \A k \in DOMAIN job.outcomes : OutcomeFits(job.outcomes[k])
  /\ CleanRunsFit
  /\ \A c \in closings : c.at \in DOMAIN receipts /\ Proves(receipts[c.at], c.route)

DecideInv == DecideTypes /\ ReceiptFits /\ ProofFits

DecideIInv ==
  /\ tool = "decide" => DecideInv
  /\ tool # "decide" => receipts = <<>> /\ closings = {}

LEMMA OnlyDecide ==
  ASSUME [Next]_vars
  PROVE  /\ tool' = tool
         /\ tool = "decide" => ProofNext \/ UNCHANGED <<jobVars, proofVars>>
         /\ tool # "decide" => UNCHANGED proofVars
BY DEF Next, vars, proofVars, decisionVars, jobVars

LEMMA SeqIsSeq ==
  ASSUME NEW S, NEW s \in Seq(S)
  PROVE  IsSeq(s)
<1> DEFINE T == {s[i] : i \in DOMAIN s}
<1>1. Len(s) \in Nat /\ s \in [1..Len(s) -> S] /\ DOMAIN s = 1..Len(s)
  BY LenProperties
<1>2. \A i \in 1..Len(s) : s[i] \in T
  BY <1>1
<1>3. s = [i \in 1..Len(s) |-> s[i]]
  BY <1>1
<1>4. s \in [1..Len(s) -> T]
  <2> HIDE DEF T
  <2> QED
    BY <1>2, <1>3
<1>5. s \in Seq(T)
  <2> HIDE DEF T
  <2> QED
    BY <1>1, <1>4, SeqDef
<1> QED
  BY <1>5 DEF IsSeq

LEMMA SeqAppend ==
  ASSUME NEW s, IsSeq(s), NEW e, NEW t, t = Append(s, e)
  PROVE  /\ IsSeq(t) /\ Len(s) \in Nat /\ Len(t) = Len(s) + 1 /\ t[Len(t)] = e /\ t # <<>>
         /\ DOMAIN t = DOMAIN s \cup {Len(t)} /\ DOMAIN s = 1..Len(s) /\ \A i \in DOMAIN s : t[i] = s[i]
<1> DEFINE S == {s[i] : i \in DOMAIN s}
<1>1. s \in Seq(S)
  BY DEF IsSeq
<1> HIDE DEF S
<1>2. s \in Seq(S \cup {e})
  BY <1>1, SeqMonotonic
<1>3. t \in Seq(S \cup {e})
  BY <1>2
<1>4. /\ Len(t) = Len(s) + 1 /\ t[Len(t)] = e /\ Len(s) \in Nat /\ t # <<>>
      /\ DOMAIN t = 1..Len(t) /\ DOMAIN s = 1..Len(s) /\ \A i \in DOMAIN s : t[i] = s[i]
  BY <1>1, <1>3
<1>5. 1..Len(t) = 1..Len(s) \cup {Len(t)}
  BY <1>4
<1> QED
  BY <1>3, <1>4, <1>5, SeqIsSeq

\* Taking the first element off.
LEMMA SeqTail ==
  ASSUME NEW s, IsSeq(s), s # <<>>, NEW t, t = Tail(s)
  PROVE  /\ IsSeq(t) /\ 1 \in DOMAIN s /\ Head(s) = s[1]
         /\ \A i \in DOMAIN t : \E k \in DOMAIN s : t[i] = s[k]
<1> DEFINE S == {s[i] : i \in DOMAIN s}
<1>1. s \in Seq(S)
  BY DEF IsSeq
<1> HIDE DEF S
<1>2. /\ t \in Seq(S) /\ Len(t) = Len(s) - 1 /\ Len(s) \in Nat /\ Len(s) > 0 /\ DOMAIN s = 1..Len(s) /\ DOMAIN t = 1..Len(t)
      /\ \A i \in 1..Len(t) : t[i] = s[i + 1]
  BY <1>1
<1>5. Head(s) = s[1]
  BY <1>1
<1>6. \A i \in DOMAIN t : i + 1 \in DOMAIN s
  BY <1>2
<1>7. IsSeq(t)
  BY <1>2, SeqIsSeq
<1>8. \A i \in DOMAIN t : t[i] = s[i + 1]
  BY <1>2
<1>9. 1 \in DOMAIN s
  BY <1>2
<1> QED
  BY <1>5, <1>6, <1>7, <1>8, <1>9

(***************************************************************************)
(* Steps that leave the receipts and the closings alone.                   *)
(***************************************************************************)
Carried == {"cmd", "model", "receipt", "cands", "i", "outcomes"}
Watched == {"shimdone", "ran", "judge", "grade"}

LEMMA TailAmong ==
  ASSUME NEW s, IsSeq(s), s # <<>>
  PROVE  \A i \in DOMAIN Tail(s) : \E k \in DOMAIN s : Tail(s)[i] = s[k]
<1> DEFINE S == {s[i] : i \in DOMAIN s}
<1>1. s \in Seq(S)
  BY DEF IsSeq
<1> HIDE DEF S
<1>2. /\ Len(Tail(s)) = Len(s) - 1 /\ Len(s) \in Nat /\ DOMAIN s = 1..Len(s) /\ DOMAIN Tail(s) = 1..Len(Tail(s))
      /\ \A i \in 1..Len(Tail(s)) : Tail(s)[i] = s[i + 1]
  BY <1>1
<1>3. ASSUME NEW i \in DOMAIN Tail(s)
      PROVE  i + 1 \in DOMAIN s /\ Tail(s)[i] = s[i + 1]
  BY <1>2
<1> QED
  BY <1>3

LEMMA GoesOn ==
  ASSUME DecideInv, job # Nil, DOMAIN job' = DOMAIN job, \A f \in Carried : job'[f] = job[f],
         UNCHANGED <<receipts, closings>>,
         job'.pc \in Watched => job'.pc = job.pc \/ (job.pc = "shimdone" /\ job'.pc = "ran") \/ (job'.pc = "judge" /\ job.receipt # Nil),
         job.cmd = "prove" /\ job'.pc \in RunPlace => job.pc \in RunPlace
  PROVE  DecideInv'
  <1>1. /\ job'.cmd = job.cmd /\ job'.model = job.model /\ job'.receipt = job.receipt
        /\ job'.cands = job.cands /\ job'.i = job.i /\ job'.outcomes = job.outcomes
    BY DEF Carried
  <1>2. DecideTypes'
    BY <1>1 DEF DecideInv, DecideTypes
  <1>3. ReceiptFits'
    BY <1>1 DEF DecideInv, ReceiptFits, Sound, Watched
  <1>4. ProofFits'
    BY <1>1 DEF DecideInv, ProofFits, OutcomeFits, CleanRunsFit, Watched
  <1> QED
    BY <1>2, <1>3, <1>4 DEF DecideInv

LEMMA Stays ==
  ASSUME DecideInv, job' = job, UNCHANGED <<receipts, closings>>
  PROVE  DecideInv'
  <1>1. DecideTypes'
    BY DEF DecideInv, DecideTypes
  <1>2. ReceiptFits'
    BY DEF DecideInv, ReceiptFits, Sound
  <1>3. ProofFits'
    BY DEF DecideInv, ProofFits, OutcomeFits, CleanRunsFit
  <1> QED
    BY <1>1, <1>2, <1>3 DEF DecideInv

LEMMA Ends ==
  ASSUME DecideInv, job' = Nil, UNCHANGED <<receipts, closings>>
  PROVE  DecideInv'
  BY DEF DecideInv, DecideTypes, ReceiptFits, ProofFits, CleanRunsFit

\* A field of the run is set and it goes on at pc.
LEMMA RunExcept ==
  ASSUME DecideInv, job # Nil, NEW f \in RunFields, NEW v, NEW pc, job' = [job EXCEPT ![f] = v, !.pc = pc], f # "pc"
  PROVE  DOMAIN job' = DOMAIN job /\ job'.pc = pc /\ job'[f] = v /\ \A g \in RunFields \ {f, "pc"} : job'[g] = job[g]
BY DEF DecideInv, DecideTypes, RunFields

LEMMA RunGoto ==
  ASSUME DecideInv, job # Nil, NEW pc, Goto(pc)
  PROVE  /\ DOMAIN job' = DOMAIN job /\ job'.pc = pc /\ \A g \in RunFields \ {"pc"} : job'[g] = job[g]
         /\ \A g \in Carried : job'[g] = job[g]
BY DEF DecideInv, DecideTypes, RunFields, Carried, Goto

(***************************************************************************)
(* The steps of a run.                                                     *)
(***************************************************************************)
\* A run of decision run, or of a proof, starts.
LEMMA RunBegins ==
  ASSUME DecideInv, tool = "decide", (DecisionBegin /\ UNCHANGED worldVars) \/ ProofBegin
  PROVE  DecideInv'
  <1>1. UNCHANGED proofVars
    BY DEF DecisionBegin, ProofBegin, decisionVars, proofVars, worldVars
  <1>2. /\ DOMAIN job' = RunFields /\ job'.cmd \in {"decision", "prove"} /\ job'.outcomes = <<>> /\ job'.receipt = Nil
        /\ job'.pc \notin Watched /\ (job'.cmd = "prove" => job'.model = job'.cands[job'.i])
    <2>1. CASE DecisionBegin
      <3>1. PICK m \in Model \cup {Laya}, evict \in BOOLEAN, against \in BOOLEAN :
              job' = [Fresh(m) EXCEPT !.evict = evict, !.against = against, !.repeats = against]
        BY <2>1 DEF DecisionBegin, Begin
      <3> QED
        BY <3>1 DEF Fresh, RunFields, Watched
    <2>2. CASE ProofBegin
      <3>1. PICK spec \in ProofSpec :
              job' = [Fresh(spec.cands[1]) EXCEPT !.cmd = "prove", !.pc = "admit", !.kind = spec.kind, !.stage = spec.stage,
                                                  !.cands = spec.cands]
        BY <2>2 DEF ProofBegin, Begin
      <3> QED
        BY <3>1 DEF Fresh, RunFields, Watched
    <2> QED
      BY <2>1, <2>2
  <1>3. IsSeq(<<>>) /\ DOMAIN <<>> = {}
    BY EmptySeq DEF IsSeq
  <1>4. DecideTypes'
    BY <1>1, <1>2, <1>3 DEF DecideInv, DecideTypes, proofVars, decisionVars
  <1>5. ReceiptFits'
    BY <1>1, <1>2 DEF DecideInv, ReceiptFits, Watched, proofVars, decisionVars
  <1>6. ProofFits'
    BY <1>1, <1>2, <1>3 DEF DecideInv, ProofFits, CleanRunsFit, OutcomeFits, Watched, proofVars, decisionVars
  <1> QED
    BY <1>4, <1>5, <1>6 DEF DecideInv

\* The residents and the context are looked at.
LEMMA ContextStep ==
  ASSUME DecideInv, tool = "decide", UNCHANGED worldVars,
         AskShip \/ Look \/ ReadBack \/ ShimStart \/ ShimReady \/ ShimStop \/ PinsBefore
  PROVE  DecideInv'
  <1>1. job # Nil /\ UNCHANGED <<receipts, closings>>
    BY DEF AskShip, Look, ReadBack, ShimStart, ShimReady, ShimStop, PinsBefore, Deciding, At, In, decisionVars, ollamaVars,
           worldVars
  <1>2. job.pc \in {"look", "resident", "readback", "shim", "ready", "shimdone", "shimfail", "pins"}
    BY DEF AskShip, Look, ReadBack, ShimStart, ShimReady, ShimStop, PinsBefore, Deciding, At, In
  <1>3. /\ DOMAIN job' = DOMAIN job /\ \A f \in Carried : job'[f] = job[f]
        /\ job'.pc \notin Watched \/ (job.pc = "shimdone" /\ job'.pc = "ran")
    <2>1. DOMAIN job = RunFields
      BY <1>1 DEF DecideInv, DecideTypes
    <2>2. CASE AskShip \/ Look
      <3>1. \/ job' = [job EXCEPT !.pc = "refused"]
            \/ job' = [job EXCEPT !.action = "resident", !.loaded = runner[Of], !.pc = "pins"]
            \/ job' = [job EXCEPT !["ship"] = Shipped[Of], !.pc = "resident"]
            \/ job' = [job EXCEPT !.pc = "resident"]
            \/ job' = [job EXCEPT !["before"] = runner, !.pc = "check"]
            \/ job' = [job EXCEPT !.action = "unreachable", !.pc = "pins"]
        BY ONLY <2>2 DEF AskShip, Look, Goto, Set
      <3>2. CASE job' = [job EXCEPT !.pc = "refused"]
        BY ONLY <2>1, <3>2 DEF Carried, RunFields, Watched
      <3>3. CASE job' = [job EXCEPT !.action = "resident", !.loaded = runner[Of], !.pc = "pins"]
        BY ONLY <2>1, <3>3 DEF Carried, RunFields, Watched
      <3>4. CASE job' = [job EXCEPT !["before"] = runner, !.pc = "check"]
        BY ONLY <2>1, <3>4 DEF Carried, RunFields, Watched
      <3>5. CASE job' = [job EXCEPT !.action = "unreachable", !.pc = "pins"]
        BY ONLY <2>1, <3>5 DEF Carried, RunFields, Watched
      <3>6. CASE job' = [job EXCEPT !["ship"] = Shipped[Of], !.pc = "resident"]
        BY ONLY <2>1, <3>6 DEF Carried, RunFields, Watched
      <3>7. CASE job' = [job EXCEPT !.pc = "resident"]
        BY ONLY <2>1, <3>7 DEF Carried, RunFields, Watched
      <3> QED
        BY ONLY <3>1, <3>2, <3>3, <3>4, <3>5, <3>6, <3>7
    <2>3. CASE ReadBack
      <3> DEFINE action == IF job.before[Of] = Nil THEN "loaded" ELSE "reloaded"
                 evicted == {m \in Before : runner[m] = Nil} \ {Of}
      <3>1. \/ job' = [job EXCEPT !.pc = "refused"]
            \/ job' = [job EXCEPT !.loaded = runner[Of], !.pc = "pins", !.action = action, !.evicted = evicted]
        BY ONLY <2>3 DEF ReadBack, Goto
      <3> HIDE DEF action, evicted
      <3>2. CASE job' = [job EXCEPT !.pc = "refused"]
        BY ONLY <2>1, <3>2 DEF Carried, RunFields, Watched
      <3>3. CASE job' = [job EXCEPT !.loaded = runner[Of], !.pc = "pins", !.action = action, !.evicted = evicted]
        BY ONLY <2>1, <3>3 DEF Carried, RunFields, Watched
      <3> QED
        BY ONLY <3>1, <3>2, <3>3
    <2>4. CASE ShimStart \/ ShimReady
      BY <1>1, <2>1, <2>4 DEF ShimStart, ShimReady, Fails, Goto, Carried, RunFields, Watched
    <2>5. CASE ShimStop
      BY <1>1, <2>1, <2>5 DEF ShimStop, Goto, Carried, RunFields, Watched
    <2>6. CASE PinsBefore
      BY <1>1, <2>1, <2>6 DEF PinsBefore, Set, Carried, RunFields, Watched
    <2> QED
      BY <2>2, <2>3, <2>4, <2>5, <2>6
  <1>4. job.pc \in RunPlace
    BY <1>2 DEF RunPlace
  <1> QED
    BY <1>1, <1>3, <1>4, GoesOn DEF Watched

\* Who uses the models is asked before a load, and the load is asked for.
LEMMA LoadStep ==
  ASSUME DecideInv, tool = "decide", UNCHANGED worldVars, CheckUsers \/ Load
  PROVE  DecideInv'
  <1>1. job # Nil /\ job.pc \in {"check", "load"} /\ UNCHANGED <<receipts, closings>> /\ DOMAIN job = RunFields
    BY DEF CheckUsers, Load, Deciding, At, In, decisionVars, worldVars, DecideInv, DecideTypes
  <1>2. PICK pc \in {"load", "refused", "readback"} :
          job' = [job EXCEPT !.pc = pc]
    <2>1. CASE CheckUsers
      <3>1. PICK clients \in {calling, Model, {}} :
              job' = [job EXCEPT !.pc = IF MayLoad(clients) THEN "load" ELSE "refused"]
        BY <2>1 DEF CheckUsers
      <3> DEFINE place == IF MayLoad(clients) THEN "load" ELSE "refused"
      <3>2. job' = [job EXCEPT !.pc = place]
        BY <3>1
      <3>3. place \in {"load", "refused", "readback"}
        OBVIOUS
      <3> HIDE DEF place
      <3> QED
        BY ONLY <3>2, <3>3
    <2>2. CASE Load
      BY <2>2 DEF Load, Goto, Fails
    <2> QED
      BY <2>1, <2>2
  <1>3. /\ DOMAIN job' = DOMAIN job /\ \A f \in Carried : job'[f] = job[f]
        /\ job'.pc = pc
    BY ONLY <1>1, <1>2 DEF Carried, RunFields
  <1>4. job.pc \in RunPlace /\ job'.pc \notin Watched
    BY <1>1, <1>2, <1>3 DEF RunPlace, Watched
  <1> QED
    BY <1>1, <1>3, <1>4, GoesOn

\* The items are asked.
LEMMA ItemStep ==
  ASSUME DecideInv, tool = "decide", UNCHANGED worldVars, AskShort \/ AskLong
  PROVE  DecideInv'
  <1>1. PICK item \in {"short", "long"}, next \in {"long", "after"} : Ask(item, next)
    BY DEF AskShort, AskLong
  <1>2. job # Nil /\ job.pc = item /\ UNCHANGED <<receipts, closings>> /\ DOMAIN job = RunFields
    BY <1>1 DEF Ask, Deciding, At, In, worldVars, DecideInv, DecideTypes
  <1>3. /\ DOMAIN job' = DOMAIN job /\ \A f \in Carried : job'[f] = job[f]
        /\ job'.pc = next
    <2>1. job' = [job EXCEPT !.pc = next] \/ \E fit : job' = [job EXCEPT !.pc = next, !.fit = fit]
      BY ONLY <1>1 DEF Ask, Goto
    <2>2. CASE job' = [job EXCEPT !.pc = next]
      BY ONLY <1>2, <2>2 DEF Carried, RunFields
    <2>3. ASSUME NEW fit, job' = [job EXCEPT !.pc = next, !.fit = fit]
          PROVE  DOMAIN job' = DOMAIN job /\ (\A f \in Carried : job'[f] = job[f]) /\ job'.pc = next
      BY ONLY <1>2, <2>3 DEF Carried, RunFields
    <2> QED
      BY ONLY <2>1, <2>2, <2>3
  <1>4. job.pc \in RunPlace /\ job'.pc \notin Watched
    BY <1>2, <1>3 DEF RunPlace, Watched
  <1> QED
    BY <1>2, <1>3, <1>4, GoesOn

\* The receipt of a run.
LEMMA AfterStep ==
  ASSUME DecideInv, tool = "decide", UNCHANGED worldVars, After
  PROVE  DecideInv'
  <1>1. /\ job # Nil /\ job.pc = "after" /\ UNCHANGED <<receipts, closings>>
        /\ DOMAIN job = RunFields
    BY DEF After, Deciding, At, In, worldVars, DecideInv, DecideTypes, decisionVars
  <1>2. PICK ok \in BOOLEAN :
          job' = [job EXCEPT !.pc = IF job.model = Laya THEN "shimdone" ELSE "ran",
                    !.receipt = [of |-> job.model, digest |-> job.digest, problems |-> Problems(ok), fit |-> job.fit,
                                 compare |-> IF ~job.against THEN "NONE" ELSE IF ok THEN "BETTER" ELSE "WORSE",
                                 stage |-> job.stage, sha |-> job.sha, base |-> "none"]]
    BY DEF After
  <1> DEFINE r == [of |-> job.model, digest |-> job.digest, problems |-> Problems(ok), fit |-> job.fit,
                   compare |-> IF ~job.against THEN "NONE" ELSE IF ok THEN "BETTER" ELSE "WORSE",
                   stage |-> job.stage, sha |-> job.sha, base |-> "none"]
  <1>3. r.of = job.model /\ (r.problems \/ r.fit)
    <2>1. r.of = job.model /\ r.problems = Problems(ok) /\ r.fit = job.fit
      OBVIOUS
    <2>2. ~job.fit => Problems(ok)
      BY DEF Problems
    <2> QED
      BY <2>1, <2>2, Zenon
  <1>a. job' = [job EXCEPT !.pc = IF job.model = Laya THEN "shimdone" ELSE "ran", !.receipt = r]
    BY <1>2
  <1> HIDE DEF r
  <1>4. /\ DOMAIN job' = DOMAIN job /\ job'.receipt = r /\ job'.pc \in {"shimdone", "ran"}
        /\ \A f \in RunFields \ {"receipt", "pc"} : job'[f] = job[f]
    BY <1>1, <1>a DEF RunFields
  <1>5. /\ job'.cmd = job.cmd /\ job'.model = job.model
        /\ job'.cands = job.cands /\ job'.i = job.i /\ job'.outcomes = job.outcomes
    BY <1>4 DEF RunFields
  <1>6. DecideTypes'
    BY <1>1, <1>4, <1>5 DEF DecideInv, DecideTypes
  <1>7. ReceiptFits'
    BY <1>3, <1>4, <1>5 DEF ReceiptFits, Sound
  <1>8. ProofFits'
    BY <1>1, <1>4, <1>5 DEF DecideInv, ProofFits, OutcomeFits, CleanRunsFit, RunPlace
  <1> QED
    BY <1>6, <1>7, <1>8 DEF DecideInv

\* A receipt that fits is banked: what was banked before keeps its place.
LEMMA Banked ==
  ASSUME DecideInv, NEW r, receipts' = Append(receipts, r), r.problems \/ r.fit
  PROVE  /\ IsSeq(receipts') /\ CleanRunsFit' /\ receipts' # <<>> /\ receipts'[Len(receipts')] = r
         /\ \A k \in DOMAIN receipts : k \in DOMAIN receipts' /\ receipts'[k] = receipts[k]
  <1>1. IsSeq(receipts) /\ CleanRunsFit
    BY DEF DecideInv, DecideTypes, ProofFits
  <1>2. /\ IsSeq(receipts') /\ receipts'[Len(receipts')] = r /\ receipts' # <<>>
        /\ DOMAIN receipts' = DOMAIN receipts \cup {Len(receipts')}
        /\ \A k \in DOMAIN receipts : receipts'[k] = receipts[k]
    <2>1. IsSeq(receipts') /\ receipts' # <<>>
      BY <1>1, SeqAppend
    <2>2. receipts'[Len(receipts')] = r
      BY <1>1, SeqAppend
    <2>3. DOMAIN receipts' = DOMAIN receipts \cup {Len(receipts')}
      BY <1>1, SeqAppend
    <2>4. \A k \in DOMAIN receipts : receipts'[k] = receipts[k]
      BY <1>1, SeqAppend
    <2> QED
      BY <2>1, <2>2, <2>3, <2>4
  <1>3. ASSUME NEW k \in DOMAIN receipts' PROVE receipts'[k].problems \/ receipts'[k].fit
    BY <1>1, <1>2 DEF CleanRunsFit
  <1> QED
    BY <1>2, <1>3 DEF CleanRunsFit

\* decision run banks its receipt, or ends without one; others use Ollama.
LEMMA DecisionEnds ==
  ASSUME DecideInv, tool = "decide", UNCHANGED worldVars, DecisionBanks \/ DecisionRefused \/ DecisionKill \/ OllamaWorld
  PROVE  DecideInv'
  <1>1. CASE DecisionBanks
    <2>1. job # Nil /\ receipts' = Append(receipts, job.receipt) /\ job' = Nil /\ UNCHANGED closings /\ job.pc = "ran"
      BY <1>1 DEF DecisionBanks, Finish, Deciding, At, In, ollamaVars, worldVars
    <2>2. job.receipt.problems \/ job.receipt.fit
      BY <2>1 DEF DecideInv, ReceiptFits, Sound
    <2>3. /\ IsSeq(receipts') /\ CleanRunsFit'
          /\ \A k \in DOMAIN receipts : k \in DOMAIN receipts' /\ receipts'[k] = receipts[k]
      BY <2>1, <2>2, Banked
    <2>4. \A c \in closings : c.at \in DOMAIN receipts' /\ Proves(receipts'[c.at], c.route)
      BY <2>3 DEF DecideInv, ProofFits
    <2> QED
      BY <2>1, <2>3, <2>4 DEF DecideInv, DecideTypes, ReceiptFits, ProofFits
  <1>2. CASE DecisionRefused \/ DecisionKill
    BY <1>2, Ends DEF DecisionRefused, DecisionKill, Finish, Stops, decisionVars, worldVars
  <1>3. CASE OllamaWorld
    <2>1. job' = job /\ UNCHANGED <<receipts, closings>>
      BY <1>3 DEF OllamaWorld, ClientCalls, ClientEnds, RunnerEnds, jobVars, worldVars
    <2> QED
      BY <2>1, Stays
  <1> QED
    BY <1>1, <1>2, <1>3

(***************************************************************************)
(* The steps of a proof.                                                   *)
(***************************************************************************)
\* A proof goes on from place to place, or ends with nothing changed.
LEMMA ProofWalks ==
  ASSUME DecideInv, tool = "decide",
         ProofAdmit \/ ProofPreflight \/ ProofCompare \/ ProofContext \/ ListBeads \/ ProofDone
  PROVE  DecideInv'
  <1>1. /\ job # Nil /\ UNCHANGED <<receipts, closings>> /\ DOMAIN job = RunFields
        /\ job.pc \in {"admit", "preflight", "compare", "replay", "legs", "beads", "update"}
    BY DEF ProofAdmit, ProofPreflight, ProofCompare, ProofContext, ListBeads, ProofDone, Proving, Deciding, At, In,
           proofVars, decisionVars, DecideInv, DecideTypes
  <1>2. CASE job' = Nil
    BY <1>1, <1>2, Ends
  <1>3. CASE \E pc \in {"preflight", "replay", "legs", "judge"} :
               job' = [job EXCEPT !.pc = pc] /\ job.pc \in {"admit", "compare"} /\ (pc = "judge" => job.receipt # Nil)
    <2>1. PICK pc \in {"preflight", "replay", "legs", "judge"} :
            job' = [job EXCEPT !.pc = pc] /\ job.pc \in {"admit", "compare"} /\ (pc = "judge" => job.receipt # Nil)
      BY <1>3
    <2>2. /\ DOMAIN job' = DOMAIN job /\ \A f \in Carried : job'[f] = job[f]
          /\ job'.pc = pc /\ job.pc \in RunPlace
      BY <1>1, <2>1 DEF Carried, RunFields, RunPlace
    <2>3. job'.pc \in Watched => job'.pc = "judge" /\ job.receipt # Nil
      BY <2>1, <2>2 DEF Watched
    <2> QED
      BY <1>1, <2>2, <2>3, GoesOn
  <1>4. CASE \/ job' = [job EXCEPT !["initial"] = runner, !.pc = "next"]
             \/ job' = [job EXCEPT !["ctx"] = Current, !.pc = "next"]
             \/ job' = [job EXCEPT !["listed"] = {r \in Routes : beadOf[r] = "open"}, !.pc = "update"]
    <2>1. /\ DOMAIN job' = DOMAIN job /\ \A g \in Carried : job'[g] = job[g]
          /\ job'.pc \in {"next", "update"}
      <3>1. ASSUME NEW f \in {"initial", "ctx", "listed"}, NEW v, NEW pc \in {"next", "update"},
                   job' = [job EXCEPT ![f] = v, !.pc = pc]
            PROVE  DOMAIN job' = DOMAIN job /\ (\A g \in Carried : job'[g] = job[g]) /\ job'.pc = pc
        BY ONLY <1>1, <3>1 DEF Carried, RunFields
      <3> QED
        BY ONLY <1>4, <3>1
    <2>2. job'.pc \notin Watched \cup RunPlace
      BY <2>1 DEF Watched, RunPlace
    <2> QED
      BY <1>1, <2>1, <2>2, GoesOn
  <1> QED
    <2>1. CASE ProofAdmit
      BY <1>2, <1>3, <2>1 DEF ProofAdmit, Proving, Deciding, At, Finish, Goto, Opening
    <2>2. CASE ProofPreflight
      BY <1>2, <1>4, <2>2 DEF ProofPreflight, Finish, Set
    <2>3. CASE ProofCompare
      BY <1>2, <1>3, <2>3 DEF ProofCompare, Proving, Deciding, At, Finish, Goto
    <2>4. CASE ProofContext
      BY <1>4, <2>4 DEF ProofContext, Set
    <2>5. CASE ListBeads
      BY <1>4, <2>5 DEF ListBeads, Set
    <2>6. CASE ProofDone
      BY <1>2, <2>6 DEF ProofDone, Finish
    <2> QED
      BY <2>1, <2>2, <2>3, <2>4, <2>5, <2>6

\* The next candidate is run, or entered, or the beads are next.
LEMMA CandidateStep ==
  ASSUME DecideInv, tool = "decide", NextCandidate
  PROVE  DecideInv'
  <1>1. /\ job # Nil /\ UNCHANGED <<receipts, closings>> /\ DOMAIN job = RunFields
        /\ job.pc = "next" /\ job.cmd = "prove"
    BY DEF NextCandidate, Proving, Deciding, At, In, proofVars, decisionVars, DecideInv, DecideTypes
  <1>2. CASE Goto("beads") \/ Goto("entry")
    <2>1. /\ DOMAIN job' = DOMAIN job /\ \A f \in Carried : job'[f] = job[f]
          /\ job'.pc \in {"beads", "entry"}
      BY <1>1, <1>2 DEF Goto, Carried, RunFields
    <2>2. job'.pc \notin Watched \cup RunPlace
      BY <2>1 DEF Watched, RunPlace
    <2> QED
      BY <1>1, <2>1, <2>2, GoesOn
  <1>3. CASE \E again \in BOOLEAN :
               job' = [Fresh(job.cands[job.i]) EXCEPT !.cmd = "prove", !.sha = omp, !.repeats = again, !.stage = job.stage,
                         !.kind = job.kind, !.cands = job.cands, !.i = job.i, !.initial = job.initial, !.ctx = job.ctx,
                         !.outcomes = job.outcomes, !.listed = job.listed]
    <2>1. /\ DOMAIN job' = RunFields /\ job'.cmd = "prove" /\ job'.outcomes = job.outcomes /\ job'.receipt = Nil
          /\ job'.pc \in {"shim", "look"} /\ job'.model = job.cands[job.i] /\ job'.cands = job.cands /\ job'.i = job.i
      <3> DEFINE m == job.cands[job.i]
      <3>1. PICK again \in BOOLEAN :
               job' = [Fresh(m) EXCEPT !.cmd = "prove", !.sha = omp, !.repeats = again, !.stage = job.stage,
                         !.kind = job.kind, !.cands = job.cands, !.i = job.i, !.initial = job.initial, !.ctx = job.ctx,
                         !.outcomes = job.outcomes, !.listed = job.listed]
        BY <1>3
      <3> HIDE DEF m
      <3>2. /\ DOMAIN job' = RunFields /\ job'.cmd = "prove" /\ job'.outcomes = job.outcomes /\ job'.receipt = Nil
            /\ job'.pc \in {"shim", "look"} /\ job'.model = m /\ job'.cands = job.cands /\ job'.i = job.i
        BY <3>1 DEF Fresh, RunFields
      <3> QED
        BY <3>2 DEF m
    <2>2. DecideTypes'
      BY <1>1, <2>1 DEF DecideInv, DecideTypes
    <2>3. ReceiptFits'
      BY <1>1, <2>1 DEF DecideInv, ReceiptFits
    <2>4. ProofFits'
      BY <1>1, <2>1 DEF DecideInv, ProofFits, OutcomeFits, CleanRunsFit
    <2> QED
      BY <2>2, <2>3, <2>4 DEF DecideInv
  <1> QED
    BY <1>2, <1>3 DEF NextCandidate

\* A candidate is released: it is unloaded if no other uses it.
LEMMA ReleaseStep ==
  ASSUME DecideInv, tool = "decide", ProofRelease \/ ProofUnload
  PROVE  DecideInv'
  <1>1. /\ job # Nil /\ UNCHANGED <<receipts, closings>> /\ DOMAIN job = RunFields
        /\ job.pc \in {"ran", "refused", "unload"} /\ job.cmd = "prove"
    BY DEF ProofRelease, ProofUnload, Proving, Deciding, At, In, proofVars, decisionVars, worldVars, DecideInv, DecideTypes
  <1>2. CASE job' = Nil
    BY <1>1, <1>2, Ends
  <1>3. CASE \E pc \in {"judge", "compare", "unload"} : Goto(pc) /\ (pc = "judge" => job.receipt # Nil)
    <2>1. PICK pc \in {"judge", "compare", "unload"} : Goto(pc) /\ (pc = "judge" => job.receipt # Nil)
      BY <1>3
    <2>2. /\ DOMAIN job' = DOMAIN job /\ \A f \in Carried : job'[f] = job[f]
          /\ job'.pc = pc
      BY <1>1, <2>1 DEF Goto, Carried, RunFields
    <2>3. (job'.pc \in Watched => job'.pc = "judge" /\ job.receipt # Nil) /\ job.pc \in RunPlace
      BY <1>1, <2>1, <2>2 DEF Watched, RunPlace
    <2> QED
      BY <1>1, <2>2, <2>3, GoesOn
  <1> QED
    BY <1>2, <1>3 DEF ProofRelease, ProofUnload, Finish, Stops

\* The receipt of a candidate is banked.
LEMMA BankStep ==
  ASSUME DecideInv, tool = "decide", ProofJudge \/ BankEntry
  PROVE  DecideInv'
  <1>1. /\ job # Nil /\ UNCHANGED closings /\ DOMAIN job = RunFields
        /\ job.cmd = "prove" /\ Goto("grade") /\ job.pc \in {"judge", "entry"}
    BY DEF ProofJudge, BankEntry, Bank, Proving, Deciding, At, In, worldVars, ollamaVars, DecideInv, DecideTypes
  <1>2. PICK r : receipts' = Append(receipts, r) /\ (r.problems \/ r.fit) /\ r.of = job.cands[job.i]
    <2>1. CASE ProofJudge
      <3>1. job.pc = "judge" /\ receipts' = Append(receipts, job.receipt)
        BY <2>1 DEF ProofJudge, Bank, Proving, Deciding, At
      <3>2. Sound(job.receipt) /\ job.model = job.cands[job.i]
        BY <1>1, <3>1 DEF DecideInv, ReceiptFits, ProofFits, RunPlace
      <3> QED
        BY <3>1, <3>2 DEF Sound
    <2>2. CASE BankEntry
      <3>1. PICK ok \in BOOLEAN : receipts' = Append(receipts, Entry(ok, ok, job.ctx.base))
        BY <2>2 DEF BankEntry, Bank
      <3>2. Entry(ok, ok, job.ctx.base).fit = TRUE /\ Entry(ok, ok, job.ctx.base).of = job.cands[job.i]
        BY DEF Entry
      <3> QED
        BY <3>1, <3>2
    <2> QED
      BY <2>1, <2>2
  <1>3. /\ IsSeq(receipts') /\ CleanRunsFit' /\ receipts' # <<>> /\ receipts'[Len(receipts')] = r
        /\ \A k \in DOMAIN receipts : k \in DOMAIN receipts' /\ receipts'[k] = receipts[k]
    BY <1>2, Banked
  <1>4. /\ DOMAIN job' = DOMAIN job /\ \A f \in Carried : job'[f] = job[f]
        /\ job'.pc = "grade"
    BY <1>1 DEF Goto, Carried, RunFields
  <1>5. /\ job'.cmd = job.cmd /\ job'.model = job.model /\ job'.receipt = job.receipt
        /\ job'.cands = job.cands /\ job'.i = job.i /\ job'.outcomes = job.outcomes
    BY <1>4 DEF Carried
  <1>6. DecideTypes'
    BY <1>1, <1>3, <1>4, <1>5 DEF DecideInv, DecideTypes
  <1>7. ReceiptFits'
    BY <1>1, <1>4, <1>5 DEF DecideInv, ReceiptFits, Sound
  <1>8. ASSUME NEW k \in DOMAIN job.outcomes PROVE OutcomeFits(job.outcomes[k])'
    <2>1. OutcomeFits(job.outcomes[k])
      BY <1>1 DEF DecideInv, ProofFits
    <2> QED
      BY <1>3, <1>5, <2>1 DEF OutcomeFits
  <1>9. \A c \in closings : c.at \in DOMAIN receipts' /\ Proves(receipts'[c.at], c.route)
    BY <1>3 DEF DecideInv, ProofFits
  <1>10. ProofFits'
    BY <1>1, <1>2, <1>3, <1>4, <1>5, <1>8, <1>9 DEF ProofFits, RunPlace
  <1> QED
    BY <1>6, <1>7, <1>10 DEF DecideInv

\* The receipt is graded: PROVEN is only said of a clean one of a proof.
LEMMA GradeStep ==
  ASSUME DecideInv, tool = "decide", ProofGrade
  PROVE  DecideInv'
  <1>1. /\ job # Nil /\ UNCHANGED <<receipts, closings>> /\ DOMAIN job = RunFields
        /\ job.cmd = "prove" /\ job.pc = "grade"
    BY DEF ProofGrade, Proving, Deciding, At, In, proofVars, decisionVars, DecideInv, DecideTypes
  <1> DEFINE o == [route |-> job.cands[job.i], at |-> Len(receipts),
                   grade |-> Grade(receipts[Len(receipts)], GradeIn),
                   screen |-> job.kind = "decision" /\ job.stage = "screen"]
  <1>2. job' = [job EXCEPT !.i = @ + 1, !.pc = "next", !.outcomes = Append(@, o)]
    BY DEF ProofGrade
  <1>3. OutcomeFits(o)
    <2>1. o.at = Len(receipts) /\ o.route = job.cands[job.i] /\ o.grade = Grade(receipts[Len(receipts)], GradeIn)
      OBVIOUS
    <2>2. receipts # <<>> /\ receipts[Len(receipts)].of = job.cands[job.i] /\ IsSeq(receipts)
      BY <1>1 DEF DecideInv, ProofFits, DecideTypes
    <2>3. Len(receipts) \in DOMAIN receipts
      BY <2>2 DEF IsSeq
    <2>4. o.grade = "PROVEN" => /\ receipts[Len(receipts)].stage = "proof" /\ ~receipts[Len(receipts)].problems
                                /\ receipts[Len(receipts)].compare = "BETTER"
      BY <2>1 DEF Grade
    <2> HIDE DEF o
    <2> QED
      BY <2>1, <2>2, <2>3, <2>4 DEF OutcomeFits, Proves
  <1> HIDE DEF o
  <1>4. /\ DOMAIN job' = DOMAIN job /\ job'.pc = "next" /\ job'.outcomes = Append(job.outcomes, o)
        /\ job'.cmd = job.cmd /\ job'.model = job.model /\ job'.receipt = job.receipt /\ job'.cands = job.cands
    BY <1>1, <1>2 DEF RunFields
  <1>5. IsSeq(job.outcomes)
    BY <1>1 DEF DecideInv, DecideTypes
  <1>6. IsSeq(job'.outcomes) /\ \A k \in DOMAIN job'.outcomes : OutcomeFits(job'.outcomes[k])
    <2> DEFINE t == Append(job.outcomes, o)
    <2>1. IsSeq(t)
      BY <1>5, SeqAppend
    <2>2. DOMAIN t = DOMAIN job.outcomes \cup {Len(t)} /\ t[Len(t)] = o /\ \A k \in DOMAIN job.outcomes : t[k] = job.outcomes[k]
      <3>1. DOMAIN t = DOMAIN job.outcomes \cup {Len(t)}
        BY <1>5, SeqAppend
      <3>2. t[Len(t)] = o
        BY <1>5, SeqAppend
      <3>3. \A k \in DOMAIN job.outcomes : t[k] = job.outcomes[k]
        BY <1>5, SeqAppend
      <3> QED
        BY <3>1, <3>2, <3>3
    <2>3. \A k \in DOMAIN job.outcomes : OutcomeFits(job.outcomes[k])
      BY <1>1 DEF DecideInv, ProofFits
    <2> HIDE DEF t
    <2>4. \A k \in DOMAIN t : OutcomeFits(t[k])
      BY <1>3, <2>2, <2>3
    <2> QED
      BY <1>4, <2>1, <2>4 DEF t
  <1>7. DecideTypes' /\ ReceiptFits'
    BY <1>1, <1>4, <1>6 DEF DecideInv, DecideTypes, ReceiptFits, Sound
  <1>8. ProofFits'
    BY <1>1, <1>4, <1>6 DEF DecideInv, ProofFits, OutcomeFits, CleanRunsFit, RunPlace
  <1> QED
    BY <1>7, <1>8 DEF DecideInv

\* A bead is closed by an outcome that proves its route.
LEMMA BeadStep ==
  ASSUME DecideInv, tool = "decide", UpdateBead
  PROVE  DecideInv'
  <1>1. /\ job # Nil /\ UNCHANGED receipts /\ DOMAIN job = RunFields
        /\ job.cmd = "prove" /\ job.pc = "update" /\ job.outcomes # <<>>
    BY DEF UpdateBead, Proving, Deciding, At, In, decisionVars, DecideInv, DecideTypes
  <1>2. CASE job' = Nil /\ closings' = closings
    BY <1>1, <1>2, Ends
  <1>3. CASE /\ job' = [job EXCEPT !.outcomes = Tail(@)]
             /\ \/ closings' = closings
                \/ /\ Closes(Head(job.outcomes))
                   /\ closings' = closings \cup {[route |-> Head(job.outcomes).route, at |-> Head(job.outcomes).at]}
    <2>1. /\ DOMAIN job' = DOMAIN job /\ job'.pc = "update" /\ job'.outcomes = Tail(job.outcomes)
          /\ job'.cmd = job.cmd /\ job'.model = job.model /\ job'.receipt = job.receipt
      BY <1>1, <1>3 DEF RunFields
    <2>2. IsSeq(job.outcomes)
      BY <1>1 DEF DecideInv, DecideTypes
    <2>3. \A k \in DOMAIN job.outcomes : OutcomeFits(job.outcomes[k])
      BY <1>1 DEF DecideInv, ProofFits
    <2>4. /\ IsSeq(Tail(job.outcomes)) /\ 1 \in DOMAIN job.outcomes /\ Head(job.outcomes) = job.outcomes[1]
          /\ \A k \in DOMAIN Tail(job.outcomes) : \E l \in DOMAIN job.outcomes : Tail(job.outcomes)[k] = job.outcomes[l]
      <3>1. IsSeq(Tail(job.outcomes))
        BY <1>1, <2>2, SeqTail
      <3>2. 1 \in DOMAIN job.outcomes /\ Head(job.outcomes) = job.outcomes[1]
        BY <1>1, <2>2, SeqTail
      <3>3. \A k \in DOMAIN Tail(job.outcomes) : \E l \in DOMAIN job.outcomes : Tail(job.outcomes)[k] = job.outcomes[l]
        BY <1>1, <2>2, TailAmong
      <3> QED
        BY <3>1, <3>2, <3>3
    <2>5. \A k \in DOMAIN job'.outcomes : OutcomeFits(job'.outcomes[k])
      BY <2>1, <2>3, <2>4
    <2>6. OutcomeFits(Head(job.outcomes))
      BY <2>3, <2>4
    <2>7. \A c \in closings' : c.at \in DOMAIN receipts /\ Proves(receipts[c.at], c.route)
      BY <1>3, <2>6 DEF DecideInv, ProofFits, Closes, OutcomeFits
    <2>8. DecideTypes' /\ ReceiptFits'
      BY <1>1, <2>1, <2>4 DEF DecideInv, DecideTypes, ReceiptFits, Sound
    <2>9. ProofFits'
      BY <1>1, <2>1, <2>5, <2>7 DEF DecideInv, ProofFits, OutcomeFits, CleanRunsFit, RunPlace
    <2> QED
      BY <2>8, <2>9 DEF DecideInv
  <1> QED
    BY <1>2, <1>3 DEF UpdateBead, Stops

LEMMA DecideStep ==
  ASSUME DecideInv, tool = "decide", ProofNext
  PROVE  DecideInv'
  <1>1. CASE DecisionNext /\ UNCHANGED worldVars
    BY <1>1, RunBegins, ContextStep, LoadStep, ItemStep, AfterStep, DecisionEnds DEF DecisionNext
  <1>2. CASE ProofBegin
    BY <1>2, RunBegins
  <1>3. CASE ProofAdmit \/ ProofPreflight \/ ProofCompare \/ ProofContext \/ ListBeads \/ ProofDone
    BY <1>3, ProofWalks
  <1>4. CASE ProofOthers
    BY <1>4, Stays DEF ProofOthers, decisionVars
  <1> QED
    BY <1>1, <1>2, <1>3, <1>4, CandidateStep, ReleaseStep, BankStep, GradeStep, BeadStep DEF ProofNext

LEMMA DecideInitInv == Init => DecideIInv
<1> SUFFICES ASSUME JobInit, ProofInit
             PROVE  DecideIInv
  BY DEF Init
<1>1. job = Nil /\ receipts = <<>> /\ closings = {}
  BY DEF JobInit, ProofInit, DecisionInit
<1>2. IsSeq(<<>>) /\ DOMAIN <<>> = {}
  BY EmptySeq DEF IsSeq
<1> QED
  BY <1>1, <1>2 DEF DecideIInv, DecideInv, DecideTypes, ReceiptFits, ProofFits, CleanRunsFit

LEMMA DecideNextInv == DecideIInv /\ [Next]_vars => DecideIInv'
<1> SUFFICES ASSUME DecideIInv, [Next]_vars
             PROVE  DecideIInv'
  OBVIOUS
<1>1. CASE tool = "decide" /\ ProofNext
  BY <1>1, DecideStep, OnlyDecide DEF DecideIInv
<1>2. CASE tool = "decide" /\ UNCHANGED <<jobVars, proofVars>>
  <2>1. DecideInv /\ job' = job /\ UNCHANGED <<receipts, closings>>
    BY <1>2 DEF DecideIInv, jobVars, proofVars, decisionVars
  <2> QED
    BY <1>2, <2>1, Stays, OnlyDecide DEF DecideIInv
<1>3. CASE tool # "decide"
  BY <1>3, OnlyDecide DEF DecideIInv, proofVars, decisionVars
<1> QED
  BY <1>1, <1>2, <1>3, OnlyDecide

\* The runs, their receipts and the beads belong together in every reachable state.
THEOREM DecideInvariant == Spec => []DecideIInv
  BY DecideInitInv, DecideNextInv, PTL DEF Spec

\* What was banked as clean fitted, and what closed a bead was banked.
THEOREM ReceiptsAllStand == Spec => []ReceiptsStand
<1>1. DecideIInv => ReceiptsStand
  <2> SUFFICES ASSUME DecideIInv PROVE ReceiptsStand
    OBVIOUS
  <2>1. CleanRunsFit
    BY DEF DecideIInv, DecideInv, ProofFits, CleanRunsFit
  <2>2. ClosedIsProven
    BY DEF DecideIInv, DecideInv, ProofFits, Proves, ClosedIsProven
  <2> QED
    BY <2>1, <2>2 DEF ReceiptsStand
<1> QED
  BY DecideInvariant, <1>1, PTL
=============================================================================
