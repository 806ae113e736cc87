------------------------ MODULE GatewaySafetyProofs ------------------------
(***************************************************************************)
(* Neither a sweep nor a park unloads a model under a live call, a keep is *)
(* honoured and every call accounted for: proved of GatewayLease for any   *)
(* number of models, calls, instances, keeps and fences, as long as        *)
(* launchd alone starts the service and neither stops nor unloads by       *)
(* `keep 0` are given; and, without what spoils them, its tables are true. *)
(***************************************************************************)
EXTENDS GatewayLeaseProofs

USE DEF db, tables, ollama, process, service, tools, budget

\* Only launchd starts the service; no stop, no keep 0.
Plain == Supervised /\ Ops \cap {"stop", "calm_stop", "unload"} = {}

NoStops == stopper = NoStop /\ \A c \in Commands : cmd[c].pc \in {"idle", "loading", "clearing"}

\* One instance at a time, which recovers only what others have left.
OneInstance ==
    /\ \A i, j \in Instances : Live(i) /\ Live(j) => i = j
    /\ \A i \in Instances : inst[i] = "recovering" => i \notin stale

\* A call in a handler is of a live instance; one that is admitted has its row.
CallsHaveRows ==
    \A r \in Requests :
        /\ req[r].pc \in {"connected", "upstream", "finishing"} => Live(req[r].inst)
        /\ req[r].pc \in {"upstream", "finishing"} => r \in rows

\* What a sweep has claimed is marked until the sweep settles it.
ClaimsAreMarked ==
    \A i \in Instances :
        sweep[i].pc # "idle" =>
            /\ Working(i)
            /\ sweep[i].cur \notin sweep[i].todo
            /\ \A m \in sweep[i].todo \cup {sweep[i].cur} : Pending(m)

\* No kept model is marked.
KeptAreUnmarked == \A m \in Models : Pending(m) => leases[m].manual # "future"

\* What is logged is over.
LoggedIsOver ==
    \A r \in Requests : log[r] # "none" => r \notin rows /\ req[r].pc \notin {"new", "connected", "upstream"}

SInv ==
    Plain => NoStops /\ OneInstance /\ CallsHaveRows /\ ClaimsAreMarked /\ KeptAreUnmarked /\ LoggedIsOver

Given ==
    IInv /\ Plain /\ NoStops /\ OneInstance /\ CallsHaveRows /\ ClaimsAreMarked /\ KeptAreUnmarked /\ LoggedIsOver

(***************************************************************************)
(* What the steps of a plain service leave alone.                          *)
(***************************************************************************)
ServiceMoves(i) == Restart(i) \/ Exit(i) \/ Crash(i) \/ Sigterm(i)
Sweeps(i) == Sweeper(i) \/ CheckSafe(i) \/ SweepError(i) \/ MarkFails(i)
Calls(r) ==
    \/ Handler(r) \/ UpstreamLoads(r) \/ HangUp(r) \/ FinishFails(r)
    \/ \E i \in Instances, m \in Models \cup {Clef} : Connect(r, i, m)
Keeps(c) ==
    \/ KeepEnds(c) \/ ClearManualLease(c) \/ KeepRejected(c)
    \/ \E m \in Models : SetManualLease(c, m)
Fencing(f) ==
    \/ ProbePasses(f) \/ ParkDies(f) \/ ReleaseFence(f)
    \/ \E ms \in SUBSET Models, park \in BOOLEAN : AcquireFence(f, ms, park)
    \/ \E m \in Models : ParkUnload(f, m)
Clients(m) == DirectBegins(m) \/ DirectEnds(m) \/ OllamaEvicts(m)

\* Neither a stop nor a keep 0 has a step.
LEMMA PlainSteps ==
    ASSUME Given, Next
    PROVE  \/ \E i \in Instances : ServiceMoves(i) \/ Sweeps(i)
           \/ \E r \in Requests : Calls(r)
           \/ \E c \in Commands : Keeps(c)
           \/ \E f \in Fences : Fencing(f)
           \/ \E m \in Models : Clients(m) \/ \E t \in {"idle", "manual", "retry"} : Expire(m, t)
           \/ StartService
  <1>1. /\ "stop" \notin Ops /\ "calm_stop" \notin Ops /\ "unload" \notin Ops
        /\ stopper.pc = "idle"
        /\ \A c \in Commands : cmd[c].pc \in {"idle", "loading", "clearing"}
    BY DEF Given, Plain, NoStops, NoStop
  <1>2. ~BeginStop /\ ~Stopper /\ ~StopBreaks
    BY <1>1 DEF BeginStop, Stopper, CountConnections, ReadRows, Reclaim, DecideStop, Bootout, StopEnds, RefuseStop,
                StopBreaks, BootoutFails, ReclaimFails, StopIsCut, NoStopRuns
  <1>3. \A c \in Commands :
          /\ ~KeepZeroUnload(c) /\ ~KeepZeroReadback(c) /\ ~KeepZeroSettle(c)
          /\ \A m \in Models : ~KeepZero(c, m)
    BY <1>1 DEF KeepZeroUnload, KeepZeroReadback, KeepZeroSettle, KeepZero
  <1> QED
    BY <1>2, <1>3 DEF Next, Keeper, ServiceMoves, Sweeps, Calls, Keeps, Fencing, Clients

LEMMA ServiceFrame == ASSUME NEW i \in Instances, ServiceMoves(i) PROVE UNCHANGED <<cmd, stopper>>
  BY DEF ServiceMoves, Restart, Launch, ReadStale, RecoverPending, Serve, RecoverInstance, Exit, Crash, Dies, Sigterm

LEMMA SweepFrame == ASSUME NEW i \in Instances, Sweeps(i) PROVE UNCHANGED <<cmd, stopper, inst, stale, req, rows>>
  BY DEF Sweeps, Sweeper, ClaimDue, CheckSafe, CheckUnsafe, ReadResidents, Unload, Readback, Mark, SweepError, MarkFails, SweepTo

LEMMA CallFrame == ASSUME NEW r \in Requests, Calls(r) PROVE UNCHANGED <<cmd, stopper, inst, stale, sweep>>
  BY DEF Calls, Handler, StartRequest, RefuseRequest, UpstreamEnds, FinishRequest, UpstreamLoads, HangUp, FinishFails, Connect

LEMMA KeepFrame == ASSUME NEW c \in Commands, Keeps(c) PROVE UNCHANGED <<stopper, inst, stale, req, rows, sweep>>
  BY DEF Keeps, KeepEnds, ClearManualLease, KeepRejected, SetManualLease

LEMMA FenceFrame ==
    ASSUME NEW f \in Fences, Fencing(f)
    PROVE  UNCHANGED <<cmd, stopper, inst, stale, req, rows, sweep, leases>>
  BY DEF Fencing, ProbePasses, ParkDies, ReleaseFence, AcquireFence, ParkUnload

LEMMA ClientFrame ==
    ASSUME NEW m \in Models, Clients(m)
    PROVE  UNCHANGED <<cmd, stopper, inst, stale, req, rows, sweep, leases>>
  BY DEF Clients, DirectBegins, DirectEnds, OllamaEvicts

LEMMA ClockFrame ==
    ASSUME NEW m \in Models, NEW t \in {"idle", "manual", "retry"}, Expire(m, t)
    PROVE  UNCHANGED <<cmd, stopper, inst, stale, req, rows, sweep>>
  BY DEF Expire

LEMMA StartFrame ==
    ASSUME StartService
    PROVE  UNCHANGED <<cmd, stopper, inst, stale, req, rows, sweep, leases>>
  BY DEF StartService

(***************************************************************************)
(* The parts of the invariant.                                             *)
(***************************************************************************)
\* The keep commands keep to their places.
LEMMA StepNoStops ==
    ASSUME Given, Next
    PROVE  NoStops'
  <1>1. ASSUME NEW c \in Commands, Keeps(c)
        PROVE  NoStops'
    <2>1. cmd \in [Commands -> Cmd \cup {NoCmd}]
      BY DEF Given, IInv, TypeOK
    <2>2. \/ cmd' = cmd
          \/ cmd' = [cmd EXCEPT ![c] = NoCmd]
          \/ cmd' = [cmd EXCEPT ![c].pc = "clearing"] /\ cmd[c].pc = "loading"
          \/ \E m \in Models : cmd' = [cmd EXCEPT ![c] = [pc |-> "loading", model |-> m]]
      BY <1>1 DEF Keeps, KeepEnds, ClearManualLease, KeepRejected, SetManualLease, Given, NoStops
    <2>3. \A d \in Commands : cmd'[d].pc \in {"idle", "loading", "clearing"}
      BY <2>1, <2>2 DEF Given, NoStops, NoCmd, Cmd
    <2> QED BY <1>1, <2>3, KeepFrame DEF Given, NoStops
  <1> QED
    BY <1>1, PlainSteps, ServiceFrame, SweepFrame, CallFrame, FenceFrame, ClientFrame, ClockFrame, StartFrame
    DEF Given, NoStops

\* A start finds no live instance, and no other step makes one live.
LEMMA InstanceStep ==
    ASSUME Given, NEW i \in Instances, ServiceMoves(i)
    PROVE  /\ OneInstance'
           /\ \A j \in Instances \ {i} : inst'[j] = inst[j]
  <1> USE DEF Given, OneInstance, IInv, TypeOK, Live
  <1>1. CASE Launch(i)
    BY <1>1 DEF Launch, Plain
  <1>2. CASE ReadStale(i)
    BY <1>2 DEF ReadStale, Leftover
  <1>3. CASE RecoverPending(i) \/ Serve(i)
    BY <1>3 DEF RecoverPending, Serve
  <1>4. CASE \E j \in Instances : RecoverInstance(i, j)
    BY <1>4 DEF RecoverInstance
  <1>5. CASE Exit(i) \/ Crash(i)
    BY <1>5 DEF Exit, Crash, Dies
  <1>6. CASE Sigterm(i)
    BY <1>6 DEF Sigterm, Terminate
  <1> QED BY <1>1, <1>2, <1>3, <1>4, <1>5, <1>6 DEF Restart, ServiceMoves

LEMMA StepOneInstance ==
    ASSUME Given, Next
    PROVE  OneInstance'
  <1>1. CASE UNCHANGED <<inst, stale>>
    BY <1>1 DEF Given, OneInstance, Live
  <1>2. CASE \E i \in Instances : ServiceMoves(i)
    BY <1>2, InstanceStep
  <1> QED
    BY <1>1, <1>2, PlainSteps, SweepFrame, CallFrame, KeepFrame, FenceFrame, ClientFrame, ClockFrame, StartFrame

\* A recovery drops the rows of dead instances only, whose calls died with them.
LEMMA StepCallsHaveRows ==
    ASSUME Given, Next
    PROVE  CallsHaveRows'
  <1> USE DEF Given, IInv, TypeOK, CallsHaveRows, Live
  <1>1. CASE UNCHANGED <<inst, req, rows>>
    BY <1>1
  <1>2. ASSUME NEW i \in Instances, Exit(i) \/ Crash(i)
        PROVE  CallsHaveRows'
    <2>1. Dies(i)
      BY <1>2 DEF Exit, Crash
    <2> SUFFICES ASSUME NEW r \in Requests
                 PROVE  /\ req'[r].pc \in {"connected", "upstream", "finishing"} => Live(req[r].inst)'
                        /\ req'[r].pc \in {"upstream", "finishing"} => r \in rows'
      OBVIOUS
    <2>2. CASE req[r].inst = i /\ req[r].pc \in {"connected", "upstream", "finishing"}
      <3>1. req[r] \in Req /\ req'[r] = [req[r] EXCEPT !.pc = "dead", !.gone = TRUE]
        <4>1. req[r] \in Req \cup {NoReq} /\ req[r].pc # "new"
          BY <2>2
        <4>2. req[r] \in Req
          BY <4>1 DEF NoReq
        <4>3. req'[r] = [req[r] EXCEPT !.pc = "dead", !.gone = TRUE]
          BY <2>1, <2>2 DEF Dies
        <4> QED BY <4>2, <4>3
      <3>2. req'[r].pc = "dead"
        BY <3>1 DEF Req
      <3> QED BY <3>2
    <2>3. CASE ~(req[r].inst = i /\ req[r].pc \in {"connected", "upstream", "finishing"})
      <3>1. req'[r] = req[r] /\ rows' = rows
        BY <2>1, <2>3 DEF Dies
      <3>2. CASE req[r].pc \in {"connected", "upstream", "finishing"}
        <4>1. req[r].inst \in Instances \ {i}
          BY <2>3, <3>2 DEF Req, NoReq
        <4>2. inst'[req[r].inst] = inst[req[r].inst]
          BY <2>1, <4>1 DEF Dies
        <4> QED BY <3>1, <4>2
      <3>3. CASE req[r].pc \notin {"connected", "upstream", "finishing"}
        BY <3>1, <3>3
      <3> QED BY <3>2, <3>3
    <2> QED BY <2>2, <2>3
  <1>3. ASSUME NEW i \in Instances, Restart(i) \/ Sigterm(i)
        PROVE  CallsHaveRows'
    <2>1. CASE \E j \in Instances : RecoverInstance(i, j)
      <3> PICK j \in Instances : RecoverInstance(i, j)
        BY <2>1
      <3>1. ~Live(j) /\ req' = req /\ inst' = inst /\ rows' = rows \ {r \in rows : req[r].inst = j}
        BY DEF RecoverInstance, OneInstance
      <3> QED BY <3>1
    <2>2. CASE ~ \E j \in Instances : RecoverInstance(i, j)
      <3>1. /\ req' = req /\ rows' = rows
            /\ \A j \in Instances : inst[j] \notin {"new", "dead"} => inst'[j] \notin {"new", "dead"}
        BY <1>3, <2>2 DEF Restart, Launch, ReadStale, RecoverPending, Serve, Sigterm, Terminate
      <3> QED BY <3>1 DEF Req, NoReq
    <2> QED BY <2>1, <2>2
  <1>4. ASSUME NEW r \in Requests, Calls(r)
        PROVE  CallsHaveRows'
    <2>1. inst' = inst /\ \A q \in Requests \ {r} : req'[q] = req[q] /\ (q \in rows => q \in rows')
      BY <1>4 DEF Calls, Handler, StartRequest, RefuseRequest, UpstreamEnds, FinishRequest, Finish, UpstreamLoads,
         HangUp, FinishFails, Connect
    <2>2. /\ req'[r].pc \in {"connected", "upstream", "finishing"} => Live(req'[r].inst)
          /\ req'[r].pc \in {"upstream", "finishing"} => r \in rows'
      BY <1>4 DEF Calls, Handler, StartRequest, RefuseRequest, UpstreamEnds, FinishRequest, Finish, UpstreamLoads,
         HangUp, FinishFails, Connect, Req, NoReq
    <2> QED BY <2>1, <2>2
  <1> QED
    BY <1>1, <1>2, <1>3, <1>4, PlainSteps, SweepFrame, KeepFrame, FenceFrame, ClientFrame, ClockFrame, StartFrame
    DEF ServiceMoves, Restart

\* A step that leaves the sweeps, their processes and the marks alone.
LEMMA MarksStay ==
    ASSUME Given, sweep' = sweep, \A i \in Instances : Working(i) => Working(i)',
           \A m \in Models : Pending(m) => Pending(m)'
    PROVE  ClaimsAreMarked'
  BY DEF Given, ClaimsAreMarked, IInv, TypeOK, Sweep, Idle

\* No step of a call, a keep command or the clock takes a mark away.
LEMMA CallKeepsMarks ==
    ASSUME Given, NEW r \in Requests, Calls(r)
    PROVE  \A m \in Models : Pending(m) => Pending(m)'
  <1> USE DEF Given, IInv, TypeOK, Pending
  <1>1. CASE UNCHANGED leases
    BY <1>1
  <1>2. CASE StartRequest(r)
    <2>1. \A m \in Models : Pending(m) => leases'[m] = leases[m]
      BY <1>2 DEF StartRequest, Admits
    <2> QED BY <2>1
  <1>3. CASE FinishRequest(r) /\ leases' # leases
    <2> DEFINE n == req[r].model
    <2>1. n \in Models /\ RowsOf(n) = {r} /\ leases' = [leases EXCEPT ![n] = Idling(@)]
      BY <1>3 DEF FinishRequest, Finish
    <2>2. ~Pending(n)
      BY <2>1 DEF AdmissionExcludes
    <2> HIDE DEF n
    <2> QED BY <2>1, <2>2
  <1> QED
    BY <1>1, <1>2, <1>3 DEF Calls, Handler, RefuseRequest, UpstreamEnds, UpstreamLoads, HangUp, FinishFails, Connect

LEMMA KeepKeepsMarks ==
    ASSUME Given, NEW c \in Commands, Keeps(c)
    PROVE  \A m \in Models : Pending(m) => Pending(m)'
  <1> USE DEF Given, IInv, TypeOK, Pending
  <1>1. CASE ClearManualLease(c)
    <2>1. leases' = [leases EXCEPT ![cmd[c].model].manual = "none"]
      BY <1>1 DEF ClearManualLease
    <2> QED BY <2>1 DEF Lease
  <1>2. CASE \E m \in Models : SetManualLease(c, m)
    <2> PICK n \in Models : SetManualLease(c, n)
      BY <1>2
    <2>1. \A m \in Models : Pending(m) => leases'[m] = leases[m]
      BY DEF SetManualLease, Keepable
    <2> QED BY <2>1
  <1> QED BY <1>1, <1>2 DEF Keeps, KeepEnds, KeepRejected

LEMMA ClockKeepsMarks ==
    ASSUME Given, NEW n \in Models, NEW t \in {"idle", "manual", "retry"}, Expire(n, t)
    PROVE  \A m \in Models : Pending(m) => Pending(m)'
  <1>1. leases' = [leases EXCEPT ![n][t] = "past"] /\ leases[n] \in Lease
    BY DEF Expire, Given, IInv, TypeOK
  <1> QED BY <1>1 DEF Given, IInv, TypeOK, Pending, Lease

\* The sweep of the one instance: it marks what it claims and settles one
\* model after the other.
LEMMA SweepStep ==
    ASSUME Given, NEW i \in Instances, Sweeps(i)
    PROVE  ClaimsAreMarked'
  <1> USE DEF Given, IInv, TypeOK
  <1>1. Sweeps(i) => inst' = inst
    BY SweepFrame
  <1>2. CASE ClaimDue(i)
    <2> DEFINE due == {m \in Models : Due(m)}
    <2>1. PICK s \in NextModel([sweep[i] EXCEPT !.todo = due]) : sweep' = [sweep EXCEPT ![i] = s]
      BY <1>2 DEF ClaimDue
    <2>2. \A j \in Instances \ {i} : sweep[j].pc = "idle"
      BY <1>2 DEF ClaimDue, ClaimsAreMarked, OneInstance, Working, Live
    <2>3. ASSUME NEW m \in due PROVE leases'[m].outcome = "unload_pending"
      <3>1. leases'[m] = [leases[m] EXCEPT !.outcome = "unload_pending"] /\ leases[m] \in Lease
        BY <1>2 DEF ClaimDue
      <3> QED BY <3>1 DEF Lease
    <2>4. due # {} /\ Working(i)
      BY <1>2 DEF ClaimDue
    <2>5. s.cur \in due /\ s.todo = due \ {s.cur}
      BY <2>1, <2>4 DEF NextModel, Sweep, Idle
    <2> HIDE DEF due
    <2> QED BY <1>1, <2>1, <2>2, <2>3, <2>4, <2>5 DEF ClaimsAreMarked, Pending, Working
  <1>3. CASE Mark(i)
    <2>1. sweep[i] \in Sweep /\ sweep[i].pc = "mark"
      BY <1>3 DEF Mark, Idle
    <2>2. /\ sweep[i].cur \notin sweep[i].todo /\ Working(i)
          /\ \A m \in sweep[i].todo : Pending(m)
      BY <2>1 DEF ClaimsAreMarked
    <2>3. \A m \in sweep[i].todo : leases'[m] = leases[m]
      BY <1>3, <2>1, <2>2 DEF Mark, MarkResult, Sweep
    <2>4. PICK s \in NextModel(sweep[i]) : sweep' = [sweep EXCEPT ![i] = s]
      BY <1>3 DEF Mark
    <2>5. s.pc = "idle" \/ (s.cur \in sweep[i].todo /\ s.todo = sweep[i].todo \ {s.cur})
      BY <2>4 DEF NextModel, Idle
    <2>6. \A j \in Instances \ {i} : sweep[j].pc = "idle"
      BY <2>2 DEF ClaimsAreMarked, OneInstance, Working, Live
    <2> QED BY <1>1, <2>1, <2>2, <2>3, <2>4, <2>5, <2>6 DEF ClaimsAreMarked, Pending, Working
  <1>4. CASE MarkFails(i)
    BY <1>1, <1>4 DEF MarkFails, ClaimsAreMarked, Pending, Working, Idle
  <1>5. CASE \E pc \in SweepPC, result \in {"absent"} \cup Retrying \cup Settled : sweep[i].pc # "idle" /\ SweepTo(i, pc, result)
    <2> PICK pc \in SweepPC, result \in {"absent"} \cup Retrying \cup Settled : sweep[i].pc # "idle" /\ SweepTo(i, pc, result)
      BY <1>5
    <2>1. /\ sweep' = [sweep EXCEPT ![i].pc = pc, ![i].result = result] /\ UNCHANGED <<leases, inst>>
          /\ sweep[i] \in Sweep
      BY DEF SweepTo, Idle
    <2>2. sweep'[i].cur = sweep[i].cur /\ sweep'[i].todo = sweep[i].todo /\ \A j \in Instances \ {i} : sweep'[j] = sweep[j]
      BY <2>1 DEF Sweep
    <2> QED BY <2>1, <2>2 DEF ClaimsAreMarked, Pending, Working
  <1> QED
    BY <1>2, <1>3, <1>4, <1>5 DEF Sweeps, Sweeper, CheckSafe, CheckUnsafe, ReadResidents, Unload, Readback, SweepError,
       SweepPC, Retrying, Settled

\* A start, a recovery and an end: a live sweep has its process to itself.
LEMMA ServiceStep ==
    ASSUME Given, NEW i \in Instances, ServiceMoves(i)
    PROVE  ClaimsAreMarked'
  <1> USE DEF Given, IInv, TypeOK
  <1>1. CASE Exit(i) \/ Crash(i)
    <2>1. /\ sweep' = [sweep EXCEPT ![i] = Idle] /\ leases' = leases
          /\ \A j \in Instances \ {i} : inst'[j] = inst[j]
      BY <1>1 DEF Exit, Crash, Dies
    <2>2. \A j \in Instances \ {i} : sweep'[j] = sweep[j]
      BY <2>1
    <2>3. sweep'[i].pc = "idle"
      BY <2>1 DEF Idle
    <2> QED BY <2>1, <2>2, <2>3 DEF ClaimsAreMarked, Pending, Working
  <1>2. CASE inst[i] = "recovering" /\ (RecoverPending(i) \/ \E j \in Instances : RecoverInstance(i, j))
    <2>1. sweep' = sweep /\ \A j \in Instances : sweep[j].pc = "idle"
      BY <1>2 DEF RecoverPending, RecoverInstance, ClaimsAreMarked, OneInstance, Working, Live
    <2> QED BY <2>1 DEF ClaimsAreMarked
  <1>3. CASE Launch(i) \/ ReadStale(i) \/ Serve(i) \/ Sigterm(i)
    <2>1. UNCHANGED <<sweep, leases>> /\ \A j \in Instances : Working(j) => Working(j)'
      BY <1>3 DEF Launch, ReadStale, Serve, Sigterm, Terminate, Working
    <2> QED BY <2>1, MarksStay DEF Pending
  <1> QED
    BY <1>1, <1>2, <1>3 DEF ServiceMoves, Restart, RecoverPending, RecoverInstance

LEMMA StepClaimsAreMarked ==
    ASSUME Given, Next
    PROVE  ClaimsAreMarked'
  <1>1. CASE UNCHANGED <<sweep, inst, leases>>
    BY <1>1, MarksStay DEF Working, Pending
  <1>2. ASSUME NEW r \in Requests, Calls(r) PROVE ClaimsAreMarked'
    BY <1>2, CallFrame, CallKeepsMarks, MarksStay DEF Working
  <1>3. ASSUME NEW c \in Commands, Keeps(c) PROVE ClaimsAreMarked'
    BY <1>3, KeepFrame, KeepKeepsMarks, MarksStay DEF Working
  <1>4. ASSUME NEW m \in Models, NEW t \in {"idle", "manual", "retry"}, Expire(m, t) PROVE ClaimsAreMarked'
    BY <1>4, ClockFrame, ClockKeepsMarks, MarksStay DEF Working
  <1> QED
    BY <1>1, <1>2, <1>3, <1>4, PlainSteps, SweepStep, ServiceStep, FenceFrame, ClientFrame, StartFrame

\* set_manual_lease refuses a marked model, claim_due passes a kept one over.
LEMMA StepKeptAreUnmarked ==
    ASSUME Given, Next
    PROVE  KeptAreUnmarked'
  <1> USE DEF Given, IInv, TypeOK
  <1> SUFFICES ASSUME NEW m \in Models
               PROVE  Pending(m)' => leases'[m].manual # "future"
    BY DEF KeptAreUnmarked
  <1> DEFINE Fine(l) == l.outcome = "unload_pending" => l.manual # "future"
  <1>1. leases[m] \in Lease /\ Fine(leases[m])
    BY DEF KeptAreUnmarked, Pending
  <1>2. Fine(Renewed(leases[m])) /\ Fine(Idling(leases[m])) /\ Fine(Retried(leases[m]))
    BY <1>1, LeaseUpdates
  <1>3. ASSUME NEW r \in Requests, Calls(r) PROVE Fine(leases'[m])
    <2>1. leases'[m] \in {leases[m], Renewed(leases[m]), Idling(leases[m])}
      BY <1>3 DEF Calls, Handler, StartRequest, RefuseRequest, UpstreamEnds, FinishRequest, Finish, UpstreamLoads,
         HangUp, FinishFails, Connect
    <2> QED BY <1>1, <1>2, <2>1
  <1>4. ASSUME NEW c \in Commands, Keeps(c) PROVE Fine(leases'[m])
    <2>1. \/ leases'[m] = leases[m]
          \/ leases'[m] = [leases[m] EXCEPT !.manual = "none"]
          \/ leases'[m] = [Renewed(leases[m]) EXCEPT !.manual = "future"]
      BY <1>4 DEF Keeps, KeepEnds, ClearManualLease, KeepRejected, SetManualLease
    <2>2. Fine([leases[m] EXCEPT !.manual = "none"]) /\ Fine([Renewed(leases[m]) EXCEPT !.manual = "future"])
      BY <1>1 DEF Lease, Renewed
    <2> QED BY <1>1, <2>1, <2>2
  <1>5. ASSUME NEW n \in Models, NEW t \in {"idle", "manual", "retry"}, Expire(n, t) PROVE Fine(leases'[m])
    <2>1. leases'[m] = leases[m] \/ leases'[m] = [leases[m] EXCEPT ![t] = "past"]
      BY <1>5 DEF Expire
    <2> QED BY <1>1, <2>1 DEF Lease
  <1>6. ASSUME NEW i \in Instances, ServiceMoves(i) PROVE Fine(leases'[m])
    <2>1. leases'[m] \in {leases[m], Idling(leases[m]), Retried(leases[m])}
      BY <1>6 DEF ServiceMoves, Restart, Launch, ReadStale, RecoverPending, Serve, RecoverInstance, Exit, Crash, Dies, Sigterm
    <2> QED BY <1>1, <1>2, <2>1
  <1>7. ASSUME NEW i \in Instances, Sweeps(i) PROVE Fine(leases'[m])
    <2>1. CASE ClaimDue(i)
      <3>1. leases'[m] = leases[m] \/ (Due(m) /\ leases'[m] = [leases[m] EXCEPT !.outcome = "unload_pending"])
        BY <2>1 DEF ClaimDue
      <3> QED BY <1>1, <3>1 DEF Due, Lease
    <2>2. CASE Mark(i)
      <3>1. sweep[i].result # "unload_pending"
        BY <2>2 DEF Mark, Sweep, Idle, Retrying, Settled
      <3>2. leases'[m] = leases[m] \/ \E t \in Timer : leases'[m] = [leases[m] EXCEPT !.outcome = sweep[i].result, !.retry = t]
        BY <2>2 DEF Mark, MarkResult, Timer
      <3> QED BY <1>1, <3>1, <3>2 DEF Lease
    <2>3. CASE UNCHANGED leases
      BY <1>1, <2>3
    <2> QED BY <1>7, <2>1, <2>2, <2>3 DEF Sweeps, Sweeper, CheckSafe, CheckUnsafe, ReadResidents, Unload, Readback,
                  SweepError, MarkFails, SweepTo
  <1> HIDE DEF Fine
  <1>8. Fine(leases'[m])
    BY <1>1, <1>3, <1>4, <1>5, <1>6, <1>7, PlainSteps, FenceFrame, ClientFrame, StartFrame
  <1> QED BY <1>8 DEF Fine, Pending

\* A call is logged when its row goes, or refused before it has one.
LEMMA StepLoggedIsOver ==
    ASSUME Given, Next
    PROVE  LoggedIsOver' /\ LoggedOnce
  <1> USE DEF Given, IInv, TypeOK, LoggedIsOver, LoggedOnce
  <1>1. CASE UNCHANGED <<log, req, rows>>
    BY <1>1
  <1>2. ASSUME NEW i \in Instances, ServiceMoves(i) PROVE LoggedIsOver' /\ LoggedOnce
    <2>1. log' = log /\ rows' \subseteq rows
      BY <1>2 DEF ServiceMoves, Restart, Launch, ReadStale, RecoverPending, Serve, RecoverInstance, Exit, Crash, Dies, Sigterm
    <2>2. \A r \in Requests : req'[r] = req[r] \/ (req[r].pc \in ReqPC /\ req'[r] = [req[r] EXCEPT !.pc = "dead", !.gone = TRUE])
      BY <1>2 DEF ServiceMoves, Restart, Launch, ReadStale, RecoverPending, Serve, RecoverInstance, Exit, Crash, Dies, Sigterm, ReqPC
    <2>3. \A r \in Requests : req'[r] = req[r] \/ req'[r].pc = "dead"
      <3> SUFFICES ASSUME NEW r \in Requests, req'[r] # req[r]
                   PROVE  req'[r].pc = "dead"
        OBVIOUS
      <3>1. req[r].pc \in ReqPC /\ req'[r] = [req[r] EXCEPT !.pc = "dead", !.gone = TRUE]
        BY <2>2
      <3>2. req[r] \in Req \cup {NoReq}
        OBVIOUS
      <3>3. req[r] \in Req
        BY <3>1, <3>2 DEF NoReq, ReqPC
      <3> QED BY <3>1, <3>3 DEF Req
    <2> QED BY <2>1, <2>3
  <1>3. ASSUME NEW r \in Requests, Calls(r) PROVE LoggedIsOver' /\ LoggedOnce
    <2>1. \A q \in Requests \ {r} : log'[q] = log[q] /\ req'[q] = req[q] /\ (q \in rows' => q \in rows)
      BY <1>3 DEF Calls, Handler, StartRequest, RefuseRequest, UpstreamEnds, FinishRequest, Finish, Logged, UpstreamLoads,
         HangUp, FinishFails, Connect
    <2>2. CASE log'[r] = log[r]
      <3>1. /\ r \in rows' => r \in rows \/ req[r].pc = "connected"
            /\ req'[r].pc \in {"new", "connected", "upstream"} => req[r].pc \in {"new", "connected", "upstream"}
        BY <1>3 DEF Calls, Handler, StartRequest, RefuseRequest, UpstreamEnds, FinishRequest, Finish, UpstreamLoads,
           HangUp, FinishFails, Connect, Req, NoReq
      <3> QED BY <2>1, <2>2, <3>1
    <2>3. CASE log'[r] # log[r]
      <3>1. RefuseRequest(r) \/ (FinishRequest(r) /\ HasRow(r))
        BY <1>3, <2>3 DEF Calls, Handler, StartRequest, UpstreamEnds, FinishRequest, Finish, UpstreamLoads, HangUp, FinishFails, Connect
      <3>2. log[r] = "none" /\ req[r] \in Req
        BY <3>1 DEF RefuseRequest, HasRow, FinishRequest, NoReq
      <3>3. r \notin rows' /\ req'[r].pc \in {"refused", "done"}
        BY <3>1, <3>2 DEF RefuseRequest, HasRow, FinishRequest, Finish, RowsAdmitted, Req
      <3> QED BY <2>1, <3>2, <3>3
    <2> QED BY <2>2, <2>3
  <1>4. ASSUME NEW i \in Instances, Sweeps(i) PROVE UNCHANGED <<log, req, rows>>
    BY <1>4 DEF Sweeps, Sweeper, ClaimDue, CheckSafe, CheckUnsafe, ReadResidents, Unload, Readback, Mark, SweepError, MarkFails, SweepTo
  <1>5. ASSUME NEW c \in Commands, Keeps(c) PROVE UNCHANGED <<log, req, rows>>
    BY <1>5 DEF Keeps, KeepEnds, ClearManualLease, KeepRejected, SetManualLease
  <1>6. ASSUME NEW f \in Fences, Fencing(f) PROVE UNCHANGED <<log, req, rows>>
    BY <1>6 DEF Fencing, ProbePasses, ParkDies, ReleaseFence, AcquireFence, ParkUnload
  <1>7. ASSUME NEW m \in Models, Clients(m) \/ \E t \in {"idle", "manual", "retry"} : Expire(m, t) PROVE UNCHANGED <<log, req, rows>>
    BY <1>7 DEF Clients, DirectBegins, DirectEnds, OllamaEvicts, Expire
  <1>8. ASSUME StartService PROVE UNCHANGED <<log, req, rows>>
    BY <1>8 DEF StartService
  <1> QED BY <1>1, <1>2, <1>3, <1>4, <1>5, <1>6, <1>7, <1>8, PlainSteps

(***************************************************************************)
(* The theorems.                                                           *)
(***************************************************************************)
LEMMA SafeInit == Init => SInv
  BY DEF Init, SInv, NoStops, NoCmd, OneInstance, Live, CallsHaveRows, NoReq, ClaimsAreMarked, Idle, KeptAreUnmarked, Pending,
     NoLease, LoggedIsOver

LEMMA SafeNext == IInv /\ SInv /\ [Next]_vars => SInv' /\ (Plain => LoggedOnce)
  <1> SUFFICES ASSUME IInv, SInv, [Next]_vars, Plain
               PROVE  /\ NoStops' /\ OneInstance' /\ CallsHaveRows' /\ ClaimsAreMarked'
                      /\ KeptAreUnmarked' /\ LoggedIsOver' /\ LoggedOnce
    BY DEF SInv, Plain
  <1>1. Given
    BY DEF Given, SInv
  <1>2. CASE Next
    BY <1>1, <1>2, StepNoStops, StepOneInstance, StepCallsHaveRows, StepClaimsAreMarked, StepKeptAreUnmarked, StepLoggedIsOver
  <1>3. CASE UNCHANGED vars
    BY <1>1, <1>3 DEF vars, Given, NoStops, OneInstance, Live, CallsHaveRows, ClaimsAreMarked, Working, Pending,
       KeptAreUnmarked, LoggedIsOver, LoggedOnce
  <1> QED BY <1>2, <1>3

\* The rows, the marks of the sweeps and the one live instance belong together.
THEOREM PlainInvariant == Spec => [](IInv /\ SInv)
  <1>1. IInv /\ SInv /\ [Next]_vars => SInv'
    BY SafeNext
  <1> QED BY Invariant, SafeInit, <1>1, PTL DEF Spec

\* Neither a sweep nor a park unloads a model under a live call, in a service
\* that launchd alone starts and that is neither stopped nor asked to unload.
THEOREM CallsStaySafe == Spec => [](Plain => CallsAreSafe)
  <1>1. IInv /\ SInv => (Plain => CallsAreSafe)
    <2> SUFFICES ASSUME IInv, SInv, Plain
                 PROVE  CallsAreSafe
      OBVIOUS
    <2>1. ASSUME NEW m \in Models, InUse(m)
          PROVE  RowsOf(m) # {}
      BY <2>1 DEF InUse, Upstream, SInv, CallsHaveRows, RowsOf
    <2>2. \A m \in Models : InUse(m) => ~Pending(m) /\ fences[m] = NoFence
      BY <2>1 DEF IInv, AdmissionExcludes
    <2>3. SweepSparesCalls
      BY <2>2 DEF SweepSparesCalls, SInv, ClaimsAreMarked, IInv, TypeOK, Sweep, Idle
    <2>4. FenceQuiets
      BY <2>2 DEF FenceQuiets
    <2> QED BY <2>3, <2>4 DEF CallsAreSafe
  <1> QED BY <1>1, PlainInvariant, PTL

\* A sweep never undoes a keep that has not expired.
THEOREM KeepIsHonoured == Spec => [](Plain => KeepHonoured)
  <1>1. IInv /\ SInv => (Plain => KeepHonoured)
    <2> SUFFICES ASSUME IInv, SInv, Plain, NEW i \in Instances, NEW m \in Models, m \in Claimed(i)
                 PROVE  leases[m].manual # "future"
      BY DEF KeepHonoured, Claimed, IInv, TypeOK, Sweep, Idle
    <2>1. sweep[i].pc # "idle"
      <3>1. sweep[i] \in Sweep \cup {Idle}
        BY DEF IInv, TypeOK
      <3>2. sweep[i] # Idle
        BY DEF Claimed, Idle
      <3>3. sweep[i].pc \in SweepPC
        BY <3>1, <3>2 DEF Sweep
      <3> QED BY <3>3 DEF SweepPC
    <2>2. Pending(m)
      BY <2>1 DEF SInv, ClaimsAreMarked, Claimed
    <2> QED BY <2>2 DEF SInv, KeptAreUnmarked
  <1> QED BY <1>1, PlainInvariant, PTL

\* A live call has its row, and a call is logged once.
THEOREM CallsAreCounted == ASSUME Plain PROVE Spec => CallsAreAccounted
  <1>1. IInv /\ SInv /\ (IInv /\ SInv)' /\ [Next]_vars => [LiveCallsHaveRows' /\ LoggedOnce]_vars
    BY Plain, SafeNext DEF SInv, Plain, CallsHaveRows, LiveCallsHaveRows, Upstream
  <1> QED BY <1>1, PlainInvariant, PTL DEF Spec, CallsAreAccounted

(***************************************************************************)
(* What the tables say is true.  Each part is under the conditions it      *)
(* needs: a client that bypasses the gateway loads a model nobody records, *)
(* a store write that times out drops a claim, a cleared keep takes the    *)
(* only expiry of a lease away.                                            *)
(***************************************************************************)
\* A call belongs to an instance that has served; a recovery is told of every
\* row, and what is served after it are the rows of the server.
RowsOfServer ==
    /\ \A r \in Requests : req[r].pc # "new" => inst[req[r].inst] \in {"serving", "closing", "dead"}
    /\ \A i \in Instances :
         /\ inst[i] = "recovering" => \A r \in rows : req[r].inst \in stale
         /\ inst[i] = "binding" => rows = {}
    /\ NoStaleRows

\* A sweep that is about to look or to unload, or has seen the model gone.
PastCheck(i, m) ==
    /\ sweep[i].pc # "idle"
    /\ sweep[i].cur = m
    /\ sweep[i].pc # "check"
    /\ sweep[i].pc = "mark" => sweep[i].result \in Settled
SeesGone(i, m) == sweep[i].pc = "mark" /\ sweep[i].cur = m /\ sweep[i].result \in Settled
Loading(m) == \E c \in Commands : cmd[c].pc = "loading" /\ cmd[c].model = m

\* Whoever may load a model, a call with a row or a keep command, found its
\* lease unsettled; no sweep is about to settle it, or it would have been seen.
UsedAreUnsettled ==
    \A m \in Models :
        /\ RowsOf(m) # {} => leases[m].outcome \notin Settled
        /\ Loading(m) => leases[m].outcome \notin Settled /\ \A i \in Instances : ~PastCheck(i, m)
        /\ leases[m].outcome \in Settled => m \notin resident
        /\ \A i \in Instances : SeesGone(i, m) => m \notin resident

\* A pending lease is claimed, and none is left when the socket is bound.
PendingAreClaimed ==
    /\ PendingIsClaimed
    /\ \A i \in Instances : inst[i] = "binding" => \A m \in Models : ~Pending(m)

\* No keep runs, so what is resident has been used and expires.
ResidentsExpire == ResidentExpires /\ \A c \in Commands : cmd[c].pc = "idle"

TInv ==
    Plain =>
        /\ RowsOfServer
        /\ ServedIsLogged
        /\ "direct" \notin Ops => UsedAreUnsettled
        /\ "busy" \notin Ops => PendingAreClaimed
        /\ {"direct", "keep"} \cap Ops = {} => ResidentsExpire

\* All that a start, a recovery or an end does to a call is to kill it.
LEMMA CallsDie ==
    ASSUME TypeOK, NEW i \in Instances, ServiceMoves(i), NEW r \in Requests
    PROVE  \/ req'[r] = req[r]
           \/ /\ req[r].pc \in {"connected", "upstream", "finishing"}
              /\ req'[r].pc = "dead" /\ req'[r].inst = req[r].inst /\ req'[r].model = req[r].model
  <1>1. CASE Exit(i) \/ Crash(i)
    <2>1. CASE req[r].inst = i /\ req[r].pc \in {"connected", "upstream", "finishing"}
      <3>1. req[r] \in Req
        BY <2>1 DEF TypeOK, NoReq
      <3>2. req'[r] = [req[r] EXCEPT !.pc = "dead", !.gone = TRUE]
        BY <1>1, <2>1 DEF Exit, Crash, Dies
      <3> QED BY <2>1, <3>1, <3>2 DEF Req
    <2>2. CASE ~(req[r].inst = i /\ req[r].pc \in {"connected", "upstream", "finishing"})
      BY <1>1, <2>2 DEF Exit, Crash, Dies
    <2> QED BY <2>1, <2>2
  <1>2. CASE Restart(i) \/ Sigterm(i)
    BY <1>2 DEF Restart, Launch, ReadStale, RecoverPending, Serve, RecoverInstance, Sigterm
  <1> QED BY <1>1, <1>2 DEF ServiceMoves

\* The table of active requests and the processes.
LEMMA RowsServiceStep ==
    ASSUME Given, RowsOfServer, NEW i \in Instances, ServiceMoves(i)
    PROVE  RowsOfServer'
  <1> USE DEF Given, IInv, TypeOK, RowsOfServer, NoStaleRows
  <1>1. CASE Launch(i)
    BY <1>1 DEF Launch, Req, NoReq
  <1>2. CASE ReadStale(i)
    <2>1. /\ inst[i] = "reading" /\ inst' = [inst EXCEPT ![i] = "recovering"]
          /\ stale' = Leftover(i) /\ UNCHANGED <<rows, req>>
      BY <1>2 DEF ReadStale
    <2>2. ASSUME NEW r \in rows PROVE req[r].inst \in stale'
      <3>1. r \in Requests /\ req[r].pc # "new"
        BY <2>2 DEF RowsAdmitted
      <3> QED BY <2>1, <2>2, <3>1 DEF Leftover
    <2>3. \A j \in Instances \ {i} : inst[j] # "recovering"
      BY <2>1 DEF OneInstance, Live
    <2> QED BY <2>1, <2>2, <2>3 DEF Req, NoReq
  <1>3. CASE RecoverPending(i)
    <2>1. rows = {} /\ UNCHANGED <<rows, req, stale>> /\ inst' = [inst EXCEPT ![i] = "binding"] /\ inst[i] = "recovering"
      BY <1>3 DEF RecoverPending
    <2> QED BY <2>1 DEF Req, NoReq
  <1>4. CASE Serve(i)
    <2>1. rows = {} /\ UNCHANGED <<rows, req, stale>> /\ inst' = [inst EXCEPT ![i] = "serving"] /\ inst[i] = "binding"
      BY <1>4 DEF Serve
    <2> QED BY <2>1 DEF Req, NoReq
  <1>5. CASE \E j \in Instances : RecoverInstance(i, j)
    <2> PICK j \in Instances : RecoverInstance(i, j)
      BY <1>5
    <2>1. /\ UNCHANGED <<inst, req>> /\ stale' = stale \ {j}
          /\ rows' = rows \ {r \in rows : req[r].inst = j}
      BY DEF RecoverInstance
    <2> QED BY <2>1
  <1>6. CASE Exit(i) \/ Crash(i)
    <2>1. Dies(i)
      BY <1>6 DEF Exit, Crash
    <2>2. inst' = [inst EXCEPT ![i] = "dead"] /\ rows' = rows /\ stale' = IF lock = i THEN {} ELSE stale
      BY <2>1 DEF Dies
    <2>3. ASSUME NEW r \in Requests
          PROVE  /\ req'[r].inst = req[r].inst
                 /\ req[r].pc = "new" => req'[r].pc = "new"
      BY CallsDie
    <2>4. \A j \in Instances : inst'[j] \in {"recovering", "binding", "serving"} => j # i /\ inst'[j] = inst[j]
      BY <2>2
    <2>5. \A j \in Instances : inst'[j] = "recovering" => \A r \in rows' : req'[r].inst \in stale'
      <3> SUFFICES ASSUME NEW j \in Instances, inst'[j] = "recovering", NEW r \in rows'
                   PROVE  req'[r].inst \in stale'
        OBVIOUS
      <3>1. r \in Requests /\ req'[r].inst \in stale
        BY <2>2, <2>3, <2>4
      <3>2. Live(i)
        BY <1>6 DEF Exit, Crash, Live
      <3>3. Live(j) /\ j # i
        BY <2>4 DEF Live
      <3> QED BY <3>2, <3>3 DEF OneInstance
    <2>6. \A r \in Requests : req'[r].pc # "new" => inst'[req'[r].inst] \in {"serving", "closing", "dead"}
      <3> SUFFICES ASSUME NEW r \in Requests, req'[r].pc # "new"
                   PROVE  inst'[req'[r].inst] \in {"serving", "closing", "dead"}
        OBVIOUS
      <3>1. req[r].pc # "new" /\ req'[r].inst = req[r].inst
        <4>1. req[r] \in Req \cup {NoReq}
          OBVIOUS
        <4> QED BY <2>3
      <3>2. req[r].inst \in Instances
        BY <3>1 DEF Req, NoReq
      <3> QED BY <2>2, <3>1, <3>2
    <2>7. \A j \in Instances : /\ inst'[j] = "binding" => rows' = {}
                               /\ inst'[j] = "serving" => \A r \in rows' : req'[r].inst = j
      BY <2>2, <2>3, <2>4
    <2> QED BY <2>5, <2>6, <2>7
  <1>7. CASE Sigterm(i)
    <2>1. /\ inst[i] = "serving" /\ inst' = [inst EXCEPT ![i] = "closing"] /\ stale' = {} /\ UNCHANGED <<rows, req>>
      BY <1>7 DEF Sigterm, Terminate
    <2>2. \A j \in Instances : inst[j] # "recovering"
      BY <2>1 DEF OneInstance, Live
    <2> QED BY <2>1, <2>2 DEF Req, NoReq
  <1> QED BY <1>1, <1>2, <1>3, <1>4, <1>5, <1>6, <1>7 DEF Restart, ServiceMoves

LEMMA RowsCallStep ==
    ASSUME Given, RowsOfServer, NEW r \in Requests, Calls(r)
    PROVE  RowsOfServer'
  <1> USE DEF Given, IInv, TypeOK, RowsOfServer, NoStaleRows
  <1>1. UNCHANGED <<inst, stale>>
    BY CallFrame
  <1>2. CASE StartRequest(r)
    <2>1. /\ req[r].pc = "connected" /\ rows' = rows \cup {r} /\ req' = [req EXCEPT ![r].pc = "upstream"]
          /\ req[r] \in Req
      BY <1>2 DEF StartRequest, NoReq
    <2>2. \A q \in Requests : req'[q].inst = req[q].inst /\ (req'[q].pc # "new" => req[q].pc # "new")
      BY <2>1 DEF Req
    <2>3. inst[req[r].inst] \in {"serving", "closing"} /\ req[r].inst \in Instances
      BY <2>1 DEF CallsHaveRows, Live, Req
    <2>4. \A j \in Instances : inst[j] \in {"recovering", "binding", "serving"} => j = req[r].inst
      BY <2>3 DEF OneInstance, Live
    <2> QED BY <1>1, <2>1, <2>2, <2>3, <2>4
  <1>3. CASE \E i \in Instances, m \in Models \cup {Clef} : Connect(r, i, m)
    <2> PICK i \in Instances, m \in Models \cup {Clef} : Connect(r, i, m)
      BY <1>3
    <2>1. /\ req[r].pc = "new" /\ inst[i] = "serving" /\ rows' = rows
          /\ req' = [req EXCEPT ![r] = [pc |-> "connected", model |-> m, inst |-> i, gone |-> FALSE]]
      BY DEF Connect
    <2>2. r \notin rows
      BY <2>1 DEF RowsAdmitted
    <2> QED BY <1>1, <2>1, <2>2
  <1>4. CASE ~StartRequest(r) /\ ~ \E i \in Instances, m \in Models \cup {Clef} : Connect(r, i, m)
    <2>1. /\ rows' \subseteq rows
          /\ \A q \in Requests \ {r} : req'[q] = req[q]
          /\ req[r].pc \in {"connected", "upstream", "finishing"}
      BY <1>4 DEF Calls, Handler, RefuseRequest, UpstreamEnds, FinishRequest, Finish, UpstreamLoads, HangUp, FinishFails
    <2>2. req[r] \in Req
      BY <2>1 DEF NoReq
    <2>3. req'[r].inst = req[r].inst /\ req[r].pc # "new"
      BY <1>4, <2>2 DEF Calls, Handler, RefuseRequest, UpstreamEnds, FinishRequest, UpstreamLoads, HangUp, FinishFails, Req, ReqPC
    <2>4. \A q \in Requests : req'[q].inst = req[q].inst /\ (req'[q].pc # "new" => req[q].pc # "new")
      BY <2>1, <2>3
    <2> QED BY <1>1, <2>1, <2>4
  <1> QED BY <1>2, <1>3, <1>4

LEMMA StepRowsOfServer ==
    ASSUME Given, RowsOfServer, Next
    PROVE  RowsOfServer'
  <1>1. CASE UNCHANGED <<inst, stale, req, rows>>
    BY <1>1 DEF RowsOfServer, NoStaleRows
  <1> QED
    BY <1>1, PlainSteps, RowsServiceStep, RowsCallStep, SweepFrame, KeepFrame, FenceFrame, ClientFrame, ClockFrame, StartFrame

\* A call that comes to its end has its row, so finish_request logs it.
LEMMA StepServedIsLogged ==
    ASSUME Given, ServedIsLogged, Next
    PROVE  ServedIsLogged'
  <1> USE DEF Given, IInv, TypeOK, ServedIsLogged
  <1>1. LoggedOnce
    BY StepLoggedIsOver
  <1>2. ASSUME NEW i \in Instances, ServiceMoves(i) PROVE ServedIsLogged'
    <2>1. \A r \in Requests : req'[r].pc = "done" => req'[r] = req[r]
      BY <1>2, CallsDie
    <2> QED BY <1>1, <2>1 DEF LoggedOnce
  <1>3. ASSUME NEW r \in Requests, Calls(r) PROVE ServedIsLogged'
    <2>1. \A q \in Requests \ {r} : req'[q] = req[q]
      BY <1>3 DEF Calls, Handler, StartRequest, RefuseRequest, UpstreamEnds, FinishRequest, UpstreamLoads, HangUp, FinishFails, Connect
    <2>2. CASE FinishRequest(r)
      <3>1. HasRow(r)
        BY <2>2 DEF FinishRequest, CallsHaveRows, HasRow
      <3>2. log'[r] = "ended"
        BY <2>2, <3>1 DEF FinishRequest, Finish, Logged
      <3> QED BY <1>1, <2>1, <3>2 DEF LoggedOnce
    <2>3. CASE ~FinishRequest(r)
      <3>1. req'[r].pc = "done" => req[r].pc = "done"
        BY <1>3, <2>3 DEF Calls, Handler, StartRequest, RefuseRequest, UpstreamEnds, UpstreamLoads, HangUp, FinishFails, Connect,
           Req, NoReq
      <3> QED BY <1>1, <2>1, <3>1 DEF LoggedOnce
    <2> QED BY <2>2, <2>3
  <1>4. ASSUME UNCHANGED req PROVE ServedIsLogged'
    BY <1>1, <1>4 DEF LoggedOnce
  <1> QED
    BY <1>2, <1>3, <1>4, PlainSteps, SweepFrame, KeepFrame, FenceFrame, ClientFrame, ClockFrame, StartFrame

\* What a step makes of the outcome of a lease: claim_due makes it pending and
\* mark_result the result of the sweep; whatever else writes a lease makes it
\* active, or deferred in a recovery.
OutcomeMoves(m) ==
    \/ leases'[m].outcome \in {leases[m].outcome, "active", "deferred"}
    \/ \E i \in Instances : ClaimDue(i) /\ leases'[m].outcome = "unload_pending"
    \/ \E i \in Instances : Mark(i) /\ sweep[i].cur = m /\ leases'[m].outcome = sweep[i].result

LEMMA OutcomeSteps ==
    ASSUME Given, Next, NEW m \in Models
    PROVE  OutcomeMoves(m)
  <1> USE DEF Given, IInv, TypeOK, OutcomeMoves
  <1>1. leases[m] \in Lease
    OBVIOUS
  <1>2. /\ Renewed(leases[m]).outcome = "active" /\ Idling(leases[m]).outcome = "active"
        /\ Retried(leases[m]).outcome = "deferred"
    BY <1>1, LeaseUpdates
  <1>3. ASSUME NEW r \in Requests, Calls(r) PROVE leases'[m] \in {leases[m], Renewed(leases[m]), Idling(leases[m])}
    BY <1>3 DEF Calls, Handler, StartRequest, RefuseRequest, UpstreamEnds, FinishRequest, Finish, UpstreamLoads,
       HangUp, FinishFails, Connect
  <1>4. ASSUME NEW c \in Commands, Keeps(c) PROVE leases'[m].outcome \in {leases[m].outcome, "active"}
    <2>1. \/ leases'[m] = leases[m]
          \/ leases'[m] = [leases[m] EXCEPT !.manual = "none"]
          \/ leases'[m] = [Renewed(leases[m]) EXCEPT !.manual = "future"]
      BY <1>4 DEF Keeps, KeepEnds, ClearManualLease, KeepRejected, SetManualLease
    <2> QED BY <1>1, <2>1 DEF Lease, Renewed
  <1>5. ASSUME NEW n \in Models, NEW t \in {"idle", "manual", "retry"}, Expire(n, t)
        PROVE  leases'[m].outcome = leases[m].outcome
    <2>1. leases'[m] = leases[m] \/ leases'[m] = [leases[m] EXCEPT ![t] = "past"]
      BY <1>5 DEF Expire
    <2> QED BY <1>1, <2>1 DEF Lease
  <1>6. ASSUME NEW i \in Instances, ServiceMoves(i) PROVE leases'[m] \in {leases[m], Idling(leases[m]), Retried(leases[m])}
    BY <1>6 DEF ServiceMoves, Restart, Launch, ReadStale, RecoverPending, Serve, RecoverInstance, Exit, Crash, Dies, Sigterm
  <1>7. ASSUME NEW i \in Instances, Sweeps(i)
        PROVE  OutcomeMoves(m)
    <2>1. CASE ClaimDue(i)
      <3>1. leases'[m] = leases[m] \/ leases'[m] = [leases[m] EXCEPT !.outcome = "unload_pending"]
        BY <2>1 DEF ClaimDue
      <3> QED BY <1>1, <2>1, <3>1 DEF Lease
    <2>2. CASE Mark(i)
      <3>1. leases'[m] = leases[m] \/ ( sweep[i].cur = m /\
              \E t \in Timer : leases'[m] = [leases[m] EXCEPT !.outcome = sweep[i].result, !.retry = t] )
        BY <2>2 DEF Mark, MarkResult, Timer
      <3> QED BY <1>1, <2>2, <3>1 DEF Lease
    <2>3. CASE UNCHANGED leases
      BY <2>3
    <2> QED BY <1>7, <2>1, <2>2, <2>3 DEF Sweeps, Sweeper, CheckSafe, CheckUnsafe, ReadResidents, Unload, Readback,
                  SweepError, MarkFails, SweepTo
  <1>8. CASE UNCHANGED leases
    BY <1>8
  <1> QED
    BY <1>2, <1>3, <1>4, <1>5, <1>6, <1>7, <1>8, PlainSteps, FenceFrame, ClientFrame, StartFrame

LEMMA NothingElsePends ==
    ASSUME Given, Next, \A i \in Instances : ~ClaimDue(i)
    PROVE  \A m \in Models : Pending(m)' => Pending(m)
  <1> SUFFICES ASSUME NEW m \in Models, Pending(m)'
               PROVE  Pending(m)
    OBVIOUS
  <1>1. \A i \in Instances : Mark(i) => sweep[i].result # "unload_pending"
    BY DEF Given, IInv, TypeOK, Mark, Sweep, Idle, Retrying, Settled
  <1> QED BY <1>1, OutcomeSteps DEF OutcomeMoves, Pending

\* The models of a sweep are its claim.
LEMMA ClaimOf ==
    ASSUME TypeOK, NEW i \in Instances
    PROVE  /\ sweep[i].pc = "idle" => Claimed(i) = {}
           /\ sweep[i].pc # "idle" => Claimed(i) = sweep[i].todo \cup {sweep[i].cur} /\ sweep[i].cur \in Models
  <1>1. sweep[i] \in Sweep \cup {Idle}
    BY DEF TypeOK
  <1>2. CASE sweep[i] = Idle
    BY <1>2 DEF Claimed, Idle
  <1>3. CASE sweep[i] \in Sweep
    BY <1>3, ConstantsAssumption DEF Claimed, Sweep, SweepPC
  <1> QED BY <1>1, <1>2, <1>3

\* A claim is lost only with its process, or when a result is marked.
LEMMA ClaimsOfSweep ==
    ASSUME Given, PendingAreClaimed, "busy" \notin Ops, NEW i \in Instances, Sweeps(i), TypeOK'
    PROVE  PendingAreClaimed'
  <1> USE DEF Given, IInv, TypeOK
  <1>1. inst' = inst
    BY SweepFrame
  <1>2. CASE ClaimDue(i)
    <2> DEFINE due == {m \in Models : Due(m)}
    <2>1. PICK s \in NextModel([sweep[i] EXCEPT !.todo = due]) : sweep' = [sweep EXCEPT ![i] = s]
      BY <1>2 DEF ClaimDue
    <2>2. due # {} /\ Working(i) /\ sweep[i].pc = "idle"
      BY <1>2 DEF ClaimDue
    <2>3. s.pc = "check" /\ s.cur \in due /\ s.todo = due \ {s.cur}
      BY <2>1, <2>2 DEF NextModel, Sweep, Idle
    <2>4. due \subseteq Claimed(i)'
      <3>1. sweep'[i] = s
        BY <2>1
      <3>2. Claimed(i)' = sweep'[i].todo \cup {sweep'[i].cur}
        <4>1. sweep'[i] \in Sweep
          BY <2>3, <3>1 DEF Idle
        <4> QED BY <4>1, ConstantsAssumption DEF Claimed, Sweep
      <3> HIDE DEF due
      <3> QED BY <2>3, <3>1, <3>2
    <2>5. \A m \in Models \ due : leases'[m] = leases[m]
      BY <1>2 DEF ClaimDue
    <2>6. \A m \in Models : Pending(m) => \A j \in Instances : inst[j] \notin {"binding", "serving"}
      <3>1. \A j \in Instances : Claimed(j) = {}
        <4>1. \A j \in Instances : sweep[j].pc = "idle"
          BY <2>2 DEF ClaimsAreMarked, OneInstance, Working, Live
        <4> QED BY <4>1, ClaimOf
      <3> QED BY <3>1 DEF PendingAreClaimed, PendingIsClaimed
    <2>7. \A j \in Instances : inst[j] # "binding"
      BY <2>2 DEF OneInstance, Working, Live
    <2> HIDE DEF due
    <2> QED BY <1>1, <2>4, <2>5, <2>6, <2>7 DEF PendingAreClaimed, PendingIsClaimed, Pending
  <1>3. CASE Mark(i)
    <2>1. sweep[i] \in Sweep /\ sweep[i].pc = "mark" /\ sweep[i].cur \in Models
      BY <1>3 DEF Mark, Idle, Sweep
    <2>2. /\ Pending(sweep[i].cur) /\ Working(i)
      BY <2>1 DEF ClaimsAreMarked
    <2>3. leases'[sweep[i].cur].outcome = sweep[i].result
      <3>1. leases' = [leases EXCEPT ![sweep[i].cur].outcome = sweep[i].result,
                                     ![sweep[i].cur].retry = IF sweep[i].result \in Retrying THEN "future" ELSE "none"]
        BY <1>3, <2>2 DEF Mark, MarkResult, Pending
      <3>2. leases[sweep[i].cur] \in Lease
        BY <2>1
      <3> QED BY <2>1, <3>1, <3>2 DEF Lease
    <2>4. sweep[i].result # "unload_pending"
      BY <2>1 DEF Sweep, Retrying, Settled
    <2>5. PICK s \in NextModel(sweep[i]) : sweep' = [sweep EXCEPT ![i] = s]
      BY <1>3 DEF Mark
    <2>6. sweep'[i] = s
      BY <2>5
    <2>7. sweep[i].todo \subseteq Claimed(i)'
      <3>1. CASE sweep[i].todo = {}
        BY <3>1
      <3>2. CASE sweep[i].todo # {}
        <4>1. s.cur \in sweep[i].todo /\ s.todo = sweep[i].todo \ {s.cur} /\ s.pc = "check"
          BY <2>5, <3>2 DEF NextModel
        <4>2. s \in Sweep
          BY <2>6, <4>1 DEF Idle
        <4>3. Claimed(i)' = s.todo \cup {s.cur}
          BY <2>6, <4>2, ConstantsAssumption DEF Claimed, Sweep
        <4> QED BY <4>1, <4>3
      <3> QED BY <3>1, <3>2
    <2>8. Claimed(i) = sweep[i].todo \cup {sweep[i].cur}
      BY <2>1, ClaimOf
    <2>9. \A j \in Instances \ {i} : Claimed(j) = {}
      <3>1. \A j \in Instances \ {i} : sweep[j].pc = "idle"
        BY <2>2 DEF ClaimsAreMarked, OneInstance, Working, Live
      <3> QED BY <3>1, ClaimOf
    <2>10. \A m \in Models : Pending(m)' => Pending(m) /\ m # sweep[i].cur
      <3>1. \A m \in Models : m # sweep[i].cur => leases'[m] = leases[m]
        BY <1>3 DEF Mark, MarkResult
      <3> QED BY <2>3, <2>4, <3>1 DEF Pending
    <2> QED BY <1>1, <2>7, <2>8, <2>9, <2>10 DEF PendingAreClaimed, PendingIsClaimed
  <1>4. CASE \E pc \in SweepPC, result \in {"absent"} \cup Retrying \cup Settled : sweep[i].pc # "idle" /\ SweepTo(i, pc, result)
    <2> PICK pc \in SweepPC, result \in {"absent"} \cup Retrying \cup Settled : sweep[i].pc # "idle" /\ SweepTo(i, pc, result)
      BY <1>4
    <2>1. /\ sweep' = [sweep EXCEPT ![i].pc = pc, ![i].result = result] /\ UNCHANGED <<leases, inst>>
          /\ sweep[i] \in Sweep
      BY DEF SweepTo, Idle
    <2>2. sweep'[i].cur = sweep[i].cur /\ sweep'[i].todo = sweep[i].todo /\ \A j \in Instances \ {i} : sweep'[j] = sweep[j]
      BY <2>1 DEF Sweep
    <2>3. \A j \in Instances : Claimed(j)' = Claimed(j)
      BY <2>2 DEF Claimed
    <2> QED BY <2>1, <2>3 DEF PendingAreClaimed, PendingIsClaimed, Pending
  <1> QED
    BY <1>2, <1>3, <1>4 DEF Sweeps, Sweeper, CheckSafe, CheckUnsafe, ReadResidents, Unload, Readback, SweepError,
       SweepPC, Retrying, Settled, MarkFails, StoreFails

\* A process that is gone leaves no other that serves; one that binds has
\* put every pending lease right.
LEMMA ClaimsOfService ==
    ASSUME Given, PendingAreClaimed, Next, NEW i \in Instances, ServiceMoves(i)
    PROVE  PendingAreClaimed'
  <1> USE DEF Given, IInv, TypeOK
  <1>0. \A m \in Models : Pending(m)' => Pending(m)
    <2>1. \A j \in Instances : ~ClaimDue(j)
      <3>1. UNCHANGED sweep \/ \E j \in Instances : sweep' = [sweep EXCEPT ![j] = Idle]
        BY DEF ServiceMoves, Restart, Launch, ReadStale, RecoverPending, Serve, RecoverInstance, Exit, Crash, Dies, Sigterm
      <3> SUFFICES ASSUME NEW j \in Instances, ClaimDue(j) PROVE FALSE
        OBVIOUS
      <3>2. sweep[j].pc = "idle" /\ sweep'[j].pc = "check"
        BY DEF ClaimDue, NextModel, Idle, Sweep
      <3> QED BY <3>1, <3>2 DEF Idle
    <2> QED BY <2>1, NothingElsePends
  <1>1. CASE Exit(i) \/ Crash(i)
    <2>1. Live(i) /\ inst' = [inst EXCEPT ![i] = "dead"]
      BY <1>1 DEF Exit, Crash, Dies, Live
    <2>2. \A j \in Instances : inst'[j] \notin {"binding", "serving"}
      BY <2>1 DEF OneInstance, Live
    <2> QED BY <2>2 DEF PendingAreClaimed, PendingIsClaimed
  <1>2. CASE Launch(i) \/ ReadStale(i)
    <2>1. inst' = [inst EXCEPT ![i] = "reading"] \/ inst' = [inst EXCEPT ![i] = "recovering"]
      BY <1>2 DEF Launch, ReadStale
    <2>2. \A j \in Instances \ {i} : inst[j] \notin {"binding", "serving"}
      BY <1>2 DEF Launch, ReadStale, OneInstance, Live, Plain
    <2> QED BY <2>1, <2>2 DEF PendingAreClaimed, PendingIsClaimed
  <1>3. CASE RecoverPending(i)
    <2>1. \A m \in Models : ~Pending(m)'
      <3>1. ASSUME NEW m \in Models PROVE leases'[m].outcome # "unload_pending"
        <4>1. leases'[m] = IF Pending(m) THEN Retried(leases[m]) ELSE leases[m]
          BY <1>3 DEF RecoverPending
        <4>2. Retried(leases[m]).outcome = "deferred"
          BY LeaseUpdates
        <4> QED BY <4>1, <4>2 DEF Pending
      <3> QED BY <3>1 DEF Pending
    <2> QED BY <2>1 DEF PendingAreClaimed, PendingIsClaimed
  <1>4. CASE \E j \in Instances : RecoverInstance(i, j)
    <2>1. UNCHANGED <<inst, sweep>>
      BY <1>4 DEF RecoverInstance
    <2> QED BY <1>0, <2>1 DEF PendingAreClaimed, PendingIsClaimed, Claimed
  <1>5. CASE Serve(i)
    <2>1. UNCHANGED leases /\ \A m \in Models : ~Pending(m)
      BY <1>5 DEF Serve, PendingAreClaimed
    <2> QED BY <2>1 DEF PendingAreClaimed, PendingIsClaimed, Pending
  <1>6. CASE Sigterm(i)
    <2>1. UNCHANGED <<leases, sweep>> /\ inst' = [inst EXCEPT ![i] = "closing"]
      BY <1>6 DEF Sigterm, Terminate
    <2> QED BY <2>1 DEF PendingAreClaimed, PendingIsClaimed, Claimed, Pending
  <1> QED BY <1>1, <1>2, <1>3, <1>4, <1>5, <1>6 DEF Restart, ServiceMoves

LEMMA StepPendingAreClaimed ==
    ASSUME Given, PendingAreClaimed, "busy" \notin Ops, Next
    PROVE  PendingAreClaimed'
  <1>0. TypeOK'
    BY TypeNext DEF Given, IInv
  <1>1. ASSUME UNCHANGED <<inst, sweep>>
        PROVE  PendingAreClaimed'
    <2>1. \A i \in Instances : ~ClaimDue(i)
      <3> SUFFICES ASSUME NEW i \in Instances, ClaimDue(i) PROVE FALSE
        OBVIOUS
      <3>1. sweep[i].pc = "idle" /\ sweep'[i].pc = "check"
        BY DEF ClaimDue, NextModel, Idle, Sweep, Given, IInv, TypeOK
      <3> QED BY <1>1, <3>1
    <2>2. \A m \in Models : Pending(m)' => Pending(m)
      BY <2>1, NothingElsePends
    <2> QED BY <1>1, <2>2 DEF PendingAreClaimed, PendingIsClaimed, Claimed
  <1> QED
    BY <1>0, <1>1, PlainSteps, ClaimsOfSweep, ClaimsOfService, CallFrame, KeepFrame, FenceFrame, ClientFrame, ClockFrame, StartFrame

\* Without direct clients a model is loaded for a call that has its row or by a
\* keep command, in a step that touches neither the leases nor the sweeps.
LEMMA LoadSteps ==
    ASSUME Given, Next, "direct" \notin Ops, NEW m \in Models, m \notin resident, m \in resident'
    PROVE  (RowsOf(m) # {} \/ Loading(m)) /\ UNCHANGED <<leases, sweep>>
  <1>1. ASSUME NEW r \in Requests, Calls(r)
        PROVE  RowsOf(m) # {} /\ UNCHANGED <<leases, sweep>>
    <2>1. UpstreamLoads(r) /\ req[r].model = m
      BY <1>1 DEF Calls, Handler, StartRequest, RefuseRequest, UpstreamEnds, FinishRequest, UpstreamLoads, HangUp, FinishFails, Connect
    <2> QED BY <2>1 DEF UpstreamLoads, RowsOf, Given, CallsHaveRows
  <1>2. ASSUME NEW c \in Commands, Keeps(c)
        PROVE  Loading(m) /\ UNCHANGED <<leases, sweep>>
    <2>1. KeepEnds(c)
      BY <1>2 DEF Keeps, ClearManualLease, KeepRejected, SetManualLease
    <2> QED BY <2>1 DEF KeepEnds, Loading
  <1>3. ASSUME NEW i \in Instances, ServiceMoves(i) PROVE FALSE
    BY <1>3 DEF ServiceMoves, Restart, Launch, ReadStale, RecoverPending, Serve, RecoverInstance, Exit, Crash, Dies, Sigterm
  <1>4. ASSUME NEW i \in Instances, Sweeps(i) PROVE FALSE
    BY <1>4 DEF Sweeps, Sweeper, ClaimDue, CheckSafe, CheckUnsafe, ReadResidents, Unload, Readback, Mark, SweepError, MarkFails, SweepTo
  <1>5. ASSUME NEW f \in Fences, Fencing(f) PROVE FALSE
    BY <1>5 DEF Fencing, ProbePasses, ParkDies, ReleaseFence, AcquireFence, ParkUnload
  <1>6. ASSUME NEW n \in Models, Clients(n) \/ \E t \in {"idle", "manual", "retry"} : Expire(n, t) PROVE FALSE
    BY <1>6 DEF Clients, DirectBegins, DirectEnds, OllamaEvicts, Expire
  <1>7. ASSUME StartService PROVE FALSE
    BY <1>7 DEF StartService
  <1> QED BY <1>1, <1>2, <1>3, <1>4, <1>5, <1>6, <1>7, PlainSteps

\* A sweep goes past the check of a model only while no keep loads one.
LEMMA CheckSteps ==
    ASSUME Given, Next, NEW i \in Instances, NEW m \in Models
    PROVE  /\ PastCheck(i, m)' => PastCheck(i, m) \/ ~Loading(m)
           /\ SeesGone(i, m)' => SeesGone(i, m) \/ (m \notin resident /\ resident' = resident)
           /\ ~UNCHANGED sweep => UNCHANGED cmd
  <1> USE DEF Given, IInv, TypeOK, PastCheck, SeesGone
  <1>1. CASE UNCHANGED sweep
    BY <1>1
  <1>2. ASSUME NEW j \in Instances, Sweeps(j)
        PROVE  /\ PastCheck(i, m)' => PastCheck(i, m) \/ ~Loading(m)
               /\ SeesGone(i, m)' => SeesGone(i, m) \/ (m \notin resident /\ resident' = resident)
    <2>1. CASE ClaimDue(j) \/ Mark(j) \/ MarkFails(j)
      <3>1. PICK s : sweep' = [sweep EXCEPT ![j] = s] /\ s.pc \in {"idle", "check"}
        BY <2>1 DEF ClaimDue, Mark, MarkFails, NextModel, Idle
      <3>2. sweep'[i] = sweep[i] \/ sweep'[i].pc \in {"idle", "check"}
        BY <3>1
      <3> QED BY <3>2
    <2>2. ASSUME NEW pc \in SweepPC, NEW result \in {"absent"} \cup Retrying \cup Settled, sweep[j].pc # "idle", SweepTo(j, pc, result)
          PROVE  /\ sweep'[j].pc = pc /\ sweep'[j].result = result /\ sweep'[j].cur = sweep[j].cur
                 /\ \A k \in Instances \ {j} : sweep'[k] = sweep[k]
      <3>1. sweep' = [sweep EXCEPT ![j].pc = pc, ![j].result = result] /\ sweep[j] \in Sweep
        BY <2>2 DEF SweepTo, Idle
      <3> QED BY <3>1 DEF Sweep
    <2>3. CASE CheckSafe(j)
      <3>1. ~Loading(m) /\ sweep'[j].pc = "ps" /\ \A k \in Instances \ {j} : sweep'[k] = sweep[k]
        BY <2>2, <2>3 DEF CheckSafe, Outsiders, Loading, SweepPC
      <3> QED BY <3>1
    <2>4. CASE CheckUnsafe(j)
      <3>1. sweep'[j].pc = "mark" /\ sweep'[j].result = "deferred" /\ \A k \in Instances \ {j} : sweep'[k] = sweep[k]
        BY <2>2, <2>4 DEF CheckUnsafe, SweepPC, Retrying
      <3> QED BY <3>1 DEF Settled
    <2>5. CASE ReadResidents(j) \/ Unload(j) \/ Readback(j)
      <3>1. /\ sweep[j].pc \in {"ps", "unload", "readback"} /\ sweep'[j].cur = sweep[j].cur
            /\ \A k \in Instances \ {j} : sweep'[k] = sweep[k]
            /\ \/ sweep'[j].pc # "mark"
               \/ sweep'[j].result \notin Settled
               \/ resident' = resident /\ sweep[j].cur \notin resident
        BY <2>2, <2>5 DEF ReadResidents, Unload, Readback, SweepPC, Retrying, Settled
      <3> QED BY <3>1
    <2>6. CASE SweepError(j)
      <3>1. /\ sweep[j].pc \in {"ps", "unload", "readback"} /\ sweep'[j].cur = sweep[j].cur /\ sweep'[j].result \notin Settled
            /\ \A k \in Instances \ {j} : sweep'[k] = sweep[k]
        BY <2>2, <2>6 DEF SweepError, SweepPC, Retrying, Settled
      <3> QED BY <3>1
    <2> QED BY <1>2, <2>1, <2>3, <2>4, <2>5, <2>6 DEF Sweeps, Sweeper
  <1>3. ASSUME NEW j \in Instances, ServiceMoves(j)
        PROVE  sweep'[i] = sweep[i] \/ sweep'[i].pc = "idle"
    <2>1. sweep' = sweep \/ sweep' = [sweep EXCEPT ![j] = Idle]
      BY <1>3 DEF ServiceMoves, Restart, Launch, ReadStale, RecoverPending, Serve, RecoverInstance, Exit, Crash, Dies, Sigterm
    <2>2. Idle.pc = "idle"
      BY DEF Idle
    <2> QED BY <2>1, <2>2
  <1>4. CASE ~UNCHANGED sweep
    <2>1. \/ \E j \in Instances : ServiceMoves(j)
          \/ \E j \in Instances : Sweeps(j)
      BY <1>4, PlainSteps, CallFrame, KeepFrame, FenceFrame, ClientFrame, ClockFrame, StartFrame
    <2> QED BY <1>2, <1>3, <2>1, ServiceFrame, SweepFrame
  <1> QED BY <1>1, <1>4

\* start_request is what gives a model a row, set_manual_lease what lets a
\* keep load it; both make the lease active.
LEMMA UseSteps ==
    ASSUME Given, Next, NEW m \in Models
    PROVE  /\ RowsOf(m)' # {} => RowsOf(m) # {} \/ leases'[m].outcome = "active"
           /\ Loading(m)' => Loading(m) \/ (leases'[m].outcome = "active" /\ ~Pending(m) /\ sweep' = sweep)
  <1> USE DEF Given, IInv, TypeOK
  <1>1. RowsOf(m)' # {} => RowsOf(m) # {} \/ leases'[m].outcome = "active"
    <2> SUFFICES ASSUME NEW q \in rows', req'[q].model = m, RowsOf(m) = {}
                 PROVE  leases'[m].outcome = "active"
      BY DEF RowsOf
    <2>1. q \in Requests
      BY TypeNext
    <2>2. ASSUME NEW r \in Requests, Calls(r)
          PROVE  leases'[m].outcome = "active"
      <3>1. CASE StartRequest(r)
        <4>1. req'[r].model = req[r].model /\ rows' = rows \cup {r} /\ \A k \in Requests \ {r} : req'[k] = req[k]
          BY <3>1 DEF StartRequest, Req, NoReq
        <4>2. q = r /\ req[r].model = m
          BY <2>1, <4>1 DEF RowsOf
        <4>3. leases'[m] = Renewed(leases[m])
          BY <3>1, <4>2, ConstantsAssumption DEF StartRequest
        <4>4. Renewed(leases[m]).outcome = "active"
          BY LeaseUpdates
        <4> QED BY <4>3, <4>4
      <3>2. CASE ~StartRequest(r)
        <4>1. rows' \subseteq rows /\ \A k \in rows : req'[k].model = req[k].model
          <5>1. CASE \E i \in Instances, n \in Models \cup {Clef} : Connect(r, i, n)
            BY <5>1 DEF Connect, RowsAdmitted
          <5>2. CASE ~ \E i \in Instances, n \in Models \cup {Clef} : Connect(r, i, n)
            <6>1. req[r] \in Req /\ \A k \in Requests \ {r} : req'[k] = req[k]
              BY <2>2, <3>2, <5>2 DEF Calls, Handler, RefuseRequest, UpstreamEnds, FinishRequest, UpstreamLoads, HangUp, FinishFails, NoReq
            <6>2. req'[r].model = req[r].model
              BY <2>2, <3>2, <5>2, <6>1 DEF Calls, Handler, RefuseRequest, UpstreamEnds, FinishRequest, UpstreamLoads, HangUp, FinishFails, Req
            <6>3. rows' \subseteq rows
              BY <2>2, <3>2, <5>2 DEF Calls, Handler, RefuseRequest, UpstreamEnds, FinishRequest, Finish, UpstreamLoads, HangUp, FinishFails
            <6> QED BY <6>1, <6>2, <6>3
          <5> QED BY <5>1, <5>2
        <4> QED BY <4>1 DEF RowsOf
      <3> QED BY <3>1, <3>2
    <2>3. ASSUME NEW i \in Instances, ServiceMoves(i) PROVE FALSE
      <3>1. rows' \subseteq rows
        BY <2>3 DEF ServiceMoves, Restart, Launch, ReadStale, RecoverPending, Serve, RecoverInstance, Exit, Crash, Dies, Sigterm
      <3>2. req'[q].model = req[q].model
        BY <2>1, <2>3, CallsDie
      <3> QED BY <3>1, <3>2 DEF RowsOf
    <2>4. ASSUME UNCHANGED <<req, rows>> PROVE FALSE
      BY <2>4 DEF RowsOf
    <2> QED BY <2>2, <2>3, <2>4, PlainSteps, SweepFrame, KeepFrame, FenceFrame, ClientFrame, ClockFrame, StartFrame
  <1>2. Loading(m)' => Loading(m) \/ (leases'[m].outcome = "active" /\ ~Pending(m) /\ sweep' = sweep)
    <2>1. ASSUME NEW c \in Commands, Keeps(c), Loading(m)'
          PROVE  Loading(m) \/ (leases'[m].outcome = "active" /\ ~Pending(m) /\ sweep' = sweep)
      <3>1. CASE \E n \in Models : SetManualLease(c, n)
        <4> PICK n \in Models : SetManualLease(c, n)
          BY <3>1
        <4>1. cmd' = [cmd EXCEPT ![c] = [pc |-> "loading", model |-> n]]
          BY DEF SetManualLease
        <4>2. CASE n = m
          <5>1. leases'[m] = [Renewed(leases[m]) EXCEPT !.manual = "future"] /\ ~Pending(m) /\ sweep' = sweep
            BY <4>2 DEF SetManualLease, Keepable
          <5>2. leases'[m].outcome = "active"
            BY <5>1 DEF Renewed, Lease
          <5> QED BY <5>1, <5>2
        <4>3. CASE n # m
          BY <2>1, <4>1, <4>3 DEF Loading
        <4> QED BY <4>2, <4>3
      <3>2. CASE ~ \E n \in Models : SetManualLease(c, n)
        <4>1. \/ cmd' = [cmd EXCEPT ![c] = NoCmd]
              \/ cmd' = [cmd EXCEPT ![c].pc = "clearing"] /\ cmd[c].pc = "loading"
          BY <2>1, <3>2 DEF Keeps, KeepEnds, ClearManualLease, KeepRejected, NoStops
        <4>2. \A d \in Commands : cmd'[d].pc = "loading" => cmd'[d] = cmd[d]
          BY <4>1 DEF NoCmd, Cmd
        <4> QED BY <2>1, <4>2 DEF Loading
      <3> QED BY <3>1, <3>2
    <2>2. ASSUME UNCHANGED cmd, Loading(m)' PROVE Loading(m)
      BY <2>2 DEF Loading
    <2> QED BY <2>1, <2>2, PlainSteps, ServiceFrame, SweepFrame, CallFrame, FenceFrame, ClientFrame, ClockFrame, StartFrame
  <1> QED BY <1>1, <1>2

LEMMA StepUsedAreUnsettled ==
    ASSUME Given, UsedAreUnsettled, "direct" \notin Ops, Next
    PROVE  UsedAreUnsettled'
  <1> USE DEF Given, IInv, TypeOK
  <1> SUFFICES ASSUME NEW m \in Models
               PROVE  /\ RowsOf(m)' # {} => leases'[m].outcome \notin Settled
                      /\ Loading(m)' => leases'[m].outcome \notin Settled /\ \A i \in Instances : ~PastCheck(i, m)'
                      /\ leases'[m].outcome \in Settled => m \notin resident'
                      /\ \A i \in Instances : SeesGone(i, m)' => m \notin resident'
    BY DEF UsedAreUnsettled
  <1>1. /\ RowsOf(m) # {} => leases[m].outcome \notin Settled
        /\ Loading(m) => leases[m].outcome \notin Settled /\ \A i \in Instances : ~PastCheck(i, m)
        /\ leases[m].outcome \in Settled => m \notin resident
        /\ \A i \in Instances : SeesGone(i, m) => m \notin resident
    BY DEF UsedAreUnsettled
  <1>2. \A i \in Instances : sweep[i].pc # "idle" /\ sweep[i].cur = m => Pending(m)
    BY DEF ClaimsAreMarked
  <1>3. RowsOf(m) # {} => ~Pending(m)
    BY DEF AdmissionExcludes
  <1>4. /\ "active" \notin Settled /\ "deferred" \notin Settled /\ "unload_pending" \notin Settled
    BY DEF Settled
  <1>5. leases'[m].outcome \in Settled =>
          \/ leases[m].outcome \in Settled
          \/ \E i \in Instances : SeesGone(i, m) /\ UNCHANGED <<resident, rows, req, cmd>>
    <2>1. OutcomeMoves(m)
      BY OutcomeSteps
    <2> QED BY <1>4, <2>1 DEF OutcomeMoves, SeesGone, Mark
  <1>6. \A i \in Instances : SeesGone(i, m) => Pending(m) /\ PastCheck(i, m)
    BY <1>2 DEF SeesGone, PastCheck
  <1>7. m \in resident' => m \in resident \/ ((RowsOf(m) # {} \/ Loading(m)) /\ UNCHANGED <<leases, sweep>>)
    BY LoadSteps
  <1>8. RowsOf(m)' # {} => leases'[m].outcome \notin Settled
    <2>1. ASSUME NEW i \in Instances, UNCHANGED <<rows, req>> PROVE RowsOf(m)' = RowsOf(m)
      BY <2>1 DEF RowsOf
    <2> QED BY <1>1, <1>3, <1>4, <1>5, <1>6, <2>1, UseSteps
  <1>9. Loading(m)' => leases'[m].outcome \notin Settled /\ \A i \in Instances : ~PastCheck(i, m)'
    <2> SUFFICES ASSUME Loading(m)'
                 PROVE  leases'[m].outcome \notin Settled /\ \A i \in Instances : ~PastCheck(i, m)'
      OBVIOUS
    <2>1. CASE Loading(m)
      BY <1>1, <1>5, <1>6, <2>1, CheckSteps
    <2>2. CASE ~Loading(m)
      <3>1. leases'[m].outcome = "active" /\ ~Pending(m) /\ sweep' = sweep
        BY <2>2, UseSteps
      <3> QED BY <1>2, <1>4, <3>1 DEF PastCheck
    <2> QED BY <2>1, <2>2
  <1>10. leases'[m].outcome \in Settled => m \notin resident'
    BY <1>1, <1>5, <1>7
  <1>11. \A i \in Instances : SeesGone(i, m)' => m \notin resident'
    <2> SUFFICES ASSUME NEW i \in Instances, SeesGone(i, m)', m \in resident' PROVE FALSE
      OBVIOUS
    <2>1. SeesGone(i, m) /\ m \notin resident
      BY <1>1, CheckSteps
    <2> QED BY <1>1, <1>3, <1>6, <1>7, <2>1
  <1> QED BY <1>8, <1>9, <1>10, <1>11

\* A model that loses its last row starts to idle, and no step takes the
\* expiries of a lease away but the end of a keep.
LEMMA StepResidentsExpire ==
    ASSUME Given, ResidentsExpire, {"direct", "keep"} \cap Ops = {}, Next
    PROVE  ResidentsExpire'
  <1> USE DEF Given, IInv, TypeOK
  <1>1. \A c \in Commands : ~Keeps(c)
    BY DEF ResidentsExpire, Keeps, KeepEnds, ClearManualLease, KeepRejected, SetManualLease
  <1>2. cmd' = cmd
    BY <1>1, PlainSteps, ServiceFrame, SweepFrame, CallFrame, FenceFrame, ClientFrame, ClockFrame, StartFrame
  <1> DEFINE Expires(l) == {l.idle, l.manual} # {"none"}
  <1> SUFFICES ASSUME NEW m \in Models, m \in resident', RowsOf(m)' = {}
               PROVE  Expires(leases'[m])
    BY <1>2, TypeNext DEF ResidentsExpire, ResidentExpires
  <1>3. leases[m] \in Lease /\ (m \in resident /\ RowsOf(m) = {} => Expires(leases[m]))
    BY DEF ResidentsExpire, ResidentExpires
  <1>4. /\ Expires(Idling(leases[m]))
        /\ Expires(leases[m]) => Expires(Renewed(leases[m])) /\ Expires(Retried(leases[m]))
    <2>1. /\ Idling(leases[m]).idle = "future"
          /\ Renewed(leases[m]).idle = leases[m].idle /\ Renewed(leases[m]).manual = leases[m].manual
          /\ Retried(leases[m]).idle = leases[m].idle /\ Retried(leases[m]).manual = leases[m].manual
      BY <1>3 DEF Idling, Renewed, Retried, Lease
    <2> QED BY <2>1
  <1>5. ASSUME NEW r \in Requests, Calls(r) PROVE Expires(leases'[m])
    <2>1. CASE StartRequest(r)
      <3>1. req'[r].model = req[r].model /\ rows' = rows \cup {r} /\ \A k \in Requests \ {r} : req'[k] = req[k]
        BY <2>1 DEF StartRequest, Req, NoReq
      <3>2. req[r].model # m /\ RowsOf(m) = {}
        BY <3>1 DEF RowsOf
      <3>3. leases'[m] = leases[m] /\ resident' = resident
        BY <2>1, <3>2 DEF StartRequest
      <3> QED BY <1>3, <3>2, <3>3
    <2>2. CASE FinishRequest(r)
      <3>1. /\ req'[r].model = req[r].model /\ rows' = rows \ {r} /\ \A k \in Requests \ {r} : req'[k] = req[k]
            /\ resident' = resident
        BY <2>2 DEF FinishRequest, Finish, HasRow, Req, NoReq
      <3>2. CASE RowsOf(m) = {}
        <4>1. leases'[m] = leases[m] \/ leases'[m] = Idling(leases[m])
          BY <2>2 DEF FinishRequest, Finish
        <4> QED BY <1>3, <1>4, <3>1, <3>2, <4>1
      <3>3. CASE RowsOf(m) # {}
        <4>1. RowsOf(m) = {r} /\ req[r].model = m /\ r \in rows
          BY <3>1, <3>3 DEF RowsOf
        <4>2. leases'[m] = Idling(leases[m])
          BY <2>2, <4>1 DEF FinishRequest, Finish, HasRow
        <4> QED BY <1>4, <4>2
      <3> QED BY <3>2, <3>3
    <2>3. CASE ~StartRequest(r) /\ ~FinishRequest(r)
      <3>1. UNCHANGED <<leases, rows>>
        BY <1>5, <2>3 DEF Calls, Handler, RefuseRequest, UpstreamEnds, UpstreamLoads, HangUp, FinishFails, Connect
      <3>2. \A k \in rows : req'[k].model = req[k].model
        <4>1. CASE \E i \in Instances, n \in Models \cup {Clef} : Connect(r, i, n)
          BY <4>1 DEF Connect, RowsAdmitted
        <4>2. CASE ~ \E i \in Instances, n \in Models \cup {Clef} : Connect(r, i, n)
          BY <1>5, <2>3, <4>2 DEF Calls, Handler, RefuseRequest, UpstreamEnds, UpstreamLoads, HangUp, FinishFails, NoReq, Req
        <4> QED BY <4>1, <4>2
      <3>3. RowsOf(m) = {}
        BY <3>1, <3>2 DEF RowsOf
      <3>4. m \in resident
        <4>1. m \notin resident => RowsOf(m) # {} \/ Loading(m)
          BY LoadSteps
        <4> QED BY <3>3, <4>1 DEF Loading, ResidentsExpire
      <3> QED BY <1>3, <3>1, <3>3, <3>4
    <2> QED BY <2>1, <2>2, <2>3
  <1>6. ASSUME NEW i \in Instances, ServiceMoves(i) PROVE Expires(leases'[m])
    <2>1. resident' = resident
      BY <1>6 DEF ServiceMoves, Restart, Launch, ReadStale, RecoverPending, Serve, RecoverInstance, Exit, Crash, Dies, Sigterm
    <2>2. \A r \in rows : req'[r].model = req[r].model
      BY <1>6, CallsDie
    <2>3. CASE \E j \in Instances : RecoverInstance(i, j)
      <3> PICK j \in Instances : RecoverInstance(i, j)
        BY <2>3
      <3> DEFINE old == {r \in rows : req[r].inst = j}
      <3>1. /\ rows' = rows \ old
            /\ leases'[m] = IF RowsOf(m) # {} /\ RowsOf(m) \subseteq old THEN Idling(leases[m]) ELSE leases[m]
        BY DEF RecoverInstance
      <3> HIDE DEF old
      <3>2. RowsOf(m) \subseteq old
        BY <2>2, <3>1 DEF RowsOf
      <3> QED BY <1>3, <1>4, <2>1, <3>1, <3>2
    <2>4. CASE ~ \E j \in Instances : RecoverInstance(i, j)
      <3>1. rows' = rows /\ leases'[m] \in {leases[m], Retried(leases[m])}
        BY <1>6, <2>4 DEF ServiceMoves, Restart, Launch, ReadStale, RecoverPending, Serve, Exit, Crash, Dies, Sigterm
      <3>2. RowsOf(m) = {}
        BY <2>2, <3>1 DEF RowsOf
      <3> QED BY <1>3, <1>4, <2>1, <3>1, <3>2
    <2> QED BY <2>3, <2>4
  <1>7. ASSUME UNCHANGED <<req, rows>>, resident' \subseteq resident PROVE Expires(leases[m])
    <2>1. RowsOf(m)' = RowsOf(m)
      BY <1>7 DEF RowsOf
    <2> QED BY <1>3, <1>7, <2>1
  <1>8. ASSUME NEW i \in Instances, Sweeps(i) PROVE Expires(leases'[m])
    <2>1. resident' \subseteq resident
      BY <1>8 DEF Sweeps, Sweeper, ClaimDue, CheckSafe, CheckUnsafe, ReadResidents, Unload, Readback, Mark, SweepError, MarkFails, SweepTo
    <2>2. leases'[m].idle = leases[m].idle /\ leases'[m].manual = leases[m].manual
      <3>1. CASE ClaimDue(i)
        <4>1. leases'[m] = leases[m] \/ leases'[m] = [leases[m] EXCEPT !.outcome = "unload_pending"]
          BY <3>1 DEF ClaimDue
        <4> QED BY <1>3, <4>1 DEF Lease
      <3>2. CASE Mark(i)
        <4>1. leases'[m] = leases[m] \/ \E t \in Timer : leases'[m] = [leases[m] EXCEPT !.outcome = sweep[i].result, !.retry = t]
          BY <3>2 DEF Mark, MarkResult, Timer
        <4> QED BY <1>3, <4>1 DEF Lease
      <3>3. CASE UNCHANGED leases
        BY <3>3
      <3> QED BY <1>8, <3>1, <3>2, <3>3 DEF Sweeps, Sweeper, CheckSafe, CheckUnsafe, ReadResidents, Unload, Readback,
                    SweepError, MarkFails, SweepTo
    <2>3. Expires(leases[m])
      BY <1>7, <1>8, <2>1, SweepFrame
    <2> QED BY <2>2, <2>3
  <1>9. ASSUME NEW n \in Models, NEW t \in {"idle", "manual", "retry"}, Expire(n, t) PROVE Expires(leases'[m])
    <2>1. resident' = resident /\ (leases'[m] = leases[m] \/ leases'[m] = [leases[m] EXCEPT ![t] = "past"])
      BY <1>9 DEF Expire
    <2>2. Expires(leases[m])
      BY <1>7, <1>9, <2>1, ClockFrame
    <2> QED BY <1>3, <2>1, <2>2 DEF Lease
  <1>10. ASSUME UNCHANGED <<leases, req, rows>>, resident' \subseteq resident PROVE Expires(leases'[m])
    BY <1>7, <1>10
  <1>11. ASSUME NEW f \in Fences, Fencing(f) PROVE resident' \subseteq resident
    BY <1>11 DEF Fencing, ProbePasses, ParkDies, ReleaseFence, AcquireFence, ParkUnload
  <1>12. ASSUME NEW n \in Models, Clients(n) PROVE resident' \subseteq resident
    BY <1>12 DEF Clients, DirectBegins, DirectEnds, OllamaEvicts
  <1>13. ASSUME StartService PROVE resident' \subseteq resident
    BY <1>13 DEF StartService
  <1> HIDE DEF Expires
  <1> QED
    BY <1>1, <1>5, <1>6, <1>8, <1>9, <1>10, <1>11, <1>12, <1>13, PlainSteps, FenceFrame, ClientFrame, StartFrame

LEMMA TablesInit == Init => TInv
  BY DEF Init, TInv, RowsOfServer, NoStaleRows, NoReq, ServedIsLogged, UsedAreUnsettled, RowsOf, Loading, NoCmd, NoLease, Settled,
     PastCheck, SeesGone, Idle, PendingAreClaimed, PendingIsClaimed, Pending, ResidentsExpire, ResidentExpires

LEMMA TablesNext == IInv /\ SInv /\ TInv /\ [Next]_vars => TInv'
  <1> SUFFICES ASSUME IInv, SInv, TInv, [Next]_vars, Plain
               PROVE  /\ RowsOfServer'
                      /\ ServedIsLogged'
                      /\ "direct" \notin Ops => UsedAreUnsettled'
                      /\ "busy" \notin Ops => PendingAreClaimed'
                      /\ {"direct", "keep"} \cap Ops = {} => ResidentsExpire'
    BY DEF TInv, Plain
  <1>1. Given
    BY DEF Given, SInv
  <1>2. CASE Next
    BY <1>1, <1>2, StepRowsOfServer, StepServedIsLogged, StepUsedAreUnsettled, StepPendingAreClaimed, StepResidentsExpire DEF TInv
  <1>3. CASE UNCHANGED vars
    <2> USE <1>3 DEF vars
    <2>1. RowsOfServer' /\ ServedIsLogged'
      BY DEF TInv, RowsOfServer, NoStaleRows, ServedIsLogged
    <2>2. UsedAreUnsettled => UsedAreUnsettled'
      BY DEF UsedAreUnsettled, RowsOf, Loading, PastCheck, SeesGone
    <2>3. PendingAreClaimed => PendingAreClaimed'
      BY DEF PendingAreClaimed, PendingIsClaimed, Pending, Claimed
    <2>4. ResidentsExpire => ResidentsExpire'
      BY DEF ResidentsExpire, ResidentExpires, RowsOf
    <2> QED BY <2>1, <2>2, <2>3, <2>4 DEF TInv
  <1> QED BY <1>2, <1>3

\* Each table agrees with what it stands for, under the conditions TInv states
\* for it: the rows with the serving process, the settled outcomes with Ollama,
\* the pending ones with the sweeps, the expiries with the resident models.
THEOREM TablesInvariant == Spec => [](IInv /\ SInv /\ TInv)
  BY PlainInvariant, TablesInit, TablesNext, PTL DEF Spec

\* In a plain service without clients that bypass it, keeps and store timeouts
\* all that the tables say is true, across any crashes and restarts: no row of
\* another process is served, an outcome that says "unloaded" is true, a
\* pending unload is somebody's, an idle model expires, a served call is logged.
THEOREM TablesStayTrue == Spec => [](Plain /\ {"direct", "keep", "busy"} \cap Ops = {} => TablesAreTrue)
  <1>1. IInv /\ SInv /\ TInv => (Plain /\ {"direct", "keep", "busy"} \cap Ops = {} => TablesAreTrue)
    <2> SUFFICES ASSUME TInv, Plain, {"direct", "keep", "busy"} \cap Ops = {}
                 PROVE  TablesAreTrue
      OBVIOUS
    <2>1. "direct" \notin Ops /\ "busy" \notin Ops /\ {"direct", "keep"} \cap Ops = {}
      OBVIOUS
    <2>2. RowsOfServer /\ ServedIsLogged /\ UsedAreUnsettled /\ PendingAreClaimed /\ ResidentsExpire
      BY <2>1 DEF TInv
    <2> QED BY <2>2 DEF TablesAreTrue, RowsOfServer, UsedAreUnsettled, SettledIsTrue, PendingAreClaimed, ResidentsExpire
  <1> QED BY <1>1, TablesInvariant, PTL
=============================================================================
