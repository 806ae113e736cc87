------------------------- MODULE GatewayLeaseProofs -------------------------
(***************************************************************************)
(* Proofs about GatewayLease.  The type invariant and the exclusion of     *)
(* admitted calls from unloads and fences hold whatever commands, crashes  *)
(* and faults occur, and with them every step maps to a step of            *)
(* ResidencyLock.                                                          *)
(***************************************************************************)
EXTENDS GatewayLease, TLAPS

USE DEF db, tables, ollama, process, service, tools, budget

\* A call with a row has passed admission.
RowsAdmitted ==
    \A r \in rows : req[r].pc \in {"upstream", "finishing", "done", "dead"}

\* The updates of a lease yield a lease.
LEMMA LeaseUpdates ==
    ASSUME NEW l \in Lease
    PROVE  /\ Renewed(l) \in Lease /\ Renewed(l).outcome = "active"
           /\ Idling(l) \in Lease /\ Idling(l).outcome = "active"
           /\ Retried(l) \in Lease /\ Retried(l).outcome = "deferred"
           /\ \A t \in Timer : [l EXCEPT !.manual = t] \in Lease
           /\ [l EXCEPT !.outcome = "unload_pending"] \in Lease
           /\ \A o \in {"absent"} \cup Retrying \cup Settled, t \in Timer :
                [l EXCEPT !.outcome = o, !.retry = t] \in Lease
  BY DEF Lease, Renewed, Idling, Retried, Outcome, Timer, Retrying, Settled

\* The updates of a call's record yield such a record.
LEMMA ReqUpdates ==
    ASSUME NEW q \in Req
    PROVE  /\ \A p \in ReqPC : [q EXCEPT !.pc = p] \in Req
           /\ [q EXCEPT !.gone = TRUE] \in Req
           /\ \A p \in ReqPC : [q EXCEPT !.pc = p, !.gone = TRUE] \in Req
  BY DEF Req

\* Every initial state is well typed.
LEMMA TypeInit == Init => TypeOK
  BY ConstantsAssumption
  DEF Init, TypeOK, NoLease, Lease, Timer, Outcome, Holder, NotHeld, Stop, StopPC, NoStop

\* Steps of the service process and its recovery keep the types.
LEMMA TypeService ==
    ASSUME TypeOK, RowsAdmitted, NEW i \in Instances,
           \/ Restart(i) \/ Exit(i) \/ Crash(i) \/ Sigterm(i)
    PROVE  TypeOK'
  <1>1. CASE Launch(i)
    BY <1>1 DEF Launch, TypeOK
  <1>2. CASE ReadStale(i)
    BY <1>2 DEF ReadStale, Leftover, TypeOK, Req, NoReq, RowsAdmitted
  <1>3. CASE RecoverPending(i)
    BY <1>3, LeaseUpdates DEF RecoverPending, TypeOK
  <1>4. CASE Serve(i)
    BY <1>4 DEF Serve, TypeOK
  <1>5. CASE \E j \in Instances : RecoverInstance(i, j)
    <2> PICK j \in Instances : RecoverInstance(i, j)
      BY <1>5
    <2>1. \A m \in Models : Idling(leases[m]) \in Lease
      BY LeaseUpdates DEF TypeOK
    <2>2. leases' \in [Models -> Lease]
      BY <2>1 DEF RecoverInstance, TypeOK
    <2> QED BY <2>2 DEF RecoverInstance, TypeOK
  <1>6. ASSUME Dies(i), crashes' \in 0..MaxCrashes, UNCHANGED faults
        PROVE  TypeOK'
    <2>1. ASSUME NEW r \in Requests PROVE req'[r] \in Req \cup {NoReq}
      <3>1. CASE req[r] = NoReq
        <4>1. req[r].pc = "new"
          BY <3>1 DEF NoReq
        <4>2. req'[r] = req[r]
          BY <1>6, <4>1 DEF Dies
        <4> QED BY <3>1, <4>2
      <3>2. CASE req[r] \in Req
        <4>1. [req[r] EXCEPT !.pc = "dead", !.gone = TRUE] \in Req
          BY <3>2, ReqUpdates DEF ReqPC
        <4>2. req'[r] \in {req[r], [req[r] EXCEPT !.pc = "dead", !.gone = TRUE]}
          BY <1>6 DEF Dies
        <4> QED BY <3>2, <4>1, <4>2
      <3> QED BY <3>1, <3>2 DEF TypeOK
    <2>2. req' \in [Requests -> Req \cup {NoReq}]
      BY <1>6, <2>1 DEF Dies
    <2> QED BY <1>6, <2>2 DEF Dies, TypeOK
  <1>7. CASE Exit(i)
    BY <1>7, <1>6 DEF Exit, TypeOK
  <1>8. CASE Crash(i)
    BY <1>8, <1>6, ConstantsAssumption DEF Crash, TypeOK
  <1>9. CASE Sigterm(i)
    BY <1>9, ConstantsAssumption DEF Sigterm, Terminate, TypeOK
  <1> QED BY <1>1, <1>2, <1>3, <1>4, <1>5, <1>7, <1>8, <1>9 DEF Restart

\* finish_request leaves leases, whoever finishes the call.
LEMMA FinishType ==
    ASSUME leases \in [Models -> Lease], NEW r, NEW status, Finish(r, status)
    PROVE  leases' \in [Models -> Lease]
  <1>1. \A m \in Models : Idling(leases[m]) \in Lease
    BY LeaseUpdates
  <1> QED BY <1>1 DEF Finish

\* Steps of a call's handler keep the types.
LEMMA TypeHandler ==
    ASSUME TypeOK, RowsAdmitted, NEW r \in Requests,
           \/ Handler(r) \/ UpstreamLoads(r) \/ HangUp(r) \/ FinishFails(r)
           \/ \E i \in Instances, m \in Models \cup {Clef} : Connect(r, i, m)
    PROVE  TypeOK'
  <1>1. CASE StartRequest(r)
    <2>1. req[r] \in Req
      BY <1>1 DEF StartRequest, TypeOK, NoReq
    <2>2. req' \in [Requests -> Req \cup {NoReq}]
      BY <1>1, <2>1 DEF StartRequest, TypeOK, Req, ReqPC
    <2>3. \A m \in Models : Renewed(leases[m]) \in Lease
      BY LeaseUpdates DEF TypeOK
    <2>4. leases' \in [Models -> Lease]
      BY <1>1, <2>3 DEF StartRequest, TypeOK
    <2> QED BY <1>1, <2>2, <2>4 DEF StartRequest, TypeOK
  <1>2. CASE RefuseRequest(r)
    <2>1. req[r] \in Req
      BY <1>2 DEF RefuseRequest, TypeOK, NoReq
    <2>2. req' \in [Requests -> Req \cup {NoReq}]
      BY <1>2, <2>1 DEF RefuseRequest, TypeOK, Req, ReqPC
    <2> QED BY <1>2, <2>2 DEF RefuseRequest, Logged, TypeOK
  <1>3. CASE UpstreamEnds(r) \/ HangUp(r)
    <2>1. req[r] \in Req
      <3>1. req[r].pc = "upstream"
        BY <1>3 DEF UpstreamEnds, HangUp
      <3> QED BY <3>1 DEF TypeOK, NoReq
    <2>2. req' \in [Requests -> Req \cup {NoReq}]
      BY <1>3, <2>1, ReqUpdates DEF UpstreamEnds, HangUp, TypeOK, ReqPC
    <2> QED BY <1>3, <2>2 DEF UpstreamEnds, HangUp, TypeOK
  <1>4. CASE FinishRequest(r) \/ FinishFails(r)
    <2>1. req[r] \in Req
      BY <1>4 DEF FinishRequest, FinishFails, TypeOK, NoReq
    <2>2. req' \in [Requests -> Req \cup {NoReq}]
      BY <1>4, <2>1 DEF FinishRequest, FinishFails, TypeOK, Req, ReqPC
    <2>3. CASE FinishRequest(r)
      <3>1. leases' \in [Models -> Lease]
        BY <2>3, FinishType DEF FinishRequest, TypeOK
      <3> QED BY <2>3, <2>2, <3>1
              DEF FinishRequest, Finish, Logged, TypeOK
    <2>4. CASE FinishFails(r)
      BY <2>4, <2>2, ConstantsAssumption DEF FinishFails, StoreFails, TypeOK
    <2> QED BY <1>4, <2>3, <2>4
  <1>5. CASE UpstreamLoads(r)
    BY <1>5 DEF UpstreamLoads, TypeOK
  <1>6. CASE \E i \in Instances, m \in Models \cup {Clef} : Connect(r, i, m)
    BY <1>6 DEF Connect, TypeOK, Req, ReqPC
  <1> QED BY <1>1, <1>2, <1>3, <1>4, <1>5, <1>6 DEF Handler

\* A record of the sweeper after one of its steps.
LEMMA SweepUpdates ==
    ASSUME NEW s \in Sweep, NEW p \in SweepPC,
           NEW o \in {"absent"} \cup Retrying \cup Settled
    PROVE  [s EXCEPT !.pc = p, !.result = o] \in Sweep
  BY DEF Sweep, SweepPC

\* A sweep goes to a well-typed state.
LEMMA NextModelType ==
    ASSUME NEW s, s.todo \subseteq Models
    PROVE  NextModel(s) \subseteq Sweep \cup {Idle}
  BY DEF NextModel, Sweep, SweepPC

\* mark_result leaves a lease, whatever is marked.
LEMMA MarkType ==
    ASSUME leases \in [Models -> Lease], NEW m \in Models,
           NEW o \in {"absent"} \cup Retrying \cup Settled, MarkResult(m, o)
    PROVE  leases' \in [Models -> Lease]
  BY LeaseUpdates DEF MarkResult, Timer

\* Steps of the sweeper keep the types.
LEMMA TypeSweeper ==
    ASSUME TypeOK, NEW i \in Instances,
           \/ Sweeper(i) \/ CheckSafe(i) \/ SweepError(i) \/ MarkFails(i)
    PROVE  TypeOK'
  <1>1. CASE ClaimDue(i)
    <2>1. leases' \in [Models -> Lease]
      BY <1>1, LeaseUpdates DEF ClaimDue, TypeOK
    <2>2. sweep' \in [Instances -> Sweep \cup {Idle}]
      <3> DEFINE s == [sweep[i] EXCEPT !.todo = {m \in Models : Due(m)}]
      <3>1. s.todo \subseteq Models
        BY DEF TypeOK, Sweep, Idle
      <3>2. \E t \in NextModel(s) : sweep' = [sweep EXCEPT ![i] = t]
        BY <1>1 DEF ClaimDue
      <3>3. NextModel(s) \subseteq Sweep \cup {Idle}
        BY <3>1, NextModelType
      <3> QED BY <3>2, <3>3 DEF TypeOK
    <2> QED BY <1>1, <2>1, <2>2 DEF ClaimDue, TypeOK
  <1>2. ASSUME NEW p \in SweepPC, NEW o \in {"absent"} \cup Retrying \cup Settled,
               SweepTo(i, p, o), sweep[i].pc # "idle",
               resident' \subseteq Models, direct' = direct,
               crashes' = crashes, faults' \in 0..MaxFaults
        PROVE  TypeOK'
    <2>1. sweep[i] \in Sweep
      BY <1>2 DEF TypeOK, Idle
    <2>2. [sweep[i] EXCEPT !.pc = p, !.result = o] \in Sweep
      BY <2>1, SweepUpdates
    <2>3. sweep' \in [Instances -> Sweep \cup {Idle}]
      BY <1>2, <2>2 DEF SweepTo, TypeOK
    <2> QED BY <1>2, <2>3 DEF SweepTo, TypeOK
  <1>3. CASE CheckSafe(i) \/ CheckUnsafe(i)
    BY <1>3, <1>2 DEF CheckSafe, CheckUnsafe, SweepPC, Retrying, TypeOK
  <1>4. CASE ReadResidents(i) \/ Readback(i)
    BY <1>4, <1>2
    DEF ReadResidents, Readback, SweepPC, Retrying, Settled, TypeOK
  <1>5. CASE Unload(i)
    BY <1>5, <1>2 DEF Unload, SweepPC, TypeOK
  <1>6. CASE SweepError(i)
    <2> DEFINE o == CASE sweep[i].pc = "ps" -> "deferred"
                      [] sweep[i].pc = "unload" -> "unload_failed"
                      [] OTHER -> "verification_failed"
    <2>1. o \in Retrying
      BY <1>6 DEF SweepError, Retrying
    <2>2. faults' \in 0..MaxFaults /\ crashes' = crashes
      BY <1>6, ConstantsAssumption DEF SweepError, OllamaFails, TypeOK
    <2>3. SweepTo(i, "mark", o) /\ sweep[i].pc # "idle"
      BY <1>6 DEF SweepError
    <2>4. resident' \subseteq Models /\ direct' = direct
      BY <1>6 DEF SweepError, TypeOK
    <2> HIDE DEF o
    <2> QED BY <1>2, <2>1, <2>2, <2>3, <2>4 DEF SweepPC
  <1>7. CASE Mark(i)
    <2>1. sweep[i] \in Sweep
      BY <1>7 DEF Mark, TypeOK, Idle
    <2>2. leases' \in [Models -> Lease]
      BY <1>7, <2>1, MarkType DEF Mark, TypeOK, Sweep
    <2>3. NextModel(sweep[i]) \subseteq Sweep \cup {Idle}
      BY <2>1, NextModelType DEF Sweep
    <2>4. sweep' \in [Instances -> Sweep \cup {Idle}]
      BY <1>7, <2>3 DEF Mark, TypeOK
    <2> QED BY <1>7, <2>2, <2>4 DEF Mark, TypeOK
  <1>8. CASE MarkFails(i)
    BY <1>8, ConstantsAssumption DEF MarkFails, StoreFails, TypeOK
  <1> QED BY <1>1, <1>3, <1>4, <1>5, <1>6, <1>7, <1>8 DEF Sweeper

\* Steps of a keep command keep the types.
LEMMA TypeKeeper ==
    ASSUME TypeOK, NEW c \in Commands,
           \/ Keeper(c) \/ KeepRejected(c)
           \/ \E m \in Models : SetManualLease(c, m) \/ KeepZero(c, m)
    PROVE  TypeOK'
  <1>1. ASSUME NEW m \in Models, SetManualLease(c, m)
        PROVE  TypeOK'
    <2>1. Renewed(leases[m]) \in Lease
      <3>1. leases[m] \in Lease
        BY DEF TypeOK
      <3> QED BY <3>1, LeaseUpdates
    <2>2. [Renewed(leases[m]) EXCEPT !.manual = "future"] \in Lease
      BY <2>1, LeaseUpdates DEF Timer
    <2>3. leases' \in [Models -> Lease]
      BY <1>1, <2>2 DEF SetManualLease, TypeOK
    <2> QED BY <1>1, <2>3 DEF SetManualLease, TypeOK, Cmd, CmdPC
  <1>2. ASSUME NEW m \in Models, KeepZero(c, m)
        PROVE  TypeOK'
    BY <1>2 DEF KeepZero, TypeOK, Cmd, CmdPC
  <1>3. ASSUME cmd[c].pc # "idle"
        PROVE  cmd[c] \in Cmd
    BY <1>3 DEF TypeOK, NoCmd
  <1>4. CASE KeepEnds(c)
    BY <1>4, <1>3 DEF KeepEnds, TypeOK, Cmd
  <1>5. CASE KeepRejected(c)
    BY <1>5, <1>3 DEF KeepRejected, TypeOK, Cmd, CmdPC
  <1>6. CASE ClearManualLease(c)
    <2>1. cmd[c] \in Cmd
      <3>1. cmd[c].pc # "idle"
        BY <1>6 DEF ClearManualLease
      <3> QED BY <1>3, <3>1
    <2>2. [leases[cmd[c].model] EXCEPT !.manual = "none"] \in Lease
      BY <2>1, LeaseUpdates DEF TypeOK, Cmd, Timer
    <2>3. leases' \in [Models -> Lease]
      BY <1>6, <2>1, <2>2 DEF ClearManualLease, TypeOK, Cmd
    <2>4. cmd' \in [Commands -> Cmd \cup {NoCmd}]
      BY <1>6, <2>1 DEF ClearManualLease, TypeOK, Cmd, CmdPC
    <2> QED BY <1>6, <2>3, <2>4 DEF ClearManualLease, TypeOK
  <1>7. CASE KeepZeroUnload(c)
    BY <1>7, <1>3 DEF KeepZeroUnload, TypeOK, Cmd, CmdPC
  <1>8. CASE KeepZeroReadback(c)
    BY <1>8, <1>3 DEF KeepZeroReadback, TypeOK, Cmd, CmdPC
  <1>9. CASE KeepZeroSettle(c)
    <2>1. cmd[c] \in Cmd
      BY <1>9, <1>3 DEF KeepZeroSettle
    <2>2. leases' \in [Models -> Lease]
      BY <1>9, <2>1, MarkType DEF KeepZeroSettle, TypeOK, Cmd, Settled
    <2> QED BY <1>9, <2>2 DEF KeepZeroSettle, TypeOK
  <1> QED BY <1>1, <1>2, <1>4, <1>5, <1>6, <1>7, <1>8, <1>9 DEF Keeper

\* Steps of a fence's owner keep the types.
LEMMA TypeFence ==
    ASSUME TypeOK, NEW f \in Fences,
           \/ ProbePasses(f) \/ ParkDies(f) \/ ReleaseFence(f)
           \/ \E ms \in SUBSET Models, park \in BOOLEAN :
                AcquireFence(f, ms, park)
           \/ \E m \in Models : ParkUnload(f, m)
    PROVE  TypeOK'
  <1>1. CASE ProbePasses(f)
    BY <1>1 DEF ProbePasses, TypeOK, Holder
  <1>2. CASE ParkDies(f)
    BY <1>2 DEF ParkDies, TypeOK, Holder
  <1>3. CASE ReleaseFence(f)
    BY <1>3 DEF ReleaseFence, TypeOK, Holder, NotHeld
  <1>4. ASSUME NEW ms \in SUBSET Models, NEW park \in BOOLEAN,
               AcquireFence(f, ms, park)
        PROVE  TypeOK'
    BY <1>4 DEF AcquireFence, TypeOK, Holder
  <1>5. ASSUME NEW m \in Models, ParkUnload(f, m)
        PROVE  TypeOK'
    BY <1>5 DEF ParkUnload, TypeOK
  <1> QED BY <1>1, <1>2, <1>3, <1>4, <1>5

\* Steps of a stop or a start of the service keep the types.
LEMMA TypeStopper ==
    ASSUME TypeOK, BeginStop \/ Stopper \/ StopBreaks \/ StartService
    PROVE  TypeOK'
  <1>1. ASSUME NEW p \in StopPC
        PROVE  [stopper EXCEPT !.pc = p] \in Stop
    BY DEF TypeOK, Stop
  <1>2. CASE BeginStop
    BY <1>2, <1>1 DEF BeginStop, CloseAdmission, StopTo, StopPC, TypeOK
  <1>3. CASE CountConnections
    BY <1>3 DEF CountConnections, TypeOK, Stop, StopPC
  <1>4. CASE ReadRows
    BY <1>4 DEF ReadRows, TypeOK, Stop, StopPC
  <1>5. CASE DecideStop
    BY <1>5, <1>1 DEF DecideStop, StopDecision, StopTo, StopPC, TypeOK
  <1>6. CASE Bootout
    BY <1>6, <1>1 DEF Bootout, StopTo, StopPC, TypeOK, Terminate
  <1>7. CASE StopEnds \/ RefuseStop
    <2>1. CASE StopEnds
      BY <2>1, <1>1 DEF StopEnds, StopTo, StopPC, TypeOK
    <2>2. CASE RefuseStop
      <3>1. stopper' \in Stop
        BY <2>2, <1>1 DEF RefuseStop, StopTo, StopPC
      <3>2. /\ accepting' \in BOOLEAN /\ crashes' = crashes
            /\ faults' = faults \/ (faults < MaxFaults /\ faults' = faults + 1)
        BY <2>2 DEF RefuseStop, StoreFails, TypeOK
      <3>3. faults' \in 0..MaxFaults
        BY <3>2, ConstantsAssumption DEF TypeOK
      <3> QED BY <2>2, <3>1, <3>2, <3>3 DEF RefuseStop, StopTo, TypeOK
    <2> QED BY <1>7, <2>1, <2>2
  <1>8. CASE \E r \in Requests : Reclaim(r)
    <2> PICK r \in Requests : Reclaim(r)
      BY <1>8
    <2>1. leases' \in [Models -> Lease]
      BY FinishType DEF Reclaim, TypeOK
    <2>2. stopper' \in Stop
      BY DEF Reclaim, TypeOK, Stop
    <2>3. rows' \subseteq Requests /\ log' \in [Requests -> {"none", "ended",
                                                   "abandoned", "refused"}]
      BY DEF Reclaim, Finish, Logged, TypeOK
    <2> QED BY <2>1, <2>2, <2>3 DEF Reclaim, TypeOK
  <1>9. CASE StartService
    BY <1>9 DEF StartService, TypeOK
  <1>10. CASE StopBreaks
    <2>1. \A p \in {"refusing", "cut"} :
            [stopper EXCEPT !.pc = p, !.todo = {}] \in Stop
      BY DEF TypeOK, Stop, StopPC
    <2>2. CASE BootoutFails
      BY <2>2, <1>1 DEF BootoutFails, StopTo, StopPC, TypeOK
    <2>3. CASE ReclaimFails \/ StopIsCut
      BY <2>3, <2>1, ConstantsAssumption
      DEF ReclaimFails, StopIsCut, StoreFails, TypeOK
    <2> QED BY <1>10, <2>2, <2>3 DEF StopBreaks
  <1> QED BY <1>2, <1>3, <1>4, <1>5, <1>6, <1>7, <1>8, <1>9, <1>10 DEF Stopper

\* Steps of the environment keep the types.
LEMMA TypeEnvironment ==
    ASSUME TypeOK, NEW m \in Models,
           \/ DirectBegins(m) \/ DirectEnds(m) \/ OllamaEvicts(m)
           \/ \E t \in {"idle", "manual", "retry"} : Expire(m, t)
    PROVE  TypeOK'
  <1>1. CASE DirectBegins(m) \/ DirectEnds(m) \/ OllamaEvicts(m)
    BY <1>1 DEF DirectBegins, DirectEnds, OllamaEvicts, TypeOK
  <1>2. ASSUME NEW t \in {"idle", "manual", "retry"}, Expire(m, t)
        PROVE  TypeOK'
    <2>1. leases' \in [Models -> Lease]
      BY <1>2 DEF Expire, TypeOK, Lease, Timer
    <2> QED BY <1>2, <2>1 DEF Expire, TypeOK
  <1> QED BY <1>1, <1>2

\* Type correctness of every step, given that calls with rows were admitted.
LEMMA TypeNext == TypeOK /\ RowsAdmitted /\ [Next]_vars => TypeOK'
  <1> SUFFICES ASSUME TypeOK, RowsAdmitted, [Next]_vars PROVE TypeOK'
    OBVIOUS
  <1>1. CASE UNCHANGED vars
    BY <1>1 DEF vars, TypeOK
  <1>2. CASE Next
    BY <1>2, TypeService, TypeHandler, TypeSweeper, TypeKeeper, TypeFence,
       TypeStopper, TypeEnvironment DEF Next
  <1> QED BY <1>1, <1>2
-----------------------------------------------------------------------------
(* Every step is a step of ResidencyLock or changes nothing it speaks of.  *)

LockStep == Promise!LockNext \/ UNCHANGED Promise!locks

\* A step that leaves the three tables and the models of admitted calls alone.
LEMMA Stutter ==
    ASSUME rows' = rows, fences' = fences,
           \A m \in Models : Pending(m)' <=> Pending(m),
           \A r \in rows : req'[r].model = req[r].model
    PROVE  LockStep
  <1>1. [m \in Models |-> RowsOf(m)]' = [m \in Models |-> RowsOf(m)]
    BY DEF RowsOf
  <1> QED BY <1>1 DEF LockStep, Promise!locks

\* A step after which the calls R have no row any more.
LEMMA Departure ==
    ASSUME NEW R \in SUBSET Requests, rows' = rows \ R, fences' = fences,
           \A m \in Models : Pending(m)' <=> Pending(m),
           \A r \in rows : req'[r].model = req[r].model
    PROVE  LockStep
  <1>1. [m \in Models |-> RowsOf(m)]' = [m \in Models |-> RowsOf(m) \ R]
    BY DEF RowsOf
  <1>2. Promise!Leave(R)
    BY <1>1 DEF Promise!Leave
  <1> QED BY <1>2 DEF LockStep, Promise!LockNext

\* A step that ends unloads.
LEMMA Settlement ==
    ASSUME NEW S \in SUBSET Models, rows' = rows, fences' = fences,
           req' = req,
           \A m \in Models : Pending(m)' <=> Pending(m) /\ m \notin S
    PROVE  LockStep
  <1>1. [m \in Models |-> RowsOf(m)]' = [m \in Models |-> RowsOf(m)]
    BY DEF RowsOf
  <1>2. Promise!Settle(S)
    BY <1>1 DEF Promise!Settle
  <1> QED BY <1>2 DEF LockStep, Promise!LockNext

\* mark_result ends at most the unload of its model.
LEMMA MarkSettles ==
    ASSUME leases \in [Models -> Lease], NEW m \in Models, NEW o,
           o # "unload_pending", MarkResult(m, o),
           rows' = rows, fences' = fences, req' = req
    PROVE  LockStep
  <1>1. CASE leases[m].outcome = "absent"
    BY <1>1, Stutter DEF MarkResult, Pending
  <1>2. CASE leases[m].outcome # "absent"
    <2>1. \A n \in Models : Pending(n)' <=> Pending(n) /\ n \notin {m}
      BY <1>2 DEF MarkResult, Pending, Lease
    <2> QED BY <2>1, Settlement
  <1> QED BY <1>1, <1>2

\* finish_request only takes its call out: a model with a call has no pending
\* unload that the new outcome could overwrite.
LEMMA FinishDeparts ==
    ASSUME TypeOK, AdmissionExcludes, NEW r \in Requests, NEW status,
           Finish(r, status), fences' = fences,
           \A q \in rows : req'[q].model = req[q].model
    PROVE  LockStep
  <1>1. CASE r \notin rows
    BY <1>1, Stutter DEF Finish, HasRow, Pending
  <1>2. CASE r \in rows
    <2>1. \A m \in Models : Pending(m)' <=> Pending(m)
      <3> TAKE m \in Models
      <3>1. CASE m = req[r].model /\ RowsOf(m) = {r}
        <4>1. ~Pending(m)
          BY <3>1 DEF AdmissionExcludes
        <4>2. leases'[m] = Idling(leases[m])
          BY <1>2, <3>1 DEF Finish, HasRow, TypeOK
        <4>3. leases[m] \in Lease
          BY DEF TypeOK
        <4>4. leases'[m].outcome = "active"
          BY <4>2, <4>3, LeaseUpdates
        <4> QED BY <4>1, <4>4 DEF Pending
      <3>2. CASE ~(m = req[r].model /\ RowsOf(m) = {r})
        BY <1>2, <3>2 DEF Finish, HasRow, TypeOK, Pending
      <3> QED BY <3>1, <3>2
    <2>2. rows' = rows \ {r}
      BY <1>2 DEF Finish, HasRow
    <2> QED BY <2>1, <2>2, Departure
  <1> QED BY <1>1, <1>2

\* Calls cut off with their process keep their model.
LEMMA DiesKeepsModels ==
    ASSUME TypeOK, NEW i \in Instances, Dies(i)
    PROVE  \A r \in rows : req'[r].model = req[r].model
  <1> SUFFICES ASSUME NEW r \in rows PROVE req'[r].model = req[r].model
    OBVIOUS
  <1>1. r \in Requests /\ req[r] \in Req \cup {NoReq}
    BY DEF TypeOK
  <1>2. CASE req'[r] = req[r]
    BY <1>2
  <1>3. CASE req'[r] = [req[r] EXCEPT !.pc = "dead", !.gone = TRUE]
    BY <1>1, <1>3 DEF Req, NoReq
  <1> QED BY <1>1, <1>2, <1>3 DEF Dies

\* Steps of the service: dead calls leave, unloads cut short are settled.
LEMMA ServiceSteps ==
    ASSUME TypeOK, AdmissionExcludes, NEW i \in Instances,
           \/ Restart(i) \/ Exit(i) \/ Crash(i) \/ Sigterm(i)
    PROVE  LockStep
  <1>1. CASE Launch(i) \/ ReadStale(i) \/ Serve(i) \/ Sigterm(i)
    <2>1. UNCHANGED <<leases, rows, fences>> /\ \A r \in rows : req'[r].model = req[r].model
      BY <1>1 DEF Launch, ReadStale, Serve, Sigterm
    <2>2. \A m \in Models : Pending(m)' <=> Pending(m)
      BY <2>1 DEF Pending
    <2> QED BY <2>1, <2>2, Stutter
  <1>2. CASE Exit(i) \/ Crash(i)
    <2>1. \A r \in rows : req'[r].model = req[r].model
      BY <1>2, DiesKeepsModels DEF Exit, Crash
    <2> QED BY <1>2, <2>1, Stutter DEF Exit, Crash, Dies, Pending
  <1>3. CASE RecoverPending(i)
    <2>1. \A m \in Models : ~Pending(m)'
      <3> TAKE m \in Models
      <3>1. leases[m] \in Lease
        BY DEF TypeOK
      <3>2. Retried(leases[m]).outcome = "deferred"
        BY <3>1, LeaseUpdates
      <3> QED BY <1>3, <3>2 DEF RecoverPending, Pending
    <2> QED BY <1>3, <2>1, Settlement DEF RecoverPending
  <1>4. ASSUME NEW j \in Instances, RecoverInstance(i, j)
        PROVE  LockStep
    <2> DEFINE old == {r \in rows : req[r].inst = j}
    <2>1. \A m \in Models : Pending(m)' <=> Pending(m)
      <3> TAKE m \in Models
      <3>1. CASE RowsOf(m) # {} /\ RowsOf(m) \subseteq old
        <4>1. ~Pending(m)
          BY <3>1 DEF AdmissionExcludes
        <4>2. leases'[m] = Idling(leases[m])
          BY <1>4, <3>1 DEF RecoverInstance
        <4> QED BY <4>1, <4>2, LeaseUpdates DEF Pending, TypeOK
      <3>2. CASE ~(RowsOf(m) # {} /\ RowsOf(m) \subseteq old)
        BY <1>4, <3>2 DEF RecoverInstance, Pending
      <3> QED BY <3>1, <3>2
    <2>2. rows' = rows \ old /\ fences' = fences /\ req' = req
      BY <1>4 DEF RecoverInstance
    <2>3. old \in SUBSET Requests
      BY DEF TypeOK
    <2> HIDE DEF old
    <2> QED BY <2>1, <2>2, <2>3, Departure
  <1> QED BY <1>1, <1>2, <1>3, <1>4 DEF Restart

\* Steps of a handler: an admitted call enters, a finished one leaves.
LEMMA HandlerSteps ==
    ASSUME TypeOK, RowsAdmitted, AdmissionExcludes, NEW r \in Requests,
           \/ Handler(r) \/ UpstreamLoads(r) \/ HangUp(r) \/ FinishFails(r)
           \/ \E i \in Instances, m \in Models \cup {Clef} : Connect(r, i, m)
    PROVE  LockStep
  <1>1. CASE StartRequest(r)
    <2> DEFINE m == req[r].model
    <2>1. m \in Models \cup {Clef} /\ Admits(m)
      BY <1>1 DEF StartRequest, TypeOK, Req, NoReq
    <2>2. \A q \in Requests : req'[q].model = req[q].model
      BY <1>1 DEF StartRequest, TypeOK, Req, NoReq
    <2>3. rows' = rows \cup {r} /\ fences' = fences
      BY <1>1 DEF StartRequest
    <2>4. CASE m = Clef
      <3>1. [n \in Models |-> RowsOf(n)]' = [n \in Models |-> RowsOf(n)]
        BY <2>2, <2>3, <2>4, ConstantsAssumption DEF RowsOf, TypeOK
      <3>2. leases' = leases
        BY <1>1, <2>4 DEF StartRequest
      <3> QED BY <2>3, <3>1, <3>2 DEF LockStep, Promise!locks, Pending
    <2>5. CASE m \in Models
      <3>1. [n \in Models |-> RowsOf(n)]'
              = [[n \in Models |-> RowsOf(n)] EXCEPT ![m] = @ \cup {r}]
        BY <2>2, <2>3, <2>5 DEF RowsOf, TypeOK
      <3>2. ~Pending(m) /\ fences[m] = NoFence
        BY <2>1, <2>5, ConstantsAssumption DEF Admits, Fenced
      <3>3. leases' = [leases EXCEPT ![m] = Renewed(@)]
        BY <1>1, <2>5, ConstantsAssumption DEF StartRequest
      <3>4. \A n \in Models : Pending(n)' <=> Pending(n)
        BY <2>5, <3>2, <3>3, LeaseUpdates DEF Pending, TypeOK
      <3>5. Promise!Enter(m, r)
        BY <2>3, <2>5, <3>1, <3>2, <3>4 DEF Promise!Enter
      <3> QED BY <2>5, <3>5 DEF LockStep, Promise!LockNext
    <2> QED BY <2>1, <2>4, <2>5
  <1>2. CASE FinishRequest(r)
    <2>1. \A q \in rows : req'[q].model = req[q].model
      BY <1>2 DEF FinishRequest, TypeOK, Req, NoReq
    <2> QED BY <1>2, <2>1, FinishDeparts DEF FinishRequest
  <1>3. CASE RefuseRequest(r) \/ UpstreamEnds(r) \/ HangUp(r) \/ FinishFails(r)
    <2>1. \A q \in rows : req'[q].model = req[q].model
      BY <1>3 DEF RefuseRequest, UpstreamEnds, HangUp, FinishFails, TypeOK,
                  Req, NoReq
    <2> QED BY <1>3, <2>1, Stutter
            DEF RefuseRequest, UpstreamEnds, HangUp, FinishFails, Pending
  <1>4. CASE UpstreamLoads(r)
    BY <1>4, Stutter DEF UpstreamLoads, Pending
  <1>5. ASSUME NEW i \in Instances, NEW m \in Models \cup {Clef},
               Connect(r, i, m)
        PROVE  LockStep
    <2>1. r \notin rows
      BY <1>5 DEF Connect, RowsAdmitted
    <2>2. \A q \in rows : req'[q].model = req[q].model
      BY <1>5, <2>1 DEF Connect, TypeOK
    <2> QED BY <1>5, <2>2, Stutter DEF Connect, Pending
  <1> QED BY <1>1, <1>2, <1>3, <1>4, <1>5 DEF Handler

\* Steps of the sweeper: a claim takes models without calls, a mark settles.
LEMMA SweeperSteps ==
    ASSUME TypeOK, NEW i \in Instances,
           \/ Sweeper(i) \/ CheckSafe(i) \/ SweepError(i) \/ MarkFails(i)
    PROVE  LockStep
  <1>1. CASE ClaimDue(i)
    <2> DEFINE due == {m \in Models : Due(m)}
    <2>1. rows' = rows /\ fences' = fences /\ req' = req
      BY <1>1 DEF ClaimDue
    <2>2. [m \in Models |-> RowsOf(m)]' = [m \in Models |-> RowsOf(m)]
      BY <2>1 DEF RowsOf
    <2>3. \A m \in Models : Pending(m)' <=> Pending(m) \/ m \in due
      BY <1>1 DEF ClaimDue, Pending, TypeOK, Lease
    <2>4. \A m \in due : RowsOf(m) = {}
      BY DEF Due
    <2>5. Promise!Claim(due)
      <3> HIDE DEF due
      <3> QED BY <2>1, <2>2, <2>3, <2>4, due \in SUBSET Models
              DEF Promise!Claim, due
    <2> QED BY <2>5 DEF LockStep, Promise!LockNext
  <1>2. CASE \/ CheckSafe(i) \/ CheckUnsafe(i) \/ ReadResidents(i)
             \/ Unload(i) \/ Readback(i) \/ SweepError(i) \/ MarkFails(i)
    <2>1. leases' = leases /\ rows' = rows /\ fences' = fences /\ req' = req
      BY <1>2 DEF CheckSafe, CheckUnsafe, ReadResidents, Unload, Readback,
                  SweepError, MarkFails, SweepTo
    <2> QED BY <2>1, Stutter DEF Pending
  <1>3. CASE Mark(i)
    <2>1. sweep[i] \in Sweep
      BY <1>3 DEF Mark, TypeOK, Idle
    <2>2. sweep[i].cur \in Models /\ sweep[i].result # "unload_pending"
      BY <2>1 DEF Sweep, Retrying, Settled
    <2> QED BY <1>3, <2>2, MarkSettles DEF Mark, TypeOK
  <1> QED BY <1>1, <1>2, <1>3 DEF Sweeper

\* Steps of a keep command: only its last mark can settle an unload.
LEMMA KeeperSteps ==
    ASSUME TypeOK, NEW c \in Commands,
           \/ Keeper(c) \/ KeepRejected(c)
           \/ \E m \in Models : SetManualLease(c, m) \/ KeepZero(c, m)
    PROVE  LockStep
  <1>1. ASSUME NEW m \in Models, SetManualLease(c, m)
        PROVE  LockStep
    <2>1. leases[m] \in Lease
      BY DEF TypeOK
    <2>2. Renewed(leases[m]) \in Lease /\ Renewed(leases[m]).outcome = "active"
      BY <2>1, LeaseUpdates
    <2>3. ~Pending(m) /\ ~Pending(m)'
      BY <1>1, <2>2 DEF SetManualLease, Keepable, Pending, TypeOK, Lease
    <2>4. \A n \in Models : Pending(n)' <=> Pending(n)
      BY <1>1, <2>3 DEF SetManualLease, Pending, TypeOK
    <2> QED BY <1>1, <2>4, Stutter DEF SetManualLease
  <1>2. CASE \/ KeepEnds(c) \/ KeepRejected(c) \/ KeepZeroUnload(c)
             \/ KeepZeroReadback(c) \/ \E m \in Models : KeepZero(c, m)
    <2>1. leases' = leases /\ rows' = rows /\ fences' = fences /\ req' = req
      BY <1>2 DEF KeepEnds, KeepRejected, KeepZeroUnload, KeepZeroReadback,
                  KeepZero
    <2> QED BY <2>1, Stutter DEF Pending
  <1>3. CASE ClearManualLease(c)
    <2>1. \A n \in Models : Pending(n)' <=> Pending(n)
      BY <1>3 DEF ClearManualLease, Pending, TypeOK, Lease
    <2> QED BY <1>3, <2>1, Stutter DEF ClearManualLease
  <1>4. CASE KeepZeroSettle(c)
    <2>1. cmd[c].model \in Models
      BY <1>4 DEF KeepZeroSettle, TypeOK, Cmd, NoCmd
    <2> QED BY <1>4, <2>1, MarkSettles DEF KeepZeroSettle, TypeOK
  <1> QED BY <1>1, <1>2, <1>3, <1>4 DEF Keeper

\* Steps of a fence's owner: a fence is set where no call and no fence is.
LEMMA FenceSteps ==
    ASSUME TypeOK, NEW f \in Fences,
           \/ ProbePasses(f) \/ ParkDies(f) \/ ReleaseFence(f)
           \/ \E ms \in SUBSET Models, park \in BOOLEAN :
                AcquireFence(f, ms, park)
           \/ \E m \in Models : ParkUnload(f, m)
    PROVE  LockStep
  <1>1. CASE \/ ProbePasses(f) \/ ParkDies(f)
             \/ \E m \in Models : ParkUnload(f, m)
    <2>1. leases' = leases /\ rows' = rows /\ fences' = fences /\ req' = req
      BY <1>1 DEF ProbePasses, ParkDies, ParkUnload
    <2> QED BY <2>1, Stutter DEF Pending
  <1>2. CASE ReleaseFence(f)
    <2> PICK S \in SUBSET Models : S = {m \in Models : fences[m] = f}
      OBVIOUS
    <2>1. leases' = leases /\ rows' = rows /\ req' = req
      BY <1>2 DEF ReleaseFence
    <2>2. \A m \in Models : fences'[m] # NoFence
                              <=> fences[m] # NoFence /\ m \notin S
      BY <1>2, ConstantsAssumption DEF ReleaseFence
    <2>3. Promise!Unfence(S)
      BY <2>1, <2>2 DEF Promise!Unfence, RowsOf, Pending
    <2> QED BY <2>3 DEF LockStep, Promise!LockNext
  <1>3. ASSUME NEW ms \in SUBSET Models, NEW park \in BOOLEAN,
               AcquireFence(f, ms, park)
        PROVE  LockStep
    <2>1. leases' = leases /\ rows' = rows /\ req' = req
      BY <1>3 DEF AcquireFence
    <2>2. \A m \in Models : fences'[m] # NoFence
                              <=> fences[m] # NoFence \/ m \in ms
      BY <1>3, ConstantsAssumption DEF AcquireFence
    <2>3. \A m \in ms : RowsOf(m) = {} /\ fences[m] = NoFence
      BY <1>3 DEF AcquireFence, Fenceable
    <2>4. Promise!Fence(ms)
      BY <2>1, <2>2, <2>3 DEF Promise!Fence, RowsOf, Pending
    <2> QED BY <2>4 DEF LockStep, Promise!LockNext
  <1> QED BY <1>1, <1>2, <1>3

\* Steps of a stop: a reclaimed call leaves.
LEMMA StopperSteps ==
    ASSUME TypeOK, AdmissionExcludes,
           BeginStop \/ Stopper \/ StopBreaks \/ StartService
    PROVE  LockStep
  <1>1. CASE \E r \in Requests : Reclaim(r)
    BY <1>1, FinishDeparts DEF Reclaim
  <1>2. CASE ~\E r \in Requests : Reclaim(r)
    <2>1. leases' = leases /\ rows' = rows /\ fences' = fences /\ req' = req
      BY <1>2 DEF BeginStop, Stopper, CountConnections, ReadRows, DecideStop,
                  Bootout, StopBreaks, BootoutFails, ReclaimFails, StopIsCut,
                  StopEnds, RefuseStop, StartService
    <2> QED BY <2>1, Stutter DEF Pending
  <1> QED BY <1>1, <1>2

\* Steps of the environment leave the outcomes alone.
LEMMA EnvironmentSteps ==
    ASSUME TypeOK, NEW m \in Models,
           \/ DirectBegins(m) \/ DirectEnds(m) \/ OllamaEvicts(m)
           \/ \E t \in {"idle", "manual", "retry"} : Expire(m, t)
    PROVE  LockStep
  <1>1. rows' = rows /\ fences' = fences /\ req' = req
    BY DEF DirectBegins, DirectEnds, OllamaEvicts, Expire
  <1>2. CASE DirectBegins(m) \/ DirectEnds(m) \/ OllamaEvicts(m)
    BY <1>1, <1>2, Stutter DEF DirectBegins, DirectEnds, OllamaEvicts, Pending
  <1>3. ASSUME NEW t \in {"idle", "manual", "retry"}, Expire(m, t)
        PROVE  LockStep
    <2>1. \A n \in Models : Pending(n)' <=> Pending(n)
      BY <1>3 DEF Expire, Pending, TypeOK, Lease
    <2> QED BY <1>1, <2>1, Stutter
  <1> QED BY <1>2, <1>3
-----------------------------------------------------------------------------
(* The invariant: types, admitted rows and the exclusion of ResidencyLock. *)

\* A step of ResidencyLock keeps admitted calls apart from unloads and fences.
LEMMA LockKeepsExclusion ==
    ASSUME AdmissionExcludes, LockStep
    PROVE  AdmissionExcludes'
  <1> DEFINE Apart(u, p, f) == \A m \in Models :
                                 u[m] # {} => m \notin p /\ m \notin f
             U == [m \in Models |-> RowsOf(m)]
             P == {m \in Models : Pending(m)}
             F == {m \in Models : fences[m] # NoFence}
  <1>1. Apart(U, P, F)
    BY DEF AdmissionExcludes
  <1>2. Apart(U', P', F') => AdmissionExcludes'
    BY DEF AdmissionExcludes
  <1>3. CASE UNCHANGED Promise!locks
    <2>1. U' = U /\ P' = P /\ F' = F
      BY <1>3 DEF Promise!locks
    <2> HIDE DEF U, P, F
    <2> QED BY <1>1, <1>2, <2>1
  <1>4. ASSUME NEW m \in Models, NEW r \in Requests, Promise!Enter(m, r)
        PROVE  AdmissionExcludes'
    <2>1. /\ m \notin P \cup F /\ U' = [U EXCEPT ![m] = @ \cup {r}]
          /\ P' = P /\ F' = F
      BY <1>4 DEF Promise!Enter
    <2>2. U = [n \in Models |-> U[n]]
      OBVIOUS
    <2> HIDE DEF U, P, F
    <2> QED BY <1>1, <1>2, <2>1, <2>2
  <1>5. ASSUME NEW R \in SUBSET Requests, Promise!Leave(R)
        PROVE  AdmissionExcludes'
    <2>1. U' = [m \in Models |-> U[m] \ R] /\ P' = P /\ F' = F
      BY <1>5 DEF Promise!Leave
    <2> HIDE DEF U, P, F
    <2> QED BY <1>1, <1>2, <2>1
  <1>6. ASSUME NEW S \in SUBSET Models,
               \/ Promise!Claim(S) \/ Promise!Settle(S)
               \/ Promise!Fence(S) \/ Promise!Unfence(S)
        PROVE  AdmissionExcludes'
    <2>1. \/ (\A m \in S : U[m] = {}) /\ U' = U /\ P' = P \cup S /\ F' = F
          \/ U' = U /\ P' = P \ S /\ F' = F
          \/ (\A m \in S : U[m] = {}) /\ U' = U /\ P' = P /\ F' = F \cup S
          \/ U' = U /\ P' = P /\ F' = F \ S
      BY <1>6 DEF Promise!Claim, Promise!Settle, Promise!Fence, Promise!Unfence
    <2> HIDE DEF U, P, F
    <2> QED BY <1>1, <1>2, <2>1
  <1> QED BY <1>3, <1>4, <1>5, <1>6 DEF LockStep, Promise!LockNext

\* Only start_request adds a row, and an admitted call never goes back.
LEMMA RowsNext ==
    ASSUME TypeOK, RowsAdmitted, [Next]_vars
    PROVE  RowsAdmitted'
  <1> SUFFICES ASSUME NEW q \in rows'
               PROVE  req'[q].pc \in {"upstream", "finishing", "done", "dead"}
    BY DEF RowsAdmitted
  <1> DEFINE Admitted(x) == x.pc \in {"upstream", "finishing", "done", "dead"}
  <1>1. \A x \in rows : x \in Requests /\ Admitted(req[x])
                        /\ req[x] \in Req \cup {NoReq}
    BY DEF RowsAdmitted, TypeOK
  <1>2. ASSUME rows' \subseteq rows, req' = req
        PROVE  Admitted(req'[q])
    BY <1>1, <1>2
  <1>3. CASE UNCHANGED vars
    BY <1>2, <1>3 DEF vars
  <1>4. ASSUME NEW i \in Instances,
               \/ Restart(i) \/ Sigterm(i) \/ Sweeper(i) \/ CheckSafe(i)
               \/ SweepError(i) \/ MarkFails(i)
        PROVE  Admitted(req'[q])
    <2>1. CASE Restart(i) \/ Sigterm(i)
      <3>1. rows' \subseteq rows /\ req' = req
        BY <2>1 DEF Restart, Launch, ReadStale, RecoverPending, Serve,
                    RecoverInstance, Sigterm
      <3> QED BY <3>1, <1>2
    <2>2. CASE Sweeper(i) \/ CheckSafe(i) \/ SweepError(i) \/ MarkFails(i)
      <3>1. rows' = rows /\ req' = req
        BY <2>2 DEF Sweeper, ClaimDue, CheckSafe, CheckUnsafe, ReadResidents,
                    Unload, Readback, Mark, SweepError, MarkFails, SweepTo
      <3> QED BY <3>1, <1>2
    <2> QED BY <1>4, <2>1, <2>2
  <1>5. ASSUME NEW i \in Instances, Dies(i)
        PROVE  Admitted(req'[q])
    <2>1. q \in rows
      BY <1>5 DEF Dies
    <2>2. req'[q] \in {req[q], [req[q] EXCEPT !.pc = "dead", !.gone = TRUE]}
      BY <1>1, <1>5, <2>1 DEF Dies
    <2>3. [req[q] EXCEPT !.pc = "dead", !.gone = TRUE].pc = "dead"
      BY <1>1, <2>1 DEF Req, NoReq
    <2> QED BY <1>1, <2>1, <2>2, <2>3
  <1>6. ASSUME NEW r \in Requests,
               \/ Handler(r) \/ UpstreamLoads(r) \/ HangUp(r) \/ FinishFails(r)
               \/ \E i \in Instances, m \in Models \cup {Clef} :
                    Connect(r, i, m)
        PROVE  Admitted(req'[q])
    <2>1. rows' \subseteq rows \cup {r}
      BY <1>6 DEF Handler, StartRequest, RefuseRequest, UpstreamEnds,
                  FinishRequest, Finish, UpstreamLoads, HangUp, FinishFails,
                  Connect
    <2>2. CASE q # r
      <3>1. q \in Requests /\ req \in [Requests -> Req \cup {NoReq}]
        BY <1>1, <2>1, <2>2 DEF TypeOK
      <3>2. req'[q] = req[q]
        BY <1>6, <2>2, <3>1
        DEF Handler, StartRequest, RefuseRequest, UpstreamEnds, FinishRequest,
            UpstreamLoads, HangUp, FinishFails, Connect
      <3> QED BY <1>1, <2>1, <2>2, <3>2
    <2>3. CASE q = r /\ r \in rows
      <3>1. req[r].pc \notin {"new", "connected"}
        BY <1>1, <2>3
      <3>2. req[r] \in Req
        BY <1>1, <2>3, <3>1 DEF NoReq
      <3> QED BY <1>1, <1>6, <2>3, <3>1, <3>2
              DEF Handler, StartRequest, RefuseRequest, UpstreamEnds,
                  FinishRequest, UpstreamLoads, HangUp, FinishFails,
                  Connect, TypeOK, Req
    <2>4. CASE q = r /\ r \notin rows
      <3>1. StartRequest(r)
        BY <1>6, <2>4 DEF Handler, StartRequest, RefuseRequest, UpstreamEnds,
                  FinishRequest, Finish, UpstreamLoads, HangUp, FinishFails,
                  Connect
      <3>2. req[r] \in Req
        BY <3>1 DEF StartRequest, TypeOK, NoReq
      <3> QED BY <2>4, <3>1, <3>2 DEF StartRequest, TypeOK, Req
    <2> QED BY <2>1, <2>2, <2>3, <2>4
  <1>7. ASSUME NEW c \in Commands,
               \/ Keeper(c) \/ KeepRejected(c)
               \/ \E m \in Models : SetManualLease(c, m) \/ KeepZero(c, m)
        PROVE  Admitted(req'[q])
    <2>1. rows' = rows /\ req' = req
      BY <1>7 DEF Keeper, KeepEnds, ClearManualLease, KeepZeroUnload,
         KeepZeroReadback, KeepZeroSettle, KeepRejected, SetManualLease, KeepZero
    <2> QED BY <2>1, <1>2
  <1>8. ASSUME NEW f \in Fences,
               \/ ProbePasses(f) \/ ParkDies(f) \/ ReleaseFence(f)
               \/ \E ms \in SUBSET Models, park \in BOOLEAN :
                    AcquireFence(f, ms, park)
               \/ \E m \in Models : ParkUnload(f, m)
        PROVE  Admitted(req'[q])
    <2>1. rows' = rows /\ req' = req
      BY <1>8 DEF ProbePasses, ParkDies, ReleaseFence, AcquireFence, ParkUnload
    <2> QED BY <2>1, <1>2
  <1>9. CASE BeginStop \/ Stopper \/ StopBreaks \/ StartService
    <2>1. rows' \subseteq rows /\ req' = req
      BY <1>9 DEF BeginStop, Stopper, CountConnections, ReadRows, DecideStop,
                  Bootout, StopBreaks, BootoutFails, ReclaimFails, StopIsCut,
                  StopEnds, RefuseStop, StartService, Reclaim, Finish
    <2> QED BY <2>1, <1>2
  <1>10. ASSUME NEW m \in Models,
               \/ DirectBegins(m) \/ DirectEnds(m) \/ OllamaEvicts(m)
               \/ \E t \in {"idle", "manual", "retry"} : Expire(m, t)
        PROVE  Admitted(req'[q])
    <2>1. rows' = rows /\ req' = req
      BY <1>10 DEF DirectBegins, DirectEnds, OllamaEvicts, Expire
    <2> QED BY <2>1, <1>2
  <1>11. CASE Next
    BY <1>4, <1>5, <1>6, <1>7, <1>8, <1>9, <1>10, <1>11 DEF Next, Exit, Crash
  <1> QED BY <1>3, <1>11

\* The two other parts of the invariant make every step a step of the promise.
LEMMA NextKeepsPromise ==
    ASSUME TypeOK, RowsAdmitted, AdmissionExcludes, [Next]_vars
    PROVE  LockStep
  <1>1. CASE UNCHANGED vars
    BY <1>1, Stutter DEF vars, Pending
  <1>2. CASE Next
    BY <1>2, ServiceSteps, HandlerSteps, SweeperSteps, KeeperSteps, FenceSteps,
       StopperSteps, EnvironmentSteps DEF Next
  <1> QED BY <1>1, <1>2

\* The inductive invariant.  Types alone are not inductive, for a restart reads
\* the instance of the calls with rows, which only admitted calls have.
IInv == TypeOK /\ RowsAdmitted /\ AdmissionExcludes

\* IInv holds in every reachable state.
THEOREM Invariant == Spec => []IInv
  <1>1. Init => IInv
    BY TypeInit DEF IInv, Init, RowsAdmitted, AdmissionExcludes, RowsOf
  <1>2. IInv /\ [Next]_vars => IInv'
    BY TypeNext, RowsNext, NextKeepsPromise, LockKeepsExclusion DEF IInv
  <1> QED BY <1>1, <1>2, PTL DEF Spec

\* Type correctness, for any numbers of models, calls, processes and commands.
THEOREM TypeCorrect == Spec => []TypeOK
  <1>1. IInv => TypeOK
    BY DEF IInv
  <1> QED BY <1>1, Invariant, PTL

\* A model with an admitted call is neither being unloaded nor fenced: claim_due,
\* acquire_park_fence and start_request exclude each other in the store,
\* whatever commands run, whichever processes crash and whichever writes fail.
THEOREM AdmissionIsExclusive == Spec => []AdmissionExcludes
  <1>1. IInv => AdmissionExcludes
    BY DEF IInv
  <1> QED BY <1>1, Invariant, PTL

\* The gateway implements ResidencyLock: its initial states are initial states
\* of the lock, and each of its steps is a step of the lock or a stutter.
THEOREM Implements == Spec => KeepsPromise
  <1>1. Init => Promise!LockInit
    BY DEF Init, Promise!LockInit, RowsOf, Pending, NoLease
  <1>2. IInv /\ [Next]_vars => [Promise!LockNext]_(Promise!locks)
    BY NextKeepsPromise DEF IInv, LockStep
  <1> QED BY <1>1, <1>2, Invariant, PTL DEF Spec, KeepsPromise, Promise!LockSpec
=============================================================================
