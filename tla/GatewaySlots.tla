---------------------------- MODULE GatewaySlots ----------------------------
(***************************************************************************)
(* The concurrency caps of one gateway process (localbench/gateway.py): a  *)
(* handler thread of _send_upstream takes a slot of a semaphore before it  *)
(* asks the store for admission, and gives it back when the call ends.     *)
(*                                                                         *)
(* Abstractions.                                                           *)
(*  - Admission is open or closed (fenced, draining); GatewayLease has its *)
(*    rules.                                                               *)
(*  - Handler threads are reused, as any number of calls may follow.       *)
(***************************************************************************)
EXTENDS Naturals, FiniteSets

CONSTANTS
    Handlers,         \* handler threads
    ClefConcurrency,  \* CLEF_CONCURRENCY
    AuxConcurrency,   \* LOCALBENCH_GATEWAY_AUX_CONCURRENCY, 0 is no cap
    MaxFaults         \* bound on store timeouts in start_request

ASSUME SlotsAssumption ==
    /\ IsFiniteSet(Handlers)
    /\ ClefConcurrency \in Nat
    /\ AuxConcurrency \in Nat
    /\ MaxFaults \in Nat

VARIABLES
    clefSlots, auxSlots,  \* the free slots of the two semaphores
    pc,                   \* where each handler is
    kind,                 \* whose slots its call counts against
    open,                 \* whether the store admits calls
    faults                \* store timeouts in start_request so far

vars == <<clefSlots, auxSlots, pc, kind, open, faults>>
-----------------------------------------------------------------------------
Kind == {"clef", "aux", "main"}
PC == {"idle", "busy", "asking", "refusing", "upstream", "closing",
       "finishing"}

TypeOK ==
    /\ clefSlots \in 0..ClefConcurrency
    /\ auxSlots \in 0..AuxConcurrency
    /\ pc \in [Handlers -> PC]
    /\ kind \in [Handlers -> Kind]
    /\ open \in BOOLEAN
    /\ faults \in 0..MaxFaults

Init ==
    /\ clefSlots = ClefConcurrency
    /\ auxSlots = AuxConcurrency
    /\ pc = [h \in Handlers |-> "idle"]
    /\ kind = [h \in Handlers |-> "main"]
    /\ open = TRUE
    /\ faults = 0

Goto(h, l) == pc' = [pc EXCEPT ![h] = l]

\* Mutant of TakesClef: no slot is taken.
MutTakesNone(k) == FALSE

\* acquire_clef and acquire_aux do not block.
HasSlot(k) == \/ k = "clef" /\ clefSlots > 0
              \/ k = "aux" /\ (AuxConcurrency = 0 \/ auxSlots > 0)
              \/ k = "main"

TakesClef(k) == k = "clef"
TakesAux(k) == k = "aux" /\ AuxConcurrency > 0

Acquire(h, k) ==
    /\ pc[h] = "idle"
    /\ HasSlot(k)
    /\ clefSlots' = IF TakesClef(k) THEN clefSlots - 1 ELSE clefSlots
    /\ auxSlots' = IF TakesAux(k) THEN auxSlots - 1 ELSE auxSlots
    /\ kind' = [kind EXCEPT ![h] = k]
    /\ Goto(h, "asking")
    /\ UNCHANGED <<open, faults>>

\* The refusal is logged and answered with a 503.
Busy(h, k) ==
    /\ pc[h] = "idle"
    /\ ~HasSlot(k)
    /\ kind' = [kind EXCEPT ![h] = k]
    /\ Goto(h, "busy")
    /\ UNCHANGED <<clefSlots, auxSlots, open, faults>>

Replied(h) ==
    /\ pc[h] = "busy"
    /\ Goto(h, "idle")
    /\ UNCHANGED <<clefSlots, auxSlots, kind, open, faults>>

\* start_request wrote the row.
Admit(h) ==
    /\ pc[h] = "asking"
    /\ open
    /\ Goto(h, "upstream")
    /\ UNCHANGED <<clefSlots, auxSlots, kind, open, faults>>

\* start_request raised GatewayError; the refusal is logged.
Refuse(h) ==
    /\ pc[h] = "asking"
    /\ ~open
    /\ Goto(h, "refusing")
    /\ UNCHANGED <<clefSlots, auxSlots, kind, open, faults>>

\* Mutant of ReleasedRefused: a refused call keeps its slot.
MutReleasedNone(k) == clefSlots

\* Only a clef slot is released before the 503.
ReleasedRefused(k) == IF TakesClef(k) THEN clefSlots + 1 ELSE clefSlots

EndRefused(h) ==
    /\ pc[h] = "refusing"
    /\ clefSlots' = ReleasedRefused(kind[h])
    /\ Goto(h, "idle")
    /\ UNCHANGED <<auxSlots, kind, open, faults>>

\* start_request raised anything else: no handler catches it.
StartRaises(h) ==
    /\ faults < MaxFaults
    /\ pc[h] = "asking"
    /\ faults' = faults + 1
    /\ Goto(h, "idle")
    /\ UNCHANGED <<clefSlots, auxSlots, kind, open>>

\* The stream ends, or the client or the upstream hangs up.
End(h) ==
    /\ pc[h] = "upstream"
    /\ Goto(h, "closing")
    /\ UNCHANGED <<clefSlots, auxSlots, kind, open, faults>>

\* The finally blocks: the slots, then the row.
Release(h) ==
    /\ pc[h] = "closing"
    /\ clefSlots' = IF TakesClef(kind[h]) THEN clefSlots + 1 ELSE clefSlots
    /\ auxSlots' = IF TakesAux(kind[h]) THEN auxSlots + 1 ELSE auxSlots
    /\ Goto(h, "finishing")
    /\ UNCHANGED <<kind, open, faults>>

\* finish_request, which may raise: the handler ends either way.
Finish(h) ==
    /\ pc[h] = "finishing"
    /\ Goto(h, "idle")
    /\ UNCHANGED <<clefSlots, auxSlots, kind, open, faults>>

\* Fences come and go, admission is closed and opened.
Toggle ==
    /\ open' = ~open
    /\ UNCHANGED <<clefSlots, auxSlots, pc, kind, faults>>

Ends(h) ==
    \/ Replied(h) \/ Admit(h) \/ Refuse(h) \/ EndRefused(h) \/ StartRaises(h)
    \/ End(h) \/ Release(h) \/ Finish(h)

Next ==
    \/ Toggle
    \/ \E h \in Handlers :
         \/ \E k \in Kind : Acquire(h, k) \/ Busy(h, k)
         \/ Ends(h)

Spec == Init /\ [][Next]_vars

\* Handler threads run on, and Ollama and serve.py end their answers.
Fairness == \A h \in Handlers : WF_vars(Ends(h))

FairSpec == Spec /\ Fairness
-----------------------------------------------------------------------------
(* Properties.                                                             *)

\* The handlers whose call counts against the cap of k.
Counted(k) == {h \in Handlers : kind[h] = k /\ pc[h] \in
                 {"asking", "refusing", "upstream", "closing"}}
InFlight(k) == {h \in Handlers : kind[h] = k /\ pc[h] = "upstream"}

\* No more calls are in flight than the caps allow.
InFlightCapped ==
    /\ Cardinality(InFlight("clef")) <= ClefConcurrency
    /\ AuxConcurrency > 0 => Cardinality(InFlight("aux")) <= AuxConcurrency

\* No way a call ends keeps its clef slot: every slot is free or counts for a
\* call that is being handled, except for one per store timeout.
ClefSlotsKept ==
    clefSlots + Cardinality(Counted("clef")) + faults >= ClefConcurrency

\* Both at once, on every exit of _send_upstream.
SlotsAccounted == InFlightCapped /\ ClefSlotsKept

\* When all clef slots are taken, one comes free, unless store timeouts have
\* lost them all.
ClefSlotComesBack ==
    (clefSlots = 0 /\ MaxFaults < ClefConcurrency) ~> (clefSlots > 0)
=============================================================================
