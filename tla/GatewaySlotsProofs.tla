------------------------- MODULE GatewaySlotsProofs -------------------------
(***************************************************************************)
(* Proofs about GatewaySlots: the caps hold for any number of handlers and *)
(* any caps, whatever the store does.                                      *)
(***************************************************************************)
EXTENDS GatewaySlots, FiniteSetTheorems, TLAPS

\* A free slot is not that of a call: together they are at most the cap, and
\* less by at most one per store timeout.
SlotsBounded ==
    /\ clefSlots + Cardinality(Counted("clef")) <= ClefConcurrency
    /\ ClefSlotsKept
    /\ AuxConcurrency > 0 =>
         auxSlots + Cardinality(Counted("aux")) <= AuxConcurrency

Types ==
    /\ clefSlots \in Nat /\ auxSlots \in 0..AuxConcurrency
    /\ pc \in [Handlers -> PC]
    /\ kind \in [Handlers -> Kind]
    /\ open \in BOOLEAN
    /\ faults \in 0..MaxFaults

IInv == Types /\ SlotsBounded

\* The counted handlers are finitely many.
LEMMA CountedFinite ==
    ASSUME NEW k
    PROVE  /\ IsFiniteSet(Counted(k)) /\ Cardinality(Counted(k)) \in Nat
           /\ IsFiniteSet(InFlight(k)) /\ Cardinality(InFlight(k)) \in Nat
           /\ Cardinality(InFlight(k)) <= Cardinality(Counted(k))
  <1>1. Counted(k) \subseteq Handlers /\ InFlight(k) \subseteq Counted(k)
    BY DEF Counted, InFlight
  <1>2. IsFiniteSet(Counted(k))
    BY <1>1, FS_Subset, SlotsAssumption
  <1> QED
    BY <1>1, <1>2, FS_Subset, FS_CardinalityType

LEMMA InitInv == Init => IInv
  <1> SUFFICES ASSUME Init PROVE IInv
    OBVIOUS
  <1>1. Counted("clef") = {} /\ Counted("aux") = {}
    BY DEF Init, Counted
  <1>2. Types
    BY SlotsAssumption DEF Init, Types, PC, Kind
  <1> QED
    BY <1>1, <1>2, FS_EmptySet, SlotsAssumption DEF Init, IInv, SlotsBounded, ClefSlotsKept

\* A handler that is not counted and takes a slot is counted then.
LEMMA AcquireStep ==
    ASSUME IInv, NEW h \in Handlers, NEW k \in Kind, Acquire(h, k)
    PROVE  IInv'
  <1>1. h \notin Counted(k) /\ IsFiniteSet(Counted(k))
    BY CountedFinite DEF Acquire, Counted
  <1>2. Counted(k)' = Counted(k) \cup {h}
    BY DEF IInv, Types, Acquire, Counted, Goto, PC, Kind
  <1>3. \A j \in Kind : j # k => Counted(j)' = Counted(j)
    BY DEF IInv, Types, Acquire, Counted, Goto, PC, Kind
  <1>4. Cardinality(Counted(k)') = Cardinality(Counted(k)) + 1
    <2> PICK S : S = Counted(k)
      OBVIOUS
    <2>1. Cardinality(S \cup {h}) = Cardinality(S) + 1
      <3>1. IsFiniteSet(S) /\ h \notin S
        BY <1>1
      <3> QED
        BY ONLY <3>1, FS_AddElement
    <2> QED
      BY <1>2, <2>1
  <1> USE SlotsAssumption, CountedFinite DEF IInv, Types
  <1>5. Types'
    BY DEF Acquire, Goto, PC, Kind, HasSlot, TakesClef, TakesAux
  <1>6. SlotsBounded'
    BY <1>3, <1>4 DEF SlotsBounded, ClefSlotsKept, Acquire, HasSlot, TakesClef, TakesAux, Kind
  <1> QED
    BY <1>5, <1>6

\* A handler that gives up its slot, or loses it, is not counted any more.
LEMMA LeaveStep ==
    ASSUME IInv, NEW h \in Handlers,
           EndRefused(h) \/ StartRaises(h) \/ Release(h)
    PROVE  IInv'
  <1>0. PICK k \in Kind : k = kind[h]
    BY DEF IInv, Types
  <1>1. h \in Counted(k) /\ IsFiniteSet(Counted(k))
    BY <1>0, CountedFinite DEF EndRefused, StartRaises, Release, Counted
  <1>2. Counted(k)' = Counted(k) \ {h}
    BY <1>0 DEF IInv, Types, EndRefused, StartRaises, Release, Counted, Goto, PC, Kind
  <1>3. \A j \in Kind : j # k => Counted(j)' = Counted(j)
    BY <1>0 DEF IInv, Types, EndRefused, StartRaises, Release, Counted, Goto, PC, Kind
  <1>4. Cardinality(Counted(k)') = Cardinality(Counted(k)) - 1
    <2> PICK S : S = Counted(k)
      OBVIOUS
    <2>1. Cardinality(S \ {h}) = Cardinality(S) - 1
      <3>1. IsFiniteSet(S) /\ h \in S
        BY <1>1
      <3> QED
        BY ONLY <3>1, FS_RemoveElement
    <2> QED
      BY <1>2, <2>1
  <1> USE <1>0, SlotsAssumption, CountedFinite DEF IInv, Types
  <1>5. Cardinality(Counted(k)) >= 1
    BY <1>1, FS_EmptySet
  <1>6. Types' /\ SlotsBounded'
    <2>1. CASE EndRefused(h)
      BY <1>3, <1>4, <2>1
      DEF SlotsBounded, ClefSlotsKept, EndRefused, ReleasedRefused, Goto, PC, TakesClef, Kind
    <2>2. CASE StartRaises(h)
      BY <1>3, <1>4, <2>2 DEF SlotsBounded, ClefSlotsKept, StartRaises, Goto, PC, Kind
    <2>3. CASE Release(h)
      <3>1. Types'
        BY <1>5, <2>3
        DEF SlotsBounded, ClefSlotsKept, Release, Goto, PC, TakesClef, TakesAux, Kind
      <3>2. SlotsBounded'
        BY <1>3, <1>4, <2>3
        DEF SlotsBounded, ClefSlotsKept, Release, TakesClef, TakesAux, Kind
      <3> QED
        BY <3>1, <3>2
    <2> QED
      BY <2>1, <2>2, <2>3
  <1> QED
    BY <1>6

\* Every other step leaves the slots and the counted handlers as they are.
LEMMA StayStep ==
    ASSUME IInv,
           \/ Toggle \/ UNCHANGED vars
           \/ \E h \in Handlers :
                \/ \E k \in Kind : Busy(h, k)
                \/ Replied(h) \/ Admit(h) \/ Refuse(h) \/ End(h) \/ Finish(h)
    PROVE  IInv'
  <1> USE DEF Toggle, Busy, Replied, Admit, Refuse, End, Finish, vars, Goto
  <1>1. UNCHANGED <<clefSlots, auxSlots>>
    OBVIOUS
  <1>2. \A k \in Kind : Counted(k)' = Counted(k)
    BY DEF IInv, Types, Counted, Kind, PC
  <1>3. Types'
    <2>1. pc' \in [Handlers -> PC]
      BY DEF IInv, Types, PC
    <2>2. kind' \in [Handlers -> Kind]
      BY DEF IInv, Types, Kind
    <2>3. open' \in BOOLEAN /\ faults' \in 0..MaxFaults
      BY SlotsAssumption DEF IInv, Types
    <2> QED
      BY <1>1, <2>1, <2>2, <2>3 DEF IInv, Types
  <1> QED
    BY <1>1, <1>2, <1>3 DEF IInv, SlotsBounded, ClefSlotsKept, Kind

LEMMA NextInv == IInv /\ [Next]_vars => IInv'
  BY AcquireStep, LeaveStep, StayStep DEF Next, Ends

\* Free slots and counted handlers together never pass a cap; the clef cap falls
\* short by at most one slot per store timeout.
THEOREM Invariant == Spec => []IInv
  BY InitInv, NextInv, PTL DEF Spec

\* The semaphores never pass their bounds: no slot is released twice.
THEOREM TypeCorrect == Spec => []TypeOK
  <1>1. IInv => TypeOK
    BY SlotsAssumption, CountedFinite DEF IInv, Types, SlotsBounded, TypeOK
  <1> QED
    BY <1>1, Invariant, PTL

\* No more calls are in flight than the caps allow, store failures included.
THEOREM CapsHold == Spec => []InFlightCapped
  <1>1. IInv => InFlightCapped
    BY SlotsAssumption, CountedFinite DEF IInv, Types, SlotsBounded, InFlightCapped
  <1> QED
    BY <1>1, Invariant, PTL

\* At most one clef slot is lost per store timeout, however calls end.
THEOREM SlotsKept == Spec => []ClefSlotsKept
  <1>1. IInv => ClefSlotsKept
    BY DEF IInv, SlotsBounded
  <1> QED
    BY <1>1, Invariant, PTL

\* The two together, as the run checks them.
THEOREM Accounted == Spec => []SlotsAccounted
  BY CapsHold, SlotsKept, PTL DEF SlotsAccounted
=============================================================================
