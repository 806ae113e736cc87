----------------------------- MODULE ParkProofs -----------------------------
(***************************************************************************)
(* Proved of Park, for any targets, digests, pulls and aborted operations: *)
(* the weights of a parked model are never lost, fences cover it for as    *)
(* long as it is away, and nothing of a park is left behind.               *)
(***************************************************************************)
EXTENDS Park, TLAPS

Away == {"copied", "unloaded", "parked"}
InPark == {"fence", "probe", "undo"}
AtEntry == {"copy", "verify", "unload", "delete", "parked", "restore", "restored"}

\* A model's entry has its name and its digest.
ModelEntry(e) == IsModel(e) => e.name \in Names /\ e.digest \in Digests

Types ==
    /\ tags \in [Tags -> Digests \cup {NoDigest}]
    /\ journal \in Seq(Entry) /\ \A k \in DOMAIN journal : ModelEntry(journal[k])
    /\ op = [pc |-> op.pc, k |-> op.k, base |-> op.base, id |-> op.id, created |-> op.created, todo |-> op.todo]
    /\ op.id \in FenceIds \cup {NoFence}

\* The entry at hand is in the journal, and so is what was there before a park.
Places ==
    /\ op.pc \in InPark \cup AtEntry => op.k \in 1..Len(journal)
    /\ op.pc \in InPark => op.base \in 0..Len(journal)
    /\ op.pc \in {"aliasfence", "aliasprobe"} => journal # <<>>

\* The alias of a name that is away has its weights, also just before and
\* after its checkpoints.
Held(e) == IsModel(e) => tags[AliasOf(e)] = e.digest

AliasesHold ==
    /\ \A k \in DOMAIN journal : journal[k].phase \in Away => Held(journal[k])
    /\ op.pc \in {"verify", "unload", "delete"} => IsModel(Here)
    /\ op.pc \in {"unload", "delete", "parked"} => Held(Here)

\* An unpark cleans up after the last entry only.
Progress ==
    /\ op.pc \in {"restore", "restored"} => \A j \in 1..(op.k - 1) : journal[j].phase = "restored"
    /\ op.pc = "clean" => \A j \in DOMAIN journal : journal[j].phase = "restored"

IInv == Types /\ Places /\ AliasesHold /\ Progress

LEMMA InitInv == Init => IInv
  BY ParkAssumption
  DEF Init, IInv, Types, Places, AliasesHold, Progress, NoOp, Tags, InPark, AtEntry

(***************************************************************************)
(* The steps.                                                              *)
(***************************************************************************)
\* A checkpoint changes the phase of one entry.
LEMMA Checkpoints ==
    ASSUME Types, NEW k \in 1..Len(journal), NEW phase \in Phases, Checkpoint(k, phase)
    PROVE  /\ journal' \in Seq(Entry) /\ Len(journal') = Len(journal)
           /\ journal'[k] = [journal[k] EXCEPT !.phase = phase]
           /\ journal'[k].phase = phase /\ journal'[k].name = journal[k].name /\ journal'[k].digest = journal[k].digest
           /\ \A j \in 1..Len(journal) : j # k => journal'[j] = journal[j]
           /\ \A j \in DOMAIN journal' : ModelEntry(journal'[j])
  <1>1. journal[k] \in Entry /\ ModelEntry(journal[k])
    BY DEF Types
  <1>2. journal' = [journal EXCEPT ![k].phase = phase]
    BY DEF Checkpoint
  <1>3. [journal[k] EXCEPT !.phase = phase] \in Entry
    BY <1>1 DEF Entry
  <1>4. /\ journal' \in Seq(Entry) /\ Len(journal') = Len(journal)
        /\ journal'[k] = [journal[k] EXCEPT !.phase = phase]
        /\ \A j \in 1..Len(journal) : j # k => journal'[j] = journal[j]
    <2>1. journal \in Seq(Entry) /\ Len(journal) \in Nat /\ DOMAIN journal = 1..Len(journal)
      BY DEF Types
    <2>2. PICK e \in Entry : e = [journal[k] EXCEPT !.phase = phase]
      BY <1>3
    <2>3. journal' = [journal EXCEPT ![k] = e]
      BY <1>2, <2>2
    <2> QED BY <2>1, <2>2, <2>3
  <1>5. journal'[k].phase = phase /\ journal'[k].name = journal[k].name /\ journal'[k].digest = journal[k].digest
    BY <1>1, <1>4 DEF Entry
  <1>6. ModelEntry(journal'[k])
    BY <1>1, <1>5 DEF ModelEntry, IsModel
  <1>7. \A j \in DOMAIN journal' : ModelEntry(journal'[j])
    <2> SUFFICES ASSUME NEW j \in DOMAIN journal'
                 PROVE  ModelEntry(journal'[j])
      OBVIOUS
    <2>1. j \in 1..Len(journal) /\ 1..Len(journal) = DOMAIN journal
      BY <1>4 DEF Types
    <2>2. CASE j # k
      BY <1>4, <2>1, <2>2 DEF Types
    <2> QED BY <1>6, <2>2
  <1> QED BY <1>4, <1>5, <1>7

\* The aliases that hold before a checkpoint hold after it.
LEMMA CheckpointsHold ==
    ASSUME Types, AliasesHold, NEW k \in 1..Len(journal), NEW phase \in Phases, Checkpoint(k, phase), tags' = tags,
           phase \in Away => Held(journal[k])
    PROVE  /\ \A j \in DOMAIN journal' : journal'[j].phase \in Away => Held(journal[j])'
           /\ IsModel(journal[k])' = IsModel(journal[k])
           /\ Held(journal[k]) => Held(journal[k])'
  <1>1. /\ IsModel(journal[k])' = IsModel(journal[k])
        /\ Held(journal[k]) => Held(journal[k])'
    BY Checkpoints DEF IsModel, Held, AliasOf
  <1>2. ASSUME NEW j \in DOMAIN journal', journal'[j].phase \in Away
        PROVE  Held(journal[j])'
    <2>1. j \in 1..Len(journal)
      <3>1. journal' \in Seq(Entry) /\ Len(journal') = Len(journal)
        BY Checkpoints
      <3> QED BY <1>2, <3>1
    <2>2. CASE j = k
      BY <1>1, <1>2, <2>2, Checkpoints
    <2>3. CASE j # k
      <3>1. journal'[j] = journal[j]
        BY <2>1, <2>3, Checkpoints
      <3>2. Held(journal[j])
        BY <1>2, <2>1, <3>1 DEF AliasesHold, Types
      <3> QED BY <3>1, <3>2 DEF Held, AliasOf, IsModel
    <2> QED BY <2>2, <2>3
  <1> QED BY <1>1, <1>2

\* A park appends planned entries.
LEMMA BeginStep ==
    ASSUME IInv, NEW id \in FenceIds, ParkBegin(id)
    PROVE  IInv'
  <1> USE DEF IInv, Types, Places, AliasesHold, Progress, InPark, AtEntry
  <1>1. PICK s \in Listings :
          /\ Plan(s, id) # <<>> /\ journal' = journal \o Plan(s, id) /\ tags' = tags
          /\ \E pc \in {"copy", "fence"} :
               op' = [NoOp EXCEPT !.pc = pc, !.k = Len(journal) + 1, !.base = Len(journal), !.id = id]
    BY DEF ParkBegin
  <1>2. PICK n \in 0..Len(Targets) : s \in [1..n -> DOMAIN Targets] /\ \A j \in DOMAIN s : s[j] \in Loadable
    BY DEF Listings
  <1>3. /\ Plan(s, id) \in Seq(Entry)
        /\ \A k \in DOMAIN Plan(s, id) : ModelEntry(Plan(s, id)[k]) /\ Plan(s, id)[k].phase = "planned"
    <2> DEFINE model(x) == [name |-> x, digest |-> tags[x], phase |-> "planned", fence |-> id, cleanup |-> NoFence]
               stop == [name |-> Server, digest |-> NoDigest, phase |-> "planned", fence |-> NoFence, cleanup |-> NoFence]
               models == [k \in DOMAIN s |-> model(Targets[s[k]])]
               last == IF server /\ \A e \in Entries : IsModel(e) THEN <<stop>> ELSE <<>>
    <2>1. \A k \in 1..n : models[k] \in Entry /\ ModelEntry(models[k]) /\ models[k].phase = "planned"
      <3> SUFFICES ASSUME NEW k \in 1..n
                   PROVE  models[k] \in Entry /\ ModelEntry(models[k]) /\ models[k].phase = "planned"
        OBVIOUS
      <3>1. Targets[s[k]] \in Names /\ tags[Targets[s[k]]] \in Digests
        BY <1>2, ParkAssumption DEF Loadable, Names, Tags
      <3> QED BY <1>2, <3>1 DEF Entry, Phases, ModelEntry
    <2>2. models \in Seq(Entry) /\ Len(models) = n
      <3>1. DOMAIN s = 1..n /\ n \in Nat
        BY <1>2, ParkAssumption
      <3>2. models \in [1..n -> Entry]
        BY <2>1, <3>1
      <3> HIDE DEF models
      <3> QED BY <3>1, <3>2
    <2>3. stop \in Entry /\ ModelEntry(stop) /\ stop.phase = "planned"
      BY DEF Entry, Phases, ModelEntry, IsModel
    <2>4. last \in Seq(Entry) /\ \A k \in DOMAIN last : last[k] = stop
      BY <2>3
    <2>5. Plan(s, id) = models \o last
      BY DEF Plan
    <2> HIDE DEF models, last, stop
    <2>6. \A k \in DOMAIN Plan(s, id) : (k \in DOMAIN models /\ Plan(s, id)[k] = models[k]) \/ Plan(s, id)[k] = stop
      BY <2>2, <2>4, <2>5
    <2>7. Plan(s, id) \in Seq(Entry)
      BY <2>2, <2>4, <2>5
    <2> QED BY <2>1, <2>2, <2>3, <2>6, <2>7
  <1> DEFINE plan == Plan(s, id)
  <1>4. /\ journal' \in Seq(Entry) /\ Len(journal') = Len(journal) + Len(plan) /\ Len(plan) > 0
        /\ \A k \in 1..Len(journal) : journal'[k] = journal[k]
        /\ \A k \in (Len(journal) + 1)..Len(journal') : journal'[k] = plan[k - Len(journal)] /\ k - Len(journal) \in DOMAIN plan
    BY <1>1, <1>3
  <1>5. ASSUME NEW k \in DOMAIN journal'
        PROVE  \/ k \in DOMAIN journal /\ journal'[k] = journal[k]
               \/ ModelEntry(journal'[k]) /\ journal'[k].phase = "planned"
    <2>1. CASE k \in 1..Len(journal)
      BY <1>4, <2>1
    <2>2. CASE k \in (Len(journal) + 1)..Len(journal')
      <3>1. journal'[k] = plan[k - Len(journal)] /\ k - Len(journal) \in DOMAIN plan
        BY <1>4, <2>2
      <3> QED BY <1>3, <3>1
    <2> QED BY <1>4, <2>1, <2>2
  <1> HIDE DEF plan
  <1>6. Types'
    BY <1>1, <1>4, <1>5 DEF NoOp
  <1>7. Places'
    BY <1>1, <1>4 DEF NoOp
  <1>8. op'.pc \in {"copy", "fence"}
    BY <1>1 DEF NoOp
  <1> HIDE DEF IInv, Types, Places, AliasesHold, Progress, InPark, AtEntry
  <1>9. ASSUME NEW k \in DOMAIN journal', journal'[k].phase \in Away
        PROVE  Held(journal[k])'
    <2>1. k \in DOMAIN journal /\ journal'[k] = journal[k]
      BY <1>5, <1>9 DEF Away
    <2>2. Held(journal[k])
      BY <1>9, <2>1 DEF IInv, AliasesHold
    <2> QED BY <1>1, <2>1, <2>2 DEF Held, AliasOf, IsModel
  <1>10. AliasesHold'
    BY <1>8, <1>9 DEF AliasesHold
  <1>11. Progress'
    BY <1>8 DEF Progress
  <1> QED BY <1>6, <1>7, <1>10, <1>11 DEF IInv

\* The steps of a park before its first effect on a name, and its end.
LEMMA FenceStep ==
    ASSUME IInv, ParkFence \/ ParkFenceRefused \/ ParkProbed \/ ParkProbeRefused \/ ParkProbeRaises \/ ParkUndo \/ Seal
    PROVE  IInv'
  <1> USE DEF IInv, Types, Places, AliasesHold, Progress, InPark, AtEntry, Goto
  <1>1. CASE ParkUndo
    <2>1. journal' = SubSeq(journal, 1, op.base) /\ op' = NoOp /\ tags' = tags /\ op.base \in 0..Len(journal)
      BY <1>1 DEF ParkUndo, Prior
    <2>2. journal' \in Seq(Entry) /\ \A k \in DOMAIN journal' : k \in DOMAIN journal /\ journal'[k] = journal[k]
      BY <2>1
    <2> QED BY <2>1, <2>2 DEF NoOp, Held, AliasOf
  <1>2. CASE ~ParkUndo
    <2>1. UNCHANGED <<tags, journal>>
      BY <1>2 DEF ParkFence, ParkFenceRefused, ParkProbed, ParkProbeRefused, ParkProbeRaises, Seal
    <2>2. \/ op.pc \in {"fence", "probe"} /\ \E pc \in {"probe", "undo", "copy"} : op' = [op EXCEPT !.pc = pc]
          \/ op' = NoOp
      BY <1>2 DEF ParkFence, ParkFenceRefused, ParkProbed, ParkProbeRefused, ParkProbeRaises, Seal
    <2> QED BY <2>1, <2>2 DEF NoOp, Held, AliasOf, Here
  <1> QED BY <1>1, <1>2

\* A name is copied, verified, unloaded and deleted; the server is stopped.
LEMMA CopyStep ==
    ASSUME IInv, StopServer \/ Copy
    PROVE  IInv'
  <1> USE DEF IInv, Types, Places, Progress, InPark, AtEntry, Goto
  <1>1. CASE StopServer
    BY <1>1 DEF StopServer, AliasesHold, Held, AliasOf, Here
  <1>2. CASE Copy
    <2> DEFINE a == AliasOf(Here)
    <2>1. /\ op' = [op EXCEPT !.pc = "verify"] /\ journal' = journal /\ IsModel(Here) /\ op.k \in 1..Len(journal)
          /\ \/ tags' = tags
             \/ tags[a] = NoDigest /\ tags' = [tags EXCEPT ![a] = tags[Here.name]]
      BY <1>2 DEF Copy
    <2>2. ModelEntry(Here) /\ Here.name \in Tags
      BY <2>1 DEF Here, ModelEntry, Tags
    <2>3. tags' \in [Tags -> Digests \cup {NoDigest}]
      BY <2>1, <2>2
    <2>4. ASSUME NEW k \in DOMAIN journal, journal[k].phase \in Away
          PROVE  Held(journal[k])'
      <3> SUFFICES ASSUME IsModel(journal[k])
                   PROVE  tags'[AliasOf(journal[k])] = journal[k].digest
        BY <2>1 DEF Held, IsModel, AliasOf
      <3>1. tags[AliasOf(journal[k])] = journal[k].digest /\ journal[k].digest \in Digests
        BY <2>4 DEF AliasesHold, Held, ModelEntry
      <3>2. AliasOf(journal[k]) \in Tags
        BY <3>1 DEF AliasOf, Tags, Aliases
      <3> HIDE DEF a
      <3> QED BY <2>1, <3>1, <3>2, ParkAssumption
    <2> HIDE DEF a
    <2> QED BY <2>1, <2>3, <2>4 DEF AliasesHold, Here, IsModel
  <1> QED BY <1>1, <1>2

LEMMA VerifyStep ==
    ASSUME IInv, Verify \/ UnloadName \/ Parked
    PROVE  IInv'
  <1> USE DEF IInv, Types, Places, InPark, AtEntry, Goto
  <1>1. CASE Verify /\ CopyVerified(Here)
    <2>1. /\ op.k \in 1..Len(journal) /\ Checkpoint(op.k, "copied") /\ op' = [op EXCEPT !.pc = "unload"] /\ tags' = tags
          /\ IsModel(Here) /\ Held(Here)
      BY <1>1 DEF Verify, CopyVerified, AliasesHold, Held
    <2>2. "copied" \in Phases
      BY DEF Phases
    <2>3. Types' /\ Places' /\ Progress'
      BY <2>1, <2>2, Checkpoints DEF Progress
    <2>4. AliasesHold'
      BY <2>1, <2>2, CheckpointsHold DEF AliasesHold, Here
    <2> QED BY <2>3, <2>4
  <1>2. CASE Verify /\ ~CopyVerified(Here)
    BY <1>2 DEF Verify, NoOp, AliasesHold, Held, AliasOf, Progress
  <1>3. CASE UnloadName
    <2>1. /\ op.k \in 1..Len(journal) /\ Checkpoint(op.k, "unloaded") /\ op' = [op EXCEPT !.pc = "delete"] /\ tags' = tags
          /\ IsModel(Here) /\ Held(Here)
      BY <1>3 DEF UnloadName, AliasesHold
    <2>2. "unloaded" \in Phases
      BY DEF Phases
    <2>3. Types' /\ Places' /\ Progress'
      BY <2>1, <2>2, Checkpoints DEF Progress
    <2>4. AliasesHold'
      BY <2>1, <2>2, CheckpointsHold DEF AliasesHold, Here
    <2> QED BY <2>3, <2>4
  <1>4. CASE Parked
    <2>1. /\ op.k \in 1..Len(journal) /\ Checkpoint(op.k, "parked") /\ tags' = tags /\ Held(Here)
          /\ \/ op.k < Len(journal) /\ op' = [op EXCEPT !.pc = "copy", !.k = @ + 1]
             \/ op' = [op EXCEPT !.pc = "seal"]
      BY <1>4 DEF Parked, AliasesHold
    <2>2. "parked" \in Phases
      BY DEF Phases
    <2>3. /\ journal' \in Seq(Entry) /\ Len(journal') = Len(journal)
          /\ \A j \in DOMAIN journal' : ModelEntry(journal'[j])
      BY <2>1, <2>2, Checkpoints
    <2>4. Types'
      BY <2>1, <2>3
    <2>5. Places' /\ Progress'
      <3>1. \/ op.k < Len(journal) /\ op'.pc = "copy" /\ op'.k = op.k + 1
            \/ op'.pc = "seal"
        BY <2>1
      <3>2. op'.pc = "copy" => op'.k \in 1..Len(journal')
        BY <2>1, <2>3, <3>1
      <3> QED BY <3>1, <3>2 DEF Progress
    <2>6. AliasesHold'
      BY <2>1, <2>2, CheckpointsHold DEF AliasesHold, Here
    <2> QED BY <2>4, <2>5, <2>6
  <1> QED BY <1>1, <1>2, <1>3, <1>4 DEF Verify

\* A deleted name leaves its alias alone, and so do a restored and a pulled one.
LEMMA NameStep ==
    ASSUME Types, NEW n \in Names, NEW d \in Digests \cup {NoDigest}, tags' = [tags EXCEPT ![n] = d]
    PROVE  /\ tags' \in [Tags -> Digests \cup {NoDigest}]
           /\ \A e : ModelEntry(e) /\ IsModel(e) => tags'[AliasOf(e)] = tags[AliasOf(e)]
  BY ParkAssumption DEF Types, ModelEntry, AliasOf, Tags, Aliases

LEMMA DeleteStep ==
    ASSUME IInv, DeleteName
    PROVE  IInv'
  <1> USE DEF IInv, Types, Places, Progress, InPark, AtEntry, Goto
  <1>1. /\ op' = [op EXCEPT !.pc = "parked"] /\ journal' = journal /\ IsModel(Here) /\ Held(Here)
        /\ op.k \in 1..Len(journal) /\ tags' = [tags EXCEPT ![Here.name] = NoDigest]
    BY DEF DeleteName, AliasesHold
  <1>2. Here.name \in Names /\ ModelEntry(Here)
    BY <1>1 DEF Here, ModelEntry
  <1>3. /\ tags' \in [Tags -> Digests \cup {NoDigest}]
        /\ \A e : ModelEntry(e) /\ IsModel(e) => tags'[AliasOf(e)] = tags[AliasOf(e)]
    BY <1>1, <1>2, NameStep
  <1>4. \A e : ModelEntry(e) /\ Held(e) => Held(e)'
    BY <1>3 DEF Held, AliasOf, IsModel
  <1>5. AliasesHold'
    BY <1>1, <1>2, <1>4 DEF AliasesHold, Here, IsModel
  <1> QED BY <1>1, <1>3, <1>5

\* An unpark before its first effect on a name.
LEMMA UnparkStart ==
    ASSUME IInv,
           (\E id \in FenceIds : UnparkBegin(id)) \/ AliasFence \/ AliasFenceRefused \/ AliasProbed \/ AliasProbeRefused \/ Forget
    PROVE  IInv'
  <1> USE DEF IInv, Places, InPark, AtEntry, Goto
  <1> DEFINE Same(j) == /\ j \in Seq(Entry) /\ Len(j) = Len(journal) /\ (\A k \in DOMAIN j : ModelEntry(j[k]))
                        /\ \A k \in DOMAIN journal : /\ j[k].name = journal[k].name /\ j[k].digest = journal[k].digest
                                                     /\ j[k].phase = journal[k].phase
  <1>1. /\ tags' = tags
        /\ \/ journal' = journal
           \/ \E c \in FenceIds \cup {NoFence} : journal' = [k \in DOMAIN journal |-> [journal[k] EXCEPT !.cleanup = c]]
    BY DEF UnparkBegin, AliasFence, AliasFenceRefused, AliasProbed, AliasProbeRefused, Forget
  <1>2. /\ op'.pc \in {"idle", "restore", "aliasfence", "aliasprobe", "forget"}
        /\ op' = [pc |-> op'.pc, k |-> op'.k, base |-> op'.base, id |-> op'.id, created |-> op'.created, todo |-> op'.todo]
        /\ op'.id \in FenceIds \cup {NoFence}
        /\ op'.pc = "restore" => op'.k = 1
        /\ op'.pc \in {"restore", "aliasfence", "aliasprobe"} => journal # <<>>
    <2> DEFINE Fine(o) == /\ o.pc \in {"idle", "restore", "aliasfence", "aliasprobe", "forget"}
                          /\ o = [pc |-> o.pc, k |-> o.k, base |-> o.base, id |-> o.id, created |-> o.created, todo |-> o.todo]
                          /\ o.id \in FenceIds \cup {NoFence}
                          /\ o.pc = "restore" => o.k = 1
                          /\ o.pc \in {"restore", "aliasfence", "aliasprobe"} => journal # <<>>
    <2>1. ASSUME NEW id \in FenceIds, UnparkBegin(id)
          PROVE  Fine(op')
      <3>1. RecordedIds \subseteq FenceIds
        <4>1. ASSUME NEW k \in DOMAIN journal
              PROVE  journal[k].cleanup \in FenceIds \cup {NoFence}
          <5>1. journal[k] \in Entry
            BY DEF Types
          <5> QED BY <5>1 DEF Entry
        <4> QED BY <4>1 DEF RecordedIds, Entries
      <3>2. /\ id \in FenceIds /\ journal # <<>>
            /\ \/ op' = [NoOp EXCEPT !.pc = "restore", !.k = 1]
               \/ op' = [NoOp EXCEPT !.pc = "aliasfence", !.id = id, !.todo = Present]
               \/ op' = [NoOp EXCEPT !.pc = "aliasfence", !.id = id, !.created = TRUE, !.todo = Present]
        BY <2>1 DEF UnparkBegin
      <3> QED BY <3>2 DEF NoOp
    <2>2. CASE AliasFence \/ AliasFenceRefused \/ AliasProbed \/ AliasProbeRefused \/ Forget
      <3>1. \/ op' = NoOp
            \/ op' = [op EXCEPT !.pc = "forget"]
            \/ /\ op.pc \in {"aliasfence", "aliasprobe"}
               /\ \/ op' = [op EXCEPT !.pc = "aliasprobe"]
                  \/ op' = [op EXCEPT !.pc = "restore", !.k = 1]
        BY <2>2 DEF AliasFence, AliasFenceRefused, AliasProbed, AliasProbeRefused, Forget
      <3>2. CASE op' = NoOp
        BY <3>2 DEF NoOp
      <3>3. CASE op' = [op EXCEPT !.pc = "forget"]
        BY <3>3 DEF Types
      <3>4. CASE op.pc \in {"aliasfence", "aliasprobe"}
                 /\ (op' = [op EXCEPT !.pc = "aliasprobe"] \/ op' = [op EXCEPT !.pc = "restore", !.k = 1])
        <4>1. journal # <<>>
          BY <3>4
        <4> QED BY <3>4, <4>1 DEF Types
      <3> QED BY <3>1, <3>2, <3>3, <3>4
    <2> QED BY <2>1, <2>2
  <1>3. Same(journal')
    <2>1. CASE journal' = journal
      BY <2>1 DEF Types
    <2>2. ASSUME NEW c \in FenceIds \cup {NoFence}, journal' = [k \in DOMAIN journal |-> [journal[k] EXCEPT !.cleanup = c]]
          PROVE  Same(journal')
      <3>1. \A k \in 1..Len(journal) : journal[k] \in Entry /\ ModelEntry(journal[k])
        BY DEF Types
      <3>2. \A k \in 1..Len(journal) : [journal[k] EXCEPT !.cleanup = c] \in Entry
        BY <3>1 DEF Entry
      <3>3. \A k \in 1..Len(journal) : /\ journal'[k].name = journal[k].name /\ journal'[k].digest = journal[k].digest
                                        /\ journal'[k].phase = journal[k].phase
        BY <2>2, <3>1 DEF Entry, Types
      <3>4. journal' \in Seq(Entry) /\ Len(journal') = Len(journal)
        <4>1. DOMAIN journal = 1..Len(journal) /\ Len(journal) \in Nat
          BY DEF Types
        <4>2. journal' \in [1..Len(journal) -> Entry]
          BY <2>2, <3>2, <4>1
        <4> QED BY <4>1, <4>2
      <3>5. \A k \in 1..Len(journal) : ModelEntry(journal'[k])
        BY <3>1, <3>3 DEF ModelEntry, IsModel
      <3> QED BY <3>3, <3>4, <3>5
    <2> QED BY <1>1, <2>1, <2>2
  <1> QED BY <1>1, <1>2, <1>3 DEF Types, AliasesHold, Progress, Held, AliasOf, IsModel

\* A name is restored from its alias and checkpointed.
LEMMA RestoreStep ==
    ASSUME IInv, StartServer \/ Restore \/ Restored
    PROVE  IInv'
  <1> USE DEF IInv, Types, Places, InPark, AtEntry, Goto
  <1>1. CASE StartServer
    BY <1>1 DEF StartServer, AliasesHold, Held, AliasOf, Here, Progress
  <1>2. CASE Restore
    <2>1. /\ op' = [op EXCEPT !.pc = "restored"] /\ journal' = journal /\ op.k \in 1..Len(journal)
          /\ tags' = [tags EXCEPT ![Here.name] = Here.digest] /\ IsModel(Here) /\ op.pc = "restore"
      BY <1>2 DEF Restore
    <2>2. Here.name \in Names /\ Here.digest \in Digests
      BY <2>1 DEF Here, ModelEntry
    <2>3. /\ tags' \in [Tags -> Digests \cup {NoDigest}]
          /\ \A e : ModelEntry(e) /\ IsModel(e) => tags'[AliasOf(e)] = tags[AliasOf(e)]
      BY <2>1, <2>2, NameStep
    <2> QED BY <2>1, <2>3 DEF AliasesHold, Held, AliasOf, IsModel, Here, Progress
  <1>3. CASE Restored
    <2>1. /\ op.k \in 1..Len(journal) /\ Checkpoint(op.k, "restored") /\ tags' = tags /\ op.pc = "restored"
          /\ \/ op.k < Len(journal) /\ op' = [op EXCEPT !.pc = "restore", !.k = @ + 1]
             \/ op.k >= Len(journal) /\ op' = [op EXCEPT !.pc = "clean"]
      BY <1>3 DEF Restored, NextEntry
    <2>2. "restored" \in Phases /\ "restored" \notin Away
      BY DEF Phases, Away
    <2>3. /\ journal' \in Seq(Entry) /\ Len(journal') = Len(journal)
          /\ \A j \in DOMAIN journal' : ModelEntry(journal'[j])
          /\ journal'[op.k].phase = "restored"
          /\ \A j \in 1..Len(journal) : j # op.k => journal'[j] = journal[j]
      BY <2>1, <2>2, Checkpoints
    <2>4. Types'
      BY <2>1, <2>3
    <2>5. \/ op.k < Len(journal) /\ op'.pc = "restore" /\ op'.k = op.k + 1
          \/ op.k = Len(journal) /\ op'.pc = "clean"
      <3>1. CASE op.k < Len(journal) /\ op' = [op EXCEPT !.pc = "restore", !.k = @ + 1]
        BY <3>1
      <3>2. CASE op.k >= Len(journal) /\ op' = [op EXCEPT !.pc = "clean"]
        <4>1. op.k = Len(journal)
          BY <2>1, <3>2
        <4>2. op'.pc = "clean"
          BY <3>2
        <4> QED BY <4>1, <4>2
      <3> QED BY <2>1, <3>1, <3>2
    <2>6. Places'
      BY <2>1, <2>3, <2>5
    <2>7. \A j \in 1..op.k : journal'[j].phase = "restored"
      <3>1. \A j \in 1..(op.k - 1) : journal[j].phase = "restored"
        BY <2>1 DEF Progress
      <3>2. \A j \in 1..op.k : j = op.k \/ (j \in 1..(op.k - 1) /\ j \in 1..Len(journal))
        BY <2>1
      <3> QED BY <2>3, <3>1, <3>2
    <2>8. Progress'
      <3>1. CASE op'.pc = "restore" /\ op'.k = op.k + 1
        <4>1. 1..(op'.k - 1) = 1..op.k
          BY <2>1, <3>1
        <4> QED BY <2>7, <3>1, <4>1 DEF Progress
      <3>2. CASE op.k = Len(journal) /\ op'.pc = "clean"
        <4>1. DOMAIN journal' = 1..op.k
          BY <2>3, <3>2
        <4> QED BY <2>7, <3>2, <4>1 DEF Progress
      <3> QED BY <2>5, <3>1, <3>2
    <2>9. \A j \in DOMAIN journal' : journal'[j].phase \in Away => Held(journal[j])'
      BY <2>1, <2>2, CheckpointsHold
    <2> QED BY <2>4, <2>5, <2>6, <2>8, <2>9 DEF AliasesHold
  <1> QED BY <1>1, <1>2, <1>3

\* An unpark cleans up when every entry is restored, or it ends.
LEMMA CleanStep ==
    ASSUME IInv,
           RestoreRaises \/ Cleaned \/ RemoveJournal \/ CloseWindow
           \/ (\E a \in Aliases : CleanAlias(a)) \/ \E id \in FenceIds : ReleaseFence(id)
    PROVE  IInv'
  <1> USE DEF IInv, Types, Places, InPark, AtEntry, Goto
  <1>1. CASE RestoreRaises
    BY <1>1 DEF RestoreRaises, NoOp, AliasesHold, Held, AliasOf, Progress
  <1>2. CASE Cleaned
    BY <1>2 DEF Cleaned, AliasesHold, Held, AliasOf, Progress
  <1>3. CASE RemoveJournal
    BY <1>3 DEF RemoveJournal, AliasesHold, Progress
  <1>4. CASE CloseWindow
    BY <1>4 DEF CloseWindow, NoOp, AliasesHold, Held, AliasOf, Progress
  <1>5. ASSUME NEW a \in Aliases, CleanAlias(a)
        PROVE  IInv'
    <2>1. /\ op.pc = "clean" /\ op' = op /\ journal' = journal /\ tags' = [tags EXCEPT ![a] = NoDigest]
          /\ \A k \in DOMAIN journal : journal[k].phase = "restored"
      BY <1>5 DEF CleanAlias, Progress
    <2>2. a \in Tags
      BY DEF Tags
    <2> QED BY <2>1, <2>2 DEF AliasesHold, Away, Progress
  <1>6. ASSUME NEW id \in FenceIds, ReleaseFence(id)
        PROVE  IInv'
    BY <1>6 DEF ReleaseFence, AliasesHold, Held, AliasOf, Progress
  <1> QED BY <1>1, <1>2, <1>3, <1>4, <1>5, <1>6

\* What is not a step of the operation.
LEMMA OthersStep ==
    ASSUME IInv,
           \/ Abort \/ ManualUnfence
           \/ \E n \in Names : ManualFence(n) \/ \E d \in Digests : Pull(n, d)
           \/ \E a \in Aliases : RemoveAlias(a)
    PROVE  IInv'
  <1> USE DEF IInv, Types, Places, InPark, AtEntry, Goto
  <1>1. CASE Abort
    BY <1>1 DEF Abort, NoOp, AliasesHold, Held, AliasOf, Progress
  <1>2. CASE ManualUnfence \/ \E n \in Names : ManualFence(n)
    BY <1>2 DEF ManualUnfence, ManualFence, AliasesHold, Held, AliasOf, Here, Progress
  <1>3. ASSUME NEW n \in Names, NEW d \in Digests, Pull(n, d)
        PROVE  IInv'
    <2>1. UNCHANGED <<journal, op>> /\ tags' = [tags EXCEPT ![n] = d]
      BY <1>3 DEF Pull
    <2>2. /\ tags' \in [Tags -> Digests \cup {NoDigest}]
          /\ \A e : ModelEntry(e) /\ IsModel(e) => tags'[AliasOf(e)] = tags[AliasOf(e)]
      BY <2>1, NameStep
    <2>3. ASSUME NEW k \in DOMAIN journal, Held(journal[k])
          PROVE  Held(journal[k])'
      BY <2>1, <2>2, <2>3 DEF Held, AliasOf, IsModel
    <2>4. op.pc \in {"unload", "delete", "parked"} => Here = journal[op.k] /\ op.k \in DOMAIN journal
      BY DEF Here
    <2> QED BY <2>1, <2>2, <2>3, <2>4 DEF AliasesHold, Progress, Here, IsModel
  <1>4. ASSUME NEW a \in Aliases, RemoveAlias(a)
        PROVE  IInv'
    <2>1. /\ op.pc = "idle" /\ UNCHANGED <<journal, op>> /\ tags' = [tags EXCEPT ![a] = NoDigest]
          /\ \A k \in DOMAIN journal : IsModel(journal[k]) /\ AliasOf(journal[k]) = a => journal[k].phase = "planned"
      BY <1>4 DEF RemoveAlias, Owned, ModelEntries, Entries
    <2>2. a \in Tags
      BY DEF Tags
    <2>3. ASSUME NEW k \in DOMAIN journal, journal[k].phase \in Away
          PROVE  Held(journal[k])'
      <3>1. IsModel(journal[k]) => AliasOf(journal[k]) # a
        BY <2>1, <2>3 DEF Away
      <3> QED BY <2>1, <2>3, <3>1 DEF AliasesHold, Held, IsModel, AliasOf
    <2> QED BY <2>1, <2>2, <2>3 DEF AliasesHold, Progress
  <1> QED BY <1>1, <1>2, <1>3, <1>4
-----------------------------------------------------------------------------
LEMMA NextInv == IInv /\ [Next]_vars => IInv'
  <1> SUFFICES ASSUME IInv, [Next]_vars
               PROVE  IInv'
    OBVIOUS
  <1>1. CASE UNCHANGED vars
    BY <1>1 DEF vars, IInv, Types, Places, AliasesHold, Progress, Held, AliasOf, Here
  <1>2. CASE Next
    <2>1. ASSUME NEW id \in FenceIds, ParkBegin(id) \/ UnparkBegin(id)
          PROVE  IInv'
      BY <2>1, BeginStep, UnparkStart
    <2>2. CASE ParkStep \/ ParkProbeRaises
      BY <2>2, FenceStep, CopyStep, VerifyStep, DeleteStep DEF ParkStep
    <2>3. CASE UnparkStep
      <3>1. CASE AliasFence \/ AliasFenceRefused \/ AliasProbed \/ AliasProbeRefused \/ Forget
        BY <3>1, UnparkStart
      <3> QED BY <2>3, <3>1, RestoreStep, CleanStep DEF UnparkStep
    <2>4. CASE \/ Abort \/ ManualUnfence
               \/ \E n \in Names : ManualFence(n) \/ \E d \in Digests : Pull(n, d)
               \/ \E a \in Aliases : RemoveAlias(a)
      BY <2>4, OthersStep
    <2> QED BY <1>2, <2>1, <2>2, <2>3, <2>4 DEF Next
  <1> QED BY <1>1, <1>2

\* The inductive invariant: the journal and the operation are well formed, the
\* alias of a name that is away has its weights, and an unpark that cleans up
\* has restored every entry.
THEOREM Invariant == Spec => []IInv
  <1> QED BY InitInv, NextInv, PTL DEF Spec

\* Wherever a park or an unpark is cut off, the weights of a model that is
\* away are installed: under its parked alias.
THEOREM WeightsStay == Spec => []WeightsKept
  <1>1. IInv => WeightsKept
    BY DEF IInv, AliasesHold, WeightsKept, ModelEntries, Entries, Held, Away
  <1> QED BY <1>1, Invariant, PTL
-----------------------------------------------------------------------------
(***************************************************************************)
(* The second layer: fences cover what is away, and the journal accounts   *)
(* for everything a park has changed until unpark has put it back.         *)
(***************************************************************************)
\* The new entries of a park, at the places where the journal has them.
AtPark == {"copy", "verify", "unload", "delete", "parked"}
New(k) == k > op.base
Gone(n) == tags[n] = NoDigest

\* The ids of the journal: fences of parks and fences of cleanups are apart,
\* a park's own id is on its new entries only.
Ids ==
    /\ fences \in [Tags -> FenceIds \cup {Manual, NoFence}]
    /\ \A k \in DOMAIN journal : IsModel(journal[k]) => journal[k].fence \in FenceIds
    /\ \A j, k \in DOMAIN journal : IsModel(journal[k]) => journal[k].fence # journal[j].cleanup
    /\ op.pc \in InPark \cup AtPark => op.id \in FenceIds /\ op.base \in 0..(op.k - 1)
    /\ op.pc \in InPark =>
         \A k \in DOMAIN journal :
            IF New(k) THEN /\ journal[k].phase = "planned" /\ journal[k].cleanup = NoFence
                           /\ journal[k].fence \in {op.id, NoFence}
                      ELSE op.id \notin {journal[k].fence, journal[k].cleanup}
    /\ op.pc \in InPark \cup AtPark =>
         \A k \in DOMAIN journal : New(k) /\ IsModel(journal[k]) => journal[k].fence = op.id
    /\ op.pc \in {"aliasfence", "aliasprobe"} => op.id \in FenceIds /\ \E k \in DOMAIN journal : journal[k].cleanup = op.id
    /\ op.pc = "forget" => op.created
    /\ op.pc \in {"aliasfence", "aliasprobe", "forget"} /\ op.created =>
         op.id \in FenceIds /\ \A k \in DOMAIN journal : journal[k].cleanup = op.id

\* A name that is away is fenced under the id of its entry, and so is one that
\* a park is about to take; an alias that an unpark is about to delete is
\* fenced under the unpark's id.
Fenced ==
    /\ \A k \in DOMAIN journal : IsModel(journal[k]) /\ journal[k].phase \in Away => fences[journal[k].name] = journal[k].fence
    /\ op.pc \in {"probe"} \cup AtPark =>
         \A k \in DOMAIN journal : New(k) /\ IsModel(journal[k]) => fences[journal[k].name] = op.id
    /\ op.pc \in {"aliasfence", "aliasprobe", "restore", "restored", "clean"} => op.todo \subseteq Aliases
    /\ op.pc \in {"aliasprobe", "restore", "restored", "clean"} => \A a \in op.todo : fences[a] = op.id

\* What an unpark has restored is there.
Back(e) == e.phase = "restored" /\ IF IsModel(e) THEN tags[e.name] # NoDigest ELSE server

Restoring ==
    /\ op.pc \in {"restore", "restored"} => \A j \in 1..(op.k - 1) : Back(journal[j])
    /\ op.pc = "restored" /\ ~IsModel(Here) => server
    /\ op.pc \in {"clean", "release"} => \A j \in DOMAIN journal : Back(journal[j])

\* Every copy, every name and server that is gone and every fence of a park is
\* some entry's, one of before the park as long as a refusal may take it back.
Old(k) == op.pc \in InPark => ~New(k)

Accounted ==
    /\ \A a \in Aliases : ~Gone(a) => \E k \in DOMAIN journal : Old(k) /\ IsModel(journal[k]) /\ AliasOf(journal[k]) = a
    /\ \A n \in Names : Installed[n] # NoDigest /\ Gone(n) => \E k \in DOMAIN journal : Old(k) /\ journal[k].name = n
    /\ ~server => \E k \in DOMAIN journal : Old(k) /\ ~IsModel(journal[k])
    /\ \A t \in Tags : fences[t] \in FenceIds => \E k \in DOMAIN journal : fences[t] \in {journal[k].fence, journal[k].cleanup}
    /\ op.pc \in {"fence", "undo", "forget"} => \A t \in Tags : fences[t] # op.id
    /\ op.pc = "aliasfence" /\ op.created => \A t \in Tags : fences[t] # op.id
    /\ op.pc = "release" => /\ \A a \in Aliases : Gone(a)
                            /\ \A t \in Tags : fences[t] \in FenceIds => fences[t] \in op.todo

FInv == Ids /\ Fenced /\ Restoring /\ Accounted

LEMMA FencedInit == Init => FInv
  <1> SUFFICES ASSUME Init
               PROVE  FInv
    OBVIOUS
  <1>1. op.pc = "idle" /\ journal = <<>> /\ DOMAIN journal = {} /\ server /\ fences = [t \in Tags |-> NoFence]
    BY DEF Init, NoOp
  <1>2. Ids /\ Fenced /\ Restoring
    BY <1>1 DEF Ids, Fenced, Restoring, InPark, AtPark
  <1>3. \A a \in Aliases : Gone(a)
    BY ParkAssumption DEF Init, Gone, Tags
  <1>4. \A n \in Names : ~(Installed[n] # NoDigest /\ Gone(n))
    BY DEF Init, Gone, Tags
  <1>5. NoFence \notin FenceIds
    BY ParkAssumption
  <1> QED BY <1>1, <1>2, <1>3, <1>4, <1>5 DEF FInv, Accounted

\* What the entries of the journal are.
LEMMA EntriesAre ==
    ASSUME Types, NEW k \in DOMAIN journal
    PROVE  /\ journal[k].name \in Names \cup {Server} /\ journal[k].cleanup \in FenceIds \cup {NoFence}
           /\ journal[k].fence \in FenceIds \cup {NoFence} /\ journal[k].phase \in Phases
           /\ IsModel(journal[k]) <=> journal[k].name \in Names
           /\ IsModel(journal[k]) =>
                /\ journal[k].name \in Tags /\ journal[k].digest \in Digests
                /\ AliasOf(journal[k]) \in Aliases
  <1>1. journal[k] \in Entry /\ ModelEntry(journal[k])
    BY DEF Types
  <1>2. /\ journal[k].name \in Names \cup {Server} /\ journal[k].cleanup \in FenceIds \cup {NoFence}
        /\ journal[k].fence \in FenceIds \cup {NoFence} /\ journal[k].phase \in Phases
    BY <1>1 DEF Entry
  <1>3. Server \notin Names
    BY ParkAssumption DEF Tags
  <1>4. IsModel(journal[k]) <=> journal[k].name \in Names
    BY <1>2, <1>3 DEF IsModel
  <1>5. IsModel(journal[k]) =>
                /\ journal[k].name \in Tags /\ journal[k].digest \in Digests
                /\ AliasOf(journal[k]) \in Aliases
    BY <1>1, <1>4 DEF ModelEntry, Tags, AliasOf, Aliases
  <1> QED BY <1>2, <1>4, <1>5

\* An operation that ends, or is cut, changes nothing.
LEMMA EndStep ==
    ASSUME FInv, op' = NoOp, UNCHANGED <<tags, server, fences, journal>>
    PROVE  FInv'
  <1>1. op'.pc = "idle"
    BY DEF NoOp
  <1>2. Ids'
    BY <1>1 DEF FInv, Ids, InPark, AtPark, IsModel
  <1>3. Fenced'
    BY <1>1 DEF FInv, Fenced, AtPark, IsModel
  <1>4. Restoring'
    BY <1>1 DEF Restoring
  <1>5. Accounted'
    BY <1>1 DEF FInv, Accounted, Old, InPark, Gone, IsModel, AliasOf
  <1> QED BY <1>2, <1>3, <1>4, <1>5 DEF FInv

\* The fences of a park: set, refused, probed and released.
LEMMA SetFences ==
    ASSUME IInv, FInv, ParkFence
    PROVE  FInv'
  <1> DEFINE ts == Planned \ {Server}
  <1>1. /\ op.pc = "fence" /\ Fenceable(ts) /\ op' = [op EXCEPT !.pc = "probe"] /\ UNCHANGED <<tags, server, journal>>
        /\ fences' = [t \in Tags |-> IF t \in ts THEN op.id ELSE fences[t]]
    BY DEF ParkFence, FenceAll, Goto
  <1>2. op'.pc = "probe" /\ op'.base = op.base /\ op'.id = op.id /\ op'.k = op.k /\ op'.created = op.created
    BY <1>1 DEF IInv, Types
  <1>3. op.id \in FenceIds /\ op.id # NoFence
    BY <1>1, ParkAssumption DEF FInv, Ids, InPark
  <1>4. \A k \in DOMAIN journal : IsModel(journal[k]) => journal[k].name \in Tags /\ (New(k) => journal[k].name \in ts)
    BY EntriesAre DEF IInv, New, Planned, IsModel
  <1>5. \A t \in ts : fences[t] = NoFence
    BY <1>1 DEF Fenceable
  <1> HIDE DEF ts
  <1>6. Ids'
    BY <1>1, <1>2, <1>3 DEF FInv, Ids, InPark, AtPark, IsModel, New
  <1>7. Fenced'
    <2>1. ASSUME NEW k \in DOMAIN journal, IsModel(journal[k]), journal[k].phase \in Away
          PROVE  fences'[journal[k].name] = journal[k].fence
      <3>1. fences[journal[k].name] = journal[k].fence /\ journal[k].fence # NoFence
        BY <2>1, ParkAssumption DEF FInv, Fenced, Ids
      <3> QED BY <1>1, <1>4, <1>5, <2>1, <3>1
    <2>2. ASSUME NEW k \in DOMAIN journal, IsModel(journal[k]), New(k)
          PROVE  fences'[journal[k].name] = op.id
      BY <1>1, <1>4, <2>2
    <2> QED BY <1>1, <1>2, <2>1, <2>2 DEF Fenced, New, IsModel, AtPark
  <1>8. Restoring'
    BY <1>2 DEF Restoring
  <1>9. Accounted'
    <2>1. ASSUME NEW t \in Tags, fences'[t] \in FenceIds
          PROVE  \E k \in DOMAIN journal : fences'[t] \in {journal[k].fence, journal[k].cleanup}
      <3>1. CASE t \in ts
        <4>1. PICK k \in DOMAIN journal : k > op.base /\ journal[k].name = t /\ t # Server
          BY <3>1 DEF ts, Planned
        <4>2. journal[k].fence = op.id
          BY <1>1, <4>1 DEF FInv, Ids, InPark, New, IsModel
        <4> QED BY <1>1, <3>1, <4>2
      <3>2. CASE t \notin ts
        BY <1>1, <2>1, <3>2 DEF FInv, Accounted
      <3> QED BY <3>1, <3>2
    <2> QED BY <1>1, <1>2, <2>1 DEF FInv, Accounted, Old, New, InPark, Gone, IsModel, AliasOf
  <1> QED BY <1>6, <1>7, <1>8, <1>9 DEF FInv

LEMMA RefuseFences ==
    ASSUME IInv, FInv, ParkFenceRefused \/ ParkProbed \/ ParkProbeRefused \/ ParkProbeRaises
    PROVE  FInv'
  <1>1. CASE ParkFenceRefused \/ ParkProbed
    <2>1. /\ UNCHANGED <<tags, server, fences, journal>>
          /\ \/ op.pc = "fence" /\ op' = [op EXCEPT !.pc = "undo"]
             \/ op.pc = "probe" /\ op' = [op EXCEPT !.pc = "copy"]
      BY <1>1 DEF ParkFenceRefused, ParkProbed, Goto
    <2>2. /\ op'.base = op.base /\ op'.id = op.id /\ op'.k = op.k /\ op'.created = op.created /\ op'.todo = op.todo
          /\ \/ op.pc = "fence" /\ op'.pc = "undo"
             \/ op.pc = "probe" /\ op'.pc = "copy"
      <3>1. op = [pc |-> op.pc, k |-> op.k, base |-> op.base, id |-> op.id, created |-> op.created, todo |-> op.todo]
        BY DEF IInv, Types
      <3>2. CASE op.pc = "fence" /\ op' = [op EXCEPT !.pc = "undo"]
        BY <3>1, <3>2
      <3>3. CASE op.pc = "probe" /\ op' = [op EXCEPT !.pc = "copy"]
        BY <3>1, <3>3
      <3> QED BY <2>1, <3>2, <3>3
    <2>3. Ids'
      BY <2>1, <2>2 DEF FInv, Ids, InPark, AtPark, IsModel, New
    <2>4. Fenced'
      BY <2>1, <2>2 DEF FInv, Fenced, AtPark, IsModel, New
    <2>5. Restoring'
      BY <2>2 DEF Restoring
    <2>6. Accounted'
      BY <2>1, <2>2 DEF FInv, Accounted, Old, New, InPark, Gone, IsModel, AliasOf
    <2> QED BY <2>3, <2>4, <2>5, <2>6 DEF FInv
  <1>2. CASE ParkProbeRefused \/ ParkProbeRaises
    <2>1. /\ op.pc = "probe" /\ UNCHANGED <<tags, server, journal>>
          /\ fences' = [t \in Tags |-> IF fences[t] = op.id THEN NoFence ELSE fences[t]]
          /\ op' = NoOp \/ op' = [op EXCEPT !.pc = "undo"]
      BY <1>2 DEF ParkProbeRefused, ParkProbeRaises, Goto, Release
    <2>2. \/ op'.pc = "idle"
          \/ /\ op'.pc = "undo" /\ op'.base = op.base /\ op'.id = op.id /\ op'.k = op.k /\ op'.created = op.created
             /\ op'.todo = op.todo
      BY <2>1 DEF IInv, Types, NoOp
    <2>3. op.id \in FenceIds /\ op.id # NoFence /\ NoFence \notin FenceIds
      BY <2>1, ParkAssumption DEF FInv, Ids, InPark
    <2>4. Ids'
      BY <2>1, <2>2 DEF FInv, Ids, InPark, AtPark, IsModel, New
    <2>5. ASSUME NEW k \in DOMAIN journal, IsModel(journal[k]), journal[k].phase \in Away
          PROVE  fences'[journal[k].name] = journal[k].fence
      <3>1. fences[journal[k].name] = journal[k].fence /\ journal[k].name \in Tags
        BY <2>5, EntriesAre DEF FInv, Fenced, IInv
      <3>2. journal[k].fence # op.id
        BY <2>1, <2>5 DEF FInv, Ids, InPark, Away
      <3> QED BY <2>1, <3>1, <3>2
    <2>6. Fenced'
      BY <2>1, <2>2, <2>5 DEF Fenced, AtPark, IsModel
    <2>7. Restoring'
      BY <2>2 DEF Restoring
    <2>8. Accounted'
      BY <2>1, <2>2, <2>3 DEF FInv, Accounted, Old, New, InPark, Gone, IsModel, AliasOf
    <2> QED BY <2>4, <2>6, <2>7, <2>8 DEF FInv
  <1> QED BY <1>1, <1>2

\* A refused park takes its entries back.
LEMMA UndoStep ==
    ASSUME IInv, FInv, ParkUndo
    PROVE  FInv'
  <1>1. /\ op.pc = "undo" /\ op'.pc = "idle" /\ UNCHANGED <<tags, server, fences>> /\ op.base \in 0..Len(journal)
        /\ journal' = SubSeq(journal, 1, op.base) /\ journal \in Seq(Entry)
    BY DEF ParkUndo, Prior, Goto, NoOp, IInv, Types, Places, InPark
  <1>2. DOMAIN journal' = {k \in DOMAIN journal : ~New(k)} /\ \A k \in DOMAIN journal' : journal'[k] = journal[k]
    <2>1. /\ DOMAIN journal = 1..Len(journal) /\ Len(journal) \in Nat
          /\ DOMAIN journal' = 1..op.base /\ \A k \in 1..op.base : journal'[k] = journal[k]
      BY <1>1
    <2>2. \A k \in 1..Len(journal) : k \in 1..op.base <=> ~(k > op.base)
      BY <1>1
    <2> QED BY <1>1, <2>1, <2>2 DEF New, InPark
  <1>3. Ids'
    <2>1. op'.pc \notin InPark \cup AtPark /\ DOMAIN journal' \subseteq DOMAIN journal
      BY <1>1, <1>2 DEF InPark, AtPark
    <2> QED BY <1>1, <1>2, <2>1 DEF FInv, Ids, IsModel
  <1>4. Fenced'
    BY <1>1, <1>2 DEF FInv, Fenced, AtPark, IsModel
  <1>5. Restoring'
    BY <1>1 DEF Restoring
  <1>6. ASSUME NEW t \in Tags, fences[t] \in FenceIds
        PROVE  \E k \in DOMAIN journal' : fences[t] \in {journal'[k].fence, journal'[k].cleanup}
    <2>1. PICK k \in DOMAIN journal : fences[t] \in {journal[k].fence, journal[k].cleanup}
      BY <1>6 DEF FInv, Accounted
    <2>2. ~New(k)
      BY <1>1, <1>6, <2>1, ParkAssumption DEF FInv, Ids, InPark, Accounted
    <2> QED BY <1>2, <2>1, <2>2
  <1>7. \A k \in DOMAIN journal : Old(k) => k \in DOMAIN journal' /\ journal'[k] = journal[k]
    BY <1>1, <1>2 DEF Old, InPark
  <1>8. ASSUME NEW a \in Aliases, tags[a] # NoDigest
        PROVE  \E k \in DOMAIN journal' : journal'[k].name # Server /\ Alias[journal'[k].digest] = a
    <2>1. PICK k \in DOMAIN journal : Old(k) /\ IsModel(journal[k]) /\ AliasOf(journal[k]) = a
      BY <1>8 DEF FInv, Accounted, Gone
    <2> QED BY <1>7, <2>1 DEF IsModel, AliasOf
  <1>9. ASSUME NEW n \in Names, Installed[n] # NoDigest, tags[n] = NoDigest
        PROVE  \E k \in DOMAIN journal' : journal'[k].name = n
    <2>1. PICK k \in DOMAIN journal : Old(k) /\ journal[k].name = n
      BY <1>9 DEF FInv, Accounted, Gone
    <2> QED BY <1>7, <2>1
  <1>10. ASSUME ~server
        PROVE  \E k \in DOMAIN journal' : journal'[k].name = Server
    <2>1. PICK k \in DOMAIN journal : Old(k) /\ ~IsModel(journal[k])
      BY <1>10 DEF FInv, Accounted
    <2> QED BY <1>7, <2>1 DEF IsModel
  <1>11. Accounted'
    BY <1>1, <1>6, <1>8, <1>9, <1>10 DEF Accounted, Old, InPark, Gone, IsModel, AliasOf
  <1> QED BY <1>3, <1>4, <1>5, <1>11 DEF FInv

\* A park takes a name away: the journal and the fences stay as they are.
LEMMA TakeStep ==
    ASSUME IInv, FInv, StopServer \/ Copy \/ DeleteName
    PROVE  FInv'
  <1>1. /\ op.pc \in AtPark /\ UNCHANGED <<fences, journal>> /\ op.k \in DOMAIN journal
        /\ \E pc \in {"parked", "verify"} : op' = [op EXCEPT !.pc = pc]
    BY DEF StopServer, Copy, DeleteName, Goto, AtPark, IInv, Places, AtEntry, Types
  <1>2. op'.pc \in {"parked", "verify"} /\ op'.base = op.base /\ op'.id = op.id /\ op'.k = op.k
    BY <1>1 DEF IInv, Types
  <1>3. Ids'
    BY <1>1, <1>2 DEF FInv, Ids, InPark, AtPark, IsModel, New
  <1>4. Fenced'
    BY <1>1, <1>2 DEF FInv, Fenced, AtPark, IsModel, New
  <1>5. Restoring'
    BY <1>2 DEF Restoring
  <1>10. ASSUME Copy
        PROVE  IsModel(Here) /\ (tags' = tags \/ tags' = [tags EXCEPT ![AliasOf(Here)] = tags[Here.name]])
    BY <1>10 DEF Copy
  <1>11. DOMAIN tags = Tags /\ Names \subseteq Tags /\ Aliases \subseteq Tags
    BY DEF IInv, Types, Tags
  <1>12. tags \in [Tags -> Digests \cup {NoDigest}]
    BY DEF IInv, Types
  <1>6. ASSUME NEW a \in Aliases, tags'[a] # NoDigest
        PROVE  \E k \in DOMAIN journal : IsModel(journal[k]) /\ AliasOf(journal[k]) = a
    <2>1. CASE tags[a] # NoDigest
      BY <2>1 DEF FInv, Accounted, Gone
    <2>2. CASE tags[a] = NoDigest
      <3>1. \/ Copy
            \/ DeleteName /\ tags' = [tags EXCEPT ![Here.name] = NoDigest]
        BY <1>6, <2>2 DEF StopServer, DeleteName
      <3>2. Copy
        BY <1>6, <1>11, <1>12, <2>2, <3>1
      <3>3. IsModel(Here) /\ AliasOf(Here) = a
        BY <1>6, <1>10, <1>11, <1>12, <2>2, <3>2
      <3> QED BY <1>1, <3>3 DEF Here
    <2> QED BY <2>1, <2>2
  <1>7. ASSUME NEW n \in Names, Installed[n] # NoDigest, tags'[n] = NoDigest
        PROVE  \E k \in DOMAIN journal : journal[k].name = n
    <2>1. CASE tags[n] = NoDigest
      BY <1>7, <2>1 DEF FInv, Accounted, Gone
    <2>2. CASE tags[n] # NoDigest
      <3>1. CASE DeleteName
        <4>1. tags' = [tags EXCEPT ![Here.name] = NoDigest]
          BY <3>1 DEF DeleteName
        <4>2. Here.name = n
          BY <1>7, <2>2, <4>1 DEF IInv, Types
        <4> QED BY <1>1, <4>2 DEF Here
      <3>2. CASE Copy
        <4>1. AliasOf(Here) # n
          BY <1>1, <3>2, EntriesAre, ParkAssumption DEF Copy, Here, IInv
        <4> QED BY <1>7, <1>10, <1>11, <1>12, <2>2, <3>2, <4>1
      <3>3. CASE StopServer
        BY <1>7, <2>2, <3>3 DEF StopServer
      <3> QED BY <3>1, <3>2, <3>3
    <2> QED BY <2>1, <2>2
  <1>8. ASSUME ~server'
        PROVE  \E k \in DOMAIN journal : ~IsModel(journal[k])
    <2>1. CASE ~server
      BY <2>1 DEF FInv, Accounted
    <2>2. CASE server
      BY <1>1, <1>8, <2>2 DEF StopServer, Copy, DeleteName, Here
    <2> QED BY <2>1, <2>2
  <1>9. Accounted'
    BY <1>1, <1>2, <1>6, <1>7, <1>8 DEF FInv, Accounted, Old, InPark, Gone, IsModel, AliasOf
  <1> QED BY <1>3, <1>4, <1>5, <1>9 DEF FInv

\* A checkpoint keeps names, ids and fences.
LEMMA CheckpointsKeep ==
    ASSUME IInv, FInv, NEW phase \in Phases, op.k \in 1..Len(journal), Checkpoint(op.k, phase),
           UNCHANGED <<tags, server, fences>>, op'.base = op.base, op'.id = op.id,
           op.pc \in AtPark \cup {"restored"}, op'.pc \in {"idle", "copy", "unload", "delete", "seal", "restore", "clean"},
           op'.pc \in AtPark => op.pc \in AtPark /\ op'.base \in 0..(op'.k - 1),
           phase \in Away => op.pc \in AtPark,
           op'.pc \in {"restore", "clean"} => op.pc = "restored" /\ op'.todo = op.todo
    PROVE  Ids' /\ Fenced' /\ Accounted'
  <1>1. /\ DOMAIN journal' = DOMAIN journal
        /\ \A k \in DOMAIN journal :
             /\ journal'[k].name = journal[k].name /\ journal'[k].digest = journal[k].digest
             /\ journal'[k].fence = journal[k].fence /\ journal'[k].cleanup = journal[k].cleanup
             /\ journal'[k].phase = IF k = op.k THEN phase ELSE journal[k].phase
    <2>1. journal' = [journal EXCEPT ![op.k].phase = phase]
      BY DEF Checkpoint
    <2>2. \A k \in DOMAIN journal : journal[k] \in Entry
      BY DEF IInv, Types
    <2> QED BY <2>1, <2>2 DEF Entry
  <1>2. \A k \in DOMAIN journal :
           /\ IsModel(journal[k])' <=> IsModel(journal[k])
           /\ IsModel(journal[k]) => AliasOf(journal[k])' = AliasOf(journal[k])
    BY <1>1 DEF IsModel, AliasOf
  <1>3. op.k \in DOMAIN journal /\ (op.pc \in AtPark => New(op.k))
    BY DEF FInv, Ids, New, IInv, Types
  <1>4. Ids'
    BY <1>1, <1>2 DEF FInv, Ids, InPark, AtPark, New
  <1>5. Fenced'
    <2>1. ASSUME NEW k \in DOMAIN journal, IsModel(journal[k]), journal'[k].phase \in Away
          PROVE  fences[journal[k].name] = journal[k].fence
      <3>1. CASE k = op.k
        <4>1. op.pc \in AtPark
          BY <1>1, <2>1, <3>1
        <4> QED BY <1>3, <2>1, <3>1, <4>1 DEF FInv, Fenced, Ids
      <3>2. CASE k # op.k
        BY <1>1, <2>1, <3>2 DEF FInv, Fenced
      <3> QED BY <3>1, <3>2
    <2> QED BY <1>1, <1>2, <2>1 DEF FInv, Fenced, AtPark, New
  <1>6. Accounted'
    BY <1>1, <1>2 DEF FInv, Accounted, Old, InPark, AtPark, Gone
  <1> QED BY <1>4, <1>5, <1>6

LEMMA CheckpointStep ==
    ASSUME IInv, FInv, Verify \/ UnloadName \/ Parked
    PROVE  FInv'
  <1>1. CASE Verify /\ ~CopyVerified(Here)
    BY <1>1, EndStep DEF Verify, Goto
  <1>2. ASSUME NEW phase \in Phases, NEW pc \in {"copy", "unload", "delete", "seal"},
               op.pc \in AtPark, Checkpoint(op.k, phase), UNCHANGED <<tags, server, fences>>,
               \/ op' = [op EXCEPT !.pc = pc]
               \/ op' = [op EXCEPT !.pc = pc, !.k = @ + 1]
        PROVE  FInv'
    <2>1. /\ op'.pc = pc /\ op'.base = op.base /\ op'.id = op.id /\ op'.k \in {op.k, op.k + 1}
      <3>1. op = [pc |-> op.pc, k |-> op.k, base |-> op.base, id |-> op.id, created |-> op.created, todo |-> op.todo]
        BY DEF IInv, Types
      <3> QED BY <1>2, <3>1
    <2>2. op.k \in 1..Len(journal) /\ op.base \in 0..(op.k - 1)
      BY <1>2 DEF IInv, Places, AtPark, AtEntry, FInv, Ids
    <2>3. op'.base \in 0..(op'.k - 1)
      BY <2>1, <2>2
    <2>4. Ids' /\ Fenced' /\ Accounted'
      BY <1>2, <2>1, <2>2, <2>3, CheckpointsKeep
    <2>5. Restoring'
      BY <2>1 DEF Restoring
    <2> QED BY <2>4, <2>5 DEF FInv
  <1>3. "copied" \in Phases /\ "unloaded" \in Phases /\ "parked" \in Phases
    BY DEF Phases
  <1>4. CASE Verify /\ CopyVerified(Here)
    BY <1>2, <1>3, <1>4 DEF Verify, Goto, AtPark
  <1>5. CASE UnloadName
    BY <1>2, <1>3, <1>5 DEF UnloadName, Goto, AtPark
  <1>6. CASE Parked
    BY <1>2, <1>3, <1>6 DEF Parked, AtPark
  <1> QED BY <1>1, <1>4, <1>5, <1>6

\* A park's new entries are planned, under its own id.
LEMMA PlannedEntries ==
    ASSUME IInv, NEW id \in FenceIds, NEW s \in Listings
    PROVE  /\ Plan(s, id) \in Seq(Entry)
           /\ \A k \in DOMAIN Plan(s, id) :
                LET e == Plan(s, id)[k] IN
                /\ e.phase = "planned" /\ e.cleanup = NoFence /\ e.fence \in {id, NoFence}
                /\ IsModel(e) => e.name \in Names /\ e.fence = id /\ tags[e.name] # NoDigest
  <1>1. PICK n \in 0..Len(Targets) : s \in [1..n -> DOMAIN Targets] /\ \A j \in DOMAIN s : s[j] \in Loadable
    BY DEF Listings
  <1> DEFINE model(x) == [name |-> x, digest |-> tags[x], phase |-> "planned", fence |-> id, cleanup |-> NoFence]
             stop == [name |-> Server, digest |-> NoDigest, phase |-> "planned", fence |-> NoFence, cleanup |-> NoFence]
             models == [k \in DOMAIN s |-> model(Targets[s[k]])]
             last == IF server /\ \A e \in Entries : IsModel(e) THEN <<stop>> ELSE <<>>
             fine(e) == /\ e \in Entry /\ e.phase = "planned" /\ e.cleanup = NoFence /\ e.fence \in {id, NoFence}
                        /\ IsModel(e) => e.name \in Names /\ e.fence = id /\ tags[e.name] # NoDigest
  <1>2. \A k \in 1..n : fine(models[k])
    <2> SUFFICES ASSUME NEW k \in 1..n
                 PROVE  fine(models[k])
      OBVIOUS
    <2>1. Targets[s[k]] \in Names /\ tags[Targets[s[k]]] \in Digests /\ tags[Targets[s[k]]] # NoDigest
      <3>1. s[k] \in Loadable
        BY <1>1
      <3>2. Targets[s[k]] \in Names /\ tags[Targets[s[k]]] # NoDigest /\ tags \in [Tags -> Digests \cup {NoDigest}]
        BY <3>1, ParkAssumption DEF Loadable, Names, IInv, Types
      <3> QED BY <3>2 DEF Tags
    <2>2. models[k] = model(Targets[s[k]])
      BY <1>1
    <2> QED BY <2>1, <2>2 DEF Entry, Phases
  <1>3. models \in Seq(Entry) /\ Len(models) = n
    <2>1. DOMAIN s = 1..n /\ n \in Nat
      BY <1>1, ParkAssumption
    <2>2. models \in [1..n -> Entry]
      BY <1>2, <2>1
    <2> HIDE DEF models
    <2> QED BY <2>1, <2>2
  <1>4. fine(stop)
    BY DEF Entry, Phases, IsModel
  <1>5. last \in Seq(Entry) /\ \A k \in DOMAIN last : last[k] = stop
    BY <1>4
  <1>6. Plan(s, id) = models \o last
    BY DEF Plan
  <1> HIDE DEF models, last, stop, model
  <1>7. Plan(s, id) \in Seq(Entry) /\ \A k \in DOMAIN Plan(s, id) : fine(Plan(s, id)[k])
    BY <1>2, <1>3, <1>4, <1>5, <1>6
  <1> QED BY <1>7

LEMMA PlanStep ==
    ASSUME IInv, FInv, NEW id \in FenceIds, ParkBegin(id)
    PROVE  FInv'
  <1>1. PICK s \in Listings :
          /\ op.pc = "idle" /\ Fresh(id) /\ journal' = journal \o Plan(s, id) /\ UNCHANGED <<tags, server, fences>>
          /\ op' = [NoOp EXCEPT !.pc = IF {e \in {Plan(s, id)[k] : k \in DOMAIN Plan(s, id)} : IsModel(e)} = {}
                                       THEN "copy" ELSE "fence",
                                !.k = Len(journal) + 1, !.base = Len(journal), !.id = id]
    BY DEF ParkBegin
  <1> DEFINE plan == Plan(s, id)
  <1>2. /\ op'.pc \in {"copy", "fence"} /\ op'.k = Len(journal) + 1 /\ op'.base = Len(journal) /\ op'.id = id
        /\ op'.pc = "copy" => \A k \in DOMAIN plan : ~IsModel(plan[k])
    BY <1>1 DEF NoOp
  <1>3. journal \in Seq(Entry) /\ Len(journal) \in Nat /\ id # NoFence
    BY ParkAssumption DEF IInv, Types
  <1>4. plan \in Seq(Entry)
    BY PlannedEntries
  <1>5. ASSUME NEW k \in DOMAIN journal
        PROVE  k \in DOMAIN journal' /\ journal'[k] = journal[k] /\ ~New(k)'
    BY <1>1, <1>2, <1>3, <1>4, <1>5 DEF New
  <1>6. ASSUME NEW k \in DOMAIN journal', k \notin DOMAIN journal
        PROVE  /\ New(k)' /\ journal'[k].phase = "planned" /\ journal'[k].cleanup = NoFence
               /\ journal'[k].fence \in {id, NoFence}
               /\ IsModel(journal'[k]) => journal'[k].fence = id /\ op'.pc = "fence"
    <2>1. k - Len(journal) \in DOMAIN plan /\ journal'[k] = plan[k - Len(journal)] /\ k > Len(journal)
      BY <1>1, <1>3, <1>4, <1>6
    <2> QED BY <1>2, <2>1, PlannedEntries DEF New
  <1> HIDE DEF plan
  <1>7. /\ \A k \in DOMAIN journal : id \notin {journal[k].fence, journal[k].cleanup}
        /\ \A t \in Tags : fences[t] # id
    BY <1>1 DEF Fresh, Entries
  <1>8. Ids'
    <2>1. ASSUME NEW k \in DOMAIN journal', IsModel(journal'[k])
          PROVE  /\ journal'[k].fence \in FenceIds
                 /\ \A j \in DOMAIN journal' : journal'[k].fence # journal'[j].cleanup
      <3>1. CASE k \in DOMAIN journal
        <4>1. journal'[k].fence = journal[k].fence /\ journal[k].fence \in FenceIds
          BY <1>5, <2>1, <3>1 DEF FInv, Ids, IsModel
        <4>2. ASSUME NEW j \in DOMAIN journal'
              PROVE  journal'[k].fence # journal'[j].cleanup
          BY <1>5, <1>6, <2>1, <3>1, <4>1, ParkAssumption DEF FInv, Ids, IsModel
        <4> QED BY <4>1, <4>2
      <3>2. CASE k \notin DOMAIN journal
        BY <1>3, <1>5, <1>6, <1>7, <2>1, <3>2
      <3> QED BY <3>1, <3>2
    <2>2. \A k \in DOMAIN journal' :
            IF New(k)' THEN /\ journal'[k].phase = "planned" /\ journal'[k].cleanup = NoFence
                            /\ journal'[k].fence \in {id, NoFence}
                            /\ IsModel(journal'[k]) => journal'[k].fence = id
                       ELSE id \notin {journal'[k].fence, journal'[k].cleanup}
      BY <1>5, <1>6, <1>7
    <2>3. fences' \in [Tags -> FenceIds \cup {Manual, NoFence}]
      BY <1>1 DEF FInv, Ids
    <2> QED BY <1>2, <1>3, <2>1, <2>2, <2>3 DEF Ids, IsModel, New
  <1>9. Fenced'
    <2>1. ASSUME NEW k \in DOMAIN journal', IsModel(journal'[k]), journal'[k].phase \in Away
          PROVE  fences'[journal'[k].name] = journal'[k].fence
      <3>1. k \in DOMAIN journal
        BY <1>6, <2>1 DEF Away
      <3> QED BY <1>1, <1>5, <2>1, <3>1 DEF FInv, Fenced, IsModel
    <2>2. ASSUME NEW k \in DOMAIN journal', IsModel(journal'[k]), New(k)'
          PROVE  op'.pc = "fence"
      BY <1>5, <1>6, <2>2
    <2> QED BY <1>2, <2>1, <2>2 DEF Fenced, AtPark, IsModel
  <1>10. Restoring'
    BY <1>2 DEF Restoring
  <1>11. ASSUME NEW k \in DOMAIN journal
         PROVE  Old(k)'
    BY <1>5 DEF Old
  <1>12. ASSUME NEW t \in Tags, fences'[t] \in FenceIds
         PROVE  \E k \in DOMAIN journal' : fences'[t] \in {journal'[k].fence, journal'[k].cleanup}
    BY <1>1, <1>5, <1>12 DEF FInv, Accounted
  <1>13. Accounted'
    <2>1. \A a \in Aliases : tags[a] # NoDigest =>
            \E k \in DOMAIN journal' : Old(k)' /\ journal'[k].name # Server /\ Alias[journal'[k].digest] = a
      BY <1>5, <1>11 DEF FInv, Accounted, Gone, IsModel, AliasOf
    <2>2. \A n \in Names : Installed[n] # NoDigest /\ tags[n] = NoDigest =>
            \E k \in DOMAIN journal' : Old(k)' /\ journal'[k].name = n
      BY <1>5, <1>11 DEF FInv, Accounted, Gone
    <2>3. ~server => \E k \in DOMAIN journal' : Old(k)' /\ journal'[k].name = Server
      BY <1>5, <1>11 DEF FInv, Accounted, IsModel
    <2>4. UNCHANGED <<tags, server, fences>> /\ op'.id = id /\ op'.pc \in {"fence", "copy"}
      BY <1>1, <1>2
    <2>5. \A a \in Aliases : ~Gone(a)' =>
            \E k \in DOMAIN journal' : Old(k)' /\ IsModel(journal'[k]) /\ AliasOf(journal'[k]) = a
      BY <2>1, <2>4 DEF Gone, IsModel, AliasOf
    <2>6. \A n \in Names : Installed[n] # NoDigest /\ Gone(n)' => \E k \in DOMAIN journal' : Old(k)' /\ journal'[k].name = n
      BY <2>2, <2>4 DEF Gone
    <2>7. ~server' => \E k \in DOMAIN journal' : Old(k)' /\ ~IsModel(journal'[k])
      BY <2>3, <2>4 DEF IsModel
    <2>8. \A t \in Tags : fences'[t] # op'.id
      BY <1>7, <2>4
    <2>9. op'.pc \notin {"aliasfence", "release"}
      BY <2>4
    <2> QED BY <1>12, <2>5, <2>6, <2>7, <2>8, <2>9 DEF Accounted
  <1> QED BY <1>8, <1>9, <1>10, <1>13 DEF FInv

\* An unpark gives its cleanup an id of its own, or goes on with the old one.
LEMMA UnparkIds ==
    ASSUME IInv, FInv, NEW id \in FenceIds, UnparkBegin(id)
    PROVE  FInv'
  <1>1. /\ op.pc = "idle" /\ UNCHANGED <<tags, server, fences>> /\ id # NoFence
        /\ Present \subseteq Aliases
    <2>1. JournalAliases \subseteq Aliases
      BY EntriesAre DEF JournalAliases, ModelEntries, Entries, IInv
    <2> QED BY <2>1, ParkAssumption DEF UnparkBegin, Present
  <1>2. ASSUME op'.pc \in {"restore", "aliasfence"}, op'.k = 1 \/ op'.pc = "aliasfence", op'.todo \subseteq Aliases,
               op'.pc = "restore" => op'.todo = {}, UNCHANGED journal,
               op'.pc = "aliasfence" => op'.id = id /\ ~op'.created /\ \E k \in DOMAIN journal : journal[k].cleanup = id
        PROVE  FInv'
    <2>1. Ids'
      BY <1>1, <1>2 DEF FInv, Ids, InPark, AtPark, IsModel
    <2>2. Fenced'
      BY <1>1, <1>2 DEF FInv, Fenced, AtPark, IsModel
    <2>3. Restoring'
      BY <1>2 DEF Restoring
    <2>4. Accounted'
      BY <1>1, <1>2 DEF FInv, Accounted, Old, InPark, Gone, IsModel, AliasOf
    <2> QED BY <2>1, <2>2, <2>3, <2>4 DEF FInv
  <1>3. CASE Present = {} /\ op' = [NoOp EXCEPT !.pc = "restore", !.k = 1] /\ UNCHANGED journal
    BY <1>2, <1>3 DEF NoOp
  <1>4. CASE id \in RecordedIds /\ op' = [NoOp EXCEPT !.pc = "aliasfence", !.id = id, !.todo = Present] /\ UNCHANGED journal
    BY <1>1, <1>2, <1>4 DEF NoOp, RecordedIds, Entries
  <1>5. CASE /\ RecordedIds = {} /\ Fresh(id) /\ journal' = [k \in DOMAIN journal |-> [journal[k] EXCEPT !.cleanup = id]]
             /\ op' = [NoOp EXCEPT !.pc = "aliasfence", !.id = id, !.created = TRUE, !.todo = Present]
    <2>1. /\ op'.pc = "aliasfence" /\ op'.id = id /\ op'.created /\ op'.todo = Present
      BY <1>5 DEF NoOp
    <2>2. /\ DOMAIN journal' = DOMAIN journal
          /\ \A k \in DOMAIN journal :
               /\ journal'[k].name = journal[k].name /\ journal'[k].digest = journal[k].digest
               /\ journal'[k].fence = journal[k].fence /\ journal'[k].cleanup = id
               /\ journal'[k].phase = journal[k].phase
      <3>1. \A k \in DOMAIN journal : journal[k] \in Entry
        BY DEF IInv, Types
      <3> QED BY <1>5, <3>1 DEF Entry
    <2>3. \A k \in DOMAIN journal : (IsModel(journal[k])' <=> IsModel(journal[k])) /\ AliasOf(journal[k])' = AliasOf(journal[k])
      BY <2>2 DEF IsModel, AliasOf
    <2>4. /\ \A k \in DOMAIN journal : id # journal[k].fence /\ journal[k].cleanup = NoFence
          /\ \A t \in Tags : fences[t] # id
      <3>1. \A k \in DOMAIN journal : journal[k] \in Entries
        BY DEF Entries
      <3>2. \A k \in DOMAIN journal : journal[k].cleanup = NoFence
        BY <1>5, <3>1 DEF RecordedIds
      <3> QED BY <1>5, <3>1, <3>2 DEF Fresh
    <2>5. \E k \in DOMAIN journal : TRUE
      BY DEF UnparkBegin, IInv, Types
    <2>6. Ids'
      BY <1>1, <2>1, <2>2, <2>3, <2>4, <2>5 DEF FInv, Ids, InPark, AtPark
    <2>7. Fenced'
      BY <1>1, <2>1, <2>2, <2>3 DEF FInv, Fenced, AtPark
    <2>8. Restoring'
      BY <2>1 DEF Restoring
    <2>9. ASSUME NEW t \in Tags, fences'[t] \in FenceIds
          PROVE  \E k \in DOMAIN journal' : fences'[t] \in {journal'[k].fence, journal'[k].cleanup}
      <3>1. PICK k \in DOMAIN journal : fences[t] \in {journal[k].fence, journal[k].cleanup}
        BY <1>1, <2>9 DEF FInv, Accounted
      <3>2. fences[t] = journal[k].fence
        BY <1>1, <2>4, <2>9, <3>1, ParkAssumption
      <3> QED BY <1>1, <2>2, <3>2
    <2>10. Accounted'
      BY <1>1, <2>1, <2>2, <2>3, <2>4, <2>9 DEF FInv, Accounted, Old, InPark, Gone
    <2> QED BY <2>6, <2>7, <2>8, <2>10 DEF FInv
  <1> QED BY <1>3, <1>4, <1>5 DEF UnparkBegin

\* The fences of a cleanup: set, refused, probed and released.
LEMMA AliasSteps ==
    ASSUME IInv, FInv, AliasFence \/ AliasFenceRefused \/ AliasProbed \/ AliasProbeRefused
    PROVE  FInv'
  <1>1. op = [pc |-> op.pc, k |-> op.k, base |-> op.base, id |-> op.id, created |-> op.created, todo |-> op.todo]
    BY DEF IInv, Types
  <1>5. NoFence \notin FenceIds
    BY ParkAssumption
  <1>6. fences \in [Tags -> FenceIds \cup {Manual, NoFence}]
    BY DEF FInv, Ids
  <1>2. /\ op.pc \in {"aliasfence", "aliasprobe"} /\ UNCHANGED <<tags, server, journal>>
        /\ op.id \in FenceIds /\ op.todo \subseteq Aliases
        /\ \E k \in DOMAIN journal : journal[k].cleanup = op.id
    BY DEF AliasFence, AliasFenceRefused, AliasProbed, AliasProbeRefused, FInv, Ids, Fenced
  <1>3. CASE AliasFence \/ AliasProbed
    <2>1. /\ op'.pc = "aliasprobe" \/ (op'.pc = "restore" /\ op'.k = 1)
          /\ op'.id = op.id /\ op'.created = op.created /\ op'.todo = op.todo
      <3>1. \/ op' = [op EXCEPT !.pc = "restore", !.k = 1]
            \/ op' = [op EXCEPT !.pc = "aliasprobe"]
        BY <1>3 DEF AliasFence, AliasProbed, Goto
      <3>2. CASE op' = [op EXCEPT !.pc = "restore", !.k = 1]
        BY <1>1, <3>2
      <3>3. CASE op' = [op EXCEPT !.pc = "aliasprobe"]
        <4>1. op'.pc = "aliasprobe" /\ op'.id = op.id /\ op'.created = op.created /\ op'.todo = op.todo
          BY <1>1, <3>3
        <4> QED BY <4>1
      <3> QED BY <3>1, <3>2, <3>3
    <2>2. /\ \A t \in Tags : fences'[t] = fences[t] \/ (fences[t] = NoFence /\ fences'[t] = op.id)
          /\ fences' \in [Tags -> FenceIds \cup {Manual, NoFence}]
          /\ \A a \in op.todo : fences'[a] = op.id
      <3>1. CASE AliasFence
        <4>1. /\ fences' = [t \in Tags |-> IF t \in Unfenced THEN op.id ELSE fences[t]]
              /\ \A t \in Unfenced : fences[t] = NoFence
          BY <3>1 DEF AliasFence, FenceAll, Fenceable
        <4>2. \A a \in op.todo : a \in Tags /\ (a \notin Unfenced => fences[a] = op.id)
          BY <1>2 DEF Unfenced, Tags
        <4> HIDE DEF Unfenced
        <4>3. fences' \in [Tags -> FenceIds \cup {Manual, NoFence}]
          BY <1>2, <1>6, <4>1
        <4>4. \A a \in op.todo : fences'[a] = op.id
          BY <4>1, <4>2
        <4> QED BY <4>1, <4>3, <4>4
      <3>2. CASE AliasProbed
        <4>1. op.pc = "aliasprobe" /\ fences' = fences
          BY <3>2 DEF AliasProbed
        <4>2. \A a \in op.todo : fences[a] = op.id
          BY <4>1 DEF FInv, Fenced
        <4> QED BY <1>6, <4>1, <4>2
      <3> QED BY <1>3, <3>1, <3>2
    <2>3. Ids'
      BY <1>2, <2>1, <2>2 DEF FInv, Ids, InPark, AtPark, IsModel
    <2>4. ASSUME NEW k \in DOMAIN journal, IsModel(journal[k]), journal[k].phase \in Away
          PROVE  fences'[journal[k].name] = journal[k].fence
      <3>1. journal[k].name \in Tags /\ fences[journal[k].name] = journal[k].fence /\ journal[k].fence \in FenceIds
        BY <2>4, EntriesAre DEF FInv, Fenced, Ids, IInv
      <3> QED BY <1>5, <2>2, <3>1
    <2>5. Fenced'
      BY <1>2, <2>1, <2>2, <2>4 DEF Fenced, AtPark, IsModel
    <2>6. Restoring'
      BY <2>1 DEF Restoring
    <2>7. ASSUME NEW t \in Tags, fences'[t] \in FenceIds
          PROVE  \E k \in DOMAIN journal : fences'[t] \in {journal[k].fence, journal[k].cleanup}
      <3>1. CASE fences'[t] = fences[t]
        BY <2>7, <3>1 DEF FInv, Accounted
      <3>2. CASE fences'[t] = op.id
        BY <1>2, <3>2
      <3> QED BY <2>2, <3>1, <3>2
    <2>8. Accounted'
      BY <1>2, <2>1, <2>7 DEF FInv, Accounted, Old, InPark, Gone, IsModel, AliasOf
    <2> QED BY <2>3, <2>5, <2>6, <2>8 DEF FInv
  <1>4. CASE AliasFenceRefused \/ AliasProbeRefused
    <2>1. \/ op'.pc = "idle"
          \/ op'.pc = "forget" /\ op.created /\ op'.created /\ op'.id = op.id
      <3>1. \/ op' = NoOp
            \/ op.created /\ op' = [op EXCEPT !.pc = "forget"]
        BY <1>4 DEF AliasFenceRefused, AliasProbeRefused, Goto
      <3>2. CASE op' = NoOp
        BY <3>2 DEF NoOp
      <3>3. CASE op.created /\ op' = [op EXCEPT !.pc = "forget"]
        BY <1>1, <3>3
      <3> QED BY <3>1, <3>2, <3>3
    <2>2. /\ \A t \in Tags : fences'[t] = fences[t] \/ (fences[t] = op.id /\ fences'[t] = NoFence)
          /\ fences' \in [Tags -> FenceIds \cup {Manual, NoFence}]
          /\ op.created => \A t \in Tags : fences'[t] # op.id
      <3>1. CASE AliasFenceRefused
        <4>1. op.pc = "aliasfence" /\ fences' = fences
          BY <3>1 DEF AliasFenceRefused
        <4>2. op.created => \A t \in Tags : fences[t] # op.id
          BY <4>1 DEF FInv, Accounted
        <4> QED BY <1>6, <4>1, <4>2
      <3>2. CASE AliasProbeRefused
        <4>1. fences' = [t \in Tags |-> IF fences[t] = op.id THEN NoFence ELSE fences[t]]
          BY <3>2 DEF AliasProbeRefused, Release
        <4>2. fences' \in [Tags -> FenceIds \cup {Manual, NoFence}]
          BY <1>6, <4>1
        <4> QED BY <1>2, <1>5, <4>1, <4>2
      <3> QED BY <1>4, <3>1, <3>2
    <2>3. Ids'
      BY <1>2, <2>1, <2>2 DEF FInv, Ids, InPark, AtPark, IsModel
    <2>4. ASSUME NEW k \in DOMAIN journal, IsModel(journal[k]), journal[k].phase \in Away
          PROVE  fences'[journal[k].name] = journal[k].fence
      <3>1. /\ journal[k].name \in Tags /\ fences[journal[k].name] = journal[k].fence
            /\ journal[k].fence # op.id
        BY <1>2, <2>4, EntriesAre DEF FInv, Fenced, Ids, IInv
      <3> QED BY <2>2, <3>1
    <2>5. Fenced'
      BY <1>2, <2>1, <2>4 DEF Fenced, AtPark, IsModel
    <2>6. Restoring'
      BY <2>1 DEF Restoring
    <2>7. Accounted'
      BY <1>2, <1>5, <2>1, <2>2 DEF FInv, Accounted, Old, InPark, Gone, IsModel, AliasOf
    <2> QED BY <2>3, <2>5, <2>6, <2>7 DEF FInv
  <1> QED BY <1>3, <1>4

\* An id that was just made up is forgotten with no fence under it.
LEMMA ForgetStep ==
    ASSUME IInv, FInv, Forget
    PROVE  FInv'
  <1>1. /\ op.pc = "forget" /\ op'.pc = "idle" /\ UNCHANGED <<tags, server, fences>>
        /\ op.id \in FenceIds /\ NoFence \notin FenceIds
        /\ \A k \in DOMAIN journal : journal[k].cleanup = op.id
    BY ParkAssumption DEF Forget, Goto, NoOp, FInv, Ids
  <1>2. /\ DOMAIN journal' = DOMAIN journal
        /\ \A k \in DOMAIN journal :
             /\ journal'[k].name = journal[k].name /\ journal'[k].digest = journal[k].digest
             /\ journal'[k].fence = journal[k].fence /\ journal'[k].cleanup = NoFence
             /\ journal'[k].phase = journal[k].phase
    <2>1. journal' = [k \in DOMAIN journal |-> [journal[k] EXCEPT !.cleanup = NoFence]]
      BY DEF Forget
    <2>2. \A k \in DOMAIN journal : journal[k] \in Entry
      BY DEF IInv, Types
    <2> QED BY <2>1, <2>2 DEF Entry
  <1>3. \A k \in DOMAIN journal : (IsModel(journal[k])' <=> IsModel(journal[k])) /\ AliasOf(journal[k])' = AliasOf(journal[k])
    BY <1>2 DEF IsModel, AliasOf
  <1>4. Ids'
    BY <1>1, <1>2, <1>3 DEF FInv, Ids, InPark, AtPark
  <1>5. Fenced'
    BY <1>1, <1>2, <1>3 DEF FInv, Fenced, AtPark
  <1>6. Restoring'
    BY <1>1 DEF Restoring
  <1>7. ASSUME NEW t \in Tags, fences[t] \in FenceIds
        PROVE  \E k \in DOMAIN journal' : fences[t] \in {journal'[k].fence, journal'[k].cleanup}
    <2>1. PICK k \in DOMAIN journal : fences[t] \in {journal[k].fence, journal[k].cleanup}
      BY <1>7 DEF FInv, Accounted
    <2>2. fences[t] = journal[k].fence
      BY <1>1, <2>1 DEF FInv, Accounted
    <2> QED BY <1>2, <2>2
  <1>8. Accounted'
    BY <1>1, <1>2, <1>3, <1>7 DEF FInv, Accounted, Old, InPark, Gone
  <1> QED BY <1>4, <1>5, <1>6, <1>8 DEF FInv

\* An unpark brings names and the server back, and takes none away.
LEMMA BringStep ==
    ASSUME IInv, FInv, StartServer \/ Restore
    PROVE  FInv'
  <1>1. /\ op.pc = "restore" /\ op'.pc = "restored" /\ op'.k = op.k /\ op'.id = op.id /\ op'.todo = op.todo
        /\ UNCHANGED <<fences, journal>>
    BY DEF StartServer, Restore, Goto, IInv, Types
  <1>2. op.k \in DOMAIN journal
    BY <1>1 DEF IInv, Types, Places, AtEntry
  <1>3. NoDigest \notin Digests /\ Names \cap Aliases = {} /\ Names \subseteq Tags
    BY ParkAssumption DEF Tags
  <1>4. tags \in [Tags -> Digests \cup {NoDigest}]
    BY DEF IInv, Types
  <1>5. /\ server => server'
        /\ \A a \in Aliases : tags'[a] = tags[a]
        /\ \A n \in Names : tags[n] # NoDigest => tags'[n] # NoDigest
        /\ ~IsModel(journal[op.k]) => server'
    <2>1. CASE StartServer
      BY <2>1 DEF StartServer, Here
    <2>2. CASE Restore
      <3>1. /\ server' = server /\ IsModel(journal[op.k])
            /\ tags' = [tags EXCEPT ![journal[op.k].name] = journal[op.k].digest]
        BY <2>2 DEF Restore, Here
      <3>2. journal[op.k].name \in Names /\ journal[op.k].digest \in Digests
        BY <1>2, <3>1, EntriesAre DEF IInv
      <3> QED BY <1>3, <1>4, <3>1, <3>2
    <2> QED BY <2>1, <2>2
  <1>6. Ids'
    BY <1>1 DEF FInv, Ids, InPark, AtPark, IsModel
  <1>7. Fenced'
    BY <1>1 DEF FInv, Fenced, AtPark, IsModel
  <1>8. ASSUME NEW j \in DOMAIN journal, Back(journal[j])
        PROVE  Back(journal[j])'
    <2>1. IsModel(journal[j]) => journal[j].name \in Names
      BY EntriesAre DEF IInv
    <2> QED BY <1>1, <1>5, <1>8, <2>1 DEF Back, IsModel
  <1>9. Restoring'
    <2>1. \A j \in 1..(op.k - 1) : j \in DOMAIN journal
      BY <1>2 DEF IInv, Types
    <2>2. \A j \in 1..(op.k - 1) : Back(journal[j])'
      BY <1>1, <1>8, <2>1 DEF FInv, Restoring
    <2> QED BY <1>1, <1>5, <2>2 DEF Restoring, Here, IsModel
  <1>10. Accounted'
    BY <1>1, <1>5 DEF FInv, Accounted, Old, InPark, Gone, IsModel, AliasOf
  <1> QED BY <1>6, <1>7, <1>9, <1>10 DEF FInv

\* What a checkpoint calls restored is there.
LEMMA RestoredStep ==
    ASSUME IInv, FInv, Restored
    PROVE  FInv'
  <1>1. /\ op.pc = "restored" /\ Checkpoint(op.k, "restored") /\ UNCHANGED <<tags, server, fences>>
        /\ op' = NextEntry /\ (IsModel(Here) => tags[Here.name] = Here.digest)
    BY DEF Restored
  <1>2. op.k \in 1..Len(journal) /\ DOMAIN journal = 1..Len(journal) /\ Len(journal) \in Nat
    BY <1>1 DEF IInv, Types, Places, AtEntry
  <1>3. /\ op'.base = op.base /\ op'.id = op.id /\ op'.todo = op.todo
        /\ \/ op.k < Len(journal) /\ op'.pc = "restore" /\ op'.k = op.k + 1
           \/ op.k = Len(journal) /\ op'.pc = "clean"
    <2>1. op = [pc |-> op.pc, k |-> op.k, base |-> op.base, id |-> op.id, created |-> op.created, todo |-> op.todo]
      BY DEF IInv, Types
    <2>2. CASE op.k < Len(journal)
      <3>1. op' = [op EXCEPT !.pc = "restore", !.k = @ + 1]
        BY <1>1, <2>2 DEF NextEntry
      <3> QED BY <2>1, <2>2, <3>1
    <2>3. CASE op.k = Len(journal)
      <3>1. op' = [op EXCEPT !.pc = "clean"]
        BY <1>1, <1>2, <2>3 DEF NextEntry
      <3> QED BY <2>1, <2>3, <3>1
    <2> QED BY <1>2, <2>2, <2>3
  <1>4. "restored" \in Phases /\ "restored" \notin Away
    BY DEF Phases, Away
  <1>5. Ids' /\ Fenced' /\ Accounted'
    BY <1>1, <1>2, <1>3, <1>4, CheckpointsKeep DEF AtPark
  <1>6. /\ DOMAIN journal' = DOMAIN journal
        /\ \A j \in DOMAIN journal :
             /\ journal'[j].name = journal[j].name
             /\ journal'[j].phase = IF j = op.k THEN "restored" ELSE journal[j].phase
    <2>1. journal' = [journal EXCEPT ![op.k].phase = "restored"]
      BY <1>1 DEF Checkpoint
    <2>2. \A j \in DOMAIN journal : journal[j] \in Entry
      BY DEF IInv, Types
    <2> QED BY <2>1, <2>2 DEF Entry
  <1>7. ASSUME NEW j \in 1..op.k
        PROVE  Back(journal[j])'
    <2>1. j \in DOMAIN journal
      BY <1>2
    <2>2. CASE j = op.k
      <3>1. IsModel(journal[j]) => tags[journal[j].name] # NoDigest
        BY <1>1, <2>1, <2>2, EntriesAre, ParkAssumption DEF Here, IInv
      <3>2. ~IsModel(journal[j]) => server
        BY <1>1, <2>2 DEF FInv, Restoring, Here
      <3> QED BY <1>1, <1>6, <2>1, <2>2, <3>1, <3>2 DEF Back, IsModel
    <2>3. CASE j # op.k
      <3>1. j \in 1..(op.k - 1)
        BY <1>2, <2>3
      <3>2. Back(journal[j])
        BY <1>1, <3>1 DEF FInv, Restoring
      <3> QED BY <1>1, <1>6, <2>1, <2>3, <3>2 DEF Back, IsModel
    <2> QED BY <2>2, <2>3
  <1>8. Restoring'
    <2>1. CASE op'.pc = "restore" /\ op'.k = op.k + 1
      <3>1. \A j \in 1..(op'.k - 1) : j \in 1..op.k
        BY <1>2, <2>1
      <3> QED BY <1>7, <2>1, <3>1 DEF Restoring
    <2>2. CASE op.k = Len(journal) /\ op'.pc = "clean"
      <3>1. \A j \in DOMAIN journal' : j \in 1..op.k
        BY <1>2, <1>6, <2>2
      <3> QED BY <1>7, <2>2, <3>1 DEF Restoring
    <2> QED BY <1>3, <2>1, <2>2
  <1> QED BY <1>5, <1>8 DEF FInv

\* When every alias is gone the ids to release are those of all fences.
LEMMA CleanedStep ==
    ASSUME IInv, FInv, Cleaned
    PROVE  FInv'
  <1>1. /\ op.pc = "clean" /\ Present = {} /\ UNCHANGED <<tags, server, fences, journal>>
        /\ op'.pc = "release" /\ op'.todo = HeldIds
    BY DEF Cleaned, IInv, Types
  <1>2. Ids'
    BY <1>1 DEF FInv, Ids, InPark, AtPark, IsModel
  <1>3. Fenced'
    BY <1>1 DEF FInv, Fenced, AtPark, IsModel
  <1>4. Restoring'
    BY <1>1 DEF FInv, Restoring, Back, IsModel
  <1>5. ASSUME NEW a \in Aliases
        PROVE  Gone(a)
    <2>1. SUFFICES ASSUME ~Gone(a)
                   PROVE  FALSE
      OBVIOUS
    <2>2. PICK k \in DOMAIN journal : IsModel(journal[k]) /\ AliasOf(journal[k]) = a
      BY <2>1 DEF FInv, Accounted
    <2>3. a \in JournalAliases
      BY <2>2 DEF JournalAliases, ModelEntries, Entries
    <2> QED BY <1>1, <2>1, <2>3 DEF Present, Gone
  <1>6. ASSUME NEW t \in Tags, fences[t] \in FenceIds
        PROVE  fences[t] \in HeldIds
    <2>1. PICK k \in DOMAIN journal : fences[t] \in {journal[k].fence, journal[k].cleanup}
      BY <1>6 DEF FInv, Accounted
    <2>2. journal[k] \in Entries
      BY DEF Entries
    <2>3. fences[t] \in UNION {{e.fence, e.cleanup} : e \in Entries}
      BY <2>1, <2>2
    <2>4. fences[t] # NoFence
      BY <1>6, ParkAssumption
    <2> QED BY <2>3, <2>4 DEF HeldIds
  <1>7. Accounted'
    <2>1. \A a \in Aliases : Gone(a)'
      BY <1>1, <1>5 DEF Gone
    <2>2. \A t \in Tags : fences'[t] \in FenceIds => fences'[t] \in op'.todo
      BY <1>1, <1>6
    <2> QED BY <1>1, <2>1, <2>2 DEF FInv, Accounted, Old, InPark, Gone, IsModel, AliasOf
  <1> QED BY <1>2, <1>3, <1>4, <1>7 DEF FInv

\* An alias goes: of a cleanup, or one that a user removes.
LEMMA AliasGoes ==
    ASSUME IInv, FInv, NEW a \in Aliases, CleanAlias(a) \/ RemoveAlias(a)
    PROVE  FInv'
  <1>1. /\ op.pc \in {"clean", "idle"} /\ UNCHANGED <<server, fences, journal, op>>
        /\ tags' = [tags EXCEPT ![a] = NoDigest]
    BY DEF CleanAlias, RemoveAlias
  <1>2. /\ \A n \in Names : tags'[n] = tags[n]
        /\ \A b \in Aliases : tags'[b] # NoDigest => tags[b] # NoDigest
    BY <1>1, ParkAssumption DEF IInv, Types, Tags
  <1>3. Ids'
    BY <1>1 DEF FInv, Ids, InPark, AtPark, IsModel, New
  <1>4. Fenced'
    BY <1>1 DEF FInv, Fenced, AtPark, IsModel, New
  <1>5. ASSUME NEW j \in DOMAIN journal, Back(journal[j])
        PROVE  Back(journal[j])'
    <2>1. IsModel(journal[j]) => journal[j].name \in Names
      BY EntriesAre DEF IInv
    <2> QED BY <1>1, <1>2, <1>5, <2>1 DEF Back, IsModel
  <1>6. Restoring'
    BY <1>1, <1>5 DEF FInv, Restoring
  <1>7. Accounted'
    BY <1>1, <1>2 DEF FInv, Accounted, Old, InPark, Gone, IsModel, AliasOf
  <1> QED BY <1>3, <1>4, <1>6, <1>7 DEF FInv

\* A fence is released when everything is back.
LEMMA ReleaseStep ==
    ASSUME IInv, FInv, NEW id \in FenceIds, ReleaseFence(id)
    PROVE  FInv'
  <1>1. /\ op.pc = "release" /\ UNCHANGED <<tags, server, journal>>
        /\ op'.pc = "release" /\ op'.todo = op.todo \ {id}
        /\ fences' = [t \in Tags |-> IF fences[t] = id THEN NoFence ELSE fences[t]]
    BY DEF ReleaseFence, Release, IInv, Types
  <1>2. NoFence \notin FenceIds
    BY ParkAssumption
  <1>3. \A k \in DOMAIN journal : journal[k].phase \notin Away
    BY <1>1 DEF FInv, Restoring, Back, Away
  <1>4. Ids'
    <2>1. fences' \in [Tags -> FenceIds \cup {Manual, NoFence}]
      BY <1>1 DEF FInv, Ids
    <2> QED BY <1>1, <2>1 DEF FInv, Ids, InPark, AtPark, IsModel
  <1>5. Fenced'
    BY <1>1, <1>3 DEF Fenced, AtPark, IsModel
  <1>6. Restoring'
    BY <1>1 DEF FInv, Restoring, Back, IsModel
  <1>7. \A t \in Tags : fences'[t] \in FenceIds => fences'[t] = fences[t] /\ fences[t] # id
    BY <1>1, <1>2
  <1>8. Accounted'
    BY <1>1, <1>7 DEF FInv, Accounted, Old, InPark, Gone, IsModel, AliasOf
  <1> QED BY <1>4, <1>5, <1>6, <1>8 DEF FInv

\* The journal goes when there is nothing left that it accounts for.
LEMMA RemoveStep ==
    ASSUME IInv, FInv, RemoveJournal
    PROVE  FInv'
  <1>1. /\ op.pc = "release" /\ op.todo = {} /\ UNCHANGED <<tags, server, fences>>
        /\ op'.pc = "close" /\ journal' = <<>> /\ DOMAIN journal' = {}
    BY DEF RemoveJournal, Goto, IInv, Types
  <1>2. \A k \in DOMAIN journal : Back(journal[k])
    BY <1>1 DEF FInv, Restoring
  <1>3. \A a \in Aliases : Gone(a)
    BY <1>1 DEF FInv, Accounted
  <1>4. ASSUME NEW n \in Names, Installed[n] # NoDigest, Gone(n)
        PROVE  FALSE
    <2>1. PICK k \in DOMAIN journal : journal[k].name = n
      BY <1>4 DEF FInv, Accounted
    <2>2. IsModel(journal[k])
      BY <2>1, EntriesAre DEF IInv
    <2> QED BY <1>2, <1>4, <2>1, <2>2 DEF Back, Gone
  <1>5. server
    BY <1>2 DEF FInv, Accounted, Back
  <1>6. \A t \in Tags : fences[t] \notin FenceIds
    BY <1>1 DEF FInv, Accounted
  <1>7. Ids'
    BY <1>1 DEF FInv, Ids, InPark, AtPark
  <1>8. Fenced' /\ Restoring'
    BY <1>1 DEF Fenced, Restoring, AtPark
  <1>9. Accounted'
    BY <1>1, <1>3, <1>4, <1>5, <1>6 DEF Accounted, Gone
  <1> QED BY <1>7, <1>8, <1>9 DEF FInv

\* A pull puts a digest under a name.
LEMMA PullStep ==
    ASSUME IInv, FInv, NEW n \in Names, NEW d \in Digests, Pull(n, d)
    PROVE  FInv'
  <1>1. UNCHANGED <<server, fences, journal, op>> /\ tags' = [tags EXCEPT ![n] = d] /\ d # NoDigest
    BY ParkAssumption DEF Pull
  <1>2. /\ \A m \in Names : tags[m] # NoDigest => tags'[m] # NoDigest
        /\ \A a \in Aliases : tags'[a] = tags[a]
    BY <1>1, ParkAssumption DEF IInv, Types, Tags
  <1>3. Ids'
    BY <1>1 DEF FInv, Ids, InPark, AtPark, IsModel, New
  <1>4. Fenced'
    BY <1>1 DEF FInv, Fenced, AtPark, IsModel, New
  <1>5. ASSUME NEW j \in DOMAIN journal, Back(journal[j])
        PROVE  Back(journal[j])'
    <2>1. IsModel(journal[j]) => journal[j].name \in Names
      BY EntriesAre DEF IInv
    <2> QED BY <1>1, <1>2, <1>5, <2>1 DEF Back, IsModel
  <1>6. Restoring'
    <2>1. CASE op.pc \in {"restore", "restored"}
      <3>1. \A j \in 1..(op.k - 1) : j \in DOMAIN journal
        BY <2>1 DEF IInv, Types, Places, AtEntry
      <3> QED BY <1>1, <1>5, <2>1, <3>1 DEF FInv, Restoring, Here, IsModel
    <2>2. CASE op.pc \notin {"restore", "restored"}
      BY <1>1, <1>5, <2>2 DEF FInv, Restoring
    <2> QED BY <2>1, <2>2
  <1>7. Accounted'
    BY <1>1, <1>2 DEF FInv, Accounted, Old, New, InPark, Gone, IsModel, AliasOf
  <1> QED BY <1>3, <1>4, <1>6, <1>7 DEF FInv

\* Fences by hand leave those of a park alone.
LEMMA ManualSteps ==
    ASSUME IInv, FInv, ManualUnfence \/ \E n \in Names : ManualFence(n)
    PROVE  FInv'
  <1>1. UNCHANGED <<tags, server, journal, op>>
    BY DEF ManualUnfence, ManualFence
  <1>2. /\ NoFence \notin FenceIds /\ Manual \notin FenceIds /\ Names \cap Aliases = {}
        /\ Aliases \subseteq Tags
    BY ParkAssumption DEF Tags
  <1>3. fences \in [Tags -> FenceIds \cup {Manual, NoFence}]
    BY DEF FInv, Ids
  <1>4. /\ fences' \in [Tags -> FenceIds \cup {Manual, NoFence}]
        /\ \A t \in Tags : fences'[t] \in FenceIds <=> fences[t] \in FenceIds
        /\ \A t \in Tags : fences[t] \in FenceIds => fences'[t] = fences[t]
    <2>1. CASE ManualUnfence
      <3>1. fences' = [t \in Tags |-> IF fences[t] = Manual THEN NoFence ELSE fences[t]]
        BY <2>1 DEF ManualUnfence, Release
      <3> QED BY <1>2, <1>3, <3>1
    <2>2. ASSUME NEW n \in Names, ManualFence(n)
          PROVE  /\ fences' \in [Tags -> FenceIds \cup {Manual, NoFence}]
                 /\ \A t \in Tags : fences'[t] \in FenceIds <=> fences[t] \in FenceIds
                 /\ \A t \in Tags : fences[t] \in FenceIds => fences'[t] = fences[t]
      <3>1. fences[n] = NoFence /\ fences' = [fences EXCEPT ![n] = Manual]
        BY <2>2 DEF ManualFence
      <3> QED BY <1>2, <1>3, <3>1
    <2> QED BY <2>1, <2>2
  <1>5. Ids'
    BY <1>1, <1>4 DEF FInv, Ids, InPark, AtPark, IsModel, New
  <1>6. ASSUME NEW k \in DOMAIN journal, IsModel(journal[k]), fences[journal[k].name] \in FenceIds
        PROVE  fences'[journal[k].name] = fences[journal[k].name]
    BY <1>4, <1>6, EntriesAre DEF IInv
  <1>7. Fenced'
    <2>1. ASSUME NEW k \in DOMAIN journal, IsModel(journal[k]), journal[k].phase \in Away
          PROVE  fences'[journal[k].name] = journal[k].fence
      BY <1>6, <2>1 DEF FInv, Ids, Fenced
    <2>2. ASSUME op.pc \in {"probe"} \cup AtPark, NEW k \in DOMAIN journal, New(k), IsModel(journal[k])
          PROVE  fences'[journal[k].name] = op.id
      BY <1>6, <2>2 DEF FInv, Ids, Fenced, InPark
    <2>3. op.pc \in {"aliasprobe", "restore", "restored", "clean"} => \A a \in op.todo : fences'[a] = op.id
      <3>1. SUFFICES ASSUME op.pc \in {"aliasprobe", "restore", "restored", "clean"}, NEW a \in op.todo
                     PROVE  fences'[a] = op.id
        OBVIOUS
      <3>2. a \in Aliases /\ a \in Tags /\ fences[a] = op.id /\ op.id \in FenceIds \cup {NoFence}
        BY <1>2, <3>1 DEF FInv, Fenced, IInv, Types
      <3>3. a \notin Names
        BY <1>2, <3>2
      <3>4. CASE op.id \in FenceIds
        BY <1>4, <3>2, <3>4
      <3>5. CASE op.id = NoFence
        BY <1>1, <1>2, <1>3, <3>2, <3>3, <3>5, ParkAssumption DEF ManualUnfence, ManualFence, Release
      <3> QED BY <3>2, <3>4, <3>5
    <2> QED BY <1>1, <2>1, <2>2, <2>3 DEF FInv, Fenced, AtPark, IsModel, New
  <1>8. Restoring'
    BY <1>1 DEF FInv, Restoring, Back, Here, IsModel
  <1>9. Accounted'
    <2>1. ASSUME NEW t \in Tags, fences'[t] \in FenceIds
          PROVE  fences[t] \in FenceIds /\ fences'[t] = fences[t]
      BY <1>4, <2>1
    <2>2. op.pc \in {"fence", "undo", "forget"} => \A t \in Tags : fences'[t] # op.id
      BY <1>4 DEF FInv, Ids, Accounted, InPark
    <2>3. op.pc = "aliasfence" /\ op.created => \A t \in Tags : fences'[t] # op.id
      BY <1>4 DEF FInv, Ids, Accounted
    <2>4. op.pc = "release" => \A t \in Tags : fences'[t] \in FenceIds => fences'[t] \in op.todo
      BY <2>1 DEF FInv, Accounted
    <2> QED BY <1>1, <2>1, <2>2, <2>3, <2>4 DEF FInv, Accounted, Old, New, InPark, Gone, IsModel, AliasOf
  <1> QED BY <1>5, <1>7, <1>8, <1>9 DEF FInv

LEMMA FencesNext == IInv /\ FInv /\ [Next]_vars => FInv'
  <1> SUFFICES ASSUME IInv, FInv, [Next]_vars
               PROVE  FInv'
    OBVIOUS
  <1>1. CASE UNCHANGED vars
    BY <1>1 DEF vars, FInv, Ids, Fenced, Restoring, Accounted, AtPark, InPark, New, Old, Back, Gone, Here, IsModel, AliasOf
  <1>2. CASE Next
    <2>1. ASSUME NEW id \in FenceIds, ParkBegin(id) \/ UnparkBegin(id)
          PROVE  FInv'
      BY <2>1, PlanStep, UnparkIds
    <2>2. CASE Seal \/ RestoreRaises \/ CloseWindow \/ Abort
      BY <2>2, EndStep DEF Seal, RestoreRaises, CloseWindow, Abort, Goto
    <2>3. CASE ParkStep \/ ParkProbeRaises
      BY <2>2, <2>3, SetFences, RefuseFences, UndoStep, TakeStep, CheckpointStep DEF ParkStep
    <2>4. CASE UnparkStep
      <3>1. ASSUME NEW a \in Aliases, CleanAlias(a)
            PROVE  FInv'
        BY <3>1, AliasGoes
      <3>2. ASSUME NEW id \in FenceIds, ReleaseFence(id)
            PROVE  FInv'
        BY <3>2, ReleaseStep
      <3> QED BY <2>2, <2>4, <3>1, <3>2, AliasSteps, ForgetStep, BringStep, RestoredStep, CleanedStep, RemoveStep DEF UnparkStep
    <2>5. ASSUME NEW n \in Names, NEW d \in Digests, Pull(n, d)
          PROVE  FInv'
      BY <2>5, PullStep
    <2>6. ASSUME NEW a \in Aliases, RemoveAlias(a)
          PROVE  FInv'
      BY <2>6, AliasGoes
    <2>7. CASE ManualUnfence \/ \E n \in Names : ManualFence(n)
      BY <2>7, ManualSteps
    <2> QED BY <1>2, <2>1, <2>2, <2>3, <2>4, <2>5, <2>6, <2>7 DEF Next
  <1> QED BY <1>1, <1>2

\* A step that reopens admission to a model whose entry is past "planned" is
\* the release of its fence after everything is back.
LEMMA AdmitsStep ==
    ASSUME IInv, FInv, [Next]_vars, NEW e \in ModelEntries, e.phase # "planned",
           fences[e.name] = e.fence, fences'[e.name] = NoFence
    PROVE  e.phase = "restored" /\ tags[e.name] # NoDigest
  <1>1. PICK k \in DOMAIN journal : journal[k] = e /\ IsModel(journal[k])
    BY DEF ModelEntries, Entries
  <1>2. /\ e.fence \in FenceIds /\ e.fence # NoFence /\ e.fence # Manual /\ e.name \in Tags
        /\ \A j \in DOMAIN journal : e.fence # journal[j].cleanup
    BY <1>1, EntriesAre, ParkAssumption DEF FInv, Ids, IInv
  <1>3. fences' # fences
    BY <1>2
  <1>4. \/ ParkFence \/ AliasFence \/ ParkProbeRefused \/ ParkProbeRaises \/ AliasProbeRefused
        \/ ManualUnfence
        \/ \E n \in Names : ManualFence(n)
        \/ \E id \in FenceIds : ReleaseFence(id)
    <2>1. ASSUME NEW id \in FenceIds, ParkBegin(id) \/ UnparkBegin(id)
          PROVE  FALSE
      BY <1>3, <2>1 DEF ParkBegin, UnparkBegin
    <2>2. CASE ParkStep
      BY <1>3, <2>2 DEF ParkStep, ParkFenceRefused, ParkProbed, ParkUndo, StopServer, Copy, Verify, UnloadName, DeleteName,
                        Parked, Seal
    <2>3. CASE UnparkStep
      BY <1>3, <2>3 DEF UnparkStep, AliasFenceRefused, AliasProbed, Forget, StartServer, Restore, Restored, RestoreRaises,
                        Cleaned, RemoveJournal, CloseWindow, CleanAlias
    <2>4. ~Abort /\ ~UNCHANGED vars
      BY <1>3 DEF Abort, vars
    <2>5. \A n \in Names, d \in Digests : ~Pull(n, d)
      BY <1>3 DEF Pull
    <2>6. \A a \in Aliases : ~RemoveAlias(a)
      BY <1>3 DEF RemoveAlias
    <2> QED BY <2>1, <2>2, <2>3, <2>4, <2>5, <2>6 DEF Next
  <1>5. CASE ParkFence \/ AliasFence
    <2>1. op.id # NoFence
      BY <1>5, ParkAssumption DEF ParkFence, AliasFence, FInv, Ids, InPark
    <2>2. PICK ts : fences' = [t \in Tags |-> IF t \in ts THEN op.id ELSE fences[t]]
      BY <1>5 DEF ParkFence, AliasFence, FenceAll
    <2> QED BY <1>2, <2>1, <2>2
  <1>6. CASE ParkProbeRefused \/ ParkProbeRaises
    <2>1. op.pc = "probe" /\ fences' = [t \in Tags |-> IF fences[t] = op.id THEN NoFence ELSE fences[t]]
      BY <1>6 DEF ParkProbeRefused, ParkProbeRaises, Release
    <2>2. e.fence = op.id
      BY <1>2, <2>1
    <2>3. New(k) /\ e.phase = "planned"
      BY <1>1, <2>1, <2>2 DEF FInv, Ids, InPark
    <2> QED BY <2>3
  <1>7. CASE AliasProbeRefused
    <2>1. op.pc = "aliasprobe" /\ fences' = [t \in Tags |-> IF fences[t] = op.id THEN NoFence ELSE fences[t]]
      BY <1>7 DEF AliasProbeRefused, Release
    <2>2. \E j \in DOMAIN journal : journal[j].cleanup = op.id
      BY <2>1 DEF FInv, Ids
    <2> QED BY <1>2, <2>1, <2>2
  <1>8. CASE ManualUnfence
    <2>1. fences' = [t \in Tags |-> IF fences[t] = Manual THEN NoFence ELSE fences[t]]
      BY <1>8 DEF ManualUnfence, Release
    <2> QED BY <1>2, <2>1
  <1>9. ASSUME NEW n \in Names, ManualFence(n)
        PROVE  FALSE
    <2>1. fences[n] = NoFence /\ fences' = [fences EXCEPT ![n] = Manual] /\ DOMAIN fences = Tags
      BY <1>9 DEF ManualFence, FInv, Ids
    <2> QED BY <1>2, <2>1
  <1>10. ASSUME NEW id \in FenceIds, ReleaseFence(id)
         PROVE  e.phase = "restored" /\ tags[e.name] # NoDigest
    <2>1. Back(e)
      BY <1>1, <1>10 DEF ReleaseFence, FInv, Restoring
    <2> QED BY <1>1, <2>1 DEF Back
  <1> QED BY <1>4, <1>5, <1>6, <1>7, <1>8, <1>9, <1>10

\* Fence ids, fences, journal and operation account for every name that is away
\* or about to be.
THEOREM FencesInvariant == Spec => []FInv
  <1>1. IInv /\ FInv /\ [Next]_vars => FInv'
    BY FencesNext
  <1> QED BY <1>1, FencedInit, Invariant, PTL DEF Spec

\* A name is fenced from before its weights leave until it is verified to be
\* back, a parked copy is fenced when it is deleted, and only unpark, after
\* every entry is restored, reopens admission to a model it has brought back.
THEOREM FencesStay == Spec => FencesCover
  <1>1. FInv => FencedWhileAway /\ DeletesFencedCopies
    BY DEF FInv, Fenced, FencedWhileAway, DeletesFencedCopies, ModelEntries, Entries, Away
  <1>2. IInv /\ FInv /\ [Next]_vars =>
          [\A e \in ModelEntries :
             /\ e.phase # "planned"
             /\ fences[e.name] = e.fence /\ fences'[e.name] = NoFence
             => e.phase = "restored" /\ tags[e.name] # NoDigest]_vars
    BY AdmitsStep
  <1> QED BY <1>1, <1>2, Invariant, FencesInvariant, PTL DEF Spec, FencesCover, AdmitsRestored

\* Wherever operations were cut off, the journal names every parked copy when
\* none runs; and when the journal is gone nothing is left of a park.
THEOREM LeftClean == Spec => []CleanWhenDone
  <1>1. ASSUME IInv, FInv, op.pc = "idle"
        PROVE  CleanWhenDone
    <2>1. ASSUME NEW a \in Aliases, tags[a] # NoDigest
          PROVE  a \in JournalAliases
      <3>1. PICK k \in DOMAIN journal : IsModel(journal[k]) /\ AliasOf(journal[k]) = a
        BY <1>1, <2>1 DEF FInv, Accounted, Gone
      <3> QED BY <3>1 DEF JournalAliases, ModelEntries, Entries
    <2>2. ASSUME journal = <<>>
          PROVE  /\ \A n \in Names : Installed[n] # NoDigest => tags[n] # NoDigest
                 /\ \A t \in Tags : fences[t] \in {NoFence, Manual}
                 /\ server
      <3>1. DOMAIN journal = {}
        BY <2>2
      <3> QED BY <1>1, <3>1 DEF FInv, Ids, Accounted, Gone
    <2> QED BY <2>1, <2>2 DEF CleanWhenDone
  <1>2. IInv /\ FInv => CleanWhenDone
    BY <1>1 DEF CleanWhenDone
  <1> QED BY <1>2, Invariant, FencesInvariant, PTL
=============================================================================
