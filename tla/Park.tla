-------------------------------- MODULE Park --------------------------------
(***************************************************************************)
(* `localbench park` and `unpark` (localbench/park.py): move the names of  *)
(* the smol models out of the way during a measurement and bring them back *)
(* afterwards, through the journal runs/PARKED.json, the admission fences  *)
(* of the gateway and Ollama's tag operations.                             *)
(*                                                                         *)
(* A park or unpark may raise or be killed between any two of its effects: *)
(* Abort.  One operation runs at a time, under PARKED.json.lock.           *)
(*                                                                         *)
(* Abstractions.                                                           *)
(*  - A journal write is atomic (_write_state: temporary file, fsync,      *)
(*    rename); an empty journal stands for a missing file as well.         *)
(*  - A fence id is fresh if the journal and the store do not hold it.     *)
(*  - The probes of safe_to_unload pass or refuse at any time.             *)
(*  - A model's name is in Targets if some OMP profile's smol role or      *)
(*    OMP's resolver can reach it (smol_targets, fallbacks).               *)
(***************************************************************************)
EXTENDS Naturals, Sequences

CONSTANTS
    Targets,      \* what a park takes away if it is installed, in order
    Digests,
    Alias,        \* the parked name of each digest
    Installed,    \* the digest each target has at the start, or NoDigest
    Server,       \* the entry of the dedicated smol server
    FenceIds, Manual, NoFence, NoDigest,
    Helped,       \* TRUE: a user removes aliases that unpark will not touch
    MaxAborts,    \* bound on operations that raise or are killed
    MaxPulls      \* bound on `ollama pull` of a target

Names == {Targets[k] : k \in DOMAIN Targets}
Aliases == {Alias[d] : d \in Digests}
Tags == Names \cup Aliases

ASSUME ParkAssumption ==
    /\ Targets \in Seq(Names)
    /\ NoDigest \notin Digests
    /\ Installed \in [Names -> Digests \cup {NoDigest}]
    /\ Names \cap Aliases = {}
    /\ Server \notin Tags
    /\ Manual \notin FenceIds
    /\ NoFence \notin FenceIds \cup {Manual}
    /\ Helped \in BOOLEAN
    /\ MaxAborts \in Nat
    /\ MaxPulls \in Nat

VARIABLES
    tags,         \* Ollama's tags and their digests
    server,       \* the smol server is up
    fences,       \* the gateway's table park_fences
    journal,      \* PARKED.json
    window,       \* park-history.jsonl ends in an open window
    op,           \* the operation that holds the lock
    aborts, pulls

vars == <<tags, server, fences, journal, window, op, aborts, pulls>>
-----------------------------------------------------------------------------
Phases == {"planned", "copied", "unloaded", "parked", "restored"}
Entry == [name: Names \cup {Server}, digest: Digests \cup {NoDigest},
          phase: Phases, fence: FenceIds \cup {NoFence},
          cleanup: FenceIds \cup {NoFence}]

\* k is the entry at hand, base the length of the journal before the park, id
\* the fence id of the operation, created whether unpark has just made it up,
\* todo the aliases to clean or the fence ids to release.
Op == [pc: {"idle", "fence", "probe", "undo", "copy", "verify", "unload",
            "delete", "parked", "seal", "aliasfence", "aliasprobe", "forget",
            "restore", "restored", "clean", "release", "close"},
       k: Nat, base: Nat, id: FenceIds \cup {NoFence}, created: BOOLEAN,
       todo: SUBSET (Aliases \cup FenceIds)]
NoOp == [pc |-> "idle", k |-> 0, base |-> 0, id |-> NoFence,
         created |-> FALSE, todo |-> {}]

TypeOK ==
    /\ tags \in [Tags -> Digests \cup {NoDigest}]
    /\ server \in BOOLEAN
    /\ fences \in [Tags -> FenceIds \cup {Manual, NoFence}]
    /\ journal \in Seq(Entry)
    /\ window \in BOOLEAN
    /\ op \in Op
    /\ aborts \in 0..MaxAborts
    /\ pulls \in 0..MaxPulls

Entries == {journal[k] : k \in DOMAIN journal}
IsModel(e) == e.name # Server
ModelEntries == {e \in Entries : IsModel(e)}
AliasOf(e) == Alias[e.digest]
RecordedIds == {e.cleanup : e \in Entries} \ {NoFence}

Fresh(id) ==
    /\ \A e \in Entries : id \notin {e.fence, e.cleanup}
    /\ \A t \in Tags : fences[t] # id

Init ==
    /\ tags = [t \in Tags |-> IF t \in Names THEN Installed[t] ELSE NoDigest]
    /\ server = TRUE
    /\ fences = [t \in Tags |-> NoFence]
    /\ journal = <<>>
    /\ window = FALSE
    /\ op = NoOp
    /\ aborts = 0
    /\ pulls = 0

\* The operation goes on at pc; with "idle" it ends and frees the lock.
Goto(pc) == op' = IF pc = "idle" THEN NoOp ELSE [op EXCEPT !.pc = pc]
Checkpoint(k, phase) == journal' = [journal EXCEPT ![k].phase = phase]
-----------------------------------------------------------------------------
(* park                                                                    *)

\* The targets that are installed under their own name, in order.
Loadable == {k \in DOMAIN Targets : tags[Targets[k]] # NoDigest}
Listings ==
    {s \in UNION {[1..n -> DOMAIN Targets] : n \in 0..Len(Targets)} :
       /\ {s[j] : j \in DOMAIN s} = Loadable
       /\ \A i, j \in DOMAIN s : i < j => s[i] < s[j]}

\* plan_park: an entry for each of them, then the server if it is up and not
\* journaled.
Plan(s, id) ==
    LET model(n) == [name |-> n, digest |-> tags[n], phase |-> "planned",
                     fence |-> id, cleanup |-> NoFence]
        stop == [name |-> Server, digest |-> NoDigest, phase |-> "planned",
                 fence |-> NoFence, cleanup |-> NoFence]
    IN [k \in DOMAIN s |-> model(Targets[s[k]])]
       \o IF server /\ \A e \in Entries : IsModel(e) THEN <<stop>> ELSE <<>>

\* safety_refusal: an alias that exists must be the journal's, and no alias
\* may stand for two digests.
AliasesAgree(entries) ==
    /\ \A e \in entries \ ModelEntries :
         tags[AliasOf(e)] # NoDigest =>
           /\ \E j \in ModelEntries : AliasOf(j) = AliasOf(e)
           /\ \A j \in ModelEntries :
                AliasOf(j) = AliasOf(e) => j.digest = tags[AliasOf(e)]
    /\ \A e, j \in entries \cup ModelEntries :
         AliasOf(e) = AliasOf(j) => e.digest = j.digest

ParkBegin(id) == \E s \in Listings :
    LET plan == Plan(s, id)
        models == {e \in {plan[k] : k \in DOMAIN plan} : IsModel(e)}
    IN /\ op.pc = "idle"
       /\ Fresh(id)
       /\ plan # <<>>
       /\ AliasesAgree(models)
       /\ journal' = journal \o plan
       /\ op' = [NoOp EXCEPT !.pc = IF models = {} THEN "copy" ELSE "fence",
                             !.k = Len(journal) + 1, !.base = Len(journal),
                             !.id = id]
       /\ UNCHANGED <<tags, server, fences, window, aborts, pulls>>

Planned == {journal[k].name : k \in {j \in DOMAIN journal : j > op.base}}

\* Mutant of Fenceable: a fence of another operation is taken over.
MutFenceableAlways(ts) == TRUE

\* GatewayStore.acquire_park_fence refuses if one of the models is fenced.
Fenceable(ts) == \A t \in ts : fences[t] = NoFence

FenceAll(ts, id) ==
    fences' = [t \in Tags |-> IF t \in ts THEN id ELSE fences[t]]
Release(id) ==
    fences' = [t \in Tags |-> IF fences[t] = id THEN NoFence ELSE fences[t]]

ParkFence ==
    LET ts == Planned \ {Server} IN
    /\ op.pc = "fence"
    /\ Fenceable(ts)
    /\ FenceAll(ts, op.id)
    /\ Goto("probe")
    /\ UNCHANGED <<tags, server, journal, window, aborts, pulls>>

\* A model in `ts` has a fence already, or a call through the gateway.
ParkFenceRefused ==
    /\ op.pc = "fence"
    /\ Goto("undo")
    /\ UNCHANGED <<tags, server, fences, journal, window, aborts, pulls>>

ParkProbed ==
    /\ op.pc = "probe"
    /\ Goto("copy")
    /\ UNCHANGED <<tags, server, fences, journal, window, aborts, pulls>>

\* The probe says no: the fence is released and the old journal comes back.
ParkProbeRefused ==
    /\ op.pc = "probe"
    /\ Release(op.id)
    /\ Goto("undo")
    /\ UNCHANGED <<tags, server, journal, window, aborts, pulls>>

\* The probe raises: the fence is released and the journal stays.
ParkProbeRaises ==
    /\ op.pc = "probe"
    /\ aborts < MaxAborts
    /\ aborts' = aborts + 1
    /\ Release(op.id)
    /\ Goto("idle")
    /\ UNCHANGED <<tags, server, journal, window, pulls>>

\* Mutant of Prior: the journal of an earlier park is dropped.
MutPriorEmpty == <<>>

Prior == SubSeq(journal, 1, op.base)

ParkUndo ==
    /\ op.pc = "undo"
    /\ journal' = Prior
    /\ Goto("idle")
    /\ UNCHANGED <<tags, server, fences, window, aborts, pulls>>

Here == journal[op.k]

StopServer ==
    /\ op.pc = "copy"
    /\ ~IsModel(Here)
    /\ server' = FALSE
    /\ Goto("parked")
    /\ UNCHANGED <<tags, fences, journal, window, aborts, pulls>>

Copy ==
    /\ op.pc = "copy"
    /\ IsModel(Here)
    /\ LET a == AliasOf(Here) IN
       IF tags[a] # NoDigest THEN UNCHANGED tags
                             ELSE tags' = [tags EXCEPT ![a] = tags[Here.name]]
    /\ Goto("verify")
    /\ UNCHANGED <<server, fences, journal, window, aborts, pulls>>

\* Mutant of CopyVerified: the digest of the copy is not compared.
MutCopyVerifiedAlways(e) == TRUE

CopyVerified(e) == tags[AliasOf(e)] = e.digest

Verify ==
    /\ op.pc = "verify"
    /\ IF CopyVerified(Here)
       THEN Checkpoint(op.k, "copied") /\ Goto("unload")
       ELSE Goto("idle") /\ UNCHANGED journal
    /\ UNCHANGED <<tags, server, fences, window, aborts, pulls>>

UnloadName ==
    /\ op.pc = "unload"
    /\ Checkpoint(op.k, "unloaded")
    /\ Goto("delete")
    /\ UNCHANGED <<tags, server, fences, window, aborts, pulls>>

DeleteName ==
    /\ op.pc = "delete"
    /\ tags' = [tags EXCEPT ![Here.name] = NoDigest]
    /\ Goto("parked")
    /\ UNCHANGED <<server, fences, journal, window, aborts, pulls>>

Parked ==
    /\ op.pc = "parked"
    /\ Checkpoint(op.k, "parked")
    /\ op' = IF op.k < Len(journal)
             THEN [op EXCEPT !.pc = "copy", !.k = @ + 1]
             ELSE [op EXCEPT !.pc = "seal"]
    /\ UNCHANGED <<tags, server, fences, window, aborts, pulls>>

\* append_history("park"): a second park does not move the window's start.
Seal ==
    /\ op.pc = "seal"
    /\ window' = TRUE
    /\ Goto("idle")
    /\ UNCHANGED <<tags, server, fences, journal, aborts, pulls>>
-----------------------------------------------------------------------------
(* unpark                                                                  *)

JournalAliases == {AliasOf(e) : e \in ModelEntries}
Present == {a \in JournalAliases : tags[a] # NoDigest}

\* A park that got past the checkpoint of an alias owns it.
Owned(a) == \E e \in ModelEntries : AliasOf(e) = a /\ e.phase # "planned"
Expected(a) == \E e \in ModelEntries : AliasOf(e) = a /\ e.digest = tags[a]

\* _prepare_unpark_alias_cleanup up to the first effect: every alias present is
\* owned and has a journaled digest, and one fence id covers them.
Preparable == /\ \A a \in Present : Expected(a) /\ Owned(a)
              /\ \A i, j \in RecordedIds : i = j

UnparkBegin(id) ==
    /\ op.pc = "idle"
    /\ journal # <<>>
    /\ Preparable
    /\ \/ /\ Present = {}
          /\ op' = [NoOp EXCEPT !.pc = "restore", !.k = 1]
          /\ UNCHANGED journal
       \/ /\ Present # {}
          /\ id \in RecordedIds
          /\ op' = [NoOp EXCEPT !.pc = "aliasfence", !.id = id,
                                !.todo = Present]
          /\ UNCHANGED journal
       \/ /\ Present # {}
          /\ RecordedIds = {}
          /\ Fresh(id)
          /\ journal' = [k \in DOMAIN journal |->
                           [journal[k] EXCEPT !.cleanup = id]]
          /\ op' = [NoOp EXCEPT !.pc = "aliasfence", !.id = id,
                                !.created = TRUE, !.todo = Present]
    /\ UNCHANGED <<tags, server, fences, window, aborts, pulls>>

\* A fence of an earlier unpark under this id still stands.
Unfenced == {a \in op.todo : fences[a] # op.id}

AliasFence ==
    /\ op.pc = "aliasfence"
    /\ Fenceable(Unfenced)
    /\ FenceAll(Unfenced, op.id)
    /\ IF Unfenced = {} THEN op' = [op EXCEPT !.pc = "restore", !.k = 1]
                        ELSE Goto("aliasprobe")
    /\ UNCHANGED <<tags, server, journal, window, aborts, pulls>>

\* Refused or raised before the fence is set.
AliasFenceRefused ==
    /\ op.pc = "aliasfence"
    /\ Goto(IF op.created THEN "forget" ELSE "idle")
    /\ UNCHANGED <<tags, server, fences, journal, window, aborts, pulls>>

AliasProbed ==
    /\ op.pc = "aliasprobe"
    /\ op' = [op EXCEPT !.pc = "restore", !.k = 1]
    /\ UNCHANGED <<tags, server, fences, journal, window, aborts, pulls>>

AliasProbeRefused ==
    /\ op.pc = "aliasprobe"
    /\ Release(op.id)
    /\ Goto(IF op.created THEN "forget" ELSE "idle")
    /\ UNCHANGED <<tags, server, journal, window, aborts, pulls>>

\* An id that was just made up is taken out of the journal again.
Forget ==
    /\ op.pc = "forget"
    /\ journal' = [k \in DOMAIN journal |->
                     [journal[k] EXCEPT !.cleanup = NoFence]]
    /\ Goto("idle")
    /\ UNCHANGED <<tags, server, fences, window, aborts, pulls>>

StartServer ==
    /\ op.pc = "restore"
    /\ ~IsModel(Here)
    /\ server' = TRUE
    /\ Goto("restored")
    /\ UNCHANGED <<tags, fences, journal, window, aborts, pulls>>

\* The original or the parked copy has the digest, and nothing else has the
\* original name; the mutant insists on the copy.
MutRestorable(e) == /\ tags[e.name] \in {NoDigest, e.digest}
                    /\ tags[AliasOf(e)] = e.digest
Restorable(e) == \/ tags[e.name] = e.digest
                 \/ /\ tags[e.name] = NoDigest
                    /\ tags[AliasOf(e)] = e.digest

Restore ==
    /\ op.pc = "restore"
    /\ IsModel(Here)
    /\ Restorable(Here)
    /\ tags' = [tags EXCEPT ![Here.name] = Here.digest]
    /\ Goto("restored")
    /\ UNCHANGED <<server, fences, journal, window, aborts, pulls>>

NextEntry == IF op.k < Len(journal)
             THEN [op EXCEPT !.pc = "restore", !.k = @ + 1]
             ELSE [op EXCEPT !.pc = "clean"]

Restored ==
    /\ op.pc = "restored"
    /\ IsModel(Here) => tags[Here.name] = Here.digest
    /\ Checkpoint(op.k, "restored")
    /\ op' = NextEntry
    /\ UNCHANGED <<tags, server, fences, window, aborts, pulls>>

\* The restored name or the alias is not what the journal says: unpark raises
\* and keeps the journal.
RestoreRaises ==
    /\ \/ op.pc = "restore" /\ IsModel(Here) /\ ~Restorable(Here)
       \/ op.pc = "restored" /\ IsModel(Here) /\ tags[Here.name] # Here.digest
       \/ op.pc = "clean" /\ \E a \in Present : a \notin op.todo \/ ~Expected(a)
    /\ Goto("idle")
    /\ UNCHANGED <<tags, server, fences, journal, window, aborts, pulls>>

\* Two probes, an unload if it is resident, and the alias is deleted.
CleanAlias(a) ==
    /\ op.pc = "clean"
    /\ a \in Present \cap op.todo
    /\ Expected(a)
    /\ tags' = [tags EXCEPT ![a] = NoDigest]
    /\ UNCHANGED <<server, fences, journal, window, op, aborts, pulls>>

HeldIds == (UNION {{e.fence, e.cleanup} : e \in Entries}) \ {NoFence}

Cleaned ==
    /\ op.pc = "clean"
    /\ Present = {}
    /\ op' = [op EXCEPT !.pc = "release", !.todo = HeldIds]
    /\ UNCHANGED <<tags, server, fences, journal, window, aborts, pulls>>

ReleaseFence(id) ==
    /\ op.pc = "release"
    /\ id \in op.todo
    /\ Release(id)
    /\ op' = [op EXCEPT !.todo = @ \ {id}]
    /\ UNCHANGED <<tags, server, journal, window, aborts, pulls>>

\* STATE.unlink()
RemoveJournal ==
    /\ op.pc = "release"
    /\ op.todo = {}
    /\ journal' = <<>>
    /\ Goto("close")
    /\ UNCHANGED <<tags, server, fences, window, aborts, pulls>>

\* append_history("unpark")
CloseWindow ==
    /\ op.pc = "close"
    /\ window' = FALSE
    /\ Goto("idle")
    /\ UNCHANGED <<tags, server, fences, journal, aborts, pulls>>
-----------------------------------------------------------------------------
(* What may happen to either operation, and what else touches its state.   *)

\* A call raises or the process is killed; the kernel drops the lock.
Abort ==
    /\ op.pc # "idle"
    /\ aborts < MaxAborts
    /\ aborts' = aborts + 1
    /\ Goto("idle")
    /\ UNCHANGED <<tags, server, fences, journal, window, pulls>>

\* `ollama pull` puts a digest under a target's name.
Pull(n, d) ==
    /\ pulls < MaxPulls
    /\ pulls' = pulls + 1
    /\ tags[n] # d
    /\ tags' = [tags EXCEPT ![n] = d]
    /\ UNCHANGED <<server, fences, journal, window, op, aborts>>

\* `gateway fence` and `gateway unfence`, which refuses the fences of a park.
ManualFence(n) ==
    /\ fences[n] = NoFence
    /\ fences' = [fences EXCEPT ![n] = Manual]
    /\ UNCHANGED <<tags, server, journal, window, op, aborts, pulls>>

ManualUnfence ==
    /\ \E n \in Names : fences[n] = Manual
    /\ Release(Manual)
    /\ UNCHANGED <<tags, server, journal, window, op, aborts, pulls>>

\* Somebody removes by hand an alias that unpark refuses to touch.
RemoveAlias(a) ==
    /\ Helped
    /\ op.pc = "idle"
    /\ a \in Present
    /\ ~Owned(a)
    /\ tags' = [tags EXCEPT ![a] = NoDigest]
    /\ UNCHANGED <<server, fences, journal, window, op, aborts, pulls>>

ParkStep ==
    \/ ParkFence \/ ParkFenceRefused \/ ParkProbed \/ ParkProbeRefused
    \/ ParkUndo \/ StopServer \/ Copy \/ Verify \/ UnloadName \/ DeleteName
    \/ Parked \/ Seal

UnparkStep ==
    \/ AliasFence \/ AliasFenceRefused \/ AliasProbed \/ AliasProbeRefused
    \/ Forget \/ StartServer \/ Restore \/ Restored \/ RestoreRaises
    \/ Cleaned \/ RemoveJournal \/ CloseWindow
    \/ \E a \in Aliases : CleanAlias(a)
    \/ \E id \in FenceIds : ReleaseFence(id)

Next ==
    \/ \E id \in FenceIds : ParkBegin(id) \/ UnparkBegin(id)
    \/ ParkStep \/ UnparkStep \/ ParkProbeRaises \/ Abort
    \/ \E n \in Names : ManualFence(n) \/ \E d \in Digests : Pull(n, d)
    \/ \E a \in Aliases : RemoveAlias(a)
    \/ ManualUnfence

Spec == Init /\ [][Next]_vars

\* An operation runs on, unpark is tried again and again, its probes do not
\* refuse for ever, and a user who helps does so in the end.
Fairness ==
    /\ WF_vars(ParkStep) /\ WF_vars(UnparkStep)
    /\ SF_vars(\E id \in FenceIds : UnparkBegin(id))
    /\ SF_vars(AliasFence) /\ SF_vars(AliasProbed)
    /\ \A a \in Aliases : SF_vars(RemoveAlias(a))

FairSpec == Spec /\ Fairness
-----------------------------------------------------------------------------
(* Properties.                                                             *)

\* From the copy's checkpoint until its name is restored, the weights of a
\* parked model are installed under one of the two names, wherever an
\* operation was cut off.
WeightsKept ==
    \A e \in ModelEntries : e.phase \in {"copied", "unloaded", "parked"} =>
        e.digest \in {tags[e.name], tags[AliasOf(e)]}

\* As long as a name is out of the way it is fenced, by the id the journal
\* has for it: no call is admitted to a model that is not there.
FencedWhileAway ==
    \A e \in ModelEntries : e.phase \in {"copied", "unloaded", "parked"} =>
        fences[e.name] = e.fence

\* A parked copy is fenced when it is deleted.
DeletesFencedCopies ==
    op.pc = "clean" => \A a \in Present \cap op.todo : fences[a] = op.id

\* Whenever no operation runs the journal names every parked copy, so
\* scripts/prune_models.py, which takes the same lock, never deletes one.  When
\* the journal is gone, everything is as before the park: every target is
\* installed, no copy is left, the server is up and no park has a fence.
CleanWhenDone ==
    op.pc = "idle" =>
        /\ \A a \in Aliases : tags[a] # NoDigest => a \in JournalAliases
        /\ journal = <<>> =>
             /\ \A n \in Names : Installed[n] # NoDigest => tags[n] # NoDigest
             /\ \A t \in Tags : fences[t] \in {NoFence, Manual}
             /\ server

\* unpark reopens admission to a model only when its name is back and the
\* journal says that its digest was verified.
AdmitsRestored ==
    [][\A e \in ModelEntries :
         /\ e.phase # "planned"
         /\ fences[e.name] = e.fence /\ fences'[e.name] = NoFence
         => e.phase = "restored" /\ tags[e.name] # NoDigest]_vars

\* Fences cover a name from before its weights leave until it is verified
\* to be back, and its copy when it is deleted.
FencesCover == [](FencedWhileAway /\ DeletesFencedCopies) /\ AdmitsRestored

\* A park that was cut off is brought back by unpark in the end.
Reconciles == (journal # <<>>) ~> (journal = <<>>)

\* While a name is out of the way, the recorded window is open.
WindowCovers ==
    op.pc = "idle" => \A e \in ModelEntries : e.phase = "parked" => window
=============================================================================
