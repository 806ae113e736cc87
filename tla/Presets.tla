------------------------------ MODULE Presets ------------------------------
(***************************************************************************)
(* presets.py and `localbench preset`: apply, rollback and drift.          *)
(*                                                                         *)
(* apply plans, backs both files of every profile up, stores a manifest,   *)
(* writes key after key through `omp config set`, reads everything back    *)
(* and records the preset in applied.json.  A failure restores the backup; *)
(* rollback(id) restores it later.                                         *)
(*                                                                         *)
(* Abstractions.  A preset names a value, or Keep, for three settings: the *)
(* judge role, the managed provider block and one plain key.  The backup   *)
(* is taken in one step, since nothing is changed before its manifest is   *)
(* on disk.  Ids are the manifests' positions.                             *)
(***************************************************************************)
EXTENDS OmpFiles

CONSTANTS Preset,        \* name -> [family, local, judge, sys1, level]
          Keep,          \* the preset has no op for that setting
          TestProfile,   \* registry test_profiles
          Proven         \* presets whose features all have a PROVEN receipt

VARIABLES manifests,     \* backup manifests under ~/.localbench/rollback, by id
          applied        \* applied.json: profile -> family -> id or Nil

presetVars == <<manifests, applied>>

Family == {Preset[n].family : n \in DOMAIN Preset}
ROLLBACKABLE == {"applied", "applying", "restore_failed"}

PresetsInit ==
  /\ manifests = <<>>
  /\ applied = [p \in Profile |-> [f \in Family |-> Nil]]

(***************************************************************************)
(* The plan.                                                               *)
(***************************************************************************)
Roles(p) == [judge |-> cfg[p].judge, smol |-> cfg[p].smol]

\* omp's value of a key, or the managed block of models.yml.
Current(p, kind) ==
  CASE kind = "provider"   -> ModelsOf(mdl, p).sys1
    [] kind = "modelRoles" -> Roles(p)
    [] kind = "level"      -> cfg[p].level

\* Fold a preset's ops over the current values: one step per profile and key.
StepFor(n, p, kind) ==
  [p |-> p, kind |-> kind, before |-> Current(p, kind),
   after |-> CASE kind = "provider"   -> Preset[n].sys1
               [] kind = "modelRoles" -> [Roles(p) EXCEPT !.judge = Preset[n].judge]
               [] kind = "level"      -> Preset[n].level]

KindsOf(n) ==
  {k \in {"provider", "modelRoles", "level"} :
     CASE k = "provider"   -> Preset[n].sys1 # Keep
       [] k = "modelRoles" -> Preset[n].judge # Keep
       [] k = "level"      -> Preset[n].level # Keep}

Plan(n, ps) == [pk \in ps \X KindsOf(n) |-> StepFor(n, pk[1], pk[2])]

Changed(steps) == {pk \in DOMAIN steps : steps[pk].before # steps[pk].after}

\* Why apply refuses: a test target outside the test profiles, or a local
\* preset on the live target without a receipt that nobody forces.
Refused(n, ps, target, force) ==
  \/ target = "test" /\ ~ps \subseteq TestProfile
  \/ target = "live" /\ Preset[n].local /\ n \notin Proven /\ ~force

ApplyPlan ==
  \E n \in DOMAIN Preset, ps \in SUBSET Profile \ {{}} :
    LET steps == Plan(n, ps) IN
    /\ \E target \in {"test", "live"}, force \in BOOLEAN : ~Refused(n, ps, target, force)
    /\ Changed(steps) # {}            \* the command's gate: the preset already holds
    /\ Begin([tool |-> "preset", pc |-> "backup", name |-> n, ps |-> ps, steps |-> steps,
              todo |-> Changed(steps), on |-> Nil, id |-> Nil, state |-> Nil, left |-> {}])
    /\ UNCHANGED <<cfg, mdl, mishap, quiet, manifests, applied>>

(***************************************************************************)
(* apply: back up, write, read back, record.                               *)
(***************************************************************************)
Files(ps) == [p \in ps |-> [config |-> cfg[p], models |-> mdl[p]]]
SetStatus(id, status) == manifests' = [manifests EXCEPT ![id].status = status]

\* applied.json is read, every file backed up and the manifest stored.
ApplyBackup ==
  /\ At("preset", "backup")
  /\ manifests' = Append(manifests,
       [name |-> cmd.name, status |-> "applying", files |-> Files(cmd.ps), sha |-> Nil,
        previous |-> [p \in cmd.ps |-> applied[p][Preset[cmd.name].family]]])
  /\ cmd' = [cmd EXCEPT !.pc = "write", !.id = Len(manifests) + 1, !.state = applied]
  /\ UNCHANGED <<cfg, mdl, used, mishap, quiet, applied>>

AllFiles(ps) == ps \X {"config", "models"}
ToRestore == cmd' = [cmd EXCEPT !.pc = "restore", !.left = AllFiles(cmd.ps)]
Restoring == cmd.tool \in {"preset", "rollback"} /\ cmd.pc = "restore"

\* The step that is written next: profile after profile, the managed block
\* before the keys.
Due(pk) ==
  /\ pk[1] = cmd.on \/ \A other \in cmd.todo : other[1] # cmd.on
  /\ pk[2] = "provider" \/ <<pk[1], "provider">> \notin cmd.todo

\* The managed block is edited in models.yml; a key is written through omp,
\* with its whole value.
WriteStep(s) ==
  \/ s.kind = "provider" /\ mdl' = [mdl EXCEPT ![s.p] = [ModelsOf(mdl, s.p) EXCEPT !.sys1 = s.after]] /\ UNCHANGED cfg
  \/ /\ s.kind = "modelRoles"
     /\ cfg' = [cfg EXCEPT ![s.p] = [@ EXCEPT !.judge = s.after.judge, !.smol = s.after.smol]] /\ UNCHANGED mdl
  \/ s.kind = "level" /\ cfg' = [cfg EXCEPT ![s.p].level = s.after] /\ UNCHANGED mdl

\* models.yml changed since the plan.
Moved(s) == s.kind = "provider" /\ Current(s.p, "provider") # s.before

ApplyWrite ==
  /\ At("preset", "write")
  /\ \E pk \in cmd.todo : Due(pk) /\ LET s == cmd.steps[pk] IN
       \/ ~Moved(s) /\ WriteStep(s) /\ cmd' = [cmd EXCEPT !.todo = @ \ {pk}, !.on = s.p] /\ UNCHANGED used
       \/ Moved(s) /\ ToRestore /\ UNCHANGED <<cfg, mdl, used>>
       \/ MayFail /\ Count("failure") /\ ToRestore /\ UNCHANGED <<cfg, mdl>>
  /\ UNCHANGED <<mishap, quiet, presetVars>>

Readback(steps) == \A pk \in DOMAIN steps : Current(steps[pk].p, steps[pk].kind) = steps[pk].after

ApplyReadback ==
  /\ At("preset", "write") /\ cmd.todo = {}
  /\ IF Readback(cmd.steps) THEN Goto("commit") ELSE ToRestore
  /\ UNCHANGED <<cfg, mdl, used, mishap, quiet, presetVars>>

\* The manifest becomes `applied`, with the hashes rollback will compare.
ApplyCommit ==
  /\ At("preset", "commit")
  /\ manifests' = [manifests EXCEPT ![cmd.id].status = "applied", ![cmd.id].sha = Files(cmd.ps)]
  /\ Goto("record")
  /\ UNCHANGED <<cfg, mdl, used, mishap, quiet, applied>>

\* The whole map read before the writes goes back to applied.json.
ApplyRecord ==
  /\ At("preset", "record")
  /\ applied' = [p \in Profile |-> [f \in Family |->
       IF p \in cmd.ps /\ f = Preset[cmd.name].family THEN cmd.id ELSE cmd.state[p][f]]]
  /\ Finish
  /\ UNCHANGED <<cfg, mdl, used, mishap, quiet, manifests>>

\* Mutant of RestoreFile: only config.yml files are put back.
MutRestoreConfigOnly ==
  /\ Restoring
  /\ \E pf \in cmd.left :
       /\ cfg' = IF pf[2] = "config" THEN [cfg EXCEPT ![pf[1]] = manifests[cmd.id].files[pf[1]].config] ELSE cfg
       /\ cmd' = [cmd EXCEPT !.left = @ \ {pf}]
  /\ UNCHANGED <<mdl, used, mishap, quiet, presetVars>>

(***************************************************************************)
(* _restore, shared by a failed apply and by rollback.                     *)
(***************************************************************************)
\* One file after the other goes back to its backed-up bytes, or to absence.
RestoreFile ==
  /\ Restoring
  /\ \E pf \in cmd.left :
       LET old == manifests[cmd.id].files[pf[1]][pf[2]] IN
       /\ IF pf[2] = "config" THEN cfg' = [cfg EXCEPT ![pf[1]] = old] /\ UNCHANGED mdl
                              ELSE mdl' = [mdl EXCEPT ![pf[1]] = old] /\ UNCHANGED cfg
       /\ cmd' = [cmd EXCEPT !.left = @ \ {pf}]
  /\ UNCHANGED <<used, mishap, quiet, presetVars>>

\* A failed apply is restored, or its restore fails too.
ApplyRestored ==
  /\ At("preset", "restore")
  /\ \/ cmd.left = {} /\ SetStatus(cmd.id, "rolled-back") /\ UNCHANGED <<used, mishap>>
     \/ /\ cmd.left # {} /\ MayFail /\ Count("failure")
        /\ SetStatus(cmd.id, "restore_failed") /\ mishap' = mishap \cup {"undo"}
  /\ Finish
  /\ UNCHANGED <<cfg, mdl, quiet, applied>>

(***************************************************************************)
(* rollback(id).                                                           *)
(***************************************************************************)
ChangedSince(id) == manifests[id].status = "applied" /\ manifests[id].sha # Files(DOMAIN manifests[id].files)

\* A later apply that still stands on one of the profiles.
Overtaken(id) ==
  \E j \in DOMAIN manifests :
    j > id /\ manifests[j].status = "applied" /\ DOMAIN manifests[j].files \cap DOMAIN manifests[id].files # {}

\* Mutant of RollbackBegin: later changes are not looked for.
MutRollbackBlind ==
  \E id \in DOMAIN manifests :
    /\ manifests[id].status \in ROLLBACKABLE
    /\ Begin([tool |-> "rollback", pc |-> "restore", id |-> id, ps |-> DOMAIN manifests[id].files,
              left |-> AllFiles(DOMAIN manifests[id].files)])
    /\ mishap' = IF manifests[id].status # "applied" THEN mishap \cup {"lossy"} ELSE mishap
    /\ UNCHANGED <<cfg, mdl, quiet, presetVars>>

\* An applied preset is rolled back only when no file changed after it, or
\* by force; an apply that died or failed to restore, without that check.
RollbackBegin ==
  \E id \in DOMAIN manifests, force \in BOOLEAN :
    /\ manifests[id].status \in ROLLBACKABLE
    /\ ChangedSince(id) => force
    /\ Begin([tool |-> "rollback", pc |-> "restore", id |-> id, ps |-> DOMAIN manifests[id].files,
              left |-> AllFiles(DOMAIN manifests[id].files)])
    /\ mishap' = mishap
         \cup (IF ChangedSince(id) \/ manifests[id].status # "applied" THEN {"lossy"} ELSE {})
         \cup (IF Overtaken(id) THEN {"order"} ELSE {})
    /\ UNCHANGED <<cfg, mdl, quiet, presetVars>>

RollbackFails ==
  /\ At("rollback", "restore") /\ cmd.left # {}
  /\ MayFail /\ Count("failure") /\ Finish
  /\ mishap' = mishap \cup {"undo"}
  /\ UNCHANGED <<cfg, mdl, quiet, presetVars>>

\* Mutant of RollbackRecord: applied.json is written back as it was read.
MutRollbackKeeps ==
  /\ At("rollback", "restore") /\ cmd.left = {}
  /\ Goto("status")
  /\ UNCHANGED <<cfg, mdl, used, mishap, quiet, presetVars>>

\* The entries this apply left in applied.json give way to what was there
\* before it; entries of a later apply stay.
RollbackRecord ==
  /\ At("rollback", "restore") /\ cmd.left = {}
  /\ LET m == manifests[cmd.id]
         f == Preset[m.name].family
     IN applied' = [p \in Profile |->
          IF p \in cmd.ps /\ applied[p][f] = cmd.id
          THEN [applied[p] EXCEPT ![f] = m.previous[p]] ELSE applied[p]]
  /\ Goto("status")
  /\ UNCHANGED <<cfg, mdl, used, mishap, quiet, manifests>>

RollbackStatus ==
  /\ At("rollback", "status")
  /\ SetStatus(cmd.id, "rolled-back")
  /\ Finish
  /\ UNCHANGED <<cfg, mdl, used, mishap, quiet, applied>>

PresetsNext ==
  \/ ApplyPlan \/ ApplyBackup \/ ApplyWrite \/ ApplyReadback \/ ApplyCommit \/ ApplyRecord
  \/ RestoreFile \/ ApplyRestored
  \/ RollbackBegin \/ RollbackFails \/ RollbackRecord \/ RollbackStatus

\* drift(): the settings of a profile's applied presets that no longer hold.
Drift(p) ==
  {fk \in Family \X {"provider", "judge", "level"} :
     /\ applied[p][fk[1]] # Nil
     /\ LET n == Preset[manifests[applied[p][fk[1]]].name] IN
        CASE fk[2] = "provider" -> n.sys1 # Keep /\ ModelsOf(mdl, p).sys1 # n.sys1
          [] fk[2] = "judge"    -> n.judge # Keep /\ cfg[p].judge # n.judge
          [] fk[2] = "level"    -> n.level # Keep /\ cfg[p].level # n.level}
=============================================================================
